SPECIFICATION Spec
CONSTANTS
    MaxFileSize = 3
    MaxTotalBytes = 4
    MaxInodes = 7
    MaxHops = 2
    Cwd <- Root
    Block = 2
    x = x
    zero = zero
    Byte = {x, zero}
    Zero = zero
    Temps <- TempNames
    Plain <- TwoBytes
    Trees <- Starts
    Utilities <- Apply
    Reader <- ReadBytes
    Installer <- InstallReader
    SinkOpener <- OpenWriteSink
    Walks <- WalksOf
    Archived <- ArchiveOf
    Reached <- Reach
    MaxCommands = 3
INVARIANTS QuotaSafe TreesFaithful
PROPERTIES Confined ReportsTrue
CHECK_DEADLOCK FALSE
