SPECIFICATION Spec
CONSTANTS
    MaxFileSize = 30
    MaxTotalBytes = 60
    MaxInodes = 12
    MaxHops = 2
    Cwd <- Root
    Block = 2
    x = x
    y = y
    zero = zero
    Byte = {x, y, zero}
    Zero = zero
    Temps <- NoNames
    MaxCommands = 2
    Tree <- Start
    Interpreter <- Perform
    Reference <- Ref
INVARIANTS Routed NoLeftovers
CHECK_DEADLOCK FALSE
