SPECIFICATION Spec
CONSTANTS
    Jobs <- AllJobs
    DefaultRedirs = 2
    NameMax = 2
    Parser <- Work
    Builder <- Build
    Checker <- CheckTarget
    Backend <- backend_fetch
    Redirector <- NextHop
    Concluder <- Conclude
INVARIANTS PolicyObeyed CredentialsStay RetriesJustified
PROPERTY Delivered
CHECK_DEADLOCK FALSE
