\* One job of a server that runs it in a thread; Slack fails twice, two cancellations.
CONSTANTS
    None = None
    Managed = FALSE
    MaxBuilds = 3
    MaxNotes = 4
    MaxOutages = 2
SPECIFICATION Spec
INVARIANTS
    TypeOK
    OneThreadForTheJob
PROPERTIES
    ThreadSetOnce
CHECK_DEADLOCK FALSE
