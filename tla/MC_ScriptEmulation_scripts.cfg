SPECIFICATION Spec
CONSTANTS
    daemon = daemon
    program = program
    tab = tab
    guest = guest
    Connections = {daemon, program}
    Sessions = {tab, guest}
    Through <- Attachments
    Inspected = {tab}
    Unknown = Unknown
    MaxChanges = 3
INVARIANTS ObservedIsTrue ActorsAreTrue OverlapsAreUnknown
CONSTRAINTS Seen Temporary
VIEW View
CHECK_DEADLOCK FALSE
