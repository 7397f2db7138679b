CONSTANTS
    ViewSessions = {a, b}
    Guacamole = {a}
    WithToken = {a}
    NoRedirect = {b}
    MaxPushes = 2
    MaxStates = 1
    Runs = {r1}
    MaxRunAsked = 2
    ListedSessions = {a}
    MaxUsers = 2
    MaxIdle = 1
    MaxAsked = 2
SPECIFICATION PollsSpec
PROPERTIES RunningIsConnected FinalShown TerminatedLeaves
CHECK_DEADLOCK FALSE
