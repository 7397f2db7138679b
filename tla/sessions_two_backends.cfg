CONSTANTS
    s1 = s1  s2 = s2  u1 = u1  full = full  lean = lean
    b1 = b1  b2 = b2  route = route  reaper = reaper
    Sessions = {s1, s2}
    Users = {u1}
    Combos = {full, lean}
    T4CCombos = {}
    GuacamoleCombos = {full}
    LoggedCombos = {lean}
    Owner <- OneUser
    Combo <- TwoCombos
    Backends = {b1, b2}
    Routes = {route}
    Reapers = {reaper}
    Home <- TwoBackends
    Removable = {lean}
    Revocable = {}
    MaxFaults = 0
    MaxCrashes = 1
SPECIFICATION Spec
INVARIANTS SessionsInv
PROPERTY ImplementsContract
CHECK_DEADLOCK FALSE
