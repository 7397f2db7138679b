CONSTANTS
    s1 = s1  s2 = s2  u1 = u1  full = full  lean = lean
    b1 = b1  b2 = b2  route = route  reaper = reaper
    Sessions = {s1, s2}
    Users = {u1}
    Combos = {full, lean}
    T4CCombos = {full, lean}
    GuacamoleCombos = {}
    LoggedCombos = {}
    Owner <- OneUser
    Combo <- TwoCombos
    Backends = {b1}
    Routes = {route}
    Reapers = {reaper}
    Home <- OneBackend
    Removable = {}
    Revocable = {u1}
    MaxFaults = 0
    MaxCrashes = 0
SPECIFICATION Spec
INVARIANT SessionCredentialRegistered
CHECK_DEADLOCK FALSE
