CONSTANTS
    s1 = s1  s2 = s2  u1 = u1  full = full  lean = lean
    b1 = b1  b2 = b2  route = route  reaper = reaper
    Sessions = {s1, s2}
    Users = {u1}
    Combos = {full, lean}
    T4CCombos = {full}
    GuacamoleCombos = {full}
    LoggedCombos = {full}
    Owner <- OneUser
    Combo <- SameCombo
    Backends = {b1}
    Routes = {route}
    Reapers = {reaper}
    Home <- OneBackend
    Removable = {}
    Revocable = {u1}
    MaxFaults = 1
    MaxCrashes = 0
SPECIFICATION Spec
INVARIANTS TypeOK RowBacked CleanTermination EarlyOnlyAcrossBackends ReleasedUnlessInterrupted
CHECK_DEADLOCK FALSE
