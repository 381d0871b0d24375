SPECIFICATION TablesSpec
CONSTANTS
  Emails = {a, b}
  OwnerEmail = a
  Requests = {r1, r2}
  Presets = {p1, p2}
  SnapIds = {s1, s2}
  Files = {f1, f2}
  LonePreset = p1
  LoneSnapshot = s1
  Callbacks = {c1, c2}
  MaxFlows = 2
  MaxCallbacks = 2
  MaxRestarts = 1
  Sites <- MCSites
  InstallTtl = 1
  MaxHour = 1
  MaxHandled = 4
SYMMETRY RequestSymmetry
INVARIANTS
    
    
    OAuthInv
    

    
CHECK_DEADLOCK FALSE
