SPECIFICATION StoreSpec
CONSTANTS
  Presets = {p1, p2}
  SnapIds = {s1}
  Files = {f1}
INVARIANT LiveUploadsStay
CHECK_DEADLOCK FALSE
