SPECIFICATION Spec
CONSTANTS
  Tests = {s, t}
  Junk = Junk
  NoProfile = NoProfile
  Profiles <- MCProfiles
  BlockRates = {80, 95}
  Threshold = 90
INVARIANTS VerdictIsTests BlamesAFile NothingUnflushed
CHECK_DEADLOCK FALSE
