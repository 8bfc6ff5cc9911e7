\* Two templates, two rotations, output files of one line with two backups.
CONSTANTS
  Templates   = {t1, t2}
  OtherKinds  = {"always", "blank"}
  MaxSize     = 1
  BackupCount = 2
  MaxLines    = 3
  MaxFiles    = 3
  MaxOutput   = 1
SPECIFICATION Spec
INVARIANTS ReadOnceInOrder RepeatsHaveAnExample SinkKeepsTheLatest
PROPERTY LinesAreRead
CHECK_DEADLOCK FALSE
