\* Three launches of every kind, killed anywhere, on a database of any version.
CONSTANTS
  Procs         = {p1, p2, p3}
  NoProc        = noProc
  SchemaVersion = 3
  LastChange         <- MCLast
  MaxSize       = 2
  BackupCount   = 1
  MaxLines      = 4
SPECIFICATION Spec
INVARIANTS VersionIsBacked FailsOnlyIfDisturbed LockIsTheLiveCanvas
SYMMETRY Symmetry
\* every launched process may have ended
CHECK_DEADLOCK FALSE
