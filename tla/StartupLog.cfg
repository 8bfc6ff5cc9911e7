CONSTANTS
  Procs         = {p1, p2}
  NoProc        = noProc
  SchemaVersion = 3
  LastChange         <- MCLast
  MaxSize       = 2
  BackupCount   = 1
  MaxLines      = 4
SPECIFICATION Spec
INVARIANT CanvasLogsToTheLiveFile
CHECK_DEADLOCK FALSE
