\* Two threads write through one CLog.
SPECIFICATION LogSpec
CONSTANTS
  Writer = {t1, t2}
  MaxLogSize = 2
  MaxLogNum = 1
  IntMax = 5
  MaxLines = 4
INVARIANT LinesKept
