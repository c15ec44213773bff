\* Two threads write four lines through one CLog, over any number of starts: files of
\* one line, one old file kept; the size overflows with the third line of a process.
SPECIFICATION LogSpec
CONSTANTS
  Writer = {t1, t2}
  MaxLogSize = 1
  MaxLogNum = 1
  IntMax = 2
  MaxLines = 4
INVARIANTS
  LogTypeOK
  OlderFilesKept
