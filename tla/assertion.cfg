CONSTANTS
  IdLength = {16, 1023, 1024}
  KeyLength = {77}
  ExtLength = {1}
  OffBy <- MCOffBy
  Nothing = Nothing
  f1 = f1
  f2 = f2
  f3 = f3
  File = {f1, f2, f3}
  P256 = {f1, f2}
  FileList <- MCFileList
  n1 = n1
  Kid = {n1}
  Size = 32
  Width = {31, 32}
  Life = 1
  Skew = {0, 1}
  MaxClock = 3
  NoKid = NoKid
SPECIFICATION Spec
PROPERTY GoodIsAccepted
CHECK_DEADLOCK FALSE
