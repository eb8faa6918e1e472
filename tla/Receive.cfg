CONSTANTS
  c1 = c1
  c2 = c2
  c3 = c3
  Callers <- MCCallers
  Kinds <- MCKinds
  Size = 6
  NumberAt = 0
  MarkAt = 1
  KindAt = 2
  WindowSize = 14
SPECIFICATION Spec
INVARIANTS
  TypeOK
  WindowNeverFull
  LittleIsKept
  ToldWasSent
  WholeCallsHandled
PROPERTY
  ReadsOn
