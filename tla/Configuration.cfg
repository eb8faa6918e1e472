CONSTANTS
  Tokens <- MCTokens
  Alloc = 5
  Nul = "nul"
  Decimal <- MCDecimal
  Lower <- MCLower
  BufferSize = 3
  Garbage <- MCGarbage
  Pairs <- MCPairs
  MaxPairs = 2
  OtherTexts <- MCOtherTexts
  Found <- MCFound
  Closed = Closed
  MaxTexts = 2
  MaxStores = 1
SPECIFICATION Spec
INVARIANTS
  TypeOK
  DocumentedTextWorks
  RoundTrip
  DataIsContent
  DriverFollows
