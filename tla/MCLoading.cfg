SPECIFICATION LoadingSpec
CONSTANTS
  a = a
  b = b
  newline = newline
  return = return
  comma = comma
  NoText = NoText
  Newline = newline
  CarriageReturn = return
  Delimiter = comma
  Peers = 3
  Arity = 1
  Files <- MCFiles
  Others <- MCOthers
  OtherTexts <- MCOtherTexts
  Calls <- MCCalls
  Readers = {r1}
  Texts <- MCTexts
  Ids <- MCIds
  SymbolId <- MCSymbolId
INVARIANTS
  RelationIsTheFile
  RefusedForAReason
  PointersStayValid
PROPERTIES
  AtomicSpec
