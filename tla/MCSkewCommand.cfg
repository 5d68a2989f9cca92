CONSTANTS
  Kinds <- MCKinds
  KindOf <- MCKindOf
  Quantities <- MCQuantities
  Floors <- MCFloors
  Alphabet <- MCAlphabet
  Logs <- MCLogs
  Usages <- MCUsages
  Unreadable = Unreadable
  NoFilter = "all"
  BufferSize = 3
SPECIFICATION Spec
INVARIANTS AnswerWasDelivered StatusIsOfTheWholeScan BodyLeadsWithTheWorst
PROPERTY Exits
CHECK_DEADLOCK FALSE
