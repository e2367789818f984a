\* One text, two children at both supernodes, no failing calls.
CONSTANTS
  a = a
  b = b
  c = c
  d = d
  Word = {a, b, c, d}
  Miss = Miss
  NoAnswer = NoAnswer
  NoText = NoText
  NoReq = NoReq
  MaxWords = 5
  MaxTexts = 1
  Faults = {}
  CacheSize = 4
  ChildNum <- TwoTwo
  Knows <- KnowsTwoTwo
  Texts <- TextsShared
SPECIFICATION FairSpec
INVARIANTS TypeOK OnePlace CountsBacked
PROPERTIES ImplementsService AnsweredUnlessStarved
CHECK_DEADLOCK FALSE
