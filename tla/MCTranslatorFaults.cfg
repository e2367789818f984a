\* Two short texts out of five; two children at supernode 2; calls to children and
\* to the peer may fail.
CONSTANTS
  a = a
  b = b
  c = c
  d = d
  Word = {a, b, c, d}
  Miss = Miss
  NoAnswer = NoAnswer
  NoText = NoText
  NoReq = NoReq
  MaxWords = 3
  MaxTexts = 2
  Faults = {"child", "peer"}
  CacheSize = 2
  ChildNum <- OneTwo
  Knows <- KnowsOneTwo
  Texts <- TextsTwice
SPECIFICATION FairSpec
INVARIANTS ReplyInPlace
PROPERTIES HitsSound AnsweredUnlessStarved
CHECK_DEADLOCK FALSE
