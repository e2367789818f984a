\* Two children at supernode 2 answer two words of supernode 1 together.
CONSTANTS
  a = a
  b = b
  c = c
  d = d
  Word = {a, b, c, d}
  Miss = Miss
  NoAnswer = NoAnswer
  NoText = NoText
  NoReq = NoReq
  MaxWords = 3
  MaxTexts = 1
  Faults = {}
  CacheSize = 4
  ChildNum <- OneTwo
  Knows <- KnowsOneTwo
  Texts <- TextRemotePair
SPECIFICATION FairSpec
PROPERTIES TranslatedThenAnswered
CHECK_DEADLOCK FALSE
