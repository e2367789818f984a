\* Three words compete for two places; the database does not hold the third.
CONSTANTS
  k1 = k1
  k2 = k2
  k3 = k3
  t1 = t1
  t2 = t2
  Miss = Miss
  NoAnswer = NoAnswer
  NoWord = NoWord
  Key = {k1, k2, k3}
  Translation = {t1, t2}
  Value <- MCValue
  Dictionary <- MCDictionary
  CacheSize = 2
  MaxUses = 9
SPECIFICATION MCSpec
INVARIANTS LruInv KeepsMostRecent AnswersDatabase
PROPERTY ImplementsBoundedMap
CHECK_DEADLOCK FALSE
