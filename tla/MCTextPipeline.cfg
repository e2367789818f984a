\* Two letters and one other character; eight bytes are cleared, as in the code.
CONSTANTS
  a = a
  b = b
  s = s
  Letter = {a, b}
  Sign = {s}
  Nul = Nul
  Texts <- MCTexts
  BufSize = 12
  Cleared = 8
  MaxTexts = 3
SPECIFICATION Spec
INVARIANTS TypeOK ReplyRight WaitEnds
CHECK_DEADLOCK FALSE
