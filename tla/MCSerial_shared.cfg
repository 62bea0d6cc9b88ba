SPECIFICATION Spec
CONSTANTS
  INTQ_BUFSIZE = 3
  NULL = NULL
  Byte = {a}
  Reader = {r1, r2, r3}
  Writer = {w1, w2}
  LineByte = {a}
  KeyByte = {}
  OutByte = {a}
  OffByte = {a}
INVARIANTS SleepersKept IerCurrent
CHECK_DEADLOCK FALSE
