SPECIFICATION Spec
CONSTANTS
  INTQ_BUFSIZE = 3
  NULL = NULL
  Byte = {a}
  Reader = {r1, r2}
  Writer = {}
  LineByte = {a}
  KeyByte = {}
  OutByte = {}
  OffByte = {}
INVARIANT WaitAssert
