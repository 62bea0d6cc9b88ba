SPECIFICATION Spec
CONSTANTS
  INTQ_BUFSIZE = 3
  NULL = NULL
  Byte = {a, b}
  Reader = {r1}
  Writer = {w1}
  LineByte = {a, b}
  KeyByte = {a}
  OutByte = {a, b}
  OffByte = {b}
PROPERTIES InputFifo OutputFifo
