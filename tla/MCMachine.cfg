SPECIFICATION Spec
CONSTANTS
  NULL = NULL
  Base = Base
  NoThread = NoThread
  NoAddr = NoAddr
INVARIANTS
  PagesExact AddressesRight LoadRight InterruptsExact
    KeyboardRight DisplayRight
