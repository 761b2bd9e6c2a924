SPECIFICATION StreamSpec
CONSTANTS
  Ms = 3
  Window = 6
  Incs = {3, 4}
  Sizes = {0, 2}
  Length = 4
INVARIANTS TimesRise StaysInGroup
