\* Two mount points over three runs of pages, in any order of addresses.
CONSTANTS
  Mount = {m1, m2}
  None = none
  Runs = 3
  PerBase = 2
  PerExtend = 2
SPECIFICATION Spec
INVARIANTS DeletesSucceed
