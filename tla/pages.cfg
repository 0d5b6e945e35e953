\* Blocks of three and four pages among single ones and pairs; three are given
\* back as three.
CONSTANTS
  Base = 2
  Pages = 7
  MaxOrder = 3
  AppPage = {20}
  CountMax = 3
  PoolSizes = {3, 4}
  KernelSizes = {1, 2}
SPECIFICATION Spec
INVARIANTS FreeApart ExactAccounted EndsKnown
PROPERTIES OwnersApart
