SPECIFICATION FairSpec
CONSTANTS
  Nil = Nil
  Contents = {empty, one, two}
  Refreshes = {r1, r2}
PROPERTIES
  ConsoleCatchesUp
  ConsoleNoticesLoss
