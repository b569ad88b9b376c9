CONSTANTS
  NCONT = 2
  NPROC = 2
  CPU = {c1}
  Names <- Names1
  RootName <- Root
  Program <- Busy
  MaxPid = 3
  MaxCid = 3
  Nil = Nil
  Dev = Dev
  Mprocs = {2}
SPECIFICATION Spec
INVARIANTS NoMissedChild ParentAlive
PROPERTY FreedOnlyWhenEmptyUnlessRaced
CHECK_DEADLOCK FALSE
