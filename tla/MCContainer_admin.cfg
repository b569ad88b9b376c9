CONSTANTS
  NCONT = 2
  NPROC = 2
  CPU = {c1}
  Names <- Names1
  RootName <- Root
  Program <- Admin
  MaxPid = 3
  MaxCid = 3
  Nil = Nil
  Dev = Dev
  Mprocs = {0, 2}
SPECIFICATION Spec
PROPERTIES FreedOnlyWhenEmptyUnlessRaced 
CHECK_DEADLOCK FALSE
