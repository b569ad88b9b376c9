CONSTANTS
  NCONT = 1
  NPROC = 3
  CPU = {c1}
  Names <- Names1
  RootName <- Root
  Program <- RootOnly
  MaxPid = 3
  MaxCid = 3
  Nil = Nil
  Dev = Dev
  Mprocs = {2}
SPECIFICATION Spec
PROPERTY BornAlive
CHECK_DEADLOCK FALSE
