CONSTANTS
  NCONT = 2
  NPROC = 2
  CPU = {c1}
  Names <- Names1
  RootName <- Root
  Program <- Admin
  MaxPid = 3
  MaxCid = 2
  Nil = Nil
  Dev = Dev
  Mprocs = {2}
SPECIFICATION FairSpec
PROPERTY StopKills
CHECK_DEADLOCK FALSE
