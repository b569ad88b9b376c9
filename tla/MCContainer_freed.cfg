CONSTANTS
  NCONT = 1
  NPROC = 3
  CPU = {c1, c2}
  Names <- Names1
  RootName <- Root
  Program <- RootOnly
  MaxPid = 4
  MaxCid = 2
  Nil = Nil
  Dev = Dev
  Mprocs = {2}
SYMMETRY CpuSymmetry
SPECIFICATION Spec

PROPERTY FreedOnlyWhenEmpty
CHECK_DEADLOCK FALSE
