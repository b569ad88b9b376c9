CONSTANTS
  NCONT = 1
  NPROC = 3
  CPU = {c1, c2}
  Names <- Names1
  RootName <- Root
  Program <- RootOnly
  MaxPid = 3
  MaxCid = 2
  Nil = Nil
  Dev = Dev
  Mprocs = {2}
SYMMETRY CpuSymmetry
SPECIFICATION Spec
INVARIANTS TypeOK OneCpuPerProcess PidsUnique NoMissedChild ParentAlive
CHECK_DEADLOCK FALSE
