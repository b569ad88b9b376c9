---------------------------- MODULE MCContainer ----------------------------
(* Small instances of Container.  Programs: init forks a shell and waits   *)
(* (init.c), the other root process is a shell or ctool, and the programs  *)
(* in a container fork, block and exit.                                    *)
EXTENDS Container, TLC

Names1 == {<<"a">>}
Root == <<"i">>

(* One container, the root: fork, exit, wait, kill and blocking calls. *)
RootOnly == [p \in Process |-> IF p = initproc THEN {"fork", "wait"}
                               ELSE {"fork", "wait", "exit", "kill", "block"}]

(* init runs ctool; the processes of the other container block and exit. *)
Admin == [p \in Process |->
            IF p = initproc THEN {"ccreate", "cstart", "cstop", "cpause", "cresume", "cfork"}
            ELSE IF p[1] = 0 THEN {"exit"} ELSE {"exit", "block"}]

(* init starts containers whose processes fork, wait and run over limits. *)
Busy == [p \in Process |->
            IF p = initproc THEN {"ccreate", "cstart", "cfork"}
            ELSE IF p[1] = 0 THEN {"exit"} ELSE {"fork", "wait", "exit", "alloc", "kill"}]

CpuSymmetry == Permutations(CPU)
=============================================================================
