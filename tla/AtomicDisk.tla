----------------------------- MODULE AtomicDisk -----------------------------
(***************************************************************************)
(* What the file system is promised by the write-ahead log (log.c): a disk *)
(* whose contents after a crash are those some moment left behind at which *)
(* no file-system call was in progress.  `durable' is what a reboot finds, *)
(* `view' what running calls read and write, `active' the callers between  *)
(* begin_op and end_op.                                                    *)
(***************************************************************************)
CONSTANTS Block, Val, Caller

VARIABLES durable, view, active

vars == <<durable, view, active>>

Init ==
  /\ durable \in [Block -> Val]
  /\ view = durable
  /\ active = {}

Begin(p) ==
  /\ p \notin active
  /\ active' = active \cup {p}
  /\ UNCHANGED <<durable, view>>

Write(p, b, v) ==
  /\ p \in active
  /\ view' = [view EXCEPT ![b] = v]
  /\ UNCHANGED <<durable, active>>

End(p) ==
  /\ p \in active
  /\ active' = active \ {p}
  /\ UNCHANGED <<durable, view>>

(* All completed calls become durable together, and only while no call is  *)
(* half done.                                                              *)
Commit ==
  /\ active = {}
  /\ durable' = view
  /\ UNCHANGED <<view, active>>

Crash ==
  /\ view' = durable
  /\ active' = {}
  /\ UNCHANGED durable

Next ==
  \/ \E p \in Caller : Begin(p) \/ End(p)
  \/ \E p \in Caller, b \in Block, v \in Val : Write(p, b, v)
  \/ Commit
  \/ Crash

Spec == Init /\ [][Next]_vars
=============================================================================
