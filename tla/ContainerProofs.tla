-------------------------- MODULE ContainerProofs --------------------------
(***************************************************************************)
(* Proofs about Container for any number of CPUs, containers and processes *)
(* and any programs: the type invariant, that a process is on one CPU at   *)
(* a time, and that pids are unique.                                       *)
(*                                                                         *)
(* None of these is inductive alone.  OneCpuPerProcess depends on          *)
(* ptable.lock being held across sched() and on a fork's EMBRYO being      *)
(* touched by its forker only; IInv says so.                               *)
(***************************************************************************)
EXTENDS Container, TLAPS

(* Steps of fork() at which np is the caller's own EMBRYO entry. *)
ForkOps == {"forkStack", "forkStore", "forkCopy", "forkReady"}
(* Steps that run with ptable.lock held. *)
LockedOps == {"wait", "exitStore"}

(* ccreate's mproc argument until it is stored, and the container fork *)
(* and ccreate work on.                                                    *)
ArgInv ==
  \A p \in Process :
    /\ call[p].op \in {"createAlloc", "createFill"} => call[p].val \in 0..NPROC
    /\ call[p].op \in ForkOps \cup {"forkAlloc", "createFill"} => call[p].cont \in Slot

CpuInv ==
  /\ \A c \in CPU :
       /\ cpu[c].pc \in {"scan", "back"} => ptlock = c
       /\ cpu[c].pc \in {"idle", "scan"} => cpu[c].proc = Nil
       /\ cpu[c].pc \in {"run", "back"} => cpu[c].proc \in Process
       /\ cpu[c].pc = "run" => proc[cpu[c].proc].state = "RUNNING"
       /\ cpu[c].pc = "run" /\ call[cpu[c].proc].op \in LockedOps => ptlock = c
  /\ \A p \in Process : proc[p].state = "RUNNING" =>
       \E c \in CPU : cpu[c].pc = "run" /\ cpu[c].proc = p
  /\ \A c, d \in CPU : c # d /\ cpu[c].proc # Nil => cpu[c].proc # cpu[d].proc
  /\ \A p \in Process : call[p].op = "exitStore" => proc[p].state = "RUNNING"

(* An EMBRYO entry belongs to one fork. *)
ForkInv ==
  /\ \A p \in Process : call[p].op \in ForkOps =>
       call[p].np \in Process /\ proc[call[p].np].state = "EMBRYO"
  /\ \A p, q \in Process : p # q /\ call[p].op \in ForkOps /\ call[q].op \in ForkOps
                           => call[p].np # call[q].np

(* pids were given out once; an unused entry may keep one. *)
PidInv ==
  /\ nextpid > 0
  /\ \A p \in Process : proc[p].pid < nextpid
  /\ \A p \in Process : proc[p].state # "UNUSED" => proc[p].pid # 0
  /\ \A p, q \in Process : p # q /\ proc[p].pid = proc[q].pid => proc[p].pid = 0

IInv == TypeOK /\ ArgInv /\ CpuInv /\ ForkInv /\ PidInv

-----------------------------------------------------------------------------
USE DEF counters

LEMMA SlotType == Slot \subseteq Nat /\ 0 \in Slot /\ Nil \notin Process /\ initproc \in Process
BY ProcAssumption DEF Slot, Process, initproc

LEMMA OpsMembers ==
  /\ "user" \in Ops /\ "forkAlloc" \in Ops /\ "forkStack" \in Ops /\ "forkStore" \in Ops
  /\ "forkCopy" \in Ops /\ "forkReady" \in Ops /\ "exit" \in Ops /\ "exitStore" \in Ops
  /\ "wait" \in Ops /\ "sleep" \in Ops /\ "woken" \in Ops
  /\ "createAlloc" \in Ops /\ "createFill" \in Ops
  /\ "cstart" \in Ops /\ "cstop" \in Ops /\ "cpause" \in Ops /\ "cresume" \in Ops
BY DEF Ops

(* A call's frame starts out empty. *)
LEMMA FrameType ==
  ASSUME NEW op \in Ops
  PROVE  Frame(op) \in CallRec
BY SMT DEF Frame, CallRec

LEMMA FreeTypes == FreeCont \in ContRec /\ FreeProc \in ProcRec
BY ProcAssumption, SMT DEF FreeCont, FreeProc, ContRec, ProcRec

LEMMA UserType == User \in CallRec
BY SMT DEF User, Frame, CallRec, Ops

(* initcontainer() and initprocess() *)
LEMMA InitRecords ==
  /\ [FreeCont EXCEPT !.state = "CRUNNABLE", !.cid = ROOTCONT, !.mproc = NPROC, !.uproc = 1,
                      !.name = RootName] \in ContRec
  /\ [FreeProc EXCEPT !.state = "RUNNABLE", !.pid = 1] \in ProcRec
<1>1. FreeCont \in ContRec /\ FreeProc \in ProcRec
  BY FreeTypes
<1>2. [FreeCont EXCEPT !.state = "CRUNNABLE", !.cid = ROOTCONT, !.mproc = NPROC, !.uproc = 1,
                       !.name = RootName] \in ContRec
  <2>1. NPROC \in 0..NPROC /\ RootName \in Seq(STRING) /\ 1 \in Int /\ ROOTCONT \in Nat
    BY ProcAssumption DEF ROOTCONT
  <2> QED
    BY <1>1, <2>1, Zenon DEF ContRec
<1>3. [FreeProc EXCEPT !.state = "RUNNABLE", !.pid = 1] \in ProcRec
  BY <1>1, ZenonT(60) DEF ProcRec
<1> QED
  BY <1>2, <1>3

LEMMA InitType == Init => TypeOK
<1> SUFFICES ASSUME Init PROVE TypeOK
  OBVIOUS
<1>1. cont \in [Slot -> ContRec]
  BY InitRecords, FreeTypes DEF Init
<1>2. proc \in [Process -> ProcRec]
  BY InitRecords, FreeTypes DEF Init
<1>3. cpu \in [CPU -> CpuRec]
  BY ProcAssumption DEF Init, CpuRec
<1>4. call \in [Process -> CallRec]
  BY UserType DEF Init
<1> QED
  BY <1>1, <1>2, <1>3, <1>4, ZenonT(60) DEF Init, TypeOK

(* wait() and the end of exit() hold ptable.lock. *)
LEMMA LockHeld ==
  ASSUME CpuInv, NEW c \in CPU, NEW p \in Process, At(c, p, "wait") \/ At(c, p, "exitStore")
  PROVE  ptlock = c
<1>1. cpu[c].pc = "run" /\ call[cpu[c].proc].op \in LockedOps
  BY DEF At, LockedOps
<1>2. cpu[c].pc = "run" /\ call[cpu[c].proc].op \in LockedOps => ptlock = c
  BY SMTT(60) DEF CpuInv
<1> QED
  BY <1>1, <1>2

-----------------------------------------------------------------------------
(* Type correctness, one lemma per part of Next.                           *)

LEMMA AdvanceType == ASSUME TypeOK, NEW s \in Slot PROVE Advance(s) \in Nat
<1>1. NCONT * NPROC \in Nat
  BY ProcAssumption
<1>2. cont[s].nextproc \in Nat /\ cont[s].mproc \in Nat
  BY ProcAssumption DEF TypeOK, ContRec
<1> QED
  BY <1>1, <1>2 DEF Advance, NextprocBound

LEMMA NextprocType ==
  ASSUME TypeOK, NEW s \in Slot, cont' = [cont EXCEPT ![s].nextproc = Advance(s)]
  PROVE  cont' \in [Slot -> ContRec]
BY AdvanceType, ZenonT(60) DEF TypeOK, ContRec

LEMMA SchedAcquireType == ASSUME TypeOK, NEW c \in CPU, SchedAcquire(c) PROVE TypeOK'
<1>1. 0 \in 0..NCONT
  BY ProcAssumption
<1>2. [cpu[c] EXCEPT !.pc = "scan", !.i = 0] \in CpuRec
  BY <1>1, Zenon DEF TypeOK, CpuRec
<1> QED
  BY <1>2 DEF TypeOK, SchedAcquire

LEMMA SchedReleaseType == ASSUME TypeOK, NEW c \in CPU, SchedRelease(c) PROVE TypeOK'
<1>1. [cpu[c] EXCEPT !.pc = "idle"] \in CpuRec
  BY Zenon DEF TypeOK, CpuRec
<1> QED
  BY <1>1 DEF TypeOK, SchedRelease

LEMMA SchedSkipType ==
  ASSUME TypeOK, NEW c \in CPU, NEW s \in Slot, SchedSkip(c, s)
  PROVE  TypeOK'
<1>1. cont' \in [Slot -> ContRec]
  BY NextprocType DEF TypeOK, SchedSkip
<1>2. s + 1 \in 0..NCONT
  BY ProcAssumption DEF Slot
<1>3. [cpu[c] EXCEPT !.i = s + 1] \in CpuRec
  BY <1>2, Zenon DEF TypeOK, CpuRec
<1> QED
  BY <1>1, <1>3 DEF TypeOK, SchedSkip

LEMMA SchedRunType ==
  ASSUME TypeOK, NEW c \in CPU, NEW s \in Slot, NEW p \in Process, SchedRun(c, s, p)
  PROVE  TypeOK'
<1>1. cont' \in [Slot -> ContRec]
  BY NextprocType, ZenonT(60) DEF SchedRun
<1>2. [proc[p] EXCEPT !.state = "RUNNING", !.chan = Nil,
                      !.killed = @ \/ cont[s].state = "CSTOPPING"] \in ProcRec
  BY ZenonT(60) DEF TypeOK, ProcRec
<1>3. proc' \in [Process -> ProcRec]
  BY <1>2 DEF TypeOK, SchedRun
<1>4. [cpu[c] EXCEPT !.pc = "run", !.proc = p] \in CpuRec
  BY Zenon DEF TypeOK, CpuRec
<1> QED
  BY <1>1, <1>3, <1>4 DEF TypeOK, SchedRun

LEMMA SchedBackType ==
  ASSUME TypeOK, NEW c \in CPU, NEW s \in Slot, SchedBack(c, s)
  PROVE  TypeOK'
<1>1. [FreeCont EXCEPT !.uproc = cont[s].uproc] \in ContRec
  BY FreeTypes, ZenonT(60) DEF TypeOK, ContRec
<1>2. cont' \in [Slot -> ContRec]
  BY <1>1 DEF TypeOK, SchedBack
<1>3. s + 1 \in 0..NCONT
  BY ProcAssumption DEF Slot
<1>4. [pc |-> "scan", proc |-> Nil, i |-> s + 1] \in CpuRec
  BY <1>3, Zenon DEF CpuRec
<1> QED
  BY <1>2, <1>4 DEF TypeOK, SchedBack

LEMMA SchedStepType == ASSUME TypeOK, NEW c \in CPU, SchedStep(c) PROVE TypeOK'
BY SchedAcquireType, SchedReleaseType, SchedSkipType, SchedRunType, SchedBackType
DEF SchedStep

LEMMA SchedType == ASSUME TypeOK, NEW c \in CPU, Sched(c)
                   PROVE  cpu' \in [CPU -> CpuRec] /\ ptlock' \in CPU \cup {Nil}
BY DEF TypeOK, CpuRec, Sched

LEMMA ReturnType == ASSUME TypeOK, NEW p \in Process, Return(p)
                    PROVE  call' \in [Process -> CallRec]
BY UserType DEF TypeOK, Return

LEMMA CkillType == ASSUME TypeOK, NEW s \in Slot, Ckill(s)
                   PROVE  cont' \in [Slot -> ContRec]
BY ZenonT(60) DEF TypeOK, ContRec, Ckill

LEMMA ParentType == ASSUME NEW r \in ProcRec, NEW x \in Process \cup {Nil}
                    PROVE  [r EXCEPT !.parent = x] \in ProcRec
BY Zenon DEF ProcRec

LEMMA UprocType == ASSUME NEW r \in ContRec, NEW n \in Int
                   PROVE  [r EXCEPT !.uproc = n] \in ContRec
BY Zenon DEF ContRec

LEMMA Wakeup1Type == ASSUME NEW pr \in [Process -> ProcRec], NEW chans
                     PROVE  Wakeup1(pr, chans) \in [Process -> ProcRec]
BY DEF Wakeup1, ProcRec

LEMMA YieldType == ASSUME TypeOK, NEW c \in CPU, NEW p \in Process, Yield(c, p) PROVE TypeOK'
<1>1. proc' \in [Process -> ProcRec]
  BY DEF TypeOK, ProcRec, Yield
<1> QED
  BY <1>1, SchedType DEF TypeOK, Yield

LEMMA ForkStartType ==
  ASSUME TypeOK, NEW c \in CPU, NEW p \in Process, NEW s \in Slot, NEW par \in Process,
         ForkStart(c, p, s, par)
  PROVE  TypeOK'
<1>1. Frame("forkAlloc") \in CallRec /\ cont[s].cid \in Nat
  BY FrameType DEF Ops, TypeOK, ContRec
<1>2. [Frame("forkAlloc") EXCEPT !.cont = s, !.cid = cont[s].cid, !.parent = par] \in CallRec
  BY <1>1, Zenon DEF CallRec
<1> QED
  BY <1>2 DEF TypeOK, ForkStart

LEMMA AllocProcType == ASSUME TypeOK, NEW c \in CPU, NEW p \in Process, AllocProc(c, p)
                       PROVE  TypeOK'
<1>1. PICK np \in First(Unused(call[p].cont)) :
        /\ proc' = [proc EXCEPT ![np].state = "EMBRYO", ![np].pid = nextpid]
        /\ call' = [call EXCEPT ![p].op = "forkStack", ![p].np = np]
  BY ZenonT(60) DEF AllocProc
<1>2. np \in Process
  BY DEF First, Unused, Table
<1>3. [proc[np] EXCEPT !.state = "EMBRYO", !.pid = nextpid] \in ProcRec
  BY <1>2, ZenonT(60) DEF TypeOK, ProcRec
<1>4. [call[p] EXCEPT !.op = "forkStack", !.np = np] \in CallRec
  BY <1>2, OpsMembers, Zenon DEF TypeOK, CallRec
<1>5. proc' \in [Process -> ProcRec] /\ call' \in [Process -> CallRec]
  BY <1>1, <1>2, <1>3, <1>4 DEF TypeOK
<1> QED
  BY <1>5 DEF TypeOK, AllocProc

LEMMA ForkType ==
  ASSUME TypeOK, ArgInv, ForkInv, NEW c \in CPU, NEW p \in Process,
         \/ AllocProcFull(c, p) \/ ForkFails(c, p) \/ ForkLoad(c, p) \/ ForkStore(c, p)
         \/ ForkCopy(c, p) \/ ForkReady(c, p)
  PROVE  TypeOK'
<1>0. call[p].op \in ForkOps => call[p].np \in Process
  BY DEF ForkInv
<1>1. CASE AllocProcFull(c, p)
  BY <1>1, ReturnType DEF TypeOK, AllocProcFull
<1>2. CASE ForkFails(c, p)
  <2>1. p[1] \in Slot
    BY DEF Process
  <2>2. proc' \in [Process -> ProcRec]
    BY <1>0, <1>2 DEF TypeOK, ProcRec, ForkFails, At, ForkOps
  <2> QED
    BY <1>2, <2>1, <2>2, ReturnType, CkillType DEF TypeOK, ForkFails
<1>3. CASE ForkLoad(c, p)
  <2>1. call[p].cont \in Slot
    BY <1>3 DEF ArgInv, ForkOps, ForkLoad, At
  <2>2. cont[call[p].cont].uproc \in Int
    BY <2>1 DEF TypeOK, ContRec
  <2>3. [call[p] EXCEPT !.op = "forkStore", !.val = cont[call[p].cont].uproc] \in CallRec
    BY <2>2, OpsMembers, Zenon DEF TypeOK, CallRec
  <2> QED
    BY <1>3, <2>3 DEF TypeOK, ForkLoad
<1>4. CASE ForkStore(c, p)
  <2>1. call[p].val + 1 \in Int
    BY DEF TypeOK, CallRec
  <2>2. cont' \in [Slot -> ContRec]
    BY <1>4, <2>1, ZenonT(60) DEF TypeOK, ContRec, ForkStore
  <2>3. races' \subseteq {"uproc", "stale"}
    BY <1>4 DEF TypeOK, ForkStore, LostUpdate, StaleCont
  <2>4. call' \in [Process -> CallRec]
    BY <1>4, OpsMembers, ZenonT(60) DEF TypeOK, CallRec, Goto, ForkStore
  <2> QED
    BY <1>4, <2>2, <2>3, <2>4 DEF TypeOK, ForkStore
<1>5. CASE ForkCopy(c, p)
  <2>0. call[p].np \in Process
    BY <1>0, <1>5 DEF ForkCopy, At, ForkOps
  <2>a. call[p].parent \in Process \cup {Nil}
    BY DEF TypeOK, CallRec
  <2>b. [proc[call[p].np] EXCEPT !.parent = call[p].parent] \in ProcRec
    BY <2>0, <2>a, ParentType, SMTT(60) DEF TypeOK
  <2>1. proc' \in [Process -> ProcRec]
    BY <2>0, <2>b, <1>5 DEF TypeOK, ForkCopy
  <2>2. call' \in [Process -> CallRec]
    BY <1>5, OpsMembers, ZenonT(60) DEF TypeOK, CallRec, Goto, ForkCopy
  <2> QED
    BY <1>5, <2>1, <2>2 DEF TypeOK, ForkCopy
<1>6. CASE ForkReady(c, p)
  <2>1. proc' \in [Process -> ProcRec]
    BY <1>0, <1>6 DEF TypeOK, ProcRec, ForkReady, At, ForkOps
  <2>2. call' \in [Process -> CallRec]
    BY <1>6, UserType, ZenonT(60) DEF TypeOK, ForkReady
  <2> QED
    BY <1>6, <2>1, <2>2 DEF TypeOK, ForkReady
<1> QED
  BY <1>1, <1>2, <1>3, <1>4, <1>5, <1>6

LEMMA ExitType ==
  ASSUME TypeOK, NEW c \in CPU, NEW p \in Process, Exit(c, p) \/ ExitStore(c, p)
  PROVE  TypeOK'
<1>0. p[1] \in Slot
  BY DEF Process
<1>1. CASE Exit(c, p)
  <2> DEFINE handed == [q \in Process |-> IF q \in Children(p)
                                            THEN [proc[q] EXCEPT !.parent = initproc]
                                            ELSE proc[q]]
  <2>1. handed \in [Process -> ProcRec]
    <3>1. ASSUME NEW q \in Process PROVE [proc[q] EXCEPT !.parent = initproc] \in ProcRec
      BY SlotType, ZenonT(60) DEF TypeOK, ProcRec
    <3> QED
      BY <3>1 DEF TypeOK
  <2>2. proc' \in [Process -> ProcRec]
    <3> HIDE DEF handed
    <3>1. PICK chans : proc' = Wakeup1(handed, chans)
      BY <1>1, ZenonT(60) DEF Exit, handed
    <3> QED
      BY <2>1, <3>1, Wakeup1Type
  <2>3. cont[p[1]].uproc \in Int
    BY <1>0 DEF TypeOK, ContRec
  <2>4. [call[p] EXCEPT !.op = "exitStore", !.val = cont[p[1]].uproc] \in CallRec
    BY <2>3, OpsMembers, Zenon DEF TypeOK, CallRec
  <2> QED
    BY <1>1, <2>2, <2>4 DEF TypeOK, Exit
<1>2. CASE ExitStore(c, p)
  <2>1. call[p].val - 1 \in Int
    BY DEF TypeOK, CallRec
  <2>2. cont' \in [Slot -> ContRec]
    BY <1>0, <1>2, <2>1, UprocType DEF TypeOK, ExitStore
  <2>3. proc' \in [Process -> ProcRec]
    BY <1>2 DEF TypeOK, ProcRec, ExitStore
  <2>4. races' \subseteq {"uproc", "stale"}
    BY <1>2 DEF TypeOK, ExitStore, LostUpdate
  <2> QED
    BY <1>2, <2>2, <2>3, <2>4, SchedType, ReturnType DEF TypeOK, ExitStore
<1> QED
  BY <1>1, <1>2

LEMMA WaitType ==
  ASSUME TypeOK, NEW c \in CPU, NEW p \in Process,
         Wait(c, p) \/ WaitReap(c, p) \/ WaitFails(c, p) \/ WaitSleep(c, p)
  PROVE  TypeOK'
<1>1. CASE Wait(c, p)
  <2>1. cont[p[1]].mproc \in Int
    BY ProcAssumption DEF TypeOK, ContRec, Process
  <2>2. [call[p] EXCEPT !.op = "wait", !.val = cont[p[1]].mproc] \in CallRec
    BY <2>1, OpsMembers, ZenonT(60) DEF TypeOK, CallRec
  <2> QED
    BY <1>1, <2>2 DEF TypeOK, Wait
<1>2. CASE WaitReap(c, p)
  <2>1. proc' \in [Process -> ProcRec]
    BY <1>2, FreeTypes, ZenonT(60) DEF TypeOK, WaitReap
  <2> QED
    BY <1>2, <2>1, ReturnType DEF TypeOK, WaitReap
<1>3. CASE WaitFails(c, p)
  BY <1>3, ReturnType DEF TypeOK, WaitFails
<1>4. CASE WaitSleep(c, p)
  <2>1. [proc[p] EXCEPT !.state = "SLEEPING", !.chan = p] \in ProcRec
    BY ZenonT(60) DEF TypeOK, ProcRec
  <2> QED
    BY <1>4, <2>1, SchedType DEF TypeOK, WaitSleep
<1> QED
  BY <1>1, <1>2, <1>3, <1>4

LEMMA SleepType ==
  ASSUME TypeOK, NEW c \in CPU, NEW p \in Process,
         ExitStart(c, p) \/ Block(c, p) \/ Sleep(c, p) \/ Unblock(c, p)
  PROVE  TypeOK'
<1>1. CASE ExitStart(c, p) \/ Block(c, p)
  <2>1. call' \in [Process -> CallRec]
    <3>1. CASE ExitStart(c, p)
      BY <3>1, OpsMembers, ZenonT(60) DEF TypeOK, CallRec, Goto, ExitStart
    <3>2. CASE Block(c, p)
      BY <3>2, OpsMembers, ZenonT(60) DEF TypeOK, CallRec, Goto, Block
    <3> QED
      BY <1>1, <3>1, <3>2
  <2> QED
    BY <1>1, <2>1, ZenonT(60) DEF TypeOK, ExitStart, Block
<1>2. CASE Sleep(c, p)
  <2>1. call' \in [Process -> CallRec]
    BY <1>2, OpsMembers, ZenonT(60) DEF TypeOK, CallRec, Goto, Sleep
  <2>2. [proc[p] EXCEPT !.state = "SLEEPING", !.chan = Dev] \in ProcRec
    BY ZenonT(60) DEF TypeOK, ProcRec
  <2> QED
    BY <1>2, <2>1, <2>2, SchedType, ZenonT(60) DEF TypeOK, Sleep
<1>3. CASE Unblock(c, p)
  BY <1>3, ReturnType DEF TypeOK, Unblock
<1> QED
  BY <1>1, <1>2, <1>3

LEMMA KillType ==
  ASSUME TypeOK, NEW c \in CPU, NEW p \in Process, NEW pid, Kill(c, p, pid)
  PROVE  TypeOK'
<1>1. PICK q \in First({r \in Table(p[1]) : proc[r].pid = pid}) :
        proc' = [proc EXCEPT ![q].killed = TRUE,
                             ![q].state = IF @ = "SLEEPING" THEN "RUNNABLE" ELSE @]
  BY ZenonT(60) DEF Kill
<1>2. q \in Process
  BY DEF First, Table
<1>3. [proc[q] EXCEPT !.killed = TRUE, !.state = IF @ = "SLEEPING" THEN "RUNNABLE" ELSE @]
        \in ProcRec
  BY <1>2, ZenonT(60) DEF TypeOK, ProcRec
<1>4. proc' \in [Process -> ProcRec]
  BY <1>1, <1>2, <1>3 DEF TypeOK
<1> QED
  BY <1>4 DEF TypeOK, Kill

LEMMA WakeupType == ASSUME TypeOK, Wakeup PROVE TypeOK'
BY Wakeup1Type DEF TypeOK, Wakeup

LEMMA ProcStepType ==
  ASSUME TypeOK, ArgInv, ForkInv, NEW c \in CPU, NEW p \in Process, ProcStep(c, p)
  PROVE  TypeOK'
<1>1. p[1] \in Slot
  BY DEF Process
<1>2. CASE Fork(c, p)
  BY <1>1, <1>2, ForkStartType DEF Fork
<1>3. ASSUME NEW cid, Cfork(c, p, cid) PROVE TypeOK'
  BY <1>3, SlotType, ForkStartType DEF Cfork, Lowest, Cid2Cont
<1>4. CASE ExitPanic(c)
  BY <1>4 DEF TypeOK, ExitPanic
<1> QED
  BY <1>2, <1>3, <1>4, YieldType, AllocProcType, ForkType, ExitType, WaitType, KillType,
     SleepType
  DEF ProcStep

LEMMA CheckedType ==
  ASSUME TypeOK, NEW p \in Process, NEW s \in Slot, NEW op \in Ops, Checked(p, op, s)
  PROVE  call' \in [Process -> CallRec]
<1>1. Frame(op) \in CallRec /\ cont[s].cid \in Nat
  BY FrameType DEF TypeOK, ContRec
<1>2. [Frame(op) EXCEPT !.cont = s, !.cid = cont[s].cid] \in CallRec
  BY <1>1, Zenon DEF CallRec
<1> QED
  BY <1>2 DEF TypeOK, Checked

LEMMA AdministerType ==
  ASSUME TypeOK, NEW c \in CPU, NEW p \in Process, NEW name, NEW op \in Ops, NEW states,
         Administer(c, p, name, op, states)
  PROVE  TypeOK'
<1>1. PICK s \in Lowest(Name2Cont(name)) : Checked(p, op, s)
  BY DEF Administer
<1>2. s \in Slot
  BY DEF Lowest, Name2Cont
<1> QED
  BY <1>1, <1>2, CheckedType DEF TypeOK, Administer

LEMMA SetStateType ==
  ASSUME TypeOK, NEW p \in Process, NEW expected,
         NEW new \in {"CRUNNABLE", "CPAUSED", "CSTOPPING"}, SetState(p, expected, new)
  PROVE  /\ cont' \in [Slot -> ContRec]
         /\ call' \in [Process -> CallRec]
         /\ races' \subseteq {"uproc", "stale"}
<1>1. cont' \in [Slot -> ContRec]
  BY ZenonT(60) DEF TypeOK, ContRec, SetState
<1>2. races' \subseteq {"uproc", "stale"}
  BY DEF TypeOK, SetState, StaleCont
<1> QED
  BY <1>1, <1>2, ReturnType DEF SetState

LEMMA ContStepType ==
  ASSUME TypeOK, ArgInv, NEW c \in CPU, NEW p \in Process, ContStep(c, p)
  PROVE  TypeOK'
<1>1. ASSUME NEW name \in Names, NEW mproc \in Mprocs, Ccreate(c, p, name, mproc) PROVE TypeOK'
  <2>1. Frame("createAlloc") \in CallRec /\ name \in Seq(STRING) /\ mproc \in Int
    BY FrameType, OpsMembers, ProcAssumption, ContainerAssumption
  <2>2. [Frame("createAlloc") EXCEPT !.name = name, !.val = mproc] \in CallRec
    BY <2>1, Zenon DEF CallRec
  <2> QED
    BY <1>1, <2>2 DEF TypeOK, Ccreate
<1>2. ASSUME NEW name \in Names, Cstart(c, p, name) PROVE TypeOK'
  <2>1. PICK s \in Slot : Checked(p, "cstart", s)
    BY <1>2 DEF Cstart, Lowest
  <2>2. call' \in [Process -> CallRec]
    BY <2>1, CheckedType, OpsMembers
  <2> QED
    BY <1>2, <2>2 DEF TypeOK, Cstart
<1>3. ASSUME NEW name, Cstop(c, p, name) \/ Cpause(c, p, name) \/ Cresume(c, p, name)
      PROVE  TypeOK'
  BY <1>3, AdministerType, OpsMembers DEF Cstop, Cpause, Cresume
<1>4. CASE AllocCont(c, p)
  <2>1. CASE UNCHANGED <<cont, nextcid>> /\ Return(p)
    BY <1>4, <2>1, ReturnType DEF TypeOK, AllocCont
  <2>2. ASSUME NEW s \in Slot,
               cont' = [cont EXCEPT ![s].state = "CEMBRYO", ![s].cid = nextcid],
               nextcid' = nextcid + 1,
               call' = [call EXCEPT ![p].op = "createFill", ![p].cont = s]
        PROVE  TypeOK'
    <3>1. [cont[s] EXCEPT !.state = "CEMBRYO", !.cid = nextcid] \in ContRec
      BY ZenonT(60) DEF TypeOK, ContRec
    <3>2. [call[p] EXCEPT !.op = "createFill", !.cont = s] \in CallRec
      BY OpsMembers, ZenonT(60) DEF TypeOK, CallRec
    <3>3. cont' \in [Slot -> ContRec] /\ call' \in [Process -> CallRec] /\ nextcid' \in Nat
      BY <2>2, <3>1, <3>2 DEF TypeOK
    <3> QED
      BY <1>4, <3>3 DEF TypeOK, AllocCont
  <2> QED
    BY <1>4, <2>1, <2>2, ZenonT(60) DEF AllocCont, Lowest
<1>5. CASE CcreateFill(c, p)
  <2>1. call[p].val \in 0..NPROC /\ call[p].name \in Seq(STRING)
    BY <1>5, SMTT(60) DEF CcreateFill, At, ArgInv, TypeOK, CallRec
  <2>2. call[p].cont \in Slot
    BY <1>5 DEF CcreateFill, At, ArgInv
  <2> DEFINE r == cont[call[p].cont]
  <2>3. /\ [r EXCEPT !.state = "CREADY", !.mproc = call[p].val, !.name = call[p].name] \in ContRec
        /\ [r EXCEPT !.state = "CUNUSED"] \in ContRec
    BY <2>1, <2>2, ZenonT(60) DEF TypeOK, ContRec
  <2>4. cont' \in [Slot -> ContRec]
    BY <1>5, <2>2, <2>3, ZenonT(60) DEF TypeOK, CcreateFill
  <2> QED
    BY <1>5, <2>4, ReturnType DEF TypeOK, CcreateFill
<1>6. CASE CstartSet(c, p)
  BY <1>6, SetStateType, ReturnType, ZenonT(60) DEF TypeOK, CstartSet
<1>7. CASE CstopSet(c, p) \/ CpauseSet(c, p) \/ CresumeSet(c, p)
  BY <1>7, SetStateType DEF TypeOK, CstopSet, CpauseSet, CresumeSet
<1>8. CASE OverLimit(c, p)
  <2>1. p[1] \in Slot
    BY DEF Process
  <2> QED
    BY <1>8, <2>1, CkillType DEF TypeOK, OverLimit
<1> QED
  BY <1>1, <1>2, <1>3, <1>4, <1>5, <1>6, <1>7, <1>8 DEF ContStep

LEMMA NextType == TypeOK /\ ArgInv /\ ForkInv /\ [Next]_vars => TypeOK'
<1>1. ASSUME TypeOK, UNCHANGED vars PROVE TypeOK'
  BY <1>1 DEF TypeOK, vars
<1> QED
  BY <1>1, SchedStepType, ProcStepType, ContStepType, WakeupType DEF Next, CpuStep, MyProc

-----------------------------------------------------------------------------
(* The rest of IInv.  Most of what a call does concerns only its frame and *)
(* containers: the process table, the CPUs and the lock stay, and the step *)
(* the caller goes to is neither one under ptable.lock nor one of fork's.  *)
Quiet(p) ==
  /\ UNCHANGED <<proc, cpu, ptlock, nextpid>>
  /\ \A q \in Process : q # p => call'[q] = call[q]
  /\ call'[p].op \notin LockedOps \cup ForkOps
  /\ call'[p].op \in {"createAlloc", "createFill"} => call'[p].val \in 0..NPROC
  /\ call'[p].op \in {"forkAlloc", "createFill"} => call'[p].cont \in Slot

LEMMA QuietInv ==
  ASSUME IInv, NEW p \in Process, Quiet(p)
  PROVE  ArgInv' /\ CpuInv' /\ ForkInv' /\ PidInv'
<1> USE DEF IInv, Quiet, ForkOps, LockedOps
<1>1. ArgInv'
  BY SMTT(60) DEF ArgInv
<1>2. CpuInv'
  BY SMTT(60) DEF CpuInv
<1>3. ForkInv'
  BY DEF ForkInv
<1>4. PidInv'
  BY DEF PidInv
<1> QED
  BY <1>1, <1>2, <1>3, <1>4

LEMMA ReturnQuiet ==
  ASSUME TypeOK, NEW p \in Process, Return(p), UNCHANGED <<proc, cpu, ptlock, nextpid>>
  PROVE  Quiet(p)
BY DEF TypeOK, Return, User, Frame, Quiet, LockedOps, ForkOps

LEMMA CheckedQuiet ==
  ASSUME TypeOK, NEW p \in Process, NEW s, NEW op \in {"cstart", "cstop", "cpause", "cresume"},
         Checked(p, op, s), UNCHANGED <<proc, cpu, ptlock, nextpid>>
  PROVE  Quiet(p)
<1>1. call'[p].op = op /\ \A q \in Process : q # p => call'[q] = call[q]
  BY DEF TypeOK, Checked, Frame
<1> QED
  BY <1>1 DEF Quiet, LockedOps, ForkOps

LEMMA ContStepQuiet ==
  ASSUME IInv, NEW c \in CPU, NEW p \in Process, ContStep(c, p)
  PROVE  Quiet(p)
<1> USE DEF IInv
<1>1. ASSUME NEW name \in Names, NEW mproc \in Mprocs, Ccreate(c, p, name, mproc) PROVE Quiet(p)
  <2>1. /\ call'[p].op = "createAlloc" /\ call'[p].val = mproc
        /\ \A q \in Process : q # p => call'[q] = call[q]
    BY <1>1, SMTT(60) DEF TypeOK, Ccreate, Frame
  <2> QED
    BY <1>1, <2>1, ContainerAssumption DEF Ccreate, Quiet, LockedOps, ForkOps
<1>2. ASSUME NEW name \in Names, Cstart(c, p, name) PROVE Quiet(p)
  BY <1>2, CheckedQuiet DEF Cstart
<1>3. ASSUME NEW name, Cstop(c, p, name) \/ Cpause(c, p, name) \/ Cresume(c, p, name)
      PROVE  Quiet(p)
  BY <1>3, CheckedQuiet DEF Cstop, Cpause, Cresume, Administer
<1>4. CASE AllocCont(c, p)
  <2>1. CASE Return(p)
    BY <1>4, <2>1, ReturnQuiet DEF AllocCont
  <2>2. ASSUME NEW s \in Slot, call' = [call EXCEPT ![p].op = "createFill", ![p].cont = s]
        PROVE  Quiet(p)
    <3>1. /\ call'[p].op = "createFill" /\ call'[p].cont = s /\ call'[p].val = call[p].val
          /\ \A q \in Process : q # p => call'[q] = call[q]
      BY <2>2, ZenonT(60) DEF TypeOK, CallRec
    <3>2. call[p].val \in 0..NPROC
      BY <1>4 DEF AllocCont, At, ArgInv
    <3> QED
      BY <1>4, <3>1, <3>2 DEF AllocCont, Quiet, LockedOps, ForkOps
  <2> QED
    BY <1>4, <2>1, <2>2, ZenonT(60) DEF AllocCont, Lowest
<1>5. CASE CcreateFill(c, p) \/ CstartSet(c, p) \/ CstopSet(c, p) \/ CpauseSet(c, p)
           \/ CresumeSet(c, p)
  BY <1>5, ReturnQuiet, ZenonT(60)
  DEF CcreateFill, CstartSet, CstopSet, CpauseSet, CresumeSet, SetState
<1>6. CASE OverLimit(c, p)
  BY <1>6 DEF OverLimit, Syscall, At, Quiet, LockedOps, ForkOps
<1> QED
  BY <1>1, <1>2, <1>3, <1>4, <1>5, <1>6 DEF ContStep

(* The scheduler. *)
LEMMA SchedInv ==
  ASSUME IInv, NEW c \in CPU, SchedStep(c)
  PROVE  ArgInv' /\ CpuInv' /\ ForkInv' /\ PidInv'
<1> USE DEF IInv
<1>0. Nil \notin CPU /\ Nil \notin Process
  BY ProcAssumption, SlotType
<1>1. CASE SchedAcquire(c)
  <2>1. /\ cpu'[c].pc = "scan" /\ cpu'[c].proc = cpu[c].proc
        /\ \A d \in CPU : d # c => cpu'[d] = cpu[d]
    BY <1>1, Zenon DEF SchedAcquire, TypeOK, CpuRec
  <2>a. /\ cpu[c].pc = "idle" /\ ptlock = Nil /\ ptlock' = c
        /\ UNCHANGED <<proc, call>>
    BY <1>1, SMTT(60) DEF SchedAcquire
  <2>2. CpuInv'
    BY <1>0, <2>a, <2>1, SMTT(60) DEF CpuInv, LockedOps
  <2> QED
    BY <1>1, <2>2 DEF SchedAcquire, ArgInv, ForkInv, PidInv
<1>2. CASE SchedRelease(c)
  <2>1. CpuInv'
    BY <1>0, <1>2, SMTT(60) DEF SchedRelease, CpuInv, LockedOps, TypeOK, CpuRec
  <2> QED
    BY <1>2, <2>1 DEF SchedRelease, ArgInv, ForkInv, PidInv
<1>3. ASSUME NEW s \in Slot, SchedSkip(c, s) PROVE ArgInv' /\ CpuInv' /\ ForkInv' /\ PidInv'
  <2>1. CpuInv'
    BY <1>3, SMTT(60) DEF SchedSkip, CpuInv, LockedOps, TypeOK, CpuRec
  <2> QED
    BY <1>3, <2>1 DEF SchedSkip, ArgInv, ForkInv, PidInv
<1>4. ASSUME NEW s \in Slot, SchedBack(c, s) PROVE ArgInv' /\ CpuInv' /\ ForkInv' /\ PidInv'
  <2>1. CpuInv'
    BY <1>0, <1>4, SMTT(60) DEF SchedBack, CpuInv, LockedOps, TypeOK, CpuRec
  <2> QED
    BY <1>4, <2>1 DEF SchedBack, ArgInv, ForkInv, PidInv
<1>5. ASSUME NEW s \in Slot, NEW p \in Process, SchedRun(c, s, p)
      PROVE  ArgInv' /\ CpuInv' /\ ForkInv' /\ PidInv'
  <2>1. /\ proc'[p].state = "RUNNING" /\ proc'[p].pid = proc[p].pid
        /\ \A q \in Process : q # p => proc'[q] = proc[q]
    BY <1>5, ZenonT(60) DEF SchedRun, TypeOK, ProcRec
  <2>2. /\ cpu'[c].pc = "run" /\ cpu'[c].proc = p
        /\ \A d \in CPU : d # c => cpu'[d] = cpu[d]
    BY <1>5, Zenon DEF SchedRun, TypeOK, CpuRec
  <2>3. ptlock = c /\ proc[p].state = "RUNNABLE"
    BY <1>5, SMTT(60) DEF SchedRun, Scanning, CpuInv
  <2>4. \A d \in CPU : d # c => cpu[d].proc # p
    BY <1>0, <2>3, SMTT(60) DEF CpuInv, TypeOK, CpuRec
  <2>a. /\ ptlock' = IF call[p].op = "wait" THEN c ELSE Nil
        /\ UNCHANGED <<call, nextpid>>
    BY <1>5, SMTT(60) DEF SchedRun
  <2>5. CpuInv'
    <3>0. cpu[c].pc = "scan"
      BY <1>5 DEF SchedRun, Scanning
    <3>1. call[p].op # "exitStore"
      BY <2>3, SMTT(60) DEF CpuInv
    <3>2. \A d \in CPU : d # c =>
            /\ cpu[d].pc \in {"idle", "run"}
            /\ cpu[d].pc = "run" => call[cpu[d].proc].op \notin LockedOps
      BY <2>3, SMTT(60) DEF CpuInv, TypeOK, CpuRec
    <3>3. \A q \in Process : proc'[q].state = "RUNNING" =>
            \E d \in CPU : cpu'[d].pc = "run" /\ cpu'[d].proc = q
      BY <2>1, <2>2, <3>0, SMTT(60) DEF CpuInv
    <3>4. ASSUME NEW d \in CPU
          PROVE  /\ cpu'[d].pc \in {"scan", "back"} => ptlock' = d
                 /\ cpu'[d].pc \in {"idle", "scan"} => cpu'[d].proc = Nil
                 /\ cpu'[d].pc \in {"run", "back"} => cpu'[d].proc \in Process
                 /\ cpu'[d].pc = "run" => proc'[cpu'[d].proc].state = "RUNNING"
                 /\ cpu'[d].pc = "run" /\ call'[cpu'[d].proc].op \in LockedOps => ptlock' = d
      <4>1. CASE d = c
        BY <2>1, <2>2, <2>a, <3>1, <4>1, SMTT(60) DEF LockedOps
      <4>2. CASE d # c
        <5>1. cpu[d].pc = "run" => proc'[cpu[d].proc] = proc[cpu[d].proc]
          <6>1. cpu[d].pc = "run" => cpu[d].proc \in Process
            BY SMTT(60) DEF CpuInv
          <6> QED
            BY <2>1, <2>4, <4>2, <6>1, SMTT(60)
        <5>2. /\ cpu[d].pc = "idle" => cpu[d].proc = Nil
              /\ cpu[d].pc = "run" => cpu[d].proc \in Process
              /\ cpu[d].pc = "run" => proc[cpu[d].proc].state = "RUNNING"
          BY SMTT(60) DEF CpuInv
        <5>3. cpu'[d] = cpu[d] /\ call' = call
          BY <2>2, <2>a, <4>2, SMTT(60)
        <5> QED
          BY <3>2, <4>2, <5>1, <5>2, <5>3
      <4> QED
        BY <4>1, <4>2, SMTT(60)
    <3>5. \A d, e \in CPU : d # e /\ cpu'[d].proc # Nil => cpu'[d].proc # cpu'[e].proc
      BY <1>0, <2>2, <2>4, SMTT(60) DEF CpuInv
    <3>6. \A q \in Process : call'[q].op = "exitStore" => proc'[q].state = "RUNNING"
      BY <2>1, <2>a, SMTT(60) DEF CpuInv
    <3> QED
      BY <3>3, <3>4, <3>5, <3>6, SMTT(60) DEF CpuInv
  <2>6. ForkInv'
    <3>1. \A q \in Process : call[q].op \in ForkOps => call[q].np # p
      BY <2>3 DEF ForkInv
    <3> QED
      BY <2>1, <2>a, <3>1 DEF ForkInv
  <2>b. \A q \in Process : proc'[q].pid = proc[q].pid
    BY <2>1
  <2>c. \A q \in Process : proc'[q].state # "UNUSED" => proc[q].state # "UNUSED"
    BY <2>1, <2>3
  <2>7. PidInv'
    BY <2>a, <2>b, <2>c DEF PidInv
  <2> QED
    BY <1>5, <2>5, <2>6, <2>7 DEF SchedRun, ArgInv
<1> QED
  BY <1>1, <1>2, <1>3, <1>4, <1>5 DEF SchedStep

(* What is enough to keep each part of IInv. *)
ArgKept ==
  \A q \in Process :
    \/ call'[q] = call[q]
    \/ call'[q].op \notin ForkOps \cup {"forkAlloc", "createAlloc", "createFill"}
    \/ /\ call[q].op \in ForkOps \cup {"forkAlloc"} /\ call'[q].op \in ForkOps
       /\ call'[q].cont = call[q].cont

ForkKept ==
  \A q \in Process : call'[q].op \in ForkOps =>
    /\ call[q].op \in ForkOps /\ call'[q].np = call[q].np
    /\ proc[call[q].np].state = "EMBRYO" => proc'[call[q].np].state = "EMBRYO"

PidKept ==
  /\ nextpid' = nextpid
  /\ \A q \in Process :
       \/ /\ proc'[q].pid = proc[q].pid
          /\ proc[q].state = "UNUSED" => proc'[q].state = "UNUSED"
       \/ proc'[q].pid = 0 /\ proc'[q].state = "UNUSED"

(* Process p goes on running on CPU c, possibly taking or releasing the    *)
(* lock.                                                                   *)
Stays(c, p) ==
  /\ cpu[c].pc = "run" /\ cpu[c].proc = p
  /\ UNCHANGED cpu
  /\ ptlock' = ptlock \/ ptlock \in {Nil, c}
  /\ \A q \in Process : proc'[q].state = "RUNNING" <=> proc[q].state = "RUNNING"
  /\ \A q \in Process : q # p => call'[q].op = call[q].op \/ call'[q].op = "user"
  /\ call'[p].op \in LockedOps => ptlock' = c

(* Process p gives up CPU c. *)
Leaves(c, p) ==
  /\ cpu[c].pc = "run" /\ cpu[c].proc = p
  /\ ptlock \in {Nil, c}
  /\ Sched(c)
  /\ proc'[p].state # "RUNNING"
  /\ \A q \in Process : q # p => proc'[q] = proc[q] /\ call'[q] = call[q]
  /\ call'[p].op # "exitStore"

LEMMA KeptInv ==
  ASSUME IInv
  PROVE  /\ ArgKept => ArgInv'
         /\ ForkKept => ForkInv'
         /\ PidKept => PidInv'
<1> USE DEF IInv
<1>1. ASSUME ArgKept PROVE ArgInv'
  BY <1>1 DEF ArgKept, ArgInv, ForkOps
<1>2. ASSUME ForkKept PROVE ForkInv'
  BY <1>2 DEF ForkKept, ForkInv
<1>3. ASSUME PidKept PROVE PidInv'
  BY <1>3, SMTT(60) DEF PidKept, PidInv, TypeOK, ProcRec
<1> QED
  BY <1>1, <1>2, <1>3

LEMMA StaysInv ==
  ASSUME IInv, NEW c \in CPU, NEW p \in Process, Stays(c, p)
  PROVE  CpuInv'
<1> USE DEF IInv
<1>0. Nil \notin CPU /\ Nil \notin Process
  BY ProcAssumption, SlotType, SMTT(60)
<1>1. ASSUME NEW d \in CPU
      PROVE  /\ cpu'[d].pc \in {"scan", "back"} => ptlock' = d
             /\ cpu'[d].pc \in {"idle", "scan"} => cpu'[d].proc = Nil
             /\ cpu'[d].pc \in {"run", "back"} => cpu'[d].proc \in Process
             /\ cpu'[d].pc = "run" => proc'[cpu'[d].proc].state = "RUNNING"
             /\ cpu'[d].pc = "run" /\ call'[cpu'[d].proc].op \in LockedOps => ptlock' = d
  <2>1. CASE d = c
    BY <2>1, SMTT(60) DEF Stays, CpuInv
  <2>2. CASE d # c
    <3>1. cpu[d].pc = "run" => cpu[d].proc \in Process /\ cpu[d].proc # p
      BY <1>0, <2>2, SMTT(60) DEF Stays, CpuInv
    <3>2. cpu[d].pc = "run" /\ call'[cpu[d].proc].op \in LockedOps
            => call[cpu[d].proc].op \in LockedOps
      BY <3>1 DEF Stays, LockedOps
    <3>3. /\ cpu[d].pc \in {"scan", "back"} => ptlock = d
          /\ cpu[d].pc \in {"idle", "scan"} => cpu[d].proc = Nil
          /\ cpu[d].pc \in {"run", "back"} => cpu[d].proc \in Process
          /\ cpu[d].pc = "run" => proc[cpu[d].proc].state = "RUNNING"
          /\ cpu[d].pc = "run" /\ call[cpu[d].proc].op \in LockedOps => ptlock = d
      BY SMTT(60) DEF CpuInv
    <3>4. /\ ptlock = d => ptlock' = d
          /\ cpu'[d] = cpu[d]
          /\ cpu[d].pc = "run" => proc'[cpu[d].proc].state = "RUNNING"
      BY <1>0, <2>2, <3>3 DEF Stays
    <3> QED
      BY <3>2, <3>3, <3>4, SMTT(60)
  <2> QED
    BY <2>1, <2>2, SMTT(60)
<1>2. \A q \in Process : call'[q].op = "exitStore" => proc'[q].state = "RUNNING"
  BY SMTT(60) DEF Stays, CpuInv
<1>3. /\ \A q \in Process : proc'[q].state = "RUNNING" =>
           \E d \in CPU : cpu'[d].pc = "run" /\ cpu'[d].proc = q
      /\ \A d, e \in CPU : d # e /\ cpu'[d].proc # Nil => cpu'[d].proc # cpu'[e].proc
  BY SMTT(60) DEF Stays, CpuInv
<1> QED
  BY <1>1, <1>2, <1>3, SMTT(60) DEF CpuInv

LEMMA LeavesInv ==
  ASSUME IInv, NEW c \in CPU, NEW p \in Process, Leaves(c, p)
  PROVE  CpuInv'
<1> USE DEF IInv
<1>0. Nil \notin CPU /\ Nil \notin Process
  BY ProcAssumption, SlotType
<1>a. /\ cpu'[c].pc = "back" /\ cpu'[c].proc = p /\ ptlock' = c
      /\ \A d \in CPU : d # c => cpu'[d] = cpu[d]
  BY SMTT(60) DEF Leaves, Sched, TypeOK, CpuRec
<1>1. ASSUME NEW d \in CPU
      PROVE  /\ cpu'[d].pc \in {"scan", "back"} => ptlock' = d
             /\ cpu'[d].pc \in {"idle", "scan"} => cpu'[d].proc = Nil
             /\ cpu'[d].pc \in {"run", "back"} => cpu'[d].proc \in Process
             /\ cpu'[d].pc = "run" => proc'[cpu'[d].proc].state = "RUNNING"
             /\ cpu'[d].pc = "run" /\ call'[cpu'[d].proc].op \in LockedOps => ptlock' = d
  <2>1. CASE d = c
    BY <1>a, <2>1, SMTT(60)
  <2>2. CASE d # c
    <3>1. cpu[d].pc = "run" => cpu[d].proc \in Process /\ cpu[d].proc # p
      BY <1>0, <2>2, SMTT(60) DEF Leaves, CpuInv
    <3>2. cpu[d].pc = "run" => /\ proc'[cpu[d].proc] = proc[cpu[d].proc]
                               /\ call'[cpu[d].proc] = call[cpu[d].proc]
      BY <3>1 DEF Leaves
    <3>3. /\ cpu[d].pc \in {"scan", "back"} => ptlock = d
          /\ cpu[d].pc \in {"idle", "scan"} => cpu[d].proc = Nil
          /\ cpu[d].pc \in {"run", "back"} => cpu[d].proc \in Process
          /\ cpu[d].pc = "run" => proc[cpu[d].proc].state = "RUNNING"
          /\ cpu[d].pc = "run" /\ call[cpu[d].proc].op \in LockedOps => ptlock = d
      BY SMTT(60) DEF CpuInv
    <3>4. ptlock # d
      BY <1>0, <2>2, SMTT(60) DEF Leaves
    <3> QED
      BY <1>a, <2>2, <3>2, <3>3, <3>4, SMTT(60)
  <2> QED
    BY <2>1, <2>2
<1>2. \A q \in Process : call'[q].op = "exitStore" => proc'[q].state = "RUNNING"
  BY SMTT(60) DEF Leaves, CpuInv
<1>3. \A q \in Process : proc'[q].state = "RUNNING" =>
        \E d \in CPU : cpu'[d].pc = "run" /\ cpu'[d].proc = q
  BY <1>a, SMTT(60) DEF Leaves, CpuInv
<1>4. \A d, e \in CPU : d # e /\ cpu'[d].proc # Nil => cpu'[d].proc # cpu'[e].proc
  BY <1>a, SMTT(60) DEF Leaves, CpuInv
<1> QED
  BY <1>1, <1>2, <1>3, <1>4, SMTT(60) DEF CpuInv

(* Actions in which a process gives up its CPU. *)
LEMMA LeaveActions ==
  ASSUME IInv, NEW c \in CPU, NEW p \in Process,
         Yield(c, p) \/ ExitStore(c, p) \/ WaitSleep(c, p) \/ Sleep(c, p)
  PROVE  ArgInv' /\ CpuInv' /\ ForkInv' /\ PidInv'
<1> USE DEF IInv
<1>0. Nil \notin CPU /\ proc \in [Process -> ProcRec] /\ call \in [Process -> CallRec]
  BY ProcAssumption DEF TypeOK
<1>1. cpu[c].pc = "run" /\ cpu[c].proc = p /\ proc[p].state = "RUNNING"
  BY SMTT(60) DEF Yield, ExitStore, WaitSleep, Sleep, At, CpuInv
<1>2. ptlock \in {Nil, c}
  BY <1>1, SMTT(60) DEF Yield, ExitStore, WaitSleep, Sleep, At, CpuInv, LockedOps
<1>3. /\ proc'[p].state \in {"RUNNABLE", "ZOMBIE", "SLEEPING"} /\ proc'[p].pid = proc[p].pid
      /\ \A q \in Process : q # p => proc'[q] = proc[q]
  BY <1>0 DEF Yield, ExitStore, WaitSleep, Sleep, ProcRec
<1>4. /\ call'[p] = call[p] \/ call'[p].op \in {"user", "woken"}
      /\ \A q \in Process : q # p => call'[q] = call[q]
  BY <1>0 DEF Yield, ExitStore, WaitSleep, Sleep, Goto, Return, User, Frame, CallRec
<1>5. call'[p].op # "exitStore"
  <2>1. CASE Yield(c, p)
    BY <1>0, <1>1, <2>1, SMTT(60) DEF Yield, CpuInv, LockedOps
  <2>2. CASE ExitStore(c, p) \/ WaitSleep(c, p) \/ Sleep(c, p)
    BY <1>0, <1>4, <2>2 DEF ExitStore, WaitSleep, Sleep, At, Goto, Return, User, Frame, CallRec
  <2> QED
    BY <2>1, <2>2
<1>6. Leaves(c, p)
  BY <1>1, <1>2, <1>3, <1>4, <1>5, SMTT(60) DEF Leaves, Yield, ExitStore, WaitSleep, Sleep
<1>7. ArgKept
  BY <1>4, SMTT(60) DEF ArgKept, ForkOps
<1>8. ForkKept
  <2>1. \A q \in Process : call[q].op \in ForkOps => call[q].np \in Process \ {p}
    BY <1>1 DEF ForkInv
  <2> QED
    BY <1>3, <1>4, <2>1, SMTT(60) DEF ForkKept, ForkOps
<1>9. PidKept
  <2>1. nextpid' = nextpid
    BY DEF Yield, ExitStore, WaitSleep, Sleep
  <2> QED
    BY <1>1, <1>3, <2>1 DEF PidKept
<1> QED
  BY <1>6, <1>7, <1>8, <1>9, LeavesInv, KeptInv, SMTT(60)

(* Actions that change no entry except to wake sleepers or mark one killed.*)
Woken ==
  \A q \in Process :
    /\ proc'[q].pid = proc[q].pid
    /\ \/ proc'[q].state = proc[q].state
       \/ proc[q].state = "SLEEPING" /\ proc'[q].state = "RUNNABLE"

LEMMA WokenKept ==
  ASSUME IInv, Woken,
         \A q \in Process : call'[q] = call[q] \/ call'[q].op \in {"user", "wait", "exitStore"},
         nextpid' = nextpid
  PROVE  ArgInv' /\ ForkInv' /\ PidInv'
<1> USE DEF IInv
<1>1. ArgKept
  BY DEF ArgKept, ForkOps
<1>2. ForkKept
  <2>1. \A q \in Process : call[q].op \in ForkOps => call[q].np \in Process
    BY DEF ForkInv
  <2> QED
    BY <2>1 DEF ForkKept, ForkOps, Woken
<1>3. PidKept
  BY DEF PidKept, Woken
<1> QED
  BY <1>1, <1>2, <1>3, KeptInv

LEMMA Wakeup1Woken ==
  ASSUME NEW pr \in [Process -> ProcRec], NEW chans, NEW q \in Process
  PROVE  /\ Wakeup1(pr, chans)[q].pid = pr[q].pid
         /\ \/ Wakeup1(pr, chans)[q].state = pr[q].state
            \/ pr[q].state = "SLEEPING" /\ Wakeup1(pr, chans)[q].state = "RUNNABLE"
BY DEF Wakeup1, ProcRec

LEMMA WakeupInv ==
  ASSUME IInv, Wakeup
  PROVE  ArgInv' /\ CpuInv' /\ ForkInv' /\ PidInv'
<1> USE DEF IInv
<1>1. Woken /\ UNCHANGED <<cpu, ptlock, call, nextpid>>
  BY Wakeup1Woken, SMTT(60) DEF Woken, Wakeup, TypeOK
<1>2. CpuInv'
  <2>1. \A q \in Process : proc'[q].state = "RUNNING" <=> proc[q].state = "RUNNING"
    BY <1>1, SMTT(60) DEF Woken
  <2> QED
    BY <1>1, <2>1, SMTT(60) DEF CpuInv
<1> QED
  BY <1>1, <1>2, WokenKept, SMTT(60)

(* exit(), wait() and kill() as long as the process keeps its CPU. *)
LEMMA StayActions ==
  ASSUME IInv, NEW c \in CPU, NEW p \in Process,
         \/ Exit(c, p) \/ Wait(c, p) \/ WaitFails(c, p)
         \/ \E q \in Process : Kill(c, p, proc[q].pid)
  PROVE  ArgInv' /\ CpuInv' /\ ForkInv' /\ PidInv'
<1> USE DEF IInv
<1>0. Nil \notin CPU /\ proc \in [Process -> ProcRec] /\ call \in [Process -> CallRec]
  BY ProcAssumption DEF TypeOK
<1>1. /\ cpu[c].pc = "run" /\ cpu[c].proc = p
      /\ UNCHANGED <<cpu, nextpid>>
  BY SMTT(60) DEF Exit, Wait, WaitFails, Kill, Syscall, At
<1>2. /\ ptlock \in {Nil, c}
      /\ call'[p] = call[p] \/ call'[p].op \in {"user", "wait", "exitStore"}
      /\ call'[p].op \in LockedOps => ptlock' = c
      /\ \A q \in Process : q # p => call'[q] = call[q]
  <2>1. CASE Exit(c, p)
    BY <1>0, <2>1 DEF Exit, CallRec
  <2>2. CASE Wait(c, p)
    BY <1>0, <2>2, SMTT(60) DEF Wait, CallRec
  <2>3. CASE WaitFails(c, p)
    <3>1. ptlock = c
      BY <2>3, LockHeld DEF WaitFails
    <3> QED
      BY <1>0, <2>3, <3>1, SMTT(60) DEF WaitFails, Return, User, Frame, LockedOps
  <2>4. ASSUME NEW pid, Kill(c, p, pid) PROVE <1>2!:
    BY <2>4 DEF Kill, Syscall, At, LockedOps
  <2> QED
    BY <2>1, <2>2, <2>3, <2>4
<1>3. Woken
  <2>1. CASE Exit(c, p)
    <3> DEFINE handed == [q \in Process |-> IF q \in Children(p)
                                              THEN [proc[q] EXCEPT !.parent = initproc]
                                              ELSE proc[q]]
    <3>1. handed \in [Process -> ProcRec]
      BY <1>0, SlotType, ParentType
    <3>2. \A q \in Process : handed[q].pid = proc[q].pid /\ handed[q].state = proc[q].state
      BY <1>0 DEF ProcRec
    <3> HIDE DEF handed
    <3>3. PICK chans : proc' = Wakeup1(handed, chans)
      BY <2>1, ZenonT(60) DEF Exit, handed
    <3> QED
      BY <3>1, <3>2, <3>3, Wakeup1Woken DEF Woken
  <2>2. CASE Wait(c, p) \/ WaitFails(c, p)
    BY <2>2 DEF Wait, WaitFails, Woken
  <2>3. ASSUME NEW pid, Kill(c, p, pid) PROVE Woken
    <3>1. PICK q \in Process :
            proc' = [proc EXCEPT ![q].killed = TRUE,
                                 ![q].state = IF @ = "SLEEPING" THEN "RUNNABLE" ELSE @]
      BY <2>3, ZenonT(60) DEF Kill, First, Table
    <3> QED
      BY <1>0, <3>1 DEF Woken, ProcRec
  <2> QED
    BY <2>1, <2>2, <2>3, SMTT(60)
<1>4. Stays(c, p)
  BY <1>1, <1>2, <1>3 DEF Stays, Woken
<1> QED
  BY <1>1, <1>2, <1>3, <1>4, StaysInv, WokenKept, SMTT(60)

LEMMA WaitReapInv ==
  ASSUME IInv, NEW c \in CPU, NEW p \in Process, WaitReap(c, p)
  PROVE  ArgInv' /\ CpuInv' /\ ForkInv' /\ PidInv'
<1> USE DEF IInv
<1>0. proc \in [Process -> ProcRec] /\ call \in [Process -> CallRec]
  BY SMTT(60) DEF TypeOK
<1>1. PICK z \in Process : proc[z].state = "ZOMBIE" /\ proc' = [proc EXCEPT ![z] = FreeProc]
  BY ZenonT(60) DEF WaitReap, First, ZombieKids, Kids
<1>2. /\ proc'[z].state = "UNUSED" /\ proc'[z].pid = 0
      /\ \A q \in Process : q # z => proc'[q] = proc[q]
  BY <1>0, <1>1 DEF FreeProc
<1>3. call'[p].op = "user" /\ \A q \in Process : q # p => call'[q] = call[q]
  BY <1>0, SMTT(60) DEF WaitReap, Return, User, Frame
<1>4. cpu[c].pc = "run" /\ cpu[c].proc = p /\ ptlock = c /\ UNCHANGED <<cpu, nextpid>>
  BY LockHeld, SMTT(60) DEF WaitReap, At
<1>5. Stays(c, p)
  BY <1>1, <1>2, <1>3, <1>4, SMTT(60) DEF Stays, LockedOps
<1>6. ArgKept
  BY <1>3, SMTT(60) DEF ArgKept, ForkOps
<1>7. ForkKept
  <2>1. \A q \in Process : call[q].op \in ForkOps => call[q].np \in Process \ {z}
    BY <1>1 DEF ForkInv
  <2> QED
    BY <1>2, <1>3, <2>1, SMTT(60) DEF ForkKept, ForkOps
<1>8. PidKept
  BY <1>2, <1>4 DEF PidKept
<1> QED
  BY <1>5, <1>6, <1>7, <1>8, StaysInv, KeptInv

(* System calls and returns that touch only the caller's frame. *)
LEMMA ProcQuiet ==
  ASSUME IInv, NEW c \in CPU, NEW p \in Process,
         \/ Fork(c, p) \/ (\E s \in Slot : Cfork(c, p, cont[s].cid)) \/ AllocProcFull(c, p)
         \/ ExitStart(c, p) \/ Block(c, p) \/ Unblock(c, p)
  PROVE  Quiet(p)
<1> USE DEF IInv
<1>0. call \in [Process -> CallRec]
  BY DEF TypeOK
<1>1. ASSUME NEW s \in Slot, NEW par, ForkStart(c, p, s, par) PROVE Quiet(p)
  <2>1. /\ call'[p].op = "forkAlloc" /\ call'[p].cont = s
        /\ \A q \in Process : q # p => call'[q] = call[q]
    BY <1>0, <1>1 DEF ForkStart, Frame
  <2> QED
    BY <1>1, <2>1 DEF ForkStart, Quiet, LockedOps, ForkOps
<1>2. CASE Fork(c, p)
  BY <1>1, <1>2, SMTT(60) DEF Fork, Process
<1>3. ASSUME NEW cid, Cfork(c, p, cid) PROVE Quiet(p)
  BY <1>1, <1>3, SMTT(60) DEF Cfork, Lowest, Cid2Cont
<1>4. CASE AllocProcFull(c, p) \/ Unblock(c, p)
  BY <1>4, ReturnQuiet DEF AllocProcFull, Unblock
<1>5. CASE ExitStart(c, p) \/ Block(c, p)
  BY <1>0, <1>5 DEF ExitStart, Block, Goto, CallRec, Quiet, LockedOps, ForkOps
<1> QED
  BY <1>2, <1>3, <1>4, <1>5

LEMMA AllocProcInv ==
  ASSUME IInv, NEW c \in CPU, NEW p \in Process, AllocProc(c, p)
  PROVE  ArgInv' /\ CpuInv' /\ ForkInv' /\ PidInv'
<1> USE DEF IInv
<1>0. /\ proc \in [Process -> ProcRec] /\ call \in [Process -> CallRec] /\ nextpid \in Nat
      /\ \A q \in Process : proc[q].pid \in Nat
  BY DEF TypeOK, ProcRec
<1>1. PICK np \in First(Unused(call[p].cont)) :
        /\ proc' = [proc EXCEPT ![np].state = "EMBRYO", ![np].pid = nextpid]
        /\ call' = [call EXCEPT ![p].op = "forkStack", ![p].np = np]
  BY ZenonT(60) DEF AllocProc
<1>2. np \in Process /\ proc[np].state = "UNUSED"
  BY DEF First, Unused, Table
<1>3. /\ proc'[np].state = "EMBRYO" /\ proc'[np].pid = nextpid
      /\ \A q \in Process : q # np => proc'[q] = proc[q]
  BY <1>0, <1>1, <1>2 DEF ProcRec
<1>4. /\ call'[p].op = "forkStack" /\ call'[p].np = np /\ call'[p].cont = call[p].cont
      /\ \A q \in Process : q # p => call'[q] = call[q]
  BY <1>0, <1>1, ZenonT(60) DEF CallRec
<1>5. /\ cpu[c].pc = "run" /\ cpu[c].proc = p /\ call[p].op = "forkAlloc"
      /\ UNCHANGED <<cpu, ptlock>> /\ nextpid' = nextpid + 1
  BY SMTT(60) DEF AllocProc, At
<1>6. Stays(c, p)
  BY <1>2, <1>3, <1>4, <1>5, SMTT(60) DEF Stays, LockedOps
<1>7. ArgKept
  BY <1>4, <1>5, SMTT(60) DEF ArgKept, ForkOps
<1>8. ForkInv'
  <2>1. \A q \in Process : call[q].op \in ForkOps => call[q].np \in Process \ {np}
    BY <1>2, SMTT(60) DEF ForkInv
  <2> QED
    BY <1>2, <1>3, <1>4, <2>1, SMTT(60) DEF ForkInv
<1>9. PidInv'
  BY <1>0, <1>2, <1>3, <1>5, SMTT(60) DEF PidInv
<1> QED
  BY <1>6, <1>7, <1>8, <1>9, StaysInv, KeptInv

(* The later steps of fork(), on the caller's own EMBRYO. *)
LEMMA ForkActions ==
  ASSUME IInv, NEW c \in CPU, NEW p \in Process,
         ForkFails(c, p) \/ ForkLoad(c, p) \/ ForkStore(c, p) \/ ForkCopy(c, p) \/ ForkReady(c, p)
  PROVE  ArgInv' /\ CpuInv' /\ ForkInv' /\ PidInv'
<1> USE DEF IInv
<1> DEFINE np == call[p].np
<1>0. /\ proc \in [Process -> ProcRec] /\ call \in [Process -> CallRec]
  BY SMTT(60) DEF TypeOK
<1>1. /\ cpu[c].pc = "run" /\ cpu[c].proc = p /\ call[p].op \in ForkOps
      /\ UNCHANGED <<cpu, ptlock, nextpid>>
  BY SMTT(60) DEF ForkFails, ForkLoad, ForkStore, ForkCopy, ForkReady, At, ForkOps
<1>2. np \in Process /\ proc[np].state = "EMBRYO" /\ proc[p].state = "RUNNING"
  BY <1>1, ZenonT(60) DEF ForkInv, CpuInv
<1>3. \A q \in Process : q # p /\ call[q].op \in ForkOps => call[q].np \in Process \ {np}
  BY <1>1 DEF ForkInv
<1>4. ASSUME NEW st \in {"UNUSED", "EMBRYO", "RUNNABLE"},
             proc'[np].state = st, proc'[np].pid = proc[np].pid,
             \A q \in Process : q # np => proc'[q] = proc[q],
             \A q \in Process : q # p => call'[q] = call[q] \/ call'[q].op = "user",
             \/ call'[p].op = "user"
             \/ /\ call'[p].op \in ForkOps /\ st = "EMBRYO"
                /\ call'[p].np = np /\ call'[p].cont = call[p].cont
      PROVE  ArgInv' /\ CpuInv' /\ ForkInv' /\ PidInv'
  <2>1. Stays(c, p)
    BY <1>1, <1>2, <1>4, SMTT(60) DEF Stays, LockedOps, ForkOps
  <2>2. ArgKept
    BY <1>1, <1>4, SMTT(60) DEF ArgKept, ForkOps
  <2>3. ForkKept
    <3>1. ASSUME NEW q \in Process, call'[q].op \in ForkOps
          PROVE  /\ call[q].op \in ForkOps /\ call'[q].np = call[q].np
                 /\ proc[call[q].np].state = "EMBRYO" => proc'[call[q].np].state = "EMBRYO"
      <4>1. CASE q = p
        BY <1>1, <1>4, <3>1, <4>1, ZenonT(60) DEF ForkOps
      <4>2. CASE q # p
        BY <1>3, <1>4, <3>1, <4>2, SMTT(60) DEF ForkOps
      <4> QED
        BY <4>1, <4>2, SMTT(60)
    <3> QED
      BY <3>1, SMTT(60) DEF ForkKept
  <2>4. PidKept
    BY <1>1, <1>2, <1>4, ZenonT(60) DEF PidKept
  <2> QED
    BY <2>1, <2>2, <2>3, <2>4, StaysInv, KeptInv, SMTT(60)
<1>5. CASE ForkFails(c, p)
  <2>1. /\ proc'[np].state = "UNUSED" /\ proc'[np].pid = proc[np].pid
        /\ \A q \in Process : q # np => proc'[q] = proc[q]
    BY <1>0, <1>2, <1>5 DEF ForkFails, ProcRec
  <2>2. call'[p].op = "user" /\ \A q \in Process : q # p => call'[q] = call[q]
    BY <1>0, <1>5, SMTT(60) DEF ForkFails, Return, User, Frame
  <2> QED
    BY <1>4, <2>1, <2>2, ZenonT(60)
<1>6. CASE ForkLoad(c, p) \/ ForkStore(c, p)
  <2>1. UNCHANGED proc
    BY <1>6 DEF ForkLoad, ForkStore
  <2>2. /\ call'[p].op \in ForkOps /\ call'[p].np = np /\ call'[p].cont = call[p].cont
        /\ \A q \in Process : q # p => call'[q] = call[q]
    BY <1>0, <1>6, SMTT(60) DEF ForkLoad, ForkStore, Goto, CallRec, ForkOps
  <2> QED
    BY <1>2, <1>4, <2>1, <2>2, ZenonT(60)
<1>7. CASE ForkCopy(c, p)
  <2>1. /\ proc'[np].state = "EMBRYO" /\ proc'[np].pid = proc[np].pid
        /\ \A q \in Process : q # np => proc'[q] = proc[q]
    BY <1>0, <1>2, <1>7 DEF ForkCopy, ProcRec
  <2>2. /\ call'[p].op \in ForkOps /\ call'[p].np = np /\ call'[p].cont = call[p].cont
        /\ \A q \in Process : q # p => call'[q] = call[q]
    BY <1>0, <1>7, SMTT(60) DEF ForkCopy, Goto, CallRec, ForkOps
  <2> QED
    BY <1>4, <2>1, <2>2
<1>8. CASE ForkReady(c, p)
  <2>1. /\ proc'[np].state = "RUNNABLE" /\ proc'[np].pid = proc[np].pid
        /\ \A q \in Process : q # np => proc'[q] = proc[q]
    BY <1>0, <1>2, <1>8 DEF ForkReady, ProcRec
  <2>2. /\ call'[p].op = "user"
        /\ \A q \in Process : q # p => call'[q] = call[q] \/ call'[q].op = "user"
    BY <1>0, <1>2, <1>8 DEF ForkReady, User, Frame
  <2> QED
    BY <1>4, <2>1, <2>2
<1> QED
  BY <1>5, <1>6, <1>7, <1>8

-----------------------------------------------------------------------------
LEMMA InitInv == Init => IInv
<1> SUFFICES ASSUME Init PROVE IInv
  OBVIOUS
<1>1. TypeOK
  BY InitType
<1>2. \A p \in Process : call[p].op = "user"
  BY SMTT(60) DEF Init, User, Frame
<1>3. ArgInv /\ ForkInv
  BY <1>2 DEF ArgInv, ForkInv, ForkOps
<1>4. /\ proc[initproc].state = "RUNNABLE" /\ proc[initproc].pid = 1
      /\ \A p \in Process : p # initproc => proc[p].state = "UNUSED" /\ proc[p].pid = 0
  BY SlotType, ZenonT(60) DEF Init, FreeProc
<1>5. \A c \in CPU : cpu[c].pc = "idle" /\ cpu[c].proc = Nil
  BY SMTT(60) DEF Init
<1>6. CpuInv
  BY <1>2, <1>4, <1>5, SMTT(60) DEF CpuInv, LockedOps
<1>7. PidInv
  BY <1>4 DEF PidInv, Init
<1> QED
  BY <1>1, <1>3, <1>6, <1>7 DEF IInv

(* A step that leaves all but panicked and races alone. *)
LEMMA StutterInv ==
  ASSUME IInv, UNCHANGED <<cont, proc, cpu, ptlock, call, nextpid>>
  PROVE  ArgInv' /\ CpuInv' /\ ForkInv' /\ PidInv'
<1>1. ArgInv'
  BY SMTT(60) DEF IInv, ArgInv
<1>2. CpuInv'
  BY SMTT(60) DEF IInv, CpuInv
<1>3. ForkInv'
  BY DEF IInv, ForkInv
<1>4. PidInv'
  BY DEF IInv, PidInv
<1> QED
  BY <1>1, <1>2, <1>3, <1>4

LEMMA NextInv == IInv /\ [Next]_vars => IInv'
<1> SUFFICES ASSUME IInv, [Next]_vars PROVE IInv'
  OBVIOUS
<1>1. TypeOK'
  BY NextType, SMTT(60) DEF IInv
<1>2. ASSUME NEW c \in CPU, NEW p \in Process, ProcStep(c, p)
      PROVE  ArgInv' /\ CpuInv' /\ ForkInv' /\ PidInv'
  <2>1. CASE ExitPanic(c)
    BY <2>1, StutterInv, SMTT(60) DEF ExitPanic
  <2> QED
    BY <1>2, <2>1, LeaveActions, StayActions, WaitReapInv, ProcQuiet, QuietInv, AllocProcInv,
       ForkActions, SMTT(60)
    DEF ProcStep
<1>3. ASSUME NEW c \in CPU, CpuStep(c) PROVE ArgInv' /\ CpuInv' /\ ForkInv' /\ PidInv'
  BY <1>2, <1>3, SchedInv, ContStepQuiet, QuietInv, ZenonT(60) DEF CpuStep, MyProc
<1>4. ASSUME UNCHANGED vars PROVE ArgInv' /\ CpuInv' /\ ForkInv' /\ PidInv'
  BY <1>4, StutterInv DEF vars
<1>5. ArgInv' /\ CpuInv' /\ ForkInv' /\ PidInv'
  BY <1>3, <1>4, WakeupInv DEF Next
<1> QED
  BY <1>1, <1>5 DEF IInv

(* The inductive invariant holds in every reachable state. *)
THEOREM Invariance == Spec => []IInv
BY InitInv, NextInv, PTL DEF Spec

(* The tables, the CPUs and the calls in progress keep their types. *)
THEOREM TypeCorrect == Spec => []TypeOK
<1>1. IInv => TypeOK
  BY SMTT(60) DEF IInv
<1> QED
  BY <1>1, Invariance, PTL

(* However many CPUs run scheduler(), a process is RUNNING exactly while   *)
(* one of them has it.                                                     *)
THEOREM RunsOnOneCpu == Spec => []OneCpuPerProcess
<1>1. IInv => OneCpuPerProcess
  BY SMTT(60) DEF IInv, CpuInv, OneCpuPerProcess
<1> QED
  BY <1>1, Invariance, PTL

(* allocproc() never gives two processes the same pid, across containers,  *)
(* failed forks and reused entries.                                        *)
THEOREM UniquePids == Spec => []PidsUnique
<1>1. IInv => PidsUnique
  BY DEF IInv, PidInv, PidsUnique
<1> QED
  BY <1>1, Invariance, PTL
=============================================================================
