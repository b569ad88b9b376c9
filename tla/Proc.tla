-------------------------------- MODULE Proc --------------------------------
(***************************************************************************)
(* Processes and the scheduler (proc.c, and scheduler(), sched(), wakeup1()*)
(* and cexit() of container.c).                                            *)
(*                                                                         *)
(* ptable.proc is one row of NPROC entries per container; a process is the *)
(* pair <<container slot, index>> of its entry.  ptable.lock is held by a  *)
(* CPU across context switches, so it is a variable; a section of code     *)
(* that takes and releases a lock without yielding the CPU is one action.  *)
(* A running process is preempted between any two actions.                 *)
(*                                                                         *)
(* The kernel is built without optimisation (Makefile), so `uproc++' and   *)
(* `uproc--' are a load and a store; they are two actions each.            *)
(***************************************************************************)
EXTENDS Integers, Sequences

CONSTANTS
  NCONT, NPROC,  \* param.h
  CPU,           \* cpus[]
  Names,         \* container names a user may type, as sequences of letters
  RootName,      \* "initcont"
  Program,       \* the system calls each process may make
  MaxPid, MaxCid,\* bounds on nextpid and nextcid
  Nil,           \* a null pointer
  Dev            \* the channel of some device or pipe (any channel that is not a process)

Calls == {"fork", "cfork", "exit", "wait", "kill", "block", "ccreate", "cstart", "cstop",
          "cpause", "cresume", "alloc"}

ASSUME ProcAssumption ==
  /\ NCONT \in Nat \ {0} /\ NPROC \in Nat \ {0}
  /\ MaxPid \in Nat /\ MaxCid \in Nat
  /\ Program \in [(0..(NCONT - 1)) \X (0..(NPROC - 1)) -> SUBSET Calls]
  /\ Names \subseteq Seq(STRING) /\ RootName \in Seq(STRING)
  /\ Nil \notin CPU
  /\ Nil \notin (0..(NCONT - 1)) \X (0..(NPROC - 1))
  /\ Dev \notin (0..(NCONT - 1)) \X (0..(NPROC - 1))
  /\ Dev # Nil

Slot == 0..(NCONT - 1)
Process == Slot \X (0..(NPROC - 1))
initproc == <<0, 0>>
ROOTCONT == 1

VARIABLES
  cont,     \* ctable.cont: [state, cid, mproc, uproc, nextproc, name] per slot
  proc,     \* ptable.proc: [state, pid, parent, killed, chan] per process
  cpu,      \* [pc, proc, i]: where the CPU is, c->proc, the scheduler's loop index
  ptlock,   \* the CPU that holds ptable.lock, or Nil
  call,     \* what a process is doing in the kernel, see Frame
  nextpid, nextcid,
  panicked, \* panic("init exiting")
  races     \* history: "uproc" once an update of uproc was lost, "stale" once a
            \* container was changed that is not the one the caller had checked

vars == <<cont, proc, cpu, ptlock, call, nextpid, nextcid, panicked, races>>
counters == <<nextpid, nextcid>>

(* A process in the kernel: the step it is at and its local variables: the *)
(* container it works on (and the cid that container had when it was       *)
(* looked up), the new process of a fork and its parent-to-be, a number    *)
(* and a name.                                                             *)
Ops == {"user", "forkAlloc", "forkStack", "forkStore", "forkCopy", "forkReady", "exit",
        "exitStore", "wait", "sleep", "woken", "createAlloc", "createFill", "cstart", "cstop", "cpause",
        "cresume"}
Frame(op) == [op |-> op, cont |-> Nil, cid |-> 0, np |-> Nil, parent |-> Nil,
              val |-> 0, name |-> <<>>]
User == Frame("user")

FreeCont == [state |-> "CUNUSED", cid |-> 0, mproc |-> 0, uproc |-> 0,
             nextproc |-> 0, name |-> <<>>]
FreeProc == [state |-> "UNUSED", pid |-> 0, parent |-> Nil, killed |-> FALSE,
             chan |-> Nil]

(* After userinit(): the root container and initproc are runnable. *)
Init ==
  /\ cont = [s \in Slot |->
               IF s = 0 THEN [FreeCont EXCEPT !.state = "CRUNNABLE", !.cid = ROOTCONT,
                                              !.mproc = NPROC, !.uproc = 1,
                                              !.name = RootName]
                        ELSE FreeCont]
  /\ proc = [p \in Process |->
               IF p = initproc THEN [FreeProc EXCEPT !.state = "RUNNABLE", !.pid = 1]
                               ELSE FreeProc]
  /\ cpu = [c \in CPU |-> [pc |-> "idle", proc |-> Nil, i |-> 0]]
  /\ ptlock = Nil
  /\ call = [p \in Process |-> User]
  /\ nextpid = 2 /\ nextcid = 2
  /\ panicked = FALSE
  /\ races = {}

-----------------------------------------------------------------------------
(* Process p runs on CPU c at kernel step op. *)
At(c, p, op) ==
  /\ ~ panicked
  /\ cpu[c].pc = "run" /\ cpu[c].proc = p
  /\ call[p].op = op

(* Process p, at user level, enters the kernel with a system call: trap()  *)
(* looks at p->killed first.                                               *)
Syscall(c, p, name) == At(c, p, "user") /\ ~ proc[p].killed /\ name \in Program[p]

Goto(p, op) == call' = [call EXCEPT ![p].op = op]
Return(p) == call' = [call EXCEPT ![p] = User]

(* The entries of container s's table that its loops look at. *)
Table(s) == {p \in Process : p[1] = s /\ p[2] < cont[s].mproc}
First(S) == {p \in S : \A q \in S : p[2] <= q[2]}
Lowest(S) == {s \in S : \A t \in S : s <= t}
Children(p) == {q \in Table(p[1]) : proc[q].parent = p}

(* wakeup1(chan), for every chan in the set, on process table pr. *)
Wakeup1(pr, chans) ==
  [q \in Process |-> IF q \in Table(q[1]) /\ pr[q].state = "SLEEPING" /\ pr[q].chan \in chans
                       THEN [pr[q] EXCEPT !.state = "RUNNABLE"]
                       ELSE pr[q]]

(* sched(): back to the scheduler of CPU c, which keeps ptable.lock. *)
Sched(c) ==
  /\ cpu' = [cpu EXCEPT ![c].pc = "back"]
  /\ ptlock' = c

Ckill(s) == cont' = [cont EXCEPT ![s].state = "CSTOPPING"]

-----------------------------------------------------------------------------
(* scheduler()                                                             *)

(* Mutant: the scheduler scans without the lock. *)
SchedAcquireMutant(c) ==
  /\ ~ panicked /\ cpu[c].pc = "idle"
  /\ ptlock' = c
  /\ cpu' = [cpu EXCEPT ![c].pc = "scan", ![c].i = 0]
  /\ UNCHANGED <<cont, proc, call, counters, panicked, races>>

SchedAcquire(c) ==
  /\ ~ panicked /\ cpu[c].pc = "idle" /\ ptlock = Nil
  /\ ptlock' = c
  /\ cpu' = [cpu EXCEPT ![c].pc = "scan", ![c].i = 0]
  /\ UNCHANGED <<cont, proc, call, counters, panicked, races>>

SchedRelease(c) ==
  /\ ~ panicked /\ cpu[c].pc = "scan" /\ cpu[c].i = NCONT
  /\ ptlock' = Nil
  /\ cpu' = [cpu EXCEPT ![c].pc = "idle"]
  /\ UNCHANGED <<cont, proc, call, counters, panicked, races>>

Scanning(c, s) == ~ panicked /\ cpu[c].pc = "scan" /\ cpu[c].i = s
Schedulable(s) == cont[s].state \in {"CRUNNABLE", "CSTOPPING"}

(* &cont->ptable[cont->nextproc]: the rows are contiguous, an index past   *)
(* the end of one row is in the next.                                      *)
IsNext(s, p) == p[1] * NPROC + p[2] = s * NPROC + cont[s].nextproc

(* Beyond the last row nextproc stays put: no entry there is modelled. *)
NextprocBound == NCONT * NPROC
(* Mutant: the round robin turns back one entry early. *)
AdvanceMutant(s) ==
  LET n == cont[s].nextproc + 1 IN
    IF n >= cont[s].mproc - 1 THEN 0 ELSE n

(* Mutant: nextproc is compared with mproc before it is incremented. *)
AdvanceMutantPast(s) ==
  LET n == cont[s].nextproc + 1 IN
    IF cont[s].nextproc = cont[s].mproc THEN 0 ELSE n

Advance(s) ==
  LET n == cont[s].nextproc + 1 IN
    IF n = cont[s].mproc THEN 0 ELSE IF n > NextprocBound THEN NextprocBound ELSE n

SchedSkip(c, s) ==
  /\ Scanning(c, s)
  /\ \/ ~ Schedulable(s) /\ UNCHANGED cont
     \/ /\ Schedulable(s)
        /\ \A p \in Process : IsNext(s, p) => proc[p].state # "RUNNABLE"
        /\ cont' = [cont EXCEPT ![s].nextproc = Advance(s)]
  /\ cpu' = [cpu EXCEPT ![c].i = s + 1]
  /\ UNCHANGED <<proc, ptlock, call, counters, panicked, races>>

(* The chosen process resumes in forkret, yield or sleep and releases the  *)
(* lock, unless it slept in wait(), which goes on holding it.              *)
SchedRun(c, s, p) ==
  /\ Scanning(c, s) /\ Schedulable(s)
  /\ IsNext(s, p) /\ proc[p].state = "RUNNABLE"
  /\ cont' = [cont EXCEPT ![s].nextproc = Advance(s)]
  /\ proc' = [proc EXCEPT ![p].state = "RUNNING", ![p].chan = Nil,
                          ![p].killed = @ \/ cont[s].state = "CSTOPPING"]
  /\ cpu' = [cpu EXCEPT ![c].pc = "run", ![c].proc = p]
  /\ ptlock' = IF call[p].op = "wait" THEN c ELSE Nil
  /\ UNCHANGED <<call, counters, panicked, races>>

(* Mutant: the loop index is incremented twice. *)
SchedBackMutantIndex(c, s) ==
  /\ ~ panicked /\ cpu[c].pc = "back" /\ cpu[c].i = s
  /\ cpu' = [cpu EXCEPT ![c] = [pc |-> "scan", proc |-> Nil, i |-> s + 2]]
  /\ UNCHANGED <<cont, proc, ptlock, call, counters, panicked, races>>

(* Mutant: a container with one process left is freed. *)
SchedBackMutantFree(c, s) ==
  /\ ~ panicked /\ cpu[c].pc = "back" /\ cpu[c].i = s
  /\ cont' = IF cont[s].uproc <= 1
               THEN [cont EXCEPT ![s] = [FreeCont EXCEPT !.uproc = cont[s].uproc]]
               ELSE cont
  /\ cpu' = [cpu EXCEPT ![c] = [pc |-> "scan", proc |-> Nil, i |-> s + 1]]
  /\ UNCHANGED <<proc, ptlock, call, counters, panicked, races>>

(* The process gave up the CPU; a container without processes is freed. *)
SchedBack(c, s) ==
  /\ ~ panicked /\ cpu[c].pc = "back" /\ cpu[c].i = s
  /\ cont' = IF cont[s].uproc = 0
               THEN [cont EXCEPT ![s] = [FreeCont EXCEPT !.uproc = cont[s].uproc]]
               ELSE cont
  /\ cpu' = [cpu EXCEPT ![c] = [pc |-> "scan", proc |-> Nil, i |-> s + 1]]
  /\ UNCHANGED <<proc, ptlock, call, counters, panicked, races>>

(* yield(), from the timer interrupt, wherever p runs with interrupts on:  *)
(* not under ptable.lock, nor under the lock it is about to sleep with.    *)
(* At user level a killed process exits instead (trap.c).                  *)
Yield(c, p) ==
  /\ ~ panicked /\ cpu[c].pc = "run" /\ cpu[c].proc = p
  /\ ptlock = Nil /\ call[p].op # "sleep"
  /\ ~ (call[p].op = "user" /\ proc[p].killed)
  /\ proc' = [proc EXCEPT ![p].state = "RUNNABLE"]
  /\ Sched(c)
  /\ UNCHANGED <<cont, call, counters, panicked, races>>

-----------------------------------------------------------------------------
(* fork(cont).  `s' is the container the child goes to: p's own for fork,  *)
(* the one cid2cont() found for cfork, whose children belong to initproc.  *)

ForkStart(c, p, s, par) ==
  /\ nextpid <= MaxPid
  /\ cont[s].state = "CRUNNABLE"
  /\ call' = [call EXCEPT ![p] = [Frame("forkAlloc") EXCEPT !.cont = s, !.cid = cont[s].cid,
                                                            !.parent = par]]
  /\ UNCHANGED <<cont, proc, cpu, ptlock, counters, panicked, races>>

Fork(c, p) == Syscall(c, p, "fork") /\ ForkStart(c, p, p[1], p)

Cid2Cont(cid) == {s \in Slot : cont[s].cid = cid /\ cont[s].state # "CUNUSED"}

Cfork(c, p, cid) ==
  /\ Syscall(c, p, "cfork")
  /\ \E s \in Lowest(Cid2Cont(cid)) : ForkStart(c, p, s, initproc)

(* allocproc under ptable.lock *)
Unused(s) == {q \in Table(s) : proc[q].state = "UNUSED"}

(* Mutant: nextpid is not incremented. *)
AllocProcMutant(c, p) ==
  /\ At(c, p, "forkAlloc") /\ ptlock = Nil
  /\ \E np \in First(Unused(call[p].cont)) :
       /\ proc' = [proc EXCEPT ![np].state = "EMBRYO", ![np].pid = nextpid]
       /\ call' = [call EXCEPT ![p].op = "forkStack", ![p].np = np]
  /\ UNCHANGED <<cont, cpu, ptlock, counters, panicked, races>>

AllocProc(c, p) ==
  /\ At(c, p, "forkAlloc") /\ ptlock = Nil
  /\ \E np \in First(Unused(call[p].cont)) :
       /\ proc' = [proc EXCEPT ![np].state = "EMBRYO", ![np].pid = nextpid]
       /\ call' = [call EXCEPT ![p].op = "forkStack", ![p].np = np]
  /\ nextpid' = nextpid + 1
  /\ UNCHANGED <<cont, cpu, ptlock, nextcid, panicked, races>>

AllocProcFull(c, p) ==
  /\ At(c, p, "forkAlloc") /\ ptlock = Nil
  /\ Unused(call[p].cont) = {}
  /\ Return(p)
  /\ UNCHANGED <<cont, proc, cpu, ptlock, counters, panicked, races>>

(* Mutant: a failed fork always counts the child off again. *)
ForkFailsMutant(c, p) ==
  /\ At(c, p, "forkStack") \/ At(c, p, "forkCopy")
  /\ proc' = [proc EXCEPT ![call[p].np].state = "UNUSED"]
  /\ cont' = [cont EXCEPT ![call[p].cont].uproc = @ - 1]
  /\ Return(p)
  /\ UNCHANGED <<cpu, ptlock, counters, panicked, races>>

(* kalloc() of the kernel stack or copyuvm() fails: the free list is       *)
(* empty, or p's container is over its memory limit and kalloc() stops it. *)
(* The entry goes back without its pid being cleared.                      *)
ForkFails(c, p) ==
  /\ At(c, p, "forkStack") \/ At(c, p, "forkCopy")
  /\ proc' = [proc EXCEPT ![call[p].np].state = "UNUSED"]
  /\ UNCHANGED cont \/ Ckill(p[1])
  /\ Return(p)
  /\ UNCHANGED <<cpu, ptlock, counters, panicked, races>>

(* The kernel stack is there; p->cont->uproc++ without a lock. *)
ForkLoad(c, p) ==
  /\ At(c, p, "forkStack")
  /\ call' = [call EXCEPT ![p].op = "forkStore", ![p].val = cont[call[p].cont].uproc]
  /\ UNCHANGED <<cont, proc, cpu, ptlock, counters, panicked, races>>

LostUpdate(p, s) == IF cont[s].uproc # call[p].val THEN {"uproc"} ELSE {}
StaleCont(p) == IF cont[call[p].cont].cid # call[p].cid THEN {"stale"} ELSE {}

ForkStore(c, p) ==
  /\ At(c, p, "forkStore")
  /\ LET s == call[p].cont IN
       /\ cont' = [cont EXCEPT ![s].uproc = call[p].val + 1]
       /\ races' = races \cup LostUpdate(p, s) \cup StaleCont(p)
  /\ Goto(p, "forkCopy")
  /\ UNCHANGED <<proc, cpu, ptlock, counters, panicked>>

(* copyuvm(), np->parent, files, cwd, name *)
ForkCopy(c, p) ==
  /\ At(c, p, "forkCopy")
  /\ proc' = [proc EXCEPT ![call[p].np].parent = call[p].parent]
  /\ Goto(p, "forkReady")
  /\ UNCHANGED <<cont, cpu, ptlock, counters, panicked, races>>

ForkReady(c, p) ==
  /\ At(c, p, "forkReady") /\ ptlock = Nil
  /\ proc' = [proc EXCEPT ![call[p].np].state = "RUNNABLE"]
  /\ call' = [call EXCEPT ![p] = User, ![call[p].np] = User]
  /\ UNCHANGED <<cont, cpu, ptlock, counters, panicked, races>>

-----------------------------------------------------------------------------
(* exit()                                                                  *)

Exiting(c, p) == Syscall(c, p, "exit") \/ (At(c, p, "user") /\ proc[p].killed)

(* By system call, or in trap() because the process was killed. *)
ExitPanic(c) ==
  /\ Exiting(c, initproc)
  /\ panicked' = TRUE
  /\ UNCHANGED <<cont, proc, cpu, ptlock, call, counters, races>>

(* The open files are closed and the directory is put before ptable.lock   *)
(* is taken.                                                               *)
ExitStart(c, p) ==
  /\ Exiting(c, p) /\ p # initproc
  /\ Goto(p, "exit")
  /\ UNCHANGED <<cont, proc, cpu, ptlock, counters, panicked, races>>

(* Mutant: nobody wakes the parent. *)
ExitMutantNoWakeup(c, p) ==
  /\ At(c, p, "exit") /\ ptlock = Nil
  /\ proc' = [q \in Process |-> IF q \in Children(p) THEN [proc[q] EXCEPT !.parent = initproc]
                                                     ELSE proc[q]]
  /\ ptlock' = c
  /\ call' = [call EXCEPT ![p].op = "exitStore", ![p].val = cont[p[1]].uproc]
  /\ UNCHANGED <<cont, cpu, counters, panicked, races>>

(* Mutant: zombie children are not handed on. *)
ExitMutantOrphans(c, p) ==
  /\ At(c, p, "exit") /\ ptlock = Nil
  /\ LET adopted == {q \in Children(p) : proc[q].state # "ZOMBIE"}
     IN  proc' = Wakeup1([q \in Process |-> IF q \in adopted
                                              THEN [proc[q] EXCEPT !.parent = initproc]
                                              ELSE proc[q]], {proc[p].parent})
  /\ ptlock' = c
  /\ call' = [call EXCEPT ![p].op = "exitStore", ![p].val = cont[p[1]].uproc]
  /\ UNCHANGED <<cont, cpu, counters, panicked, races>>

Exit(c, p) ==
  /\ At(c, p, "exit") /\ ptlock = Nil
  /\ LET adopted == Children(p)
         chans == {proc[p].parent} \cup
                  (IF \E q \in adopted : proc[q].state = "ZOMBIE" THEN {initproc} ELSE {})
     IN  proc' = Wakeup1([q \in Process |-> IF q \in adopted
                                              THEN [proc[q] EXCEPT !.parent = initproc]
                                              ELSE proc[q]], chans)
  /\ ptlock' = c
  /\ call' = [call EXCEPT ![p].op = "exitStore", ![p].val = cont[p[1]].uproc]
  /\ UNCHANGED <<cont, cpu, counters, panicked, races>>

ExitStore(c, p) ==
  /\ At(c, p, "exitStore")
  /\ cont' = [cont EXCEPT ![p[1]].uproc = call[p].val - 1]
  /\ races' = races \cup LostUpdate(p, p[1])
  /\ proc' = [proc EXCEPT ![p].state = "ZOMBIE"]
  /\ Return(p)
  /\ Sched(c)
  /\ UNCHANGED <<counters, panicked>>

-----------------------------------------------------------------------------
(* wait(): nproc (`val') is read once; the loop runs with ptable.lock held.*)

Wait(c, p) ==
  /\ Syscall(c, p, "wait") /\ ptlock = Nil
  /\ ptlock' = c
  /\ call' = [call EXCEPT ![p].op = "wait", ![p].val = cont[p[1]].mproc]
  /\ UNCHANGED <<cont, proc, cpu, counters, panicked, races>>

Kids(p) == {q \in Process : q[1] = p[1] /\ q[2] < call[p].val /\ proc[q].parent = p}
ZombieKids(p) == {q \in Kids(p) : proc[q].state = "ZOMBIE"}

WaitReap(c, p) ==
  /\ At(c, p, "wait")
  /\ \E q \in First(ZombieKids(p)) : proc' = [proc EXCEPT ![q] = FreeProc]
  /\ ptlock' = Nil
  /\ Return(p)
  /\ UNCHANGED <<cont, cpu, counters, panicked, races>>

WaitFails(c, p) ==
  /\ At(c, p, "wait")
  /\ ZombieKids(p) = {}
  /\ Kids(p) = {} \/ proc[p].killed
  /\ ptlock' = Nil
  /\ Return(p)
  /\ UNCHANGED <<cont, proc, cpu, counters, panicked, races>>

WaitSleep(c, p) ==
  /\ At(c, p, "wait")
  /\ ZombieKids(p) = {}
  /\ Kids(p) # {} /\ ~ proc[p].killed
  /\ proc' = [proc EXCEPT ![p].state = "SLEEPING", ![p].chan = p]
  /\ Sched(c)
  /\ UNCHANGED <<cont, call, counters, panicked, races>>

-----------------------------------------------------------------------------
(* kill(pid), within the caller's container *)
Kill(c, p, pid) ==
  /\ Syscall(c, p, "kill") /\ ptlock = Nil
  /\ \E q \in First({r \in Table(p[1]) : proc[r].pid = pid}) :
       proc' = [proc EXCEPT ![q].killed = TRUE,
                            ![q].state = IF @ = "SLEEPING" THEN "RUNNABLE" ELSE @]
  /\ UNCHANGED <<cont, cpu, ptlock, call, counters, panicked, races>>

(* A call that blocks for a device or a pipe (consoleread, piperead, ...): *)
(* it tests p->killed, then sleep() takes ptable.lock; on waking it tests  *)
(* again.                                                                  *)
Block(c, p) ==
  /\ Syscall(c, p, "block") \/ (At(c, p, "woken") /\ ~ proc[p].killed)
  /\ Goto(p, "sleep")
  /\ UNCHANGED <<cont, proc, cpu, ptlock, counters, panicked, races>>

Sleep(c, p) ==
  /\ At(c, p, "sleep") /\ ptlock = Nil
  /\ proc' = [proc EXCEPT ![p].state = "SLEEPING", ![p].chan = Dev]
  /\ Goto(p, "woken")
  /\ Sched(c)
  /\ UNCHANGED <<cont, counters, panicked, races>>

Unblock(c, p) ==
  /\ At(c, p, "woken")
  /\ Return(p)
  /\ UNCHANGED <<cont, proc, cpu, ptlock, counters, panicked, races>>

(* The device's interrupt handler, or the other end of the pipe. *)
Wakeup ==
  /\ ~ panicked /\ ptlock = Nil
  /\ proc' = Wakeup1(proc, {Dev})
  /\ UNCHANGED <<cont, cpu, ptlock, call, counters, panicked, races>>

(* What CPU c does for process p, whatever the call. *)
ProcStep(c, p) ==
  \/ Yield(c, p)
  \/ Fork(c, p) \/ (\E s \in Slot : Cfork(c, p, cont[s].cid))
  \/ AllocProc(c, p) \/ AllocProcFull(c, p) \/ ForkFails(c, p)
  \/ ForkLoad(c, p) \/ ForkStore(c, p) \/ ForkCopy(c, p) \/ ForkReady(c, p)
  \/ ExitPanic(c) \/ ExitStart(c, p) \/ Exit(c, p) \/ ExitStore(c, p)
  \/ Wait(c, p) \/ WaitReap(c, p) \/ WaitFails(c, p) \/ WaitSleep(c, p)
  \/ (\E q \in Process : Kill(c, p, proc[q].pid))
  \/ Block(c, p) \/ Sleep(c, p) \/ Unblock(c, p)

SchedStep(c) ==
  \/ SchedAcquire(c) \/ SchedRelease(c)
  \/ \E s \in Slot \cap {cpu[c].i} :
       SchedSkip(c, s) \/ SchedBack(c, s) \/ (\E p \in Process : SchedRun(c, s, p))
=============================================================================
