----------------------------- MODULE Container -----------------------------
(***************************************************************************)
(* Containers (container.c): the system calls ccreate, cstart, cstop,      *)
(* cpause and cresume, and the stop that kalloc() and balloc() order when  *)
(* a container is over a limit, together with the processes and scheduler  *)
(* of Proc.  A section under ctable.lock is one action; what a call reads  *)
(* before it takes the lock, or between two sections, is an action of its  *)
(* own.                                                                    *)
(***************************************************************************)
EXTENDS Proc

CONSTANT Mprocs  \* values of ccreate's mproc argument a user may give

ASSUME ContainerAssumption == Mprocs \subseteq 0..NPROC

(* strncmp(name, c->name, strlen(name)) == 0 *)
Matches(name, s) ==
  /\ Len(name) <= Len(cont[s].name)
  /\ SubSeq(cont[s].name, 1, Len(name)) = name

Name2Cont(name) == {s \in Slot : Matches(name, s) /\ cont[s].state # "CUNUSED"}

IsRoot(p) == cont[p[1]].cid = ROOTCONT

-----------------------------------------------------------------------------
(* ccreate(name, mproc)                                                    *)

Ccreate(c, p, name, mproc) ==
  /\ Syscall(c, p, "ccreate") /\ nextcid <= MaxCid
  /\ Name2Cont(name) = {}
  /\ call' = [call EXCEPT ![p] = [Frame("createAlloc") EXCEPT !.name = name, !.val = mproc]]
  /\ UNCHANGED <<cont, proc, cpu, ptlock, counters, panicked, races>>

AllocCont(c, p) ==
  /\ At(c, p, "createAlloc")
  /\ LET free == {s \in Slot : cont[s].state = "CUNUSED"} IN
       \/ /\ free = {}
          /\ Return(p)
          /\ UNCHANGED <<cont, nextcid>>
       \/ \E s \in Lowest(free) :
            /\ cont' = [cont EXCEPT ![s].state = "CEMBRYO", ![s].cid = nextcid]
            /\ nextcid' = nextcid + 1
            /\ call' = [call EXCEPT ![p].op = "createFill", ![p].cont = s]
  /\ UNCHANGED <<proc, cpu, ptlock, nextpid, panicked, races>>

(* namei(name) found the directory, or did not. *)
CcreateFill(c, p) ==
  /\ At(c, p, "createFill")
  /\ LET s == call[p].cont IN
       \/ cont' = [cont EXCEPT ![s].state = "CREADY", ![s].mproc = call[p].val,
                               ![s].name = call[p].name]
       \/ cont' = [cont EXCEPT ![s].state = "CUNUSED"]
  /\ Return(p)
  /\ UNCHANGED <<proc, cpu, ptlock, counters, panicked, races>>

-----------------------------------------------------------------------------
(* A call that looked container s up and will write its state. *)
Checked(p, op, s) ==
  call' = [call EXCEPT ![p] = [Frame(op) EXCEPT !.cont = s, !.cid = cont[s].cid]]

(* The write, which does not look at the container again. *)
SetState(p, expected, new) ==
  LET s == call[p].cont IN
    /\ cont' = [cont EXCEPT ![s].state = new]
    /\ races' = races \cup StaleCont(p)
                  \cup (IF cont[s].state \in expected THEN {} ELSE {"stale"})
    /\ Return(p)

(* cstart(name): the lock is dropped for dirsize(), which may fail. *)
Cstart(c, p, name) ==
  /\ Syscall(c, p, "cstart")
  /\ LET ready == {s \in Slot : Matches(name, s) /\ cont[s].state = "CREADY"} IN
       \E s \in Lowest(ready) : Checked(p, "cstart", s)
  /\ UNCHANGED <<cont, proc, cpu, ptlock, counters, panicked, races>>

CstartSet(c, p) ==
  /\ At(c, p, "cstart")
  /\ \/ SetState(p, {"CREADY"}, "CRUNNABLE")
     \/ Return(p) /\ UNCHANGED <<cont, races>>
  /\ UNCHANGED <<proc, cpu, ptlock, counters, panicked>>

(* cstop, cpause and cresume: root only, the container found by name must  *)
(* be in one of the states given.                                          *)
Administer(c, p, name, op, states) ==
  /\ Syscall(c, p, op) /\ IsRoot(p)
  /\ \E s \in Lowest(Name2Cont(name)) : cont[s].state \in states /\ Checked(p, op, s)
  /\ UNCHANGED <<cont, proc, cpu, ptlock, counters, panicked, races>>

Cstop(c, p, name) == Administer(c, p, name, "cstop", {"CRUNNABLE", "CPAUSED"})
Cpause(c, p, name) == Administer(c, p, name, "cpause", {"CRUNNABLE"})
Cresume(c, p, name) == Administer(c, p, name, "cresume", {"CPAUSED"})

CstopSet(c, p) ==
  /\ At(c, p, "cstop")
  /\ SetState(p, {"CRUNNABLE", "CPAUSED"}, "CSTOPPING")
  /\ UNCHANGED <<proc, cpu, ptlock, counters, panicked>>

CpauseSet(c, p) ==
  /\ At(c, p, "cpause")
  /\ SetState(p, {"CRUNNABLE"}, "CPAUSED")
  /\ UNCHANGED <<proc, cpu, ptlock, counters, panicked>>

CresumeSet(c, p) ==
  /\ At(c, p, "cresume")
  /\ SetState(p, {"CPAUSED"}, "CRUNNABLE")
  /\ UNCHANGED <<proc, cpu, ptlock, counters, panicked>>

(* A call of p allocates memory or disk over the limit of p's container:   *)
(* kalloc() and balloc() stop it and the call fails.                       *)
OverLimit(c, p) ==
  /\ Syscall(c, p, "alloc")
  /\ Ckill(p[1])
  /\ UNCHANGED <<proc, cpu, ptlock, call, counters, panicked, races>>

ContStep(c, p) ==
  \/ \E name \in Names :
       \/ \E mproc \in Mprocs : Ccreate(c, p, name, mproc)
       \/ Cstart(c, p, name)
  \/ \E name \in Names \cup {RootName} :
       Cstop(c, p, name) \/ Cpause(c, p, name) \/ Cresume(c, p, name)
  \/ AllocCont(c, p) \/ CcreateFill(c, p) \/ CstartSet(c, p)
  \/ CstopSet(c, p) \/ CpauseSet(c, p) \/ CresumeSet(c, p)
  \/ OverLimit(c, p)

(* myproc() *)
MyProc(c) == {p \in Process : cpu[c].pc = "run" /\ cpu[c].proc = p}

CpuStep(c) ==
  \/ SchedStep(c)
  \/ \E p \in MyProc(c) : ProcStep(c, p) \/ ContStep(c, p)

Next == (\E c \in CPU : CpuStep(c)) \/ Wakeup

Spec == Init /\ [][Next]_vars

(* A process inside the kernel goes on with its call. *)
Progress(c, p) ==
  /\ p \in MyProc(c) /\ call[p].op # "user"
  /\ CpuStep(c)
  /\ call'[p] # call[p]

(* Every CPU runs on and gets ptable.lock if that is free again and again, *)
(* the timer interrupts whatever runs with interrupts enabled, and a       *)
(* process that is given the CPU again and again gets on with its call.    *)
(* Nothing is assumed of what programs call, nor that a device ever wakes  *)
(* anybody.                                                                *)
FairSpec ==
  /\ Spec
  /\ \A c \in CPU : SF_vars(CpuStep(c)) /\ SF_vars(\E p \in Process : Yield(c, p))
  /\ \A c \in CPU, p \in Process : SF_vars(Progress(c, p))

-----------------------------------------------------------------------------
ContRec == [state : {"CUNUSED", "CEMBRYO", "CREADY", "CRUNNABLE", "CPAUSED", "CSTOPPING"},
            cid : Nat, mproc : 0..NPROC, uproc : Int, nextproc : Nat, name : Seq(STRING)]
ProcRec == [state : {"UNUSED", "EMBRYO", "SLEEPING", "RUNNABLE", "RUNNING", "ZOMBIE"},
            pid : Nat, parent : Process \cup {Nil}, killed : BOOLEAN,
            chan : Process \cup {Nil, Dev}]
CpuRec == [pc : {"idle", "scan", "run", "back"}, proc : Process \cup {Nil}, i : 0..NCONT]
CallRec == [op : Ops, cont : Slot \cup {Nil}, cid : Nat, np : Process \cup {Nil},
            parent : Process \cup {Nil}, val : Int, name : Seq(STRING)]

(* The types of the tables of container.h and proc.h, of the CPUs and of   *)
(* the calls in progress.                                                  *)
TypeOK ==
  /\ cont \in [Slot -> ContRec]
  /\ proc \in [Process -> ProcRec]
  /\ cpu \in [CPU -> CpuRec]
  /\ ptlock \in CPU \cup {Nil}
  /\ call \in [Process -> CallRec]
  /\ nextpid \in Nat /\ nextcid \in Nat
  /\ panicked \in BOOLEAN
  /\ races \subseteq {"uproc", "stale"}

(* A process is RUNNING exactly while one CPU has it, and never on two:    *)
(* the scheduler and every path into sched() agree on who owns it.         *)
OneCpuPerProcess ==
  /\ \A c \in CPU : cpu[c].pc = "run" => proc[cpu[c].proc].state = "RUNNING"
  /\ \A p \in Process : proc[p].state = "RUNNING" =>
       \E c \in CPU : cpu[c].pc = "run" /\ cpu[c].proc = p
  /\ \A c, d \in CPU : c # d /\ cpu[c].proc # Nil => cpu[c].proc # cpu[d].proc

(* No two processes have the same pid, in whatever containers they are. *)
PidsUnique ==
  \A p, q \in Process : proc[p].state # "UNUSED" /\ proc[q].state # "UNUSED"
                        /\ proc[p].pid = proc[q].pid => p = q

Live(p) == proc[p].state \in {"SLEEPING", "RUNNABLE", "RUNNING"}
NoLostUpdate == "uproc" \notin races

(* cexit() is "called if a container has no used processes" (container.c): *)
(* a container that has been started is freed only when none of its        *)
(* processes is alive.                                                     *)
FreedOnlyWhenEmpty ==
  [][\A s \in Slot : cont[s].state \notin {"CUNUSED", "CEMBRYO"} /\ cont'[s].state = "CUNUSED"
                     => \A p \in Process : p[1] = s => ~ Live(p)]_vars

(* The same, as long as no unlocked update of uproc has been lost: fork    *)
(* failures, stops, kills and the reuse of slots never make uproc too      *)
(* small.                                                                  *)
FreedOnlyWhenEmptyUnlessRaced ==
  [][\A s \in Slot : cont[s].state \notin {"CUNUSED", "CEMBRYO"} /\ cont'[s].state = "CUNUSED"
                     /\ NoLostUpdate => \A p \in Process : p[1] = s => ~ Live(p)]_vars

(* A process asleep in wait() has no zombie child in its table: exit(),    *)
(* which wakes the parent before it becomes a zombie, and the adoption by  *)
(* initproc lose no wakeup, as long as uproc is right.                     *)
NoMissedChild ==
  NoLostUpdate =>
    \A p \in Process : proc[p].state = "SLEEPING" /\ proc[p].chan = p => ZombieKids(p) = {}

(* The parent of a process that exists is itself alive, so that somebody   *)
(* can wait() for it: exit() hands every child on.                         *)
ParentAlive ==
  NoLostUpdate =>
    \A p \in Process : (Live(p) \/ proc[p].state = "ZOMBIE") /\ p # initproc =>
                         proc[p].parent # Nil /\ Live(proc[p].parent)

(* Each container has its own process table (README.md): the scheduler     *)
(* runs for a container only entries of that container's row.  nextproc    *)
(* stays below mproc through preemptions, frees and re-creations, as long  *)
(* as mproc is not 0 and no stale call revived a freed container.          *)
RunsOwnProcesses ==
  [][\A c \in CPU : cpu[c].pc = "scan" /\ cpu'[c].pc = "run"
                     /\ cont[cpu[c].i].mproc > 0 /\ "stale" \notin races
                     => cpu'[c].proc[1] = cpu[c].i]_vars

(* The round robin starves nobody: a runnable process of a runnable        *)
(* container gets a CPU, unless the container is taken off the schedule    *)
(* first or a container has been changed by a stale cstop, cpause, ...     *)
RunnableRuns ==
  \A p \in Process :
    proc[p].state = "RUNNABLE" /\ p \in Table(p[1]) /\ cont[p[1]].state = "CRUNNABLE"
      ~> \/ proc[p].state = "RUNNING"
         \/ cont[p[1]].state # "CRUNNABLE"
         \/ "stale" \in races \/ panicked

-----------------------------------------------------------------------------
(* What comments and the README say and the code does not do.              *)

(* container.h:17: a CUNUSED container is ready to be allocated; only      *)
(* alloccont() takes it out of that state.                                 *)
UnusedUntilAllocated ==
  [][\A s \in Slot : cont[s].state = "CUNUSED" => cont'[s].state \in {"CUNUSED", "CEMBRYO"}]_vars

(* proc.c:400: kill() is for the process with the given pid; no process    *)
(* starts its life already killed.                                         *)
BornAlive ==
  [][\A p \in Process : proc[p].state = "UNUSED" /\ proc'[p].state = "EMBRYO"
                        => ~ proc'[p].killed]_vars

(* proc.c:221-222: a zombie remains until its parent calls wait() to find  *)
(* out it exited; so wait() of the parent must look at the table it is in. *)
ZombiesFound ==
  \A p \in Process : proc[p].state = "ZOMBIE" => p[1] = proc[p].parent[1]

(* README.md:19: stopping a container kills it and all of its processes.   *)
StopKills ==
  \A p \in Process : Live(p) /\ cont[p[1]].state = "CSTOPPING" ~> ~ Live(p) \/ panicked
=============================================================================
