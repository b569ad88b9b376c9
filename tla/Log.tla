-------------------------------- MODULE Log --------------------------------
(***************************************************************************)
(* The redo log of log.c: begin_op / log_write / end_op, the commit that   *)
(* the last end_op runs without holding log.lock, and recovery at boot.    *)
(* A crash may happen between any two disk writes, during recovery too.    *)
(*                                                                         *)
(* The disk is `home' (the blocks outside the log), `hdr' (the header      *)
(* block: the block numbers of a committed transaction) and `logblk' (the  *)
(* log's data blocks).  `cache' is what bread() of a block returns and     *)
(* `dirty' the blocks pinned by B_DIRTY; the rest is struct log and where  *)
(* each caller is.  One disk block write is atomic.                        *)
(***************************************************************************)
EXTENDS Integers, Sequences, FiniteSets

CONSTANTS
  Block,        \* home block numbers
  Val,          \* block contents
  Caller,       \* processes that make file-system calls
  LOGSIZE,      \* param.h
  MAXOPBLOCKS,  \* param.h
  LogCap,       \* log.size - 1: data blocks of the on-disk log
  OpBlocks,     \* distinct blocks one call really logs
  InodeBlock,   \* the home block that follows the log on disk (mkfs.c)
  NoBlock       \* no buffer held

ASSUME LogAssumption ==
  /\ LOGSIZE \in Nat /\ MAXOPBLOCKS \in Nat /\ LogCap \in Nat /\ OpBlocks \in Nat
  /\ MAXOPBLOCKS <= LOGSIZE
  /\ InodeBlock \in Block /\ NoBlock \notin Block
  /\ IsFiniteSet(Block) /\ IsFiniteSet(Caller)

VARIABLES
  home, hdr, logblk,              \* the disk
  cache, dirty,                   \* the buffer cache
  lh, outstanding, committing,    \* struct log: lh.block[0..n-1], ...
  pc, cur, wrote,                 \* each caller: where it is, buffer it holds, blocks it logged
  tail,                           \* loop index of write_log and install_trans
  mode                            \* "read", "install", "clear" (recovery), "up", "panic"

diskVars == <<home, hdr, logblk>>
memVars == <<cache, dirty>>
structLog == <<lh, outstanding, committing>>
vars == <<home, hdr, logblk, cache, dirty, lh, outstanding, committing,
          pc, cur, wrote, tail, mode>>

InOp == {"inop", "appending"}
Committer == {"writelog", "writehead", "install", "erase", "finish"}
PC == {"idle", "begin", "asleep"} \cup InOp \cup Committer

Active == {p \in Caller : pc[p] \in InOp}
Locked == {cur[p] : p \in Caller} \ {NoBlock}
Entries(s) == {s[i] : i \in 1..Len(s)}

Init ==
  /\ home \in [Block -> Val]
  /\ hdr = <<>>
  /\ \E v \in Val : logblk = [i \in 1..LogCap |-> v]
  /\ cache = home /\ dirty = {}
  /\ lh = <<>> /\ outstanding = 0 /\ committing = FALSE
  /\ pc = [p \in Caller |-> "idle"]
  /\ cur = [p \in Caller |-> NoBlock]
  /\ wrote = [p \in Caller |-> {}]
  /\ tail = 1
  /\ mode = "read"

-----------------------------------------------------------------------------
(* Calls.                                                                  *)

(* wakeup(&log) *)
Wakeup(pcs) == [p \in Caller |-> IF pcs[p] = "asleep" THEN "begin" ELSE pcs[p]]

(* Mutant: the reservation forgets the call that is asking. *)
LogFullMutant == Len(lh) + outstanding * MAXOPBLOCKS > LOGSIZE
LogFull == Len(lh) + (outstanding + 1) * MAXOPBLOCKS > LOGSIZE

BeginOpSleep(p) ==
  /\ mode = "up" /\ pc[p] \in {"idle", "begin"}
  /\ committing \/ LogFull
  /\ pc' = [pc EXCEPT ![p] = "asleep"]
  /\ UNCHANGED <<diskVars, memVars, structLog, cur, wrote, tail, mode>>

BeginOp(p) ==
  /\ mode = "up" /\ pc[p] \in {"idle", "begin"}
  /\ ~ committing /\ ~ LogFull
  /\ outstanding' = outstanding + 1
  /\ pc' = [pc EXCEPT ![p] = "inop"]
  /\ UNCHANGED <<diskVars, memVars, lh, committing, cur, wrote, tail, mode>>

(* The call reads block b, changes the locked buffer and enters log_write, *)
(* whose size test runs before log.lock is taken.                          *)
Modify(p, b, v) ==
  /\ mode = "up" /\ pc[p] = "inop"
  /\ b \notin Locked
  /\ Cardinality(wrote[p] \cup {b}) <= OpBlocks
  /\ cache' = [cache EXCEPT ![b] = v]
  /\ cur' = [cur EXCEPT ![p] = b]
  /\ wrote' = [wrote EXCEPT ![p] = @ \cup {b}]
  /\ pc' = [pc EXCEPT ![p] = "appending"]
  /\ mode' = IF Len(lh) >= LOGSIZE \/ Len(lh) >= LogCap \/ outstanding < 1
               THEN "panic" ELSE "up"
  /\ UNCHANGED <<diskVars, dirty, structLog, tail>>

(* The part of log_write under log.lock; a block already logged is         *)
(* absorbed.  The caller's brelse follows.                                 *)
LogWrite(p) ==
  /\ mode = "up" /\ pc[p] = "appending"
  /\ lh' = IF cur[p] \in Entries(lh) THEN lh ELSE Append(lh, cur[p])
  /\ dirty' = dirty \cup {cur[p]}
  /\ pc' = [pc EXCEPT ![p] = "inop"]
  /\ cur' = [cur EXCEPT ![p] = NoBlock]
  /\ UNCHANGED <<diskVars, cache, outstanding, committing, wrote, tail, mode>>

(* Mutant: only the committing end_op wakes the sleepers. *)
EndOpMutantNoWakeup(p) ==
  /\ mode = "up" /\ pc[p] = "inop"
  /\ outstanding' = outstanding - 1
  /\ committing' = (outstanding = 1)
  /\ pc' = [pc EXCEPT ![p] = IF outstanding > 1 THEN "idle"
                             ELSE IF lh = <<>> THEN "finish" ELSE "writelog"]
  /\ wrote' = [wrote EXCEPT ![p] = {}]
  /\ tail' = 1
  /\ UNCHANGED <<diskVars, memVars, lh, cur, mode>>

EndOp(p) ==
  /\ mode = "up" /\ pc[p] = "inop"
  /\ outstanding' = outstanding - 1
  /\ mode' = IF committing THEN "panic" ELSE "up"
  /\ IF outstanding = 1
       THEN /\ committing' = TRUE
            /\ pc' = [pc EXCEPT ![p] = IF lh = <<>> THEN "finish" ELSE "writelog"]
       ELSE /\ committing' = committing
            /\ pc' = Wakeup([pc EXCEPT ![p] = "idle"])
  /\ wrote' = [wrote EXCEPT ![p] = {}]
  /\ tail' = 1
  /\ UNCHANGED <<diskVars, memVars, lh, cur>>

-----------------------------------------------------------------------------
(* commit(), one disk write at a time.                                     *)

(* The block log.start+i: past the log it is the first inode block.        *)
LogBlock(i) == IF i <= LogCap THEN logblk[i] ELSE home[InodeBlock]

WriteLogBlock(p) ==
  /\ mode = "up" /\ pc[p] = "writelog"
  /\ LET v == cache[lh[tail]] IN
       IF tail <= LogCap
         THEN /\ logblk' = [logblk EXCEPT ![tail] = v]
              /\ UNCHANGED <<home, cache>>
         ELSE /\ home' = [home EXCEPT ![InodeBlock] = v]
              /\ cache' = [cache EXCEPT ![InodeBlock] = v]
              /\ UNCHANGED logblk
  /\ tail' = tail + 1
  /\ pc' = [pc EXCEPT ![p] = IF tail = Len(lh) THEN "writehead" ELSE @]
  /\ UNCHANGED <<hdr, dirty, structLog, cur, wrote, mode>>

(* Mutant: the header is written last, after the blocks went home. *)
WriteHeadMutant(p) ==
  /\ mode = "up" /\ pc[p] = "writehead"
  /\ tail' = 1
  /\ pc' = [pc EXCEPT ![p] = "install"]
  /\ UNCHANGED <<diskVars, memVars, structLog, cur, wrote, mode>>

(* The commit point. *)
WriteHead(p) ==
  /\ mode = "up" /\ pc[p] = "writehead"
  /\ hdr' = lh
  /\ tail' = 1
  /\ pc' = [pc EXCEPT ![p] = "install"]
  /\ UNCHANGED <<home, logblk, memVars, structLog, cur, wrote, mode>>

(* One round of install_trans' loop: bwrite leaves the buffer clean. *)
InstallBlock ==
  /\ home' = [home EXCEPT ![lh[tail]] = LogBlock(tail)]
  /\ cache' = [cache EXCEPT ![lh[tail]] = LogBlock(tail)]
  /\ dirty' = dirty \ {lh[tail]}
  /\ tail' = tail + 1

(* Mutant: the loop stops one block early. *)
InstallTransMutant(p) ==
  /\ mode = "up" /\ pc[p] = "install"
  /\ InstallBlock
  /\ pc' = [pc EXCEPT ![p] = IF tail >= Len(lh) - 1 THEN "erase" ELSE @]
  /\ UNCHANGED <<hdr, logblk, structLog, cur, wrote, mode>>

InstallTrans(p) ==
  /\ mode = "up" /\ pc[p] = "install"
  /\ InstallBlock
  /\ pc' = [pc EXCEPT ![p] = IF tail = Len(lh) THEN "erase" ELSE @]
  /\ UNCHANGED <<hdr, logblk, structLog, cur, wrote, mode>>

(* log.lh.n = 0; write_head() *)
EraseLog ==
  /\ lh' = <<>>
  /\ hdr' = <<>>

Erase(p) ==
  /\ mode = "up" /\ pc[p] = "erase"
  /\ EraseLog
  /\ pc' = [pc EXCEPT ![p] = "finish"]
  /\ UNCHANGED <<home, logblk, memVars, outstanding, committing, cur, wrote, tail, mode>>

(* Mutant: the call is counted off a second time after the commit. *)
FinishMutantTwice(p) ==
  /\ mode = "up" /\ pc[p] = "finish"
  /\ committing' = FALSE
  /\ outstanding' = outstanding - 1
  /\ pc' = Wakeup([pc EXCEPT ![p] = "idle"])
  /\ UNCHANGED <<diskVars, memVars, lh, cur, wrote, tail, mode>>

(* Mutant: no wakeup(&log) when the commit is over. *)
FinishMutantNoWakeup(p) ==
  /\ mode = "up" /\ pc[p] = "finish"
  /\ committing' = FALSE
  /\ pc' = [pc EXCEPT ![p] = "idle"]
  /\ UNCHANGED <<diskVars, memVars, lh, outstanding, cur, wrote, tail, mode>>

(* The end of end_op. *)
Finish(p) ==
  /\ mode = "up" /\ pc[p] = "finish"
  /\ committing' = FALSE
  /\ pc' = Wakeup([pc EXCEPT ![p] = "idle"])
  /\ UNCHANGED <<diskVars, memVars, lh, outstanding, cur, wrote, tail, mode>>

-----------------------------------------------------------------------------
(* The buffer cache recycles a clean, unlocked buffer; a later bread()     *)
(* takes the block from the disk (bio.c).                                  *)
Recycle(b) ==
  /\ mode = "up"
  /\ b \notin dirty \cup Locked
  /\ cache' = [cache EXCEPT ![b] = home[b]]
  /\ UNCHANGED <<diskVars, dirty, structLog, pc, cur, wrote, tail, mode>>

(* Power loss, or the operator's answer to a panic: memory is gone. *)
Crash ==
  /\ cache' = home /\ dirty' = {}
  /\ lh' = <<>> /\ outstanding' = 0 /\ committing' = FALSE
  /\ pc' = [p \in Caller |-> "idle"]
  /\ cur' = [p \in Caller |-> NoBlock]
  /\ wrote' = [p \in Caller |-> {}]
  /\ tail' = 1
  /\ mode' = "read"
  /\ UNCHANGED diskVars

-----------------------------------------------------------------------------
(* recover_from_log(), run by initlog() before any call.                   *)

ReadHead ==
  /\ mode = "read"
  /\ lh' = hdr
  /\ tail' = 1
  /\ mode' = IF hdr = <<>> THEN "clear" ELSE "install"
  /\ UNCHANGED <<diskVars, memVars, outstanding, committing, pc, cur, wrote>>

RecoverInstall ==
  /\ mode = "install"
  /\ InstallBlock
  /\ mode' = IF tail = Len(lh) THEN "clear" ELSE "install"
  /\ UNCHANGED <<hdr, logblk, structLog, pc, cur, wrote>>

RecoverClear ==
  /\ mode = "clear"
  /\ EraseLog
  /\ mode' = "up"
  /\ UNCHANGED <<home, logblk, memVars, outstanding, committing, pc, cur, wrote, tail>>

-----------------------------------------------------------------------------
CallStep(p) ==
  \/ BeginOpSleep(p) \/ BeginOp(p) \/ LogWrite(p) \/ EndOp(p)
  \/ \E b \in Block, v \in Val : Modify(p, b, v)

CommitStep(p) ==
  WriteLogBlock(p) \/ WriteHead(p) \/ InstallTrans(p) \/ Erase(p) \/ Finish(p)

Recover == ReadHead \/ RecoverInstall \/ RecoverClear

Next ==
  \/ \E p \in Caller : CallStep(p) \/ CommitStep(p)
  \/ \E b \in Block : Recycle(b)
  \/ Recover
  \/ Crash

Spec == Init /\ [][Next]_vars

(* Every caller runs on: the disk answers, commits and recoveries go on,   *)
(* and each call, having finitely many blocks to write, reaches end_op.    *)
FairSpec ==
  /\ Spec
  /\ WF_vars(Recover)
  /\ \A p \in Caller : WF_vars(LogWrite(p)) /\ WF_vars(CommitStep(p)) /\ SF_vars(EndOp(p))

-----------------------------------------------------------------------------
(* Properties.                                                             *)

TypeOK ==
  /\ home \in [Block -> Val] /\ cache \in [Block -> Val]
  /\ logblk \in [1..LogCap -> Val]
  /\ hdr \in Seq(Block) /\ lh \in Seq(Block)
  /\ dirty \subseteq Block
  /\ outstanding \in Nat /\ committing \in BOOLEAN
  /\ pc \in [Caller -> PC]
  /\ cur \in [Caller -> Block \cup {NoBlock}] /\ wrote \in [Caller -> SUBSET Block]
  /\ tail \in Nat \ {0}
  /\ mode \in {"read", "install", "clear", "up", "panic"}

(* What a reboot at this moment would find once recovery has run. *)
Recovered ==
  [b \in Block |-> IF b \in Entries(hdr)
                     THEN LogBlock(CHOOSE i \in 1..Len(hdr) : hdr[i] = b)
                     ELSE home[b]]

(* The contents calls see; before recovery has finished there are none, and *)
(* what they will see is what recovery reconstructs.                        *)
Visible == IF mode \in {"up", "panic"} THEN cache ELSE Recovered

(* The log makes file-system calls atomic with respect to crashes: the     *)
(* contents a reboot would find change only when no call is in progress,   *)
(* and then to the effects of all completed calls at once (log.c:11-15).   *)
AD == INSTANCE AtomicDisk
        WITH durable <- Recovered, view <- Visible, active <- Active
CrashAtomic == AD!Spec

(* begin_op never sleeps on a reason that has gone away: every sleeper's   *)
(* condition still holds, so no wakeup(&log) of end_op was lost.           *)
SleepersBlocked ==
  \A p \in Caller : pc[p] = "asleep" => committing \/ LogFull

(* Nobody sleeps in begin_op for ever. *)
SleepersWoken == \A p \in Caller : pc[p] = "asleep" ~> pc[p] # "asleep"

(* When no call is in progress and none is committing, everything written  *)
(* is at home on the disk, the log is empty and no buffer is pinned.       *)
QuiescentDurable ==
  mode = "up" /\ outstanding = 0 /\ ~ committing =>
    lh = <<>> /\ hdr = <<>> /\ dirty = {} /\ home = cache

(* Calls that log no more blocks than they reserved never run log_write    *)
(* into its "too big a transaction" panic, and commit() never writes past  *)
(* the end of the on-disk log.                                             *)
ReservationSuffices == mode # "panic" /\ Len(lh) <= LogCap
=============================================================================
