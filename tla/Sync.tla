------------------------------- MODULE Sync -------------------------------
(***************************************************************************)
(* lib/Sync.js: storeTipBlock and the reorganisation it runs.  The process *)
(* is single threaded, but every database or RPC call gives way to other   *)
(* callbacks, so each call is one step here and pc says which call a job   *)
(* waits for.  PeerSync and HistoricSync each make a Sync object of their  *)
(* own (Syncer); the objects share one BlockDb, and the lock storingBlock  *)
(* of an object keeps out that object's other jobs only.                   *)
(***************************************************************************)
EXTENDS BlockDb

CONSTANTS
  Syncer,     \* the Sync objects of the process
  Faults,     \* the failures considered, a subset of AllFaults
  Async3      \* version 3 of async runs the loops, which package.json asks for

AllFaults == {"rpc", "kill"}

ASSUME SyncAssumption ==
  /\ NoHash \notin Syncer
  /\ Faults \subseteq AllFaults
  /\ Async3 \in BOOLEAN

VARIABLES
  pc,             \* pc[s]: the call the job of s waits for, "idle" without one
  job,            \* job[s]: the arguments and locals of that job
  waiting,        \* waiting[s]: calls that poll for the lock every second
  cachedLastHash, \* cachedLastHash[s]: the last block s started to add
  reply,          \* reply[s]: what the last finished job answered
  crashed         \* an exception nobody catches, or a kill, ended the process

syncVars == <<pc, job, waiting, cachedLastHash, reply, crashed>>
vars == <<dbVars, syncVars>>

Call == [blk : Block, allow : BOOLEAN]

(* storingBlock is set exactly while a job is between Begin and its reply. *)
storingBlock(s) == pc[s] # "idle"

(* blk, allow: the arguments.  height: the height to give blk.  oldNext,   *)
(* retried: storeTipBlock.  from: orphanizeFrom, then the iterator of      *)
(* _setBranchOrphan.  cur, branch, top: hashInterator, branch and lastHash *)
(* of setBranchConnectedBackwards.                                         *)
Job == [blk : Block, allow : BOOLEAN, height : Int, oldNext : Key,
        retried : BOOLEAN, from : Key, cur : Key, branch : Seq(Key), top : Key]

NewJob(call) ==
  [blk |-> call.blk, allow |-> call.allow, height |-> -1, oldNext |-> NoHash,
   retried |-> FALSE, from |-> NoHash, cur |-> NoHash, branch |-> << >>, top |-> NoHash]

Phases ==
  {"idle", "check", "tip", "next", "reorg", "timer", "walk", "walked", "connect",
   "fork", "relink", "orphan", "follow", "addTxs", "add", "setTip", "setNext"}

Replies == {"none", "ok", "needSync", "failed"}

TypeOK ==
  /\ DbTypeOK
  /\ pc \in [Syncer -> Phases]
  /\ job \in [Syncer -> Job]
  /\ waiting \in [Syncer -> SUBSET Call]
  /\ cachedLastHash \in [Syncer -> Key]
  /\ reply \in [Syncer -> Replies]
  /\ crashed \in BOOLEAN

IdleJob == NewJob([blk |-> Genesis, allow |-> TRUE])

SyncInit ==
  /\ pc = [s \in Syncer |-> "idle"]
  /\ job = [s \in Syncer |-> IdleJob]
  /\ waiting = [s \in Syncer |-> {}]
  /\ cachedLastHash = [s \in Syncer |-> NoHash]
  /\ reply = [s \in Syncer |-> "none"]
  /\ crashed = FALSE

Init == DbInit /\ SyncInit

----------------------------------------------------------------------------
(* Moving a job on. *)

GoTo(s, phase) == pc' = [pc EXCEPT ![s] = phase]

(* Wait for the given call next, with job j. *)
Continue(s, phase, j) ==
  /\ GoTo(s, phase)
  /\ job' = [job EXCEPT ![s] = j]
  /\ UNCHANGED <<waiting, cachedLastHash, reply, crashed>>

(* Mutant: the answer leaves the lock taken. *)
AnswerLocked(s, r) ==
  /\ reply' = [reply EXCEPT ![s] = r]
  /\ UNCHANGED <<pc, job, waiting, cachedLastHash, crashed>>

(* Lock released, answer given, locals gone. *)
Answer(s, r) ==
  /\ GoTo(s, "idle")
  /\ job' = [job EXCEPT ![s] = IdleJob]
  /\ reply' = [reply EXCEPT ![s] = r]
  /\ UNCHANGED <<waiting, cachedLastHash, crashed>>

(* cachedLastHash is set before the block is added. *)
StartAdd(s, j) ==
  /\ GoTo(s, "addTxs")
  /\ job' = [job EXCEPT ![s] = j]
  /\ cachedLastHash' = [cachedLastHash EXCEPT ![s] = j.blk]
  /\ UNCHANGED <<waiting, reply, crashed>>

(* The volatile state goes with the process. *)
ProcessEnds ==
  /\ crashed' = TRUE
  /\ pc' = [s \in Syncer |-> "idle"]
  /\ job' = [s \in Syncer |-> IdleJob]
  /\ waiting' = [s \in Syncer |-> {}]
  /\ cachedLastHash' = [s \in Syncer |-> NoHash]
  /\ reply' = [s \in Syncer |-> "none"]

Waits(s, phase) == ~crashed /\ pc[s] = phase

(* The steps that begin with the first test of an async.whilst, or of an   *)
(* async.doWhilst.  The tests return their answer and call nobody back:    *)
(* before version 3 the answer is taken, version 3 waits for the call.     *)
AtTest(s) == pc[s] \in {"walked", "connect", "orphan"}

----------------------------------------------------------------------------
(* storeTipBlock up to its first call: the lock is free and is taken. *)

Begin(s, call) ==
  LET sure == Parent[call.blk] = cachedLastHash[s]
      first == IF sure THEN "tip" ELSE "check"
  IN  /\ GoTo(s, IF call.allow THEN first ELSE "addTxs")
      /\ job' = [job EXCEPT ![s] = NewJob(call)]
      /\ reply' = [reply EXCEPT ![s] = "none"]
      /\ cachedLastHash' = [cachedLastHash EXCEPT ![s] = IF call.allow THEN @ ELSE call.blk]

(* storeTipBlock is called: it starts, or it polls for the lock. *)
StoreTipBlock(s, call) ==
  /\ ~crashed
  /\ UNCHANGED <<dbVars, crashed>>
  /\ \/ /\ ~storingBlock(s)
        /\ Begin(s, call)
        /\ UNCHANGED waiting
     \/ /\ storingBlock(s)
        /\ waiting' = [waiting EXCEPT ![s] = @ \cup {call}]
        /\ UNCHANGED <<pc, job, cachedLastHash, reply>>

(* The timer of a delayed call finds the lock free: any of them may win. *)
Poll(s, call) ==
  /\ ~crashed
  /\ ~storingBlock(s)
  /\ call \in waiting[s]
  /\ Begin(s, call)
  /\ waiting' = [waiting EXCEPT ![s] = @ \ {call}]
  /\ UNCHANGED <<dbVars, crashed>>

(* Is the previous block stored?  Without it the block is dropped. *)
CheckPrev(s) ==
  LET newPrev == Parent[job[s].blk] IN
  /\ Waits(s, "check")
  /\ UNCHANGED dbVars
  /\ IF Has(newPrev) \/ newPrev = Zeros
     THEN Continue(s, "tip", job[s])
     ELSE Answer(s, "needSync")

(* Mutant: the new block always goes on the tip. *)
ReadTipOnly(s) ==
  /\ Waits(s, "tip")
  /\ CacheTip
  /\ StartAdd(s, [job[s] EXCEPT !.height = GetTip.height + 1])

(* Compare the tip with the new block's parent. *)
ReadTip(s) ==
  LET oldTip == GetTip
      needReorg == oldTip # NoEntry /\ oldTip.hash # Parent[job[s].blk]
  IN  /\ Waits(s, "tip")
      /\ CacheTip
      /\ IF needReorg
         THEN Continue(s, "next", job[s])
         ELSE StartAdd(s, [job[s] EXCEPT !.height = oldTip.height + 1])

ReadNext(s) ==
  /\ Waits(s, "next")
  /\ Continue(s, "reorg", [job[s] EXCEPT !.oldNext = GetNext(Parent[job[s].blk])])
  /\ UNCHANGED dbVars

----------------------------------------------------------------------------
(* processReorg. *)

(* The parent's height decides: 0 is taken for a missing block (case 3, or *)
(* Genesis), a negative one needs its branch connected (case 2), and so    *)
(* does a connected parent without a next block.                           *)
ReorgHeight(s) ==
  LET newPrev == Parent[job[s].blk]
      h == GetHeight(newPrev)
      walk == [job[s] EXCEPT !.cur = newPrev, !.branch = << >>, !.from = NoHash]
  IN  /\ Waits(s, "reorg")
      /\ UNCHANGED dbVars
      /\ \/ /\ h = 0 /\ ~job[s].retried
            /\ Continue(s, "timer", job[s])
         \/ /\ h = 0 /\ job[s].retried
            /\ ProcessEnds
         \/ /\ h > 0 /\ job[s].oldNext # NoHash
            /\ Continue(s, "orphan", [job[s] EXCEPT !.height = h + 1,
                                                    !.from = job[s].oldNext])
         \/ /\ h < 0 \/ (h > 0 /\ job[s].oldNext = NoHash)
            /\ Continue(s, "walk", walk)

(* The second try, five seconds later, with what was read before the first. *)
RetryReorg(s) ==
  /\ Waits(s, "timer")
  /\ Continue(s, "reorg", [job[s] EXCEPT !.retried = TRUE])
  /\ UNCHANGED dbVars

(* setBranchConnectedBackwards: one block back ... *)
WalkBack(s) ==
  LET j == job[s] IN
  /\ Waits(s, "walk")
  /\ Continue(s, "walked", [j EXCEPT !.branch = <<j.cur>> \o @, !.top = j.cur,
                                     !.cur = GetPrev(j.cur)])
  /\ UNCHANGED dbVars

(* ... until a block with a positive height, or the start of the chain. *)
WalkTest(s) ==
  LET j == job[s]
      yHeight == GetHeight(j.cur)
  IN  /\ Waits(s, "walked") /\ ~Async3
      /\ UNCHANGED dbVars
      /\ IF j.cur # NoHash /\ yHeight <= 0
         THEN Continue(s, "walk", j)
         ELSE Continue(s, "connect", [j EXCEPT !.height = yHeight + 1])

(* setBlockMain over the branch, heights going up.  A hash bitcoind does *)
(* not know makes the callback throw.                                    *)
Connect(s) ==
  LET j == job[s]
      h == Head(j.branch)
      rest == Tail(j.branch)
  IN  /\ Waits(s, "connect") /\ ~Async3
      /\ j.branch # << >>
      /\ \/ /\ h \in Block
            /\ SetBlockMain(h, j.height)
            /\ Continue(s, IF rest = << >> THEN "fork" ELSE "connect",
                        [j EXCEPT !.branch = rest, !.height = @ + 1])
         \/ /\ h \notin Block
            /\ ProcessEnds
            /\ UNCHANGED dbVars

(* What followed the fork block is to be orphaned ... *)
ReadFork(s) ==
  /\ Waits(s, "fork")
  /\ Continue(s, "relink", [job[s] EXCEPT !.from = GetNext(job[s].cur)])
  /\ UNCHANGED dbVars

(* Mutant: the fork block keeps its next pointer. *)
RelinkNothing(s) ==
  /\ Waits(s, "relink")
  /\ UNCHANGED dbVars
  /\ IF job[s].from = NoHash
     THEN StartAdd(s, job[s])
     ELSE Continue(s, "orphan", job[s])

(* ... and the connected branch follows it now. *)
Relink(s) ==
  LET j == job[s] IN
  /\ Waits(s, "relink")
  /\ SetNext(j.cur, j.top)
  /\ IF j.from = NoHash
     THEN StartAdd(s, j)
     ELSE Continue(s, "orphan", j)

(* _setBranchOrphan: this block leaves the main chain ... *)
Orphan(s) ==
  /\ Waits(s, "orphan") /\ ~Async3
  /\ SetBlockNotMain(job[s].from)
  /\ Continue(s, "follow", job[s])

(* Mutants: only the first block is orphaned; the end is not noticed. *)
FollowNothing(s) ==
  /\ Waits(s, "follow")
  /\ UNCHANGED dbVars
  /\ StartAdd(s, job[s])
FollowBlindly(s) ==
  /\ Waits(s, "follow")
  /\ UNCHANGED dbVars
  /\ Continue(s, "orphan", [job[s] EXCEPT !.from = GetNext(@)])

(* ... and then the one its next pointer names. *)
Follow(s) ==
  LET j == job[s]
      n == GetNext(j.from)
  IN  /\ Waits(s, "follow")
      /\ UNCHANGED dbVars
      /\ IF n = NoHash
         THEN StartAdd(s, j)
         ELSE Continue(s, "orphan", [j EXCEPT !.from = n])

----------------------------------------------------------------------------
(* The end of storeTipBlock: add, setTip, setNext. *)

(* Mutant: the tip moves without the block. *)
AddTxsOnly(s) ==
  /\ Waits(s, "addTxs")
  /\ Continue(s, "setTip", job[s])
  /\ UNCHANGED dbVars

(* TransactionDb.addMany has written the transactions. *)
AddTxs(s) ==
  /\ Waits(s, "addTxs")
  /\ Continue(s, "add", job[s])
  /\ UNCHANGED dbVars

AddBlock(s) ==
  LET j == job[s] IN
  /\ Waits(s, "add")
  /\ Add(j.blk, j.height)
  /\ Continue(s, IF j.allow THEN "setTip" ELSE "setNext", j)

MoveTip(s) ==
  /\ Waits(s, "setTip")
  /\ SetTip(job[s].blk, job[s].height)
  /\ Continue(s, "setNext", job[s])

(* Mutant: a block that became the tip is not linked. *)
LinkUnlessTip(s) ==
  /\ Waits(s, "setNext")
  /\ IF job[s].allow THEN UNCHANGED dbVars ELSE SetNext(Parent[job[s].blk], job[s].blk)
  /\ Answer(s, "ok")

(* The pointer is written in every mode; its callback ends the job. *)
LinkPrev(s) ==
  /\ Waits(s, "setNext")
  /\ SetNext(Parent[job[s].blk], job[s].blk)
  /\ Answer(s, "ok")

----------------------------------------------------------------------------
(* Failures. *)

(* bitcoind fails to answer for a transaction: the job ends in an error. *)
AddTxsFails(s) ==
  /\ "rpc" \in Faults
  /\ Waits(s, "addTxs")
  /\ Answer(s, "failed")
  /\ UNCHANGED dbVars

(* bitcoind fails to answer for a block whose height is to change: throw. *)
HeightChangeThrows(s) ==
  /\ "rpc" \in Faults
  /\ Waits(s, "connect") \/ Waits(s, "orphan")
  /\ ~Async3
  /\ ProcessEnds
  /\ UNCHANGED dbVars

(* The process is killed between two steps. *)
Kill ==
  /\ "kill" \in Faults
  /\ ~crashed
  /\ ProcessEnds
  /\ UNCHANGED dbVars

(* It comes back with the database and an empty memory. *)
Restart ==
  /\ "kill" \in Faults
  /\ crashed
  /\ crashed' = FALSE
  /\ cachedTip' = NoEntry
  /\ UNCHANGED <<prev, next, main, btx, bts, bti, pc, job, waiting, cachedLastHash, reply>>

----------------------------------------------------------------------------
Step(s) ==
  \/ CheckPrev(s) \/ ReadTip(s) \/ ReadNext(s)
  \/ ReorgHeight(s) \/ RetryReorg(s)
  \/ WalkBack(s) \/ WalkTest(s) \/ Connect(s) \/ ReadFork(s) \/ Relink(s)
  \/ Orphan(s) \/ Follow(s)
  \/ AddTxs(s) \/ AddBlock(s) \/ MoveTip(s) \/ LinkPrev(s)

(* Mutant: a call that finds the lock taken sets no timer. *)
NoPolls(s) == FALSE

Polls(s) == \E call \in waiting[s] : Poll(s, call)

Fault == Kill \/ Restart \/ \E s \in Syncer : AddTxsFails(s) \/ HeightChangeThrows(s)

----------------------------------------------------------------------------
(* Properties. *)

(* b and its ancestors. *)
Down[b \in Block] == {b} \cup (IF b = Genesis THEN {} ELSE Down[Parent[b]])
Chain == [b \in Block |-> Down[b]]

Quiet == ~crashed /\ \A s \in Syncer : ~storingBlock(s)
Best == IF bti = NoEntry THEN {} ELSE Chain[bti.hash]

(* A stored block carries -1 or its true height, at every step of every    *)
(* reorganisation (setBranchConnectedBackwards counts up from the first    *)
(* block it takes for connected).                                          *)
HeightsTruthful ==
  \A b \in Block : main[b] \in IF Has(b) THEN {-1, Depth[b]} ELSE {0}

(* A transaction is only ever indexed under a block that holds it and is   *)
(* on the main chain at the height of the entry, also between two steps of *)
(* a reorganisation (_changeBlockHeight batches the height with the btx    *)
(* keys).                                                                  *)
TxIndexTruthful ==
  \A t \in Tx : btx[t] # NoEntry =>
    /\ t \in TxsOf[btx[t].hash]
    /\ btx[t].height = main[btx[t].hash]
    /\ btx[t].height >= 0

(* When no block is being stored every ancestor of the tip has its height: *)
(* processReorg connected the whole branch under the new block.            *)
BestChainConnected == Quiet => \A b \in Best : main[b] = Depth[b]

(* ... every other stored block is off the main chain: _setBranchOrphan    *)
(* reached the end of the old branch.                                      *)
BranchesOrphaned == Quiet => \A b \in Block \ Best : Has(b) => main[b] = -1

(* ... the next pointers lead from Genesis to the tip, which the next      *)
(* reorganisation relies on to find the blocks it has to orphan.           *)
ForwardLinks == Quiet => \A b \in Best : next[Parent[b]] = b

(* ... and every transaction of the best chain is indexed under a block of *)
(* it.                                                                     *)
TxIndexComplete ==
  Quiet => \A b \in Best : \A t \in TxsOf[b] : btx[t].hash \in Best

(* The abstract store, read off the database: blocks are the keys with a   *)
(* previous block, the tip is the one on disk.                             *)
Abstract == INSTANCE BestChain
  WITH known <- {b \in Block : Has(b)}, best <- <<bti.hash, bti.height>>

(* storeTipBlock implements it under any interleaving of Sync objects, any *)
(* failure and any restart: check, add and setTip come in that order.      *)
BlocksOnStoredParents == Abstract!Spec

(* No reorganisation throws: the branch always leads back to a main block. *)
NeverCrashes == ~crashed
============================================================================
