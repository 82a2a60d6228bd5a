--------------------------- MODULE SyncInvariant ---------------------------
(***************************************************************************)
(* The inductive invariant of storeTipBlock.                               *)
(*                                                                         *)
(* HeightsTruthful is not inductive: a job carries heights and hashes it   *)
(* read earlier, so the invariant says, phase by phase, what is still true *)
(* of them however much was written since.  Only two kinds of fact         *)
(* survive: a stored block stays stored, and a database with a tip keeps   *)
(* one.  It holds when all callers allow reorganisations.                  *)
(***************************************************************************)
EXTENDS Sync

Stored(k) == k \in Block /\ Has(k)
Follows(k) == k = NoHash \/ Stored(k)
NewPrev(s) == Parent[job[s].blk]

(* The links lead to stored blocks, the way the headers do. *)
LinkInv ==
  /\ ~Has(Zeros) /\ ~Has(NoHash) /\ main[Zeros] = 0 /\ main[NoHash] = 0
  /\ \A b \in Block : Has(b) => prev[b] = Parent[b] /\ (b = Genesis \/ Stored(Parent[b]))
  /\ \A k \in Key : Follows(next[k])

TruthfulTip(e) == e # NoEntry => Stored(e.hash) /\ e.height = Depth[e.hash]
TipInv ==
  /\ TruthfulTip(bti) /\ TruthfulTip(cachedTip)
  /\ cachedTip # NoEntry => bti # NoEntry
  /\ bti = NoEntry => \A b \in Block : Has(b) => b = Genesis

DbInv == LinkInv /\ TipInv /\ HeightsTruthful /\ TxIndexTruthful

(* Only Genesis is stored into a database without a tip: the parent of any *)
(* other block is missing in it, unless the parent is Genesis.             *)
CallInv(call) == call.allow /\ (bti # NoEntry \/ Parent[call.blk] # Genesis)
Founded(s) == job[s].blk = Genesis \/ bti # NoEntry

(* The height computed for the new block is its own, on a stored parent. *)
Placed(s) ==
  /\ job[s].height = Depth[job[s].blk]
  /\ job[s].blk = Genesis \/ Stored(NewPrev(s))

(* The branch is a run of stored blocks that ends in the new parent, and   *)
(* hashInterator is the hash before it.                                    *)
BranchInv(s) ==
  \A i \in 1 .. Len(job[s].branch) :
    /\ Stored(job[s].branch[i])
    /\ Depth[job[s].branch[i]] = Depth[NewPrev(s)] - (Len(job[s].branch) - i)
CurInv(s) ==
  \/ job[s].cur = Zeros
  \/ Stored(job[s].cur) /\ Depth[job[s].cur] = Depth[NewPrev(s)] - Len(job[s].branch)

(* The walk ran past Genesis: the next setBlockMain throws. *)
Doomed(s) == job[s].branch # << >> /\ job[s].branch[1] = Zeros

(* What the call a job waits for may rely on. *)
PhaseInv(s) ==
  /\ pc[s] \in {"reorg", "timer"} => Follows(job[s].oldNext)
  /\ pc[s] \in {"walk", "walked", "connect", "fork", "relink"} => Stored(NewPrev(s))
  /\ pc[s] = "walk" => BranchInv(s) /\ CurInv(s)
  /\ pc[s] = "walked" =>
       /\ job[s].branch # << >> /\ job[s].top = job[s].branch[1]
       /\ (job[s].cur = NoHash /\ Doomed(s)) \/ (BranchInv(s) /\ CurInv(s))
  /\ pc[s] = "connect" =>
       \/ Doomed(s)
       \/ /\ BranchInv(s) /\ Stored(job[s].cur) /\ Stored(job[s].top)
          /\ job[s].height = Depth[NewPrev(s)] - Len(job[s].branch) + 1
  /\ pc[s] \in {"fork", "relink"} => Stored(job[s].cur) /\ Stored(job[s].top)
  /\ pc[s] = "relink" => Follows(job[s].from)
  /\ pc[s] \in {"orphan", "follow"} => Stored(job[s].from)
  /\ pc[s] \in {"fork", "relink", "orphan", "follow", "addTxs", "add"} => Placed(s)
  /\ pc[s] \in {"setTip", "setNext"} => Placed(s) /\ Stored(job[s].blk)

CallsInv(s) ==
  /\ \A call \in waiting[s] : CallInv(call)
  /\ pc[s] # "idle" => CallInv(job[s])
  /\ pc[s] \notin {"idle", "check"} => Founded(s)
  /\ bti = NoEntry => cachedLastHash[s] \in {NoHash, Genesis}

JobInv(s) == CallsInv(s) /\ PhaseInv(s)

(* The invariant: the database is truthful and every unfinished job keeps  *)
(* what it needs for its next writes to be.                                *)
IInv == TypeOK /\ DbInv /\ \A s \in Syncer : JobInv(s)
============================================================================
