--------------------------- MODULE ReorgInvariant ---------------------------
(***************************************************************************)
(* What a reorganisation keeps of the best chain from call to call.        *)
(*                                                                         *)
(* SyncInvariant holds whatever happens between two calls, and so says     *)
(* nothing of which blocks are connected.  Here one Sync object writes,    *)
(* nothing fails, and the invariant says for each phase exactly which      *)
(* blocks are on the main chain and which next pointers may be relied on.  *)
(***************************************************************************)
EXTENDS SyncInvariant

(* The chain up to a block, or nothing below Genesis. *)
Line(k) == IF k \in Block THEN Chain[k] ELSE {}

(* The blocks on the main chain. *)
Connected == {b \in Block : Has(b) /\ main[b] >= 0}

(* The next pointers lead up to every block of S. *)
Linked(S) == \A b \in S : next[Parent[b]] = b

(* The blocks of the best chain from k on. *)
BestFrom(k) == {b \in Best : k \in Chain[b]}

(* The phases before the first write of a job, and those of processReorg.  *)
Reading == {"check", "tip", "next", "reorg", "walk", "walked"}
Walking == {"walk", "walked", "connect", "fork", "relink"}
Reorganising == {"next", "reorg", "orphan", "follow"} \cup Walking

(* b is stored and its parent does not lead to it yet. *)
Unlinked(b) == \E s \in Syncer : pc[s] \in {"setTip", "setNext"} /\ job[s].blk = b

(* A next pointer leads to a child; every stored block was pointed to once. *)
PointerInv ==
  /\ \A k \in Hash : next[k] # NoHash => Parent[next[k]] = k
  /\ \A b \in Block : ~Has(b) => next[b] = NoHash
  /\ \A b \in Block : Has(b) => next[Parent[b]] # NoHash \/ Unlinked(b)
  /\ cachedTip # NoEntry => cachedTip = bti

(* Calls that wait are about new blocks, and a job is about one or repeats *)
(* the tip.                                                                *)
QueueInv(s) ==
  /\ \A call \in waiting[s] :
       ~Has(call.blk) /\ (pc[s] # "idle" => call.blk # job[s].blk)
  /\ pc[s] \notin {"idle", "setTip", "setNext"} =>
       \/ ~Has(job[s].blk)
       \/ job[s].blk = bti.hash /\ Depth[job[s].blk] >= 2
  /\ \/ cachedLastHash[s] = NoHash \/ Stored(cachedLastHash[s])
     \/ pc[s] \in {"addTxs", "add"} /\ cachedLastHash[s] = job[s].blk

(* What is on the main chain. *)
ConnectedInv(s) ==
  LET p == NewPrev(s) IN
  /\ pc[s] \in {"idle"} \cup Reading => Connected = Best
  /\ pc[s] = "connect" =>
       Connected = Best \cup {b \in Line(p) : Depth[b] < job[s].height}
  /\ pc[s] \in {"fork", "relink"} => Connected = Best \cup Line(p)
  /\ pc[s] = "orphan" => Connected = Line(p) \cup BestFrom(job[s].from)
  /\ pc[s] = "follow" => Connected = Line(p) \cup (BestFrom(job[s].from) \ {job[s].from})
  /\ pc[s] \in {"addTxs", "add"} => Connected = Line(p)
  /\ pc[s] \in {"setTip", "setNext"} => Connected = Chain[job[s].blk]

(* Which pointers hold. *)
LinkedInv(s) ==
  LET p == NewPrev(s) IN
  /\ pc[s] \in {"idle"} \cup Reading \cup Walking => Linked(Best)
  /\ pc[s] \in {"orphan", "follow"} =>
       Linked(Line(p)) /\ Linked({b \in Best \ Line(p) : Parent[b] \notin Line(p)})
  /\ pc[s] \in {"addTxs", "add", "setTip", "setNext"} =>
       Linked(Line(p)) /\ next[job[s].blk] = NoHash
  /\ pc[s] \notin {"addTxs", "add", "setTip", "setNext"} /\ bti # NoEntry =>
       next[bti.hash] = NoHash

(* What the locals of a job say of the two branches. *)
LocalsInv(s) ==
  LET o == job[s]
      p == NewPrev(s)
  IN
  /\ pc[s] # "timer"
  /\ pc[s] = "tip" => o.blk = Genesis \/ Stored(p)
  /\ pc[s] \in Reorganising => Stored(p) /\ p # Genesis /\ bti # NoEntry
  /\ pc[s] \in {"next", "reorg"} => p # bti.hash
  /\ pc[s] = "reorg" => o.oldNext = next[p]
  /\ pc[s] \in Walking => p \notin Best
  /\ pc[s] \in {"walk", "walked", "connect"} =>
       \A i \in 1 .. Len(o.branch) : o.branch[i] \in Line(p)
  /\ pc[s] = "walk" => o.cur \in Line(p) \ Best
  /\ pc[s] = "walked" => o.cur # Genesis
  /\ pc[s] \in {"connect", "fork", "relink"} => o.cur \in Best
  /\ pc[s] \in {"walked", "connect", "fork", "relink"} =>
       o.cur \in Line(p) /\ o.top \in Line(p) \ Best /\ Parent[o.top] = o.cur
  /\ pc[s] = "relink" => o.from = next[o.cur]
  /\ pc[s] \in {"orphan", "follow"} => o.from \in Best \ Line(p)
  /\ pc[s] = "setNext" => bti.hash = o.blk

TurnInv(s) == QueueInv(s) /\ ConnectedInv(s) /\ LinkedInv(s) /\ LocalsInv(s)

RInv == PointerInv /\ ~crashed /\ \A s \in Syncer : TurnInv(s)

(* A transaction of a connected block is indexed under it. *)
OwnIndexInv == \A b \in Connected : \A t \in TxsOf[b] : btx[t].hash = b

(* No block comes on a branch off the best chain that itself forks: above  *)
(* the block where that branch leaves the best chain, each of its blocks   *)
(* is the only stored one on its parent.                                   *)
Straight(s) ==
  storingBlock(s) =>
    \A b \in Line(NewPrev(s)) \ Best : \A c \in Block :
      Parent[b] \notin Best /\ Has(c) /\ Parent[c] = Parent[b] => c = b

StraightBranches == \A s \in Syncer : Straight(s)
=============================================================================
