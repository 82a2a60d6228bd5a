------------------------- MODULE HistoricInvariant -------------------------
(***************************************************************************)
(* What one HistoricSync keeps of the best chain while it is the only one  *)
(* to write, from the start of the process to the end of its loop.         *)
(*                                                                         *)
(* updateStartBlock takes the tip and the blocks below it off the main     *)
(* chain one at a time, and the loop first stores the block it stopped at  *)
(* once more: so the database is not at rest until that repetition is over,*)
(* and every step between relies on the locals of the search.              *)
(***************************************************************************)
EXTENDS Insight, ReorgInvariant

(* The chain of bitcoind and the stored one share the blocks 0, 1 and 2.  A *)
(* sync that repeats a lower block throws, for its parent has height 0.     *)
SharedBase == \A x, y \in Block : Depth[x] = Depth[y] /\ Depth[x] <= 2 => x = y

Searching == hist.step \in {"info", "height", "demote"}
Resuming == Searching /\ hist.oldtip # NoHash

(* The Sync object of the HistoricSync runs one job at a time, others none. *)
TurnsInv ==
  /\ \A s \in Syncer : waiting[s] = {} /\ (pc[s] # "idle" => s = "historic")
  /\ pc["historic"] # "idle" <=> hist.step = "store"
  /\ crashed => hist.step # "store"
  /\ hist.status = "starting" <=> hist.step \in {"count", "tip", "info", "height", "demote"}
  /\ hist.status = "syncing" <=> hist.step \in {"fetch", "store"}
  /\ cachedTip # NoEntry => cachedTip = bti

(* Nothing is taken from above bitcoind's tip. *)
ReachInv ==
  /\ bti.height <= Depth[node]
  /\ pc["historic"] # "idle" => Depth[job["historic"].blk] <= Depth[node]
  /\ hist.step \in {"fetch", "store"} /\ hist.cursor # NoHash =>
       Depth[hist.cursor] <= Depth[node]

(* A next pointer leads to a child, and up every connected block but the   *)
(* one a job has just added.                                               *)
PointsInv ==
  /\ \A k \in Hash : next[k] # NoHash => Parent[next[k]] = k
  /\ \A b \in Connected :
       \/ next[Parent[b]] = b
       \/ pc["historic"] \in {"setTip", "setNext"} /\ b = job["historic"].blk

(* The search gave up when it had already demoted the tip: each later      *)
(* start finds that tip at -1, too far off again, and gives up, too.       *)
Lost == bti # NoEntry /\ main[bti.hash] = -1 /\ bti.height >= RollbackLimit

(* Where the search is: the tip, or the parent of a connected block it     *)
(* came from and is about to demote.                                       *)
WayBackInv ==
  /\ crashed \/ hist.step \in {"count", "tip"} \/ (Searching /\ ~Resuming) =>
       /\ bti = NoEntry \/ bti.height >= 2
       /\ Connected = Best \/ Lost
  /\ ~crashed /\ Searching =>
       /\ bti # NoEntry /\ hist.height = bti.height
       /\ hist.tip \in Block /\ Depth[hist.tip] >= 2
       /\ hist.step # "info" /\ Depth[hist.tip] = 2 => hist.confirmed
  /\ ~crashed /\ Searching /\ ~Resuming => hist.tip = bti.hash /\ hist.step # "demote"
  /\ ~crashed /\ Resuming =>
       /\ hist.oldtip \in Best /\ Connected = Chain[hist.oldtip]
       /\ hist.tip = Parent[hist.oldtip]
       /\ hist.step = "demote" => hist.own = Depth[hist.tip]

(* A block goes on the tip, or is the highest one connected and repeats    *)
(* what the database has of it.                                            *)
Extends(b) == IF bti = NoEntry THEN b = Genesis ELSE Parent[b] = bti.hash
Comes(b) == Extends(b) /\ Connected = Best
Repeats(b) == b \in Best /\ Depth[b] >= 2 /\ Connected = Chain[b]

(* The loop. *)
LoopInv ==
  /\ hist.step = "none" /\ ~crashed => Connected = Best
  /\ hist.step = "fetch" =>
       IF hist.cursor = NoHash THEN Connected = Best
       ELSE Comes(hist.cursor) \/ Repeats(hist.cursor)
  /\ hist.step = "store" =>
       hist.cursor = NoHash \/ Parent[hist.cursor] = job["historic"].blk

(* The job: a block that repeats orphans itself first, and then what the   *)
(* next pointers lead to above it.                                         *)
PhasesInv ==
  LET o == job["historic"]
      phase == pc["historic"]
      p == Parent[o.blk]
  IN
  /\ phase \notin Walking \cup {"timer"}
  /\ phase \in {"check", "tip"} => Comes(o.blk) \/ Repeats(o.blk)
  /\ phase \in {"next", "reorg"} => Repeats(o.blk)
  /\ phase = "reorg" => o.oldNext = o.blk
  /\ phase \in {"orphan", "follow"} => o.blk \in Chain[o.from]
  /\ phase = "orphan" => Connected = IF o.from = o.blk THEN Chain[o.blk] ELSE Line(p)
  /\ phase \in {"follow", "addTxs", "add"} => Connected = Line(p)
  /\ phase \in {"setTip", "setNext"} => Connected = Chain[o.blk]
  /\ phase = "setNext" => bti.hash = o.blk

LineInv == TurnsInv /\ ReachInv /\ PointsInv /\ WayBackInv /\ LoopInv /\ PhasesInv

(* When HistoricSync follows bitcoind over RPC alone. *)
LineKept == config.disableP2p /\ ~config.disableHistoric /\ ~config.dataDir => LineInv
=============================================================================
