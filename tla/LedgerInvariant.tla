-------------------------- MODULE LedgerInvariant --------------------------
(***************************************************************************)
(* What makes a cached confirmation true for good.                         *)
(*                                                                         *)
(* A request counts confirmations from a height of the tip and an entry of *)
(* the index that it reads at different times, while Sync may be anywhere  *)
(* in a reorganisation and bitcoind may have left the chain that Sync is   *)
(* at.  The invariant bounds how far any height that was read can be above *)
(* a block that is still on the main chain here but no longer there.       *)
(***************************************************************************)
EXTENDS Ledger, ReorgInvariant

(* The block of t is deeper than any reorganisation goes. *)
Settled(t) ==
  \E b \in Active : t \in TxsOf[b] /\ Depth[node] - Depth[b] >= MaxReorg

(* The blocks that are on the main chain, or that a job may put there. *)
OnMain(s) == Connected \cup (IF pc[s] = "idle" THEN {} ELSE Chain[job[s].blk])

(* A height to count from: not above bitcoind's tip, and not far above a   *)
(* block that bitcoind gave up.                                            *)
CountsFrom(h) ==
  /\ h \in Int /\ h <= Depth[node]
  /\ \A s \in Syncer : \A b \in OnMain(s) \ Active : h - Depth[b] < MaxReorg

(* The block of a job is one that bitcoind had on its chain. *)
WasActive(s) ==
  pc[s] # "idle" =>
    LET c == job[s].blk IN
      /\ Depth[c] <= Depth[node]
      /\ \A b \in Chain[c] \ Active : Depth[c] - Depth[b] < MaxReorg

(* An entry names a stored block. *)
EntriesStored == \A t \in Tx : btx[t] # NoEntry => Stored(btx[t].hash)

(* The records are what they are in the code: objects with these fields. *)
RequestFields(q) ==
  q = [pc |-> q.pc, items |-> q.items, todo |-> q.todo, looks |-> q.looks,
       chainHeight |-> q.chainHeight, addr |-> q.addr, onlyUnspent |-> q.onlyUnspent,
       answer |-> q.answer, at |-> q.at]
ItemFields(i) ==
  i = [ts |-> i.ts, cached |-> i.cached, confirmed |-> i.confirmed,
       confirmations |-> i.confirmations, spent |-> i.spent, spentIndex |-> i.spentIndex,
       spentTs |-> i.spentTs, attempts |-> i.attempts, spentConfirmed |-> i.spentConfirmed,
       spentCached |-> i.spentCached, spentConfirmations |-> i.spentConfirmations]

(* An item counts as many confirmations as are cached only for what is     *)
(* settled.                                                                *)
ItemInv(o, item) ==
  /\ ItemFields(item)
  /\ item.confirmations \in Int /\ item.spentConfirmations \in Int
  /\ item.spent \in Tx \cup {NoHash} /\ item.attempts \subseteq Tx
  /\ item.confirmations >= Safe => Settled(TxOf[o])
  /\ item.spentConfirmations >= Safe => Settled(item.spent)

(* A request has its spenders before it counts their confirmations, and    *)
(* looks them up in the index in one phase only.                           *)
RequestInv(q) ==
  /\ RequestFields(q)
  /\ CountsFrom(q.chainHeight)
  /\ DOMAIN q.items \subseteq Out /\ q.todo \subseteq DOMAIN q.items
  /\ q.pc # "fill" => q.looks = {}
  /\ \A look \in q.looks : look[1] \in DOMAIN q.items /\ look[2] \in Tx
  /\ \A o \in DOMAIN q.items :
       ItemInv(o, q.items[o]) /\ (q.pc = "spends" => q.items[o].spentConfirmations = 0)

(* What is cached in a row is settled. *)
RowsInv ==
  \A o \in Out, n \in Stamp : txa[o][n] # Absent =>
    /\ txa[o][n].confirmed => Settled(TxOf[o])
    /\ txa[o][n].spent # NoHash => Settled(txa[o][n].spent)

CacheInv ==
  /\ CountsFrom(bti.height)
  /\ \A s \in Syncer : WasActive(s)
  /\ EntriesStored
  /\ DOMAIN req = Request /\ \A r \in Request : RequestInv(req[r])
  /\ RowsInv
=============================================================================
