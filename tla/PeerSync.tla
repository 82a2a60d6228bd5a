------------------------------ MODULE PeerSync ------------------------------
(***************************************************************************)
(* lib/PeerSync.js: the blocks bitcoind announces go through the Sync      *)
(* object "peer", and a block whose parent is missing starts the           *)
(* HistoricSync.                                                           *)
(***************************************************************************)
EXTENDS HistoricSync

ASSUME PeerAssumption == "peer" \in Syncer

VARIABLES
  inbox,       \* blocks asked for with getdata and not handled yet
  allowReorgs  \* PeerSync.allowReorgs

(* handleBlock, called once per message. *)
HandleBlock ==
  /\ inbox # << >>
  /\ StoreTipBlock("peer", [blk |-> Head(inbox), allow |-> allowReorgs])
  /\ inbox' = Tail(inbox)
  /\ UNCHANGED <<hist, allowReorgs>>

(* Mutant: NEED_SYNC is only logged. *)
StoreOrDrop ==
  /\ Step("peer") \/ Polls("peer")
  /\ UNCHANGED <<hist, inbox, allowReorgs>>

(* storeTipBlock works on a block; its answer NEED_SYNC starts a sync. *)
StorePeer ==
  /\ Step("peer") \/ Polls("peer")
  /\ hist' = IF ~crashed' /\ pc'["peer"] = "idle" /\ reply'["peer"] = "needSync"
             THEN Started(hist, TRUE)
             ELSE hist
  /\ UNCHANGED <<inbox, allowReorgs>>

PeerFails ==
  /\ AddTxsFails("peer") \/ HeightChangeThrows("peer")
  /\ UNCHANGED <<hist, inbox, allowReorgs>>
============================================================================
