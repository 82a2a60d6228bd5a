------------------------------- MODULE Ledger -------------------------------
(***************************************************************************)
(* The transactions and the addresses on top of the block index: blocks    *)
(* are stored while bitcoind reorganises, peers send unconfirmed           *)
(* transactions, and requests run in between.                              *)
(***************************************************************************)
EXTENDS TransactionView

CONSTANTS
  MaxReorg,   \* how many blocks a reorganisation of bitcoind takes at most
  FirstTip,   \* where bitcoind is at first
  PeerTx      \* the transactions that peers send before they are in a block

ASSUME ReorgAssumption == MaxReorg \in Nat /\ FirstTip \in Block /\ PeerTx \subseteq Tx

VARIABLE sent   \* the transactions peers sent

ledgerVars == <<vars, node, txVars, reqVars, view, sent>>

ReqAnswers ==
  [received : Nat, sent : Nat, balance : Nat, appearances : Nat, unconfirmed : Nat,
   unconfirmedAppearances : Nat, transactions : SUBSET Tx, unspent : SUBSET (Out \X BOOLEAN)]

(* A request's items belong to its address, and its lookups to its items. *)
LedgerTypeOK ==
  /\ TypeOK
  /\ TxTypeOK
  /\ node \in Block
  /\ \A r \in Request :
       /\ req[r].pc \in RequestPhases
       /\ DOMAIN req[r].items \subseteq {o \in Out : AddrOf[o] = req[r].addr}
       /\ \A o \in DOMAIN req[r].items : req[r].items[o] \in Item
       /\ req[r].todo \cup {look[1] : look \in req[r].looks} \subseteq DOMAIN req[r].items
       /\ req[r].answer \in ReqAnswers
  /\ ViewTypeOK
  /\ sent \subseteq Tx

LedgerInit ==
  /\ Init /\ TxInit /\ ReqInit /\ ViewInit
  /\ node = FirstTip
  /\ sent = {}

(* bitcoind moves, and gives up few blocks when it does. *)
Advance ==
  /\ \E n \in Block : NodeMoves(n) /\ \A b \in Active \ Chain[n] : Depth[node] - Depth[b] < MaxReorg
  /\ UNCHANGED <<vars, txVars, reqVars, view, sent>>

(* The lowest block of the active chain that is not stored comes next. *)
Feed(s) ==
  /\ \A u \in Syncer : ~storingBlock(u) /\ waiting[u] = {}
  /\ \E b \in Active :
       /\ ~Has(b) /\ (b = Genesis \/ Has(Parent[b]))
       /\ StoreTipBlock(s, [blk |-> b, allow |-> TRUE])
  /\ UNCHANGED <<node, txVars, reqVars, view, sent>>

(* A step of storeTipBlock, with the writes of addMany where it makes them. *)
(* The failures considered here are those of the requests.                 *)
Stores(s) ==
  /\ Step(s)
  /\ IF pc[s] = "addTxs" THEN AddMany(TxsOf[job[s].blk]) ELSE UNCHANGED txVars
  /\ UNCHANGED <<node, reqVars, view, sent>>

(* handleTx: a peer sends a transaction whose inputs bitcoind knows.  It is *)
(* younger than the tip; a miner may have dated the next block earlier.    *)
PeerSends ==
  /\ ~crashed
  /\ \E t \in PeerTx \ sent :
       /\ ~Confirmed(t)
       /\ \A o \in Inputs(t) : Confirmed(TxOf[o]) \/ TxOf[o] \in sent
       /\ \A o \in Inputs(t) : SpendersOf(o) = {}
       /\ AddUnconfirmed(t, StampOf[node] + 1)
       /\ sent' = sent \cup {t}
  /\ UNCHANGED <<vars, node, reqVars, view>>

Serve(r) ==
  /\ ~crashed
  /\ RequestStep(r)
  /\ UNCHANGED <<syncVars, node, view, sent>>

Asks(r) ==
  /\ ~crashed
  /\ Ask(r)
  /\ Free(r) /\ view' = [view EXCEPT ![r] = NoView]
  /\ UNCHANGED <<syncVars, node, sent>>

Views(v) ==
  /\ ~crashed
  /\ AskTx(v) \/ ViewStep(v)
  /\ UNCHANGED <<syncVars, node, sent>>

LedgerNext ==
  \/ Advance \/ PeerSends
  \/ \E s \in Syncer : Feed(s) \/ Stores(s)
  \/ \E r \in Request : Asks(r) \/ Serve(r)
  \/ \E v \in Request : Views(v)

LedgerSpec == LedgerInit /\ [][LedgerNext]_ledgerVars
=============================================================================
