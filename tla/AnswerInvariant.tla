-------------------------- MODULE AnswerInvariant --------------------------
(***************************************************************************)
(* What makes the answer of a request right.                               *)
(*                                                                         *)
(* A request that began with the store up to date, while bitcoind stays    *)
(* where it was, finds an index that does not move: nothing is fed, and    *)
(* only rows are added, by peers and by other requests.  The invariant says*)
(* of each item what its lookups so far made of it.                        *)
(***************************************************************************)
EXTENDS LedgerInvariant

(* The blocks are valid: a transaction spends what its chain paid, and no  *)
(* output is spent twice on a chain.  bitcoind sees to it.                 *)
ValidBlocks ==
  \A b \in Block : \A t \in TxsOf[b] :
    /\ \A o \in Inputs(t) : \E c \in Chain[b] : TxOf[o] \in TxsOf[c]
    /\ \A c \in Chain[b] : \A u \in TxsOf[c] : Inputs(t) \cap Inputs(u) # {} => t = u

----------------------------------------------------------------------------
(* The rows. *)

(* A row of an output holds its address and value, or a script; one of a   *)
(* spend is of an input; a cached spender is one that is known, of an      *)
(* output that is cached as confirmed.                                     *)
RowsTrue ==
  \A o \in Out :
    /\ txo[o] \notin {Absent, [addr |-> AddrOf[o], sat |-> Sat[o]]} => txo[o].addr = NoHash
    /\ \A t \in Spends(o) : o \in Inputs(t)
    /\ \A n \in Rows(o) : LET c == txa[o][n] IN
         /\ c.confirmed \in BOOLEAN
         /\ c.spent # NoHash => c.confirmed /\ c.spent \in Spends(o)

(* The mark of a request is a tip bitcoind had, and while it is there the  *)
(* store is up to date.                                                    *)
Marked(at) ==
  /\ at # NoHash => at \in Block /\ Depth[at] <= Depth[node]
  /\ at = node => StoreCurrent

----------------------------------------------------------------------------
(* A request for an address. *)

(* Whatever moved: who is taken for a spender is a known one. *)
SpendersKnown(q) ==
  /\ \A o \in DOMAIN q.items :
       /\ q.items[o].spent # NoHash => q.items[o].spent \in Spends(o)
       /\ q.items[o].attempts \subseteq Spends(o)
  /\ \A look \in q.looks : look[2] \in Spends(look[1])

(* What an item says is true, but for what it still has to look up. *)
ItemTrue(q, o, item) ==
  /\ AddrOf[o] = q.addr
  /\ item.confirmed \in BOOLEAN
  /\ item.cached => item.confirmed
  /\ item.confirmed => Confirmed(TxOf[o])
  /\ item.confirmations > 0 => item.confirmed
  /\ item.spentCached => item.cached /\ item.spentConfirmed
  /\ item.spentConfirmed => Confirmed(item.spent)
  /\ item.spentConfirmations > 0 => item.spentConfirmed
  /\ item.spent = NoHash => item.attempts = {}

(* Everything is looked up, and in time. *)
ItemWhole(q, o, item) ==
  /\ q.pc = "spends" /\ o \in q.todo => item.spent = NoHash /\ ~item.spentConfirmed
  /\ SpendersOf(o) \subseteq Spenders(item) \/ (q.pc = "spends" /\ o \in q.todo)
  /\ q.pc \in {"cache", "script"} \/ (q.pc = "fill" /\ o \notin q.todo) =>
       (Confirmed(TxOf[o]) => item.confirmed)
  /\ q.pc \in {"fill", "cache"} => \A t \in SpendersOf(o) :
       \/ q.pc = "fill" /\ (o \in q.todo \/ <<o, t>> \in q.looks)
       \/ item.spent = t /\ item.spentConfirmed

(* The sums of an answer (BalanceExact) and its list of transactions       *)
(* (ListExact).                                                            *)
SumsTrue(a, answer) ==
  LET loose == {t \in answer.transactions : ~Confirmed(t)}
      own == {o \in Out : AddrOf[o] = a}
  IN  /\ answer.received = Value(ReceivedBy(a))
      /\ answer.balance = Value(KeptBy(a))
      /\ answer.sent = Value(ReceivedBy(a) \ KeptBy(a))
      /\ answer.appearances = Cardinality(Touching(a))
      /\ Touching(a) \subseteq answer.transactions
      /\ \A t \in answer.transactions : \E o \in own : TxOf[o] = t \/ o \in Inputs(t)
      /\ answer.unconfirmed <= Value({o \in own : TxOf[o] \in loose})
      /\ answer.unconfirmedAppearances <= Cardinality(loose)

(* The unspent outputs of an answer (UnspentExact). *)
ListTrue(a, listed) ==
  /\ \A o \in KeptBy(a) : Spends(o) = {} => <<o, TRUE>> \in listed
  /\ \A entry \in listed :
       SpendersOf(entry[1]) = {} /\ entry[2] = Confirmed(TxOf[entry[1]])

RequestTrue(q) ==
  /\ \A o \in DOMAIN q.items : ItemTrue(q, o, q.items[o]) /\ ItemWhole(q, o, q.items[o])
  /\ q.pc \notin {"idle", "script", "done"} => ReceivedBy(q.addr) \subseteq DOMAIN q.items
  /\ q.pc = "fill" => q.chainHeight = Depth[node]
  /\ q.pc = "script" =>
       /\ q.onlyUnspent
       /\ \A o \in ReceivedBy(q.addr) : o \in DOMAIN q.items \/ Spends(o) # {}
       /\ \A o \in DOMAIN q.items : q.items[o].spent = NoHash
  /\ q.pc = "done" /\ q.onlyUnspent => ListTrue(q.addr, q.answer.unspent)
  /\ q.pc = "done" /\ ~q.onlyUnspent => SumsTrue(q.addr, q.answer)

ReplyInv(q) == Marked(q.at) /\ SpendersKnown(q) /\ (q.at = node => RequestTrue(q))

----------------------------------------------------------------------------
(* A request for a transaction. *)

ViewRecord(w) ==
  w = [pc |-> w.pc, tx |-> w.tx, ins |-> w.ins, outs |-> w.outs, todo |-> w.todo,
       looks |-> w.looks, chainHeight |-> w.chainHeight, at |-> w.at]
InputRecord(in) ==
  in = [sat |-> in.sat, double |-> in.double, unregistered |-> in.unregistered,
        confirmed |-> in.confirmed, confirmations |-> in.confirmations]

(* A phase that looks nothing up has no lookups under way. *)
ViewFields(w) ==
  /\ ViewRecord(w)
  /\ w.pc # "idle" => w.tx \in Tx /\ DOMAIN w.ins = Inputs(w.tx)
  /\ w.todo \cup w.looks \subseteq DOMAIN w.ins
  /\ w.pc \in {"spent", "tip"} => w.looks = {}
  /\ \A o \in DOMAIN w.ins : InputRecord(w.ins[o])

InputTrue(w, o, in) ==
  /\ Intact(o) /\ ~(w.pc = "outpoints" /\ o \in w.todo) => in.sat = Sat[o]
  /\ ~in.unregistered
  /\ in.double # NoHash => in.double \in Spends(o) \ SpendersOf(o)
  /\ w.pc = "done" \/ (w.pc = "vin" /\ o \notin w.todo) =>
       in.confirmed /\ in.confirmations = RpcConfirmations(TxOf[o])

OutputTrue(o, out) ==
  LET shown == ({out.spent} \cup out.attempts) \ {NoHash} IN
    SpendersOf(o) \subseteq shown /\ shown \subseteq Spends(o)

ViewTrue(w) ==
  /\ \A o \in DOMAIN w.ins : InputTrue(w, o, w.ins[o])
  /\ \A o \in DOMAIN w.outs : o \in Out /\ OutputTrue(o, w.outs[o])
  /\ w.pc = "vin" => w.looks = {} /\ w.chainHeight = Depth[node]

ViewInv(w) ==
  /\ Marked(w.at)
  /\ ViewFields(w)
  /\ w.at = node /\ w.pc # "idle" /\ Confirmed(w.tx) => ViewTrue(w)

----------------------------------------------------------------------------
(* Every request is on its way to the answer the chain gives. *)
AnswersInv ==
  /\ RowsTrue
  /\ DOMAIN view = Request
  /\ \A r \in Request : ReplyInv(req[r]) /\ ViewInv(view[r])
=============================================================================
