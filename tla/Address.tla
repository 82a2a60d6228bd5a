------------------------------ MODULE Address ------------------------------
(***************************************************************************)
(* app/models/Address.js: a request for the balance or the unspent outputs *)
(* of an address (update), lookup by lookup.  The lookups of one phase run *)
(* concurrently (async.eachLimit), with each other and with everything     *)
(* else the process does.  The confirmations are those of lib/BlockDb.js   *)
(* (fillConfirmations).                                                    *)
(***************************************************************************)
EXTENDS TransactionDb

CONSTANTS
  Asked,        \* the addresses that requests name
  Request,      \* requests that may be open at the same time
  MaxRequests   \* bound: requests in all

ASSUME RequestAssumption == Asked \subseteq Addr /\ MaxRequests \in Nat

VARIABLES
  req,     \* req[r]: the locals of update
  asked    \* counts the requests

reqVars == <<req, asked>>

RequestPhases == {"idle", "spends", "rpc", "rpcSpent", "tip", "fill", "cache", "script", "done"}

(* todo: outputs whose lookup of this phase has not answered; looks: the   *)
(* lookups of spenders under way.  chainHeight: the tip's height.          *)
(* received ... unspent: the answer, with the list of transactions as a    *)
(* set (none is in it twice).  at: not in the code, bitcoind's tip when    *)
(* the request began, if the store had all of its chain.                   *)
NoAnswer ==
  [received |-> 0, sent |-> 0, balance |-> 0, appearances |-> 0, unconfirmed |-> 0,
   unconfirmedAppearances |-> 0, transactions |-> {}, unspent |-> {}]
Idle ==
  [pc |-> "idle", items |-> << >>, todo |-> {}, looks |-> {}, chainHeight |-> -1,
   addr |-> NoHash, onlyUnspent |-> FALSE, answer |-> NoAnswer,
   at |-> NoHash]

ReqInit == req = [r \in Request |-> Idle] /\ asked = 0

(* Mutant: only what the cache confirms is confirmed. *)
ListedCached(items) == {<<o, items[o].cached>> : o \in DOMAIN items}

(* The unspent outputs, each with whether it is confirmed. *)
Listed(items) == {<<o, items[o].confirmed>> : o \in DOMAIN items}

Done(q, answer) ==
  [q EXCEPT !.pc = "done", !.answer = answer, !.items = << >>, !.todo = {}, !.chainHeight = -1]

(* The phases follow each other when all lookups have answered; a phase    *)
(* without lookups is over at once.                                        *)
EnterRpcSpent(q) ==
  LET todo == {o \in DOMAIN q.items : q.items[o].spent # NoHash /\ ~q.items[o].spentConfirmed}
  IN  [q EXCEPT !.pc = IF todo = {} THEN "tip" ELSE "rpcSpent", !.todo = todo]

EnterRpc(q) ==
  LET todo == {o \in DOMAIN q.items : ~q.items[o].confirmed}
  IN  IF todo = {} THEN EnterRpcSpent(q) ELSE [q EXCEPT !.pc = "rpc", !.todo = todo]

Then(q) ==
  IF q.todo # {} \/ q.looks # {} THEN q
  ELSE CASE q.pc = "spends" -> EnterRpc(q)
         [] q.pc = "rpc" -> EnterRpcSpent(q)
         [] q.pc = "rpcSpent" -> [q EXCEPT !.pc = "tip"]
         [] q.pc = "fill" -> [q EXCEPT !.pc = "cache"]
         [] q.pc = "script" -> Done(q, [NoAnswer EXCEPT !.unspent = Listed(q.items)])
         [] OTHER -> q

Set(r, q) == req' = [req EXCEPT ![r] = Then(q)]

(* Nothing is being stored and the tip of the store is bitcoind's. *)
StoreCurrent ==
  Quiet /\ GetTip.hash = node /\ \A s \in Syncer : waiting[s] = {}

----------------------------------------------------------------------------
(* fromAddr: the rows of the address in one stream ... *)
Ask(r) ==
  /\ asked < MaxRequests
  /\ req[r].pc \in {"idle", "done"}
  /\ \E a \in Asked, onlyUnspent \in BOOLEAN, ignoreCache \in BOOLEAN :
       LET items == FromAddr(a, ignoreCache) IN
         Set(r, [Idle EXCEPT !.pc = "spends", !.items = items, !.addr = a,
                             !.onlyUnspent = onlyUnspent, !.at = IF StoreCurrent THEN node ELSE NoHash,
                             !.todo = {o \in DOMAIN items : ~items[o].spentConfirmed}])
  /\ asked' = asked + 1
  /\ UNCHANGED <<dbVars, txVars>>

(* A lookup of output o has answered, and leaves the item as given. *)
Answered(r, o, item) ==
  Set(r, [req[r] EXCEPT !.todo = @ \ {o}, !.items[o] = item])

Waiting(r, phase) == req[r].pc = phase

(* ... then the spends of each output. *)
ReadSpends(r) ==
  /\ Waiting(r, "spends")
  /\ \E o \in req[r].todo : Answered(r, o, AddSpentInfo(req[r].items[o], o))
  /\ UNCHANGED <<dbVars, txVars, asked>>

(* bitcoind is asked for the transactions that are not confirmed by the    *)
(* cache; an error leaves the item alone.                                  *)
AskRpc(r) ==
  /\ Waiting(r, "rpc")
  /\ \E o \in req[r].todo :
       LET item == req[r].items[o]
           n == RpcConfirmations(TxOf[o])
       IN  \/ (n = 0 \/ "rpc" \in Faults) /\ Answered(r, o, item)
           \/ n > 0 /\ Answered(r, o, [item EXCEPT !.confirmed = TRUE, !.confirmations = n])
  /\ UNCHANGED <<dbVars, txVars, asked>>

(* The same for the first spender of each output. *)
AskRpcSpent(r) ==
  /\ Waiting(r, "rpcSpent")
  /\ \E o \in req[r].todo :
       LET item == req[r].items[o]
           n == RpcConfirmations(item.spent)
       IN  \/ (n = 0 \/ "rpc" \in Faults) /\ Answered(r, o, item)
           \/ n > 0 /\ Answered(r, o, [item EXCEPT !.spentConfirmed = TRUE,
                                                   !.spentConfirmations = n])
  /\ UNCHANGED <<dbVars, txVars, asked>>

----------------------------------------------------------------------------
(* BlockDb.fillConfirmations. *)

(* The lookups of _fillConfirmationsOneSpent for an item. *)
Spenders(item) == IF item.attempts = {} THEN {item.spent} \ {NoHash} ELSE item.attempts
Looks(o, item) == {<<o, t>> : t \in Spenders(item)}

(* getTip; items that are confirmed by the cache only need their spenders, *)
(* and none of them when there is nothing to find out.                     *)
ReadHeight(r) ==
  LET items == req[r].items
      more == {o \in DOMAIN items :
                 ~items[o].spentCached /\ ~(items[o].cached /\ items[o].spent = NoHash)}
  IN  /\ Waiting(r, "tip")
      /\ CacheTip
      /\ Set(r, [req[r] EXCEPT !.pc = "fill", !.chainHeight = GetTip.height,
                   !.todo = {o \in more : ~items[o].cached},
                   !.looks = UNION {Looks(o, items[o]) : o \in {x \in more : items[x].cached}}])
      /\ UNCHANGED <<txVars, asked>>

(* _fillConfirmationsOne: getBlockForTx of the output's transaction. *)
FillOwn(r) ==
  LET q == req[r] IN
  /\ Waiting(r, "fill")
  /\ \E o \in q.todo :
       LET height == btx[TxOf[o]].height IN
         IF height >= 0
         THEN Set(r, [q EXCEPT !.todo = @ \ {o}, !.looks = @ \cup Looks(o, q.items[o]),
                               !.items[o].confirmed = q.chainHeight >= height,
                               !.items[o].confirmations = q.chainHeight - height + 1])
         ELSE Set(r, [q EXCEPT !.todo = @ \ {o}])
  /\ UNCHANGED <<dbVars, txVars, asked>>

(* Mutant: the attempts are looked up, and the first stays the spender. *)
FillFirst(r) ==
  LET q == req[r] IN
  /\ Waiting(r, "fill")
  /\ \E look \in q.looks :
       LET height == btx[look[2]].height
           o == look[1]
       IN  IF height >= 0 /\ look[2] = q.items[o].spent
           THEN Set(r, [q EXCEPT !.looks = @ \ {look},
                                 !.items[o].spentConfirmed = q.chainHeight >= height,
                                 !.items[o].spentConfirmations = q.chainHeight - height + 1])
           ELSE Set(r, [q EXCEPT !.looks = @ \ {look}])
  /\ UNCHANGED <<dbVars, txVars, asked>>

(* _fillConfirmationsOneSpent: getBlockForTx of a spender.  The attempt that *)
(* has a block becomes the spender; index and time stay the first one's.   *)
FillSpent(r) ==
  LET q == req[r] IN
  /\ Waiting(r, "fill")
  /\ \E look \in q.looks :
       LET height == btx[look[2]].height
           o == look[1]
       IN  IF height >= 0
           THEN Set(r, [q EXCEPT !.looks = @ \ {look}, !.items[o].spent = look[2],
                                 !.items[o].spentConfirmed = q.chainHeight >= height,
                                 !.items[o].spentConfirmations = q.chainHeight - height + 1])
           ELSE Set(r, [q EXCEPT !.looks = @ \ {look}])
  /\ UNCHANGED <<dbVars, txVars, asked>>

----------------------------------------------------------------------------
(* The answer. *)

IsConfirmed(item) == item.confirmed \/ item.confirmations > 0
SpentIsConfirmed(item) == item.spentConfirmed \/ item.spentConfirmations > 0

(* Mutant: only what is confirmed is listed. *)
ListConfirmed(items, sums, o) ==
  LET item == items[o]
      v == Sat[o]
      founding == TxOf[o]
      seen == sums.transactions
      add == IF founding \in seen THEN 0 ELSE 1
      addSpend == IF item.spent \in seen \cup {founding} THEN 0 ELSE 1
      kept == item.spent = NoHash \/ ~SpentIsConfirmed(item)
      all == [sums EXCEPT !.transactions = @ \cup ({founding, item.spent} \ {NoHash})]
  IN  IF ~IsConfirmed(item)
      THEN [sums EXCEPT !.unconfirmed = @ + v, !.unconfirmedAppearances = @ + add]
      ELSE [all EXCEPT !.received = @ + v,
                       !.balance = @ + (IF kept THEN v ELSE 0),
                       !.sent = @ + (IF kept THEN 0 ELSE v),
                       !.appearances = @ + add + (IF kept THEN 0 ELSE addSpend)]

(* _addTxItem: add one item to the sums; a transaction counts once (seen,  *)
(* which the list follows).                                                *)
AddTxItem(items, sums, o) ==
  LET item == items[o]
      v == Sat[o]
      founding == TxOf[o]
      seen == sums.transactions
      add == IF founding \in seen THEN 0 ELSE 1
      addSpend == IF item.spent \in seen \cup {founding} THEN 0 ELSE 1
      kept == item.spent = NoHash \/ ~SpentIsConfirmed(item)
      all == [sums EXCEPT !.transactions = @ \cup ({founding, item.spent} \ {NoHash})]
  IN  IF ~IsConfirmed(item)
      THEN [all EXCEPT !.unconfirmed = @ + v, !.unconfirmedAppearances = @ + add]
      ELSE [all EXCEPT !.received = @ + v,
                       !.balance = @ + (IF kept THEN v ELSE 0),
                       !.sent = @ + (IF kept THEN 0 ELSE v),
                       !.appearances = @ + add + (IF kept THEN 0 ELSE addSpend)]

(* The items come in key order, the latest first, then by transaction: the *)
(* one that is added to the sums of all others is the last.  The order of  *)
(* the outputs of one transaction is left open.                            *)
KeyOrder(items, o, p) ==
  \/ items[o].ts > items[p].ts
  \/ items[o].ts = items[p].ts /\ TxOrder[TxOf[o]] <= TxOrder[TxOf[p]]

LastItem(items, outs) == CHOOSE p \in outs : \A o \in outs : KeyOrder(items, o, p)

Sums(items) ==
  MapThenFoldSet(LAMBDA o, sums : AddTxItem(items, sums, o), NoAnswer,
                 LAMBDA o : o, LAMBDA outs : LastItem(items, outs), DOMAIN items)

(* cacheConfirmations, then the sums; or the outputs nobody spends, for    *)
(* which the scripts are still missing.                                    *)
CacheItems(r) ==
  LET q == req[r]
      open == {o \in DOMAIN q.items : q.items[o].spent = NoHash}
  IN  /\ Waiting(r, "cache")
      /\ CacheConfirmations(q.items)
      /\ Set(r, IF q.onlyUnspent
                THEN [q EXCEPT !.pc = "script", !.todo = open, !.items = Restrict(@, open)]
                ELSE Done(q, Sums(q.items)))
      /\ UNCHANGED <<dbVars, asked>>

(* fillScriptPubKey: bitcoind gives the script of an output, or fails to. *)
FillScript(r) ==
  /\ Waiting(r, "script")
  /\ \E o \in req[r].todo :
       /\ Answered(r, o, req[r].items[o])
       /\ \/ "rpc" \in Faults /\ UNCHANGED txVars
          \/ CacheScript(o, req[r].items[o])
  /\ UNCHANGED <<dbVars, asked>>

RequestStep(r) ==
  \/ ReadSpends(r) \/ AskRpc(r) \/ AskRpcSpent(r) \/ ReadHeight(r) \/ FillOwn(r) \/ FillSpent(r)
  \/ CacheItems(r) \/ FillScript(r)

----------------------------------------------------------------------------
(* Properties. *)

(* The reference: what the active chain says of an address. *)
SpendersOf(o) == {t \in Tx : Confirmed(t) /\ o \in Inputs(t)}
ReceivedBy(a) == {o \in Out : AddrOf[o] = a /\ Confirmed(TxOf[o])}
KeptBy(a) == {o \in ReceivedBy(a) : SpendersOf(o) = {}}
Touching(a) ==
  LET got == ReceivedBy(a) IN {TxOf[o] : o \in got} \cup UNION {SpendersOf(o) : o \in got}
Value(outs) == MapThenSumSet(LAMBDA o : Sat[o], outs)

(* The request began when the store had all of bitcoind's chain, which has *)
(* not moved since.                                                        *)
Undisturbed(r) == Waiting(r, "done") /\ req[r].at = node

(* The sums of such a request are those of the active chain: through cached*)
(* confirmations, rows of one output at several times, spends that compete *)
(* for an output, and lookups that fail.                                   *)
BalanceExact ==
  \A r \in Request : Undisturbed(r) /\ ~req[r].onlyUnspent =>
    LET kept == KeptBy(req[r].addr)
        got == ReceivedBy(req[r].addr)
    IN  /\ req[r].answer.received = Value(got)
        /\ req[r].answer.balance = Value(kept)
        /\ req[r].answer.sent = Value(got \ kept)
        /\ req[r].answer.appearances = Cardinality(Touching(req[r].addr))

(* Its list has every transaction of the chain that pays or spends from the*)
(* address, whichever attempt a spend was first taken for, and none that   *)
(* does neither; what it counts as unconfirmed is in the list and in no    *)
(* block.                                                                  *)
ListExact ==
  \A r \in Request : Undisturbed(r) /\ ~req[r].onlyUnspent =>
    LET answer == req[r].answer
        own == {o \in Out : AddrOf[o] = req[r].addr}
        loose == {t \in answer.transactions : ~Confirmed(t)}
    IN  /\ Touching(req[r].addr) \subseteq answer.transactions
        /\ \A t \in answer.transactions : \E o \in own : TxOf[o] = t \/ o \in Inputs(t)
        /\ answer.unconfirmed <= Value({o \in own : TxOf[o] \in loose})
        /\ answer.unconfirmedAppearances <= Cardinality(loose)

(* Its unspent outputs are none that the chain spends, all that no known   *)
(* transaction spends, and marked as confirmed exactly when they are.      *)
UnspentExact ==
  \A r \in Request : Undisturbed(r) /\ req[r].onlyUnspent =>
    LET listed == req[r].answer.unspent IN
      /\ \A o \in KeptBy(req[r].addr) :
           (\A t \in Tx : txs[o][t] = Unspent) => <<o, TRUE>> \in listed
      /\ \A entry \in listed :
           /\ SpendersOf(entry[1]) = {}
           /\ entry[2] = Confirmed(TxOf[entry[1]])
============================================================================
