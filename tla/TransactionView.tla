-------------------------- MODULE TransactionView --------------------------
(***************************************************************************)
(* A request for one transaction (app/controllers/transactions.js): what   *)
(* lib/TransactionDb.js adds to bitcoind's answer from its rows            *)
(* (fromIdWithInfo), and the confirmations of the inputs that              *)
(* lib/BlockDb.js adds to that (fillVinConfirmations).  Like those of an   *)
(* address, the lookups of one phase run concurrently.                     *)
(***************************************************************************)
EXTENDS Address

VARIABLE view   \* view[v]: txInfo and the lookups of it that have not answered

ViewPhases == {"idle", "outpoints", "spent", "tip", "vin", "done"}

(* An input.  sat: valueSat, 0 when it is not known.  double:              *)
(* doubleSpentTxID.  unregistered: dbError.                                *)
InItem == [sat : Nat, double : Tx \cup {NoHash}, unregistered : BOOLEAN,
           confirmed : BOOLEAN, confirmations : Int]
NewInput == [sat |-> 0, double |-> NoHash, unregistered |-> FALSE,
             confirmed |-> FALSE, confirmations |-> 0]

(* An output: spentTxId and multipleSpentAttempts. *)
OutItem == [spent : Tx \cup {NoHash}, attempts : SUBSET Tx]

(* todo: inputs of the first lookup of the phase; looks: those of the      *)
(* second.  at: not in the code, as in a request for an address.           *)
NoView == [pc |-> "idle", tx |-> NoHash, ins |-> << >>, outs |-> << >>, todo |-> {},
           looks |-> {}, chainHeight |-> -1, at |-> NoHash]

ViewTypeOK ==
  \A v \in Request :
    /\ view[v].pc \in ViewPhases
    /\ \A o \in DOMAIN view[v].ins : view[v].ins[o] \in InItem /\ o \in Inputs(view[v].tx)
    /\ \A o \in DOMAIN view[v].outs : view[v].outs[o] \in OutItem /\ TxOf[o] = view[v].tx
    /\ view[v].todo \cup view[v].looks \subseteq DOMAIN view[v].ins

ViewInit == view = [v \in Request |-> NoView]

(* A phase ends with the last of its lookups. *)
NextPhase(w) ==
  IF w.todo # {} \/ w.looks # {} THEN w
  ELSE CASE w.pc = "outpoints" -> [w EXCEPT !.pc = "spent"]
         [] w.pc = "vin" -> [w EXCEPT !.pc = "done"]
         [] OTHER -> w

Show(v, w) == view' = [view EXCEPT ![v] = NextPhase(w)]

----------------------------------------------------------------------------
(* _getInfo: bitcoind knows the transaction, or the request is refused.    *)
(* Requests are served by turns, of whatever kind they are.                *)
Free(v) == req[v].pc \in {"idle", "done"} /\ view[v].pc \in {"idle", "done"}

AskTx(v) ==
  /\ asked < MaxRequests
  /\ Free(v)
  /\ asked' = asked + 1
  /\ req' = [req EXCEPT ![v] = Idle]
  /\ UNCHANGED <<dbVars, txVars>>
  /\ \E t \in Tx :
       \/ (~Confirmed(t) \/ "rpc" \in Faults) /\ Show(v, NoView)
       \/ Show(v, [NoView EXCEPT !.pc = "outpoints", !.tx = t, !.todo = Inputs(t),
                                 !.ins = [o \in Inputs(t) |-> NewInput],
                                 !.at = IF StoreCurrent THEN node ELSE NoHash])

(* fromTxIdN, the row of an input.  Without one the input stays unknown,   *)
(* whatever bitcoind and the spends say of it after that.                  *)
ReadOutpoint(v) ==
  LET w == view[v] IN
  /\ w.pc = "outpoints"
  /\ \E o \in w.todo :
       LET sat == IF txo[o] = Absent THEN 0 ELSE txo[o].sat IN
         Show(v, [w EXCEPT !.todo = @ \ {o}, !.looks = @ \cup {o}, !.ins[o].sat = sat])
  /\ UNCHANGED <<dbVars, txVars, reqVars>>

(* checkSpent, and what _fillOutpoints makes of it: the first recorded     *)
(* spend is this transaction, or it is reported as a double spend.  A      *)
(* second one that sorts after this transaction is not reported.           *)
CheckSpent(v) ==
  LET w == view[v] IN
  /\ w.pc = "outpoints"
  /\ \E o \in w.looks :
       LET rest == [w EXCEPT !.looks = @ \ {o}] IN
         CASE w.ins[o].sat = 0 -> Show(v, rest)
           [] w.ins[o].sat # 0 /\ Spends(o) = {} ->
                Show(v, [rest EXCEPT !.ins[o].unregistered = TRUE])
           [] w.ins[o].sat # 0 /\ Spends(o) # {} ->
                Show(v, [rest EXCEPT !.ins[o].double =
                           IF FirstSpend(o) = w.tx THEN NoHash ELSE FirstSpend(o)])
  /\ UNCHANGED <<dbVars, txVars, reqVars>>

(* Mutant: the first spend of each output only. *)
FillFirstSpends(v) ==
  LET shown(o) == [spent |-> IF Spends(o) = {} THEN NoHash ELSE FirstSpend(o), attempts |-> {}]
  IN  /\ view[v].pc = "spent"
      /\ Show(v, [view[v] EXCEPT !.pc = "tip",
                    !.outs = [o \in {x \in Out : TxOf[x] = view[v].tx} |-> shown(o)]])
      /\ UNCHANGED <<dbVars, txVars, reqVars>>

(* _fillSpent: the spends of all outputs in one stream. *)
FillOutputs(v) ==
  LET none == [spent |-> NoHash, attempts |-> {}]
      shown(o) == IF Spends(o) = {} THEN none
                  ELSE [spent |-> FirstSpend(o),
                        attempts |-> IF Spends(o) = {FirstSpend(o)} THEN {} ELSE Spends(o)]
  IN  /\ view[v].pc = "spent"
      /\ Show(v, [view[v] EXCEPT !.pc = "tip",
                    !.outs = [o \in {x \in Out : TxOf[x] = view[v].tx} |-> shown(o)]])
      /\ UNCHANGED <<dbVars, txVars, reqVars>>

----------------------------------------------------------------------------
(* fillVinConfirmations: getTip ... *)
ReadVinTip(v) ==
  /\ view[v].pc = "tip"
  /\ CacheTip
  /\ Show(v, [view[v] EXCEPT !.pc = "vin", !.chainHeight = GetTip.height,
                             !.todo = DOMAIN view[v].ins])
  /\ UNCHANGED <<txVars, reqVars>>

(* ... and getBlockForTx of the transaction each input comes from. *)
FillVin(v) ==
  LET w == view[v] IN
  /\ w.pc = "vin"
  /\ \E o \in w.todo :
       LET height == btx[TxOf[o]].height
           rest == [w EXCEPT !.todo = @ \ {o}]
       IN  CASE btx[TxOf[o]] = NoEntry -> Show(v, [rest EXCEPT !.looks = @ \cup {o}])
             [] btx[TxOf[o]] # NoEntry /\ height < 0 -> Show(v, rest)
             [] btx[TxOf[o]] # NoEntry /\ height >= 0 ->
                  Show(v, [rest EXCEPT !.ins[o].confirmed = w.chainHeight >= height,
                                       !.ins[o].confirmations = w.chainHeight - height + 1])
  /\ UNCHANGED <<dbVars, txVars, reqVars>>

(* A transaction without an entry: bitcoind is asked for it. *)
FillVinByRpc(v) ==
  LET w == view[v] IN
  /\ w.pc = "vin"
  /\ \E o \in w.looks :
       LET n == RpcConfirmations(TxOf[o])
           rest == [w EXCEPT !.looks = @ \ {o}]
       IN  \/ (n = 0 \/ "rpc" \in Faults) /\ Show(v, rest)
           \/ n > 0 /\ Show(v, [rest EXCEPT !.ins[o].confirmed = TRUE,
                                            !.ins[o].confirmations = n])
  /\ UNCHANGED <<dbVars, txVars, reqVars>>

ViewStep(v) ==
  \/ ReadOutpoint(v) \/ CheckSpent(v) \/ FillOutputs(v) \/ ReadVinTip(v) \/ FillVin(v) \/ FillVinByRpc(v)

----------------------------------------------------------------------------
(* Properties. *)

(* No script is cached over the row of o. *)
Intact(o) == txo[o] # Absent /\ txo[o].addr = AddrOf[o]

(* What a request says of a transaction of the active chain, when it began *)
(* with the store up to date and saw no move of bitcoind: the values of    *)
(* its inputs as far as no script is cached over them, their depth in the  *)
(* chain, only true rivals as double spends, none of its own spends        *)
(* missing, and for each output a spender when the chain has one.  Through *)
(* rows and entries left by orphaned branches, spends that compete, peers  *)
(* that add rows in between and a tip read before the entries.             *)
ViewExact ==
  \A v \in Request :
    LET w == view[v] IN
    w.pc = "done" /\ w.at = node /\ Confirmed(w.tx) =>
      /\ \A o \in Inputs(w.tx) :
           /\ Intact(o) => w.ins[o].sat = Sat[o]
           /\ ~w.ins[o].unregistered
           /\ w.ins[o].double # NoHash => w.ins[o].double \in Spends(o) \ SpendersOf(o)
           /\ w.ins[o].confirmed
           /\ w.ins[o].confirmations = RpcConfirmations(TxOf[o])
      /\ \A o \in DOMAIN w.outs :
           LET shown == ({w.outs[o].spent} \cup w.outs[o].attempts) \ {NoHash} IN
             SpendersOf(o) \subseteq shown /\ shown \subseteq Spends(o)
============================================================================
