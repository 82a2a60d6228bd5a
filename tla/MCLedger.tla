------------------------------ MODULE MCLedger ------------------------------
(***************************************************************************)
(* A small ledger: t1 pays o1 to an address and o0 to another, t2 spends   *)
(* o1 and pays the change o2 back, t3 spends it on the other branch:       *)
(*     g - a{t1} - b{t2}                                                   *)
(*             \                                                           *)
(*              d{t3} - e                                                  *)
(***************************************************************************)
EXTENDS AnswerInvariant

CONSTANTS g, a, b, d, e, t1, t2, t3, o0, o1, o2, mine, other, n1

LedgerParent ==
  [x \in Block |-> CASE x = g -> Zeros [] x = a -> g [] x \in {b, d} -> a [] x = e -> d]
LedgerDepth == [x \in Block |-> CASE x = g -> 0 [] x = a -> 1 [] x \in {b, d} -> 2 [] x = e -> 3]
LedgerTxs ==
  [x \in Block |-> CASE x = a -> {t1} [] x = b -> {t2} [] x = d -> {t3} [] OTHER -> {}]
(* Blocks are dated before t2 arrives: the row of the arrival stays in front. *)
LedgerStamp == [x \in Block |-> 1]
LedgerTime == [x \in Block |-> n1]

LedgerTxOf == [o \in {o0, o1, o2} |-> IF o = o2 THEN t2 ELSE t1]
LedgerAddr == [o \in {o0, o1, o2} |-> IF o = o0 THEN other ELSE mine]
LedgerSat == [o \in {o0, o1, o2} |-> CASE o = o0 -> 1 [] o = o1 -> 5 [] o = o2 -> 3]
LedgerVin == [t \in {t1, t2, t3} |-> IF t = t1 THEN << >> ELSE <<o1>>]
LedgerOrder == [t \in {t1, t2, t3} |-> CASE t = t1 -> 1 [] t = t2 -> 2 [] t = t3 -> 3]

(* The theorems about answers are about ledgers like this one.             *)
ASSUME ValidBlocks
=============================================================================
