--------------------------- MODULE CurrencyProofs ---------------------------
(***************************************************************************)
(* Proofs about app/controllers/currency.js for any number of clients, any *)
(* refresh time and any latency of the price service below it.             *)
(***************************************************************************)
EXTENDS Currency, TLAPS

(* A fetch is not older than the service may take ... *)
InTime ==
  \A c \in Fetching : now <= asked[c] + Latency

(* ... the refresh of a price is the last that was asked for, or older ... *)
Refreshing ==
  \A c \in refreshing : c \in Fetching /\ marscoinRate # 0 /\ asked[c] <= timestamp

(* ... and the price that the last of them left is not much older than it. *)
LeftFresh ==
  Fetching = {} /\ ~failing /\ marscoinRate # 0 => timestamp <= marscoinRate + Latency

PriceInv ==
  CurrencyTypeOK /\ timestamp <= now /\ InTime /\ Refreshing /\ LeftFresh /\ OneRefresh

LEMMA NoneIsTime == 0 \in Time
BY CurrencyAssumption DEF Time

LEMMA NothingAsked == [c \in Client |-> 0] \in [Client -> Time]
BY NoneIsTime

LEMMA PriceInit == CurrencyInit => PriceInv
<1> SUFFICES ASSUME CurrencyInit PROVE PriceInv
  OBVIOUS
<1>1. CurrencyTypeOK
  <2>1. 1 \in Time
    BY CurrencyAssumption DEF Time
  <2>2. now \in Time \ {0} /\ timestamp \in Time /\ marscoinRate \in Time
    BY <2>1, NoneIsTime DEF CurrencyInit
  <2>3. quote \in [price : Time, at : Time]
    BY NoneIsTime DEF CurrencyInit
  <2>4. asked \in [Client -> Time] /\ refreshing \subseteq Client /\ failing \in BOOLEAN
    BY NothingAsked DEF CurrencyInit
  <2> QED BY <2>2, <2>3, <2>4 DEF CurrencyTypeOK
<1>2. Fetching = {}
  BY DEF CurrencyInit, Fetching
<1> QED BY <1>1, <1>2
        DEF CurrencyInit, PriceInv, InTime, Refreshing, LeftFresh, OneRefresh

LEMMA PriceStep == PriceInv /\ [CurrencyStep \/ CurrencyRestarts]_currencyVars => PriceInv'
<1> SUFFICES ASSUME PriceInv, [CurrencyStep \/ CurrencyRestarts]_currencyVars
             PROVE  PriceInv'
  OBVIOUS
<1> USE CurrencyAssumption
    DEF PriceInv, CurrencyTypeOK, InTime, Refreshing, OneRefresh, Fetching, Time
<1>1. CASE Tick
  BY <1>1 DEF Tick, LeftFresh
<1>2. ASSUME NEW c \in Client, Ask(c) PROVE PriceInv'
  <2>1. marscoinRate # 0 => refreshing = {}
    BY <1>2 DEF Ask, Due
  <2>2. c \in Fetching'
    BY <1>2 DEF Ask
  <2> QED BY <1>2, <2>1, <2>2 DEF Ask, LeftFresh
<1>3. ASSUME NEW c \in Client, FromMemory(c) PROVE PriceInv'
  BY <1>3 DEF FromMemory, LeftFresh
<1>4. ASSUME NEW c \in Client, Arrives(c) PROVE PriceInv'
  <2>1. PICK price \in asked[c] .. now : marscoinRate' = price /\ quote' = [price |-> price, at |-> now]
    BY <1>4 DEF Arrives
  <2>2. price \in Time /\ price > 0 /\ now <= price + Latency
    BY <1>4, <2>1 DEF Arrives
  <2>3. CurrencyTypeOK'
    <3>1. asked' \in [Client -> Time]
      BY <1>4, NoneIsTime DEF Arrives
    <3> QED BY <1>4, <2>1, <2>2, <3>1 DEF Arrives
  <2>4. LeftFresh'
    BY <1>4, <2>1, <2>2 DEF Arrives, LeftFresh
  <2> QED BY <1>4, <2>1, <2>2, <2>3, <2>4 DEF Arrives
<1>5. ASSUME NEW c \in Client, Fails(c) PROVE PriceInv'
  BY <1>5 DEF Fails, LeftFresh
<1>6. CASE CurrencyRestarts
  <2>1. Fetching' = {} /\ marscoinRate' = 0
    BY <1>6 DEF CurrencyRestarts
  <2>2. CurrencyTypeOK'
    BY <1>6, NoneIsTime, NothingAsked DEF CurrencyRestarts
  <2> QED BY <1>6, <2>1, <2>2 DEF CurrencyRestarts, LeftFresh
<1>7. CASE UNCHANGED currencyVars
  BY <1>7 DEF currencyVars, LeftFresh
<1> QED BY <1>1, <1>2, <1>3, <1>4, <1>5, <1>6, <1>7 DEF CurrencyStep

LEMMA PriceHolds == CurrencySpec => []PriceInv
BY PriceInit, PriceStep, PTL DEF CurrencySpec

(* Whatever comes while a price is refreshed is answered from memory. *)
THEOREM RefreshAlone == CurrencySpec => []OneRefresh
BY PriceHolds, PTL DEF PriceInv

(* A price from memory is not older than the refresh time and the latency, *)
(* unless another is asked for or the last answer was an error.            *)
THEOREM MemoryFresh == CurrencySpec => PricesFresh
<1>1. PriceInv /\ [CurrencyStep \/ CurrencyRestarts]_currencyVars =>
        [quote' # quote /\ Fetching = {} /\ ~failing
           => quote'.at < quote'.price + Delay + Latency]_currencyVars
  <2> SUFFICES ASSUME PriceInv, CurrencyStep \/ CurrencyRestarts,
                      quote' # quote, Fetching = {}, ~failing
               PROVE  quote'.at < quote'.price + Delay + Latency
    BY DEF currencyVars
  <2>1. PICK c \in Client : FromMemory(c)
    BY DEF CurrencyStep, CurrencyRestarts, Tick, Ask, Arrives, Fails
  <2> QED
    BY <2>1, CurrencyAssumption
    DEF FromMemory, Due, PriceInv, LeftFresh, CurrencyTypeOK, Time
<1> QED BY <1>1, PriceHolds, PTL DEF CurrencySpec, PricesFresh

(* The rate, the time of its fetch and the requests keep their types. *)
THEOREM CurrencyTypeCorrect == CurrencySpec => []CurrencyTypeOK
BY PriceHolds, PTL DEF PriceInv
============================================================================
