------------------------------ MODULE Currency ------------------------------
(***************************************************************************)
(* app/controllers/currency.js: a price is fetched when there is none yet  *)
(* or when the last fetch was asked for a while ago, and answered from     *)
(* memory otherwise.  A price is named after the time the market made it.  *)
(***************************************************************************)
EXTENDS Naturals

CONSTANTS
  Client,    \* who may have a request for the price under way
  Delay,     \* config.currencyRefresh
  Latency,   \* how long the price service may take
  MaxTime    \* bound: the clock

ASSUME CurrencyAssumption ==
  /\ Delay \in Nat /\ Latency \in Nat /\ Latency < Delay
  /\ MaxTime \in Nat \ {0}

VARIABLES
  now,           \* the clock, which starts at 1
  timestamp,     \* when a price was last asked for; at first when the module was loaded
  marscoinRate,  \* the price kept, 0 without one
  asked,         \* when the fetch was sent that a client waits for, 0 without one
  quote,         \* the last price that was answered, and when
  refreshing,    \* the clients whose fetch was sent although there was a price (history)
  failing        \* the last fetch to end was an error (history)

currencyVars == <<now, timestamp, marscoinRate, asked, quote, refreshing, failing>>

Time == 0 .. MaxTime

CurrencyTypeOK ==
  /\ now \in Time \ {0}
  /\ timestamp \in Time
  /\ marscoinRate \in Time
  /\ asked \in [Client -> Time]
  /\ quote \in [price : Time, at : Time]
  /\ refreshing \subseteq Client
  /\ failing \in BOOLEAN

CurrencyInit ==
  /\ now = 1 /\ timestamp = 1
  /\ marscoinRate = 0
  /\ asked = [c \in Client |-> 0]
  /\ refreshing = {}
  /\ quote = [price |-> 0, at |-> 0]
  /\ failing = FALSE

Fetching == {c \in Client : asked[c] # 0}

(* No fetch takes longer than Latency. *)
Tick ==
  /\ now < MaxTime
  /\ \A c \in Fetching : now < asked[c] + Latency
  /\ now' = now + 1
  /\ UNCHANGED <<timestamp, marscoinRate, asked, quote, refreshing, failing>>

(* Mutant: due after the refresh time, not at it. *)
DueLate == marscoinRate = 0 \/ now > timestamp + Delay

Due == marscoinRate = 0 \/ now >= timestamp + Delay

(* Mutant: the time to ask again is kept. *)
AskAhead(c) ==
  /\ c \notin Fetching
  /\ Due
  /\ timestamp' = now + Delay
  /\ asked' = [asked EXCEPT ![c] = now]
  /\ refreshing' = refreshing \cup {d \in {c} : marscoinRate # 0}
  /\ UNCHANGED <<now, marscoinRate, quote, failing>>

(* Mutant: the time is taken when the price comes. *)
AskUnmarked(c) ==
  /\ c \notin Fetching
  /\ Due
  /\ asked' = [asked EXCEPT ![c] = now]
  /\ refreshing' = refreshing \cup {d \in {c} : marscoinRate # 0}
  /\ UNCHANGED <<now, timestamp, marscoinRate, quote, failing>>

Ask(c) ==
  /\ c \notin Fetching
  /\ Due
  /\ timestamp' = now
  /\ asked' = [asked EXCEPT ![c] = now]
  /\ refreshing' = refreshing \cup {d \in {c} : marscoinRate # 0}
  /\ UNCHANGED <<now, marscoinRate, quote, failing>>

FromMemory(c) ==
  /\ c \notin Fetching
  /\ ~Due
  /\ quote' = [price |-> marscoinRate, at |-> now]
  /\ UNCHANGED <<now, timestamp, marscoinRate, asked, refreshing, failing>>

Arrives(c) ==
  /\ c \in Fetching
  /\ \E price \in asked[c] .. now :
       /\ marscoinRate' = price
       /\ quote' = [price |-> price, at |-> now]
  /\ asked' = [asked EXCEPT ![c] = 0]
  /\ refreshing' = refreshing \ {c}
  /\ failing' = FALSE
  /\ UNCHANGED <<now, timestamp>>

(* No answer, another status than 200, or no price in it. *)
Fails(c) ==
  /\ c \in Fetching
  /\ asked' = [asked EXCEPT ![c] = 0]
  /\ refreshing' = refreshing \ {c}
  /\ failing' = TRUE
  /\ UNCHANGED <<now, timestamp, marscoinRate, quote>>

CurrencyRestarts ==
  /\ timestamp' = now
  /\ marscoinRate' = 0
  /\ asked' = [c \in Client |-> 0]
  /\ refreshing' = {}
  /\ failing' = FALSE
  /\ UNCHANGED <<now, quote>>

CurrencyStep == Tick \/ \E c \in Client : Ask(c) \/ FromMemory(c) \/ Arrives(c) \/ Fails(c)

CurrencySpec == CurrencyInit /\ [][CurrencyStep \/ CurrencyRestarts]_currencyVars

----------------------------------------------------------------------------
(* "Time to refresh the currency rate" (config/config.js:127): a price that *)
(* is answered while none is asked for, and the last fetch did not fail, is  *)
(* not older than the refresh time and what fetches that overtake each other *)
(* can add to it.                                                           *)
PricesFresh ==
  [][quote' # quote /\ Fetching = {} /\ ~failing
       => quote'.at < quote'.price + Delay + Latency]_currencyVars

(* Once there is a price, one request at a time refreshes it: the others are *)
(* answered from memory, however many come while it is under way.            *)
OneRefresh == \A c, d \in refreshing : c = d
============================================================================
