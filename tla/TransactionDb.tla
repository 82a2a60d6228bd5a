--------------------------- MODULE TransactionDb ---------------------------
(***************************************************************************)
(* lib/TransactionDb.js: the LevelDB keys that say which outputs there are,*)
(* which transactions spend them, and which outputs an address has, the    *)
(* last with the confirmations cached in their values.  bitcoind runs with *)
(* txindex=1 and finds every transaction it ever had in a block.           *)
(***************************************************************************)
EXTENDS Bitcoind

CONSTANTS
  Out,         \* outputs <txid>-<n> that pay an address
  TxOf,        \* TxOf[o]: the transaction that has output o
  Addr,        \* addresses
  AddrOf,      \* AddrOf[o]: the address o pays
  Sat,         \* Sat[o]: its value
  Vin,         \* Vin[t]: the outputs that t spends, in the order of its inputs
  TxOrder,     \* TxOrder[t]: the place of txid t in the order of the keys
  MaxStamp,    \* bound: transaction times, above those of all blocks
  StampOf,     \* StampOf[b]: the time of the transactions of block b
  Safe         \* safeConfirmations: as deep a transaction is cached as confirmed

(* A transaction time; 0 is the missing time of one that is in no block of *)
(* the active chain: as NaN in an address key it sorts after all others.   *)
Stamp == 0 .. MaxStamp

Inputs(t) == ToSet(Vin[t])
Index(t, o) == (CHOOSE i \in DOMAIN Vin[t] : Vin[t][i] = o) - 1

OutRow == [addr : Addr \cup {NoHash}, sat : Nat]

(* What follows the value in an address row.  spent: the confirmed spender. *)
Cache == [confirmed : BOOLEAN, spent : Tx \cup {NoHash}, index : Nat, ts : Stamp]

(* An output is named by 32 bytes of hash and 4 of number. *)
ASSUME LedgerAssumption ==
  /\ IsFiniteSet(Out)
  /\ TxOf \in [Out -> Tx] /\ AddrOf \in [Out -> Addr] /\ Sat \in [Out -> Nat \ {0}]
  /\ Vin \in [Tx -> Seq(Out)]
  /\ TxOrder \in [Tx -> Nat] /\ IsInjective(TxOrder)
  /\ MaxStamp \in Nat /\ StampOf \in [Block -> 1 .. MaxStamp - 1]
  /\ Safe \in Nat \ {0}
  /\ NoHash \notin Addr \cup Tx /\ NoHash \notin OutRow \cup Cache

VARIABLES
  txo,   \* txo-<txid>-<n>: address and value
  txs,   \* txs-<txid>-<n>-<spending txid>-<input>: time of the spend
  txa    \* txa2-<addr>-<time>-<txid>-<n>: value and cached confirmations

txVars == <<txo, txs, txa>>

Uncached == [confirmed |-> FALSE, spent |-> NoHash, index |-> 0, ts |-> 0]

Unspent == -1  \* no such spend
Absent == NoHash

TxTypeOK ==
  /\ txo \in [Out -> OutRow \cup {Absent}]
  /\ txs \in [Out -> [Tx -> Stamp \cup {Unspent}]]
  /\ txa \in [Out -> [Stamp -> Cache \cup {Absent}]]

TxInit ==
  /\ txo = [o \in Out |-> Absent]
  /\ txs = [o \in Out |-> [t \in Tx |-> Unspent]]
  /\ txa = [o \in Out |-> [n \in Stamp |-> Absent]]

----------------------------------------------------------------------------
(* bitcoind's view of a transaction: getrawtransaction. *)

BlocksWith(t) == {b \in Active : t \in TxsOf[b]}
Confirmed(t) == BlocksWith(t) # {}
RpcConfirmations(t) ==
  IF Confirmed(t) THEN Depth[node] - Min({Depth[b] : b \in BlocksWith(t)}) + 1 ELSE 0
RpcTime(t) == IF Confirmed(t) THEN Min({StampOf[b] : b \in BlocksWith(t)}) ELSE 0

----------------------------------------------------------------------------
(* Writes. *)

(* _addScript for a set of transactions and their times, as one batch: an  *)
(* address row is put anew, without what was cached in it.                 *)
AddScript(added, time) ==
  /\ txo' = [o \in Out |-> IF TxOf[o] \in added
                           THEN [addr |-> AddrOf[o], sat |-> Sat[o]] ELSE txo[o]]
  /\ txs' = [o \in Out |-> [t \in Tx |-> IF t \in added /\ o \in Inputs(t)
                                         THEN time[t] ELSE txs[o][t]]]
  /\ txa' = [o \in Out |-> [n \in Stamp |-> IF TxOf[o] \in added /\ n = time[TxOf[o]]
                                            THEN Uncached ELSE txa[o][n]]]

(* Mutant: the outputs without the spends. *)
AddOutputs(T) ==
  /\ txo' = [o \in Out |-> IF TxOf[o] \in T
                           THEN [addr |-> AddrOf[o], sat |-> Sat[o]] ELSE txo[o]]
  /\ txa' = [o \in Out |-> [n \in Stamp |-> IF TxOf[o] \in T /\ n = RpcTime(TxOf[o])
                                            THEN Uncached ELSE txa[o][n]]]
  /\ UNCHANGED txs

(* addMany from the hashes of a block: bitcoind is asked for each of them. *)
AddMany(T) == AddScript(T, [t \in T |-> RpcTime(t)])

(* Mutant: the arrival in milliseconds. *)
AddMillis(t, now) == AddScript({t}, [u \in {t} |-> now * 1000])

(* add: a transaction a peer sent, with the time of its arrival. *)
AddUnconfirmed(t, now) == AddScript({t}, [u \in {t} |-> now])

----------------------------------------------------------------------------
(* Reads. *)

(* The item of a request: what an address row and the lookups after it say *)
(* of one output.  cached: isConfirmedCached.  attempts:                   *)
(* multipleSpentAttempts.  0 confirmations also stand for undefined.       *)
Item == [ts : Stamp, cached : BOOLEAN, confirmed : BOOLEAN, confirmations : Int,
         spent : Tx \cup {NoHash}, spentIndex : Nat, spentTs : Stamp, attempts : SUBSET Tx,
         spentConfirmed : BOOLEAN, spentCached : BOOLEAN, spentConfirmations : Int]

(* _parseAddrData: the cached confirmations, unless they are ignored. *)
ParseAddrData(o, n, ignoreCache) ==
  LET c == IF ignoreCache THEN Uncached ELSE txa[o][n]
      spentToo == c.spent # NoHash
  IN  [ts |-> n, cached |-> c.confirmed, confirmed |-> c.confirmed, confirmations |-> 0,
       spent |-> c.spent, spentIndex |-> c.index, spentTs |-> c.ts, attempts |-> {},
       spentConfirmed |-> spentToo, spentCached |-> spentToo, spentConfirmations |-> 0]

Rows(o) == {n \in Stamp : txa[o][n] # Absent}

(* fromAddr, its first stream: an output with several rows, stored at      *)
(* several times, counts with the latest of them.                          *)
FromAddr(a, ignoreCache) ==
  [o \in {x \in Out : AddrOf[x] = a /\ Rows(x) # {}} |-> ParseAddrData(o, Max(Rows(o)), ignoreCache)]

(* _addSpentInfo over the spends of o in key order: the first is taken for *)
(* the spender, and all are attempts when there is more than one.          *)
Spends(o) == {t \in Tx : txs[o][t] # Unspent}
FirstSpend(o) == CHOOSE t \in Spends(o) : \A u \in Spends(o) : TxOrder[t] <= TxOrder[u]

AddSpentInfo(item, o) ==
  LET first == FirstSpend(o) IN
    IF Spends(o) = {} THEN item
    ELSE [item EXCEPT !.spent = first, !.spentIndex = Index(first, o),
                      !.spentTs = txs[o][first],
                      !.attempts = IF Spends(o) = {first} THEN {} ELSE Spends(o)]

----------------------------------------------------------------------------
(* cacheConfirmations and fillScriptPubKey. *)

(* Mutant: one confirmation is enough for the spend. *)
CacheEarly(item) ==
  IF item.spentCached \/ item.confirmations < Safe THEN Absent
  ELSE IF item.spentConfirmations > 0
       THEN [confirmed |-> TRUE, spent |-> item.spent, index |-> item.spentIndex,
             ts |-> item.spentTs]
       ELSE IF item.cached THEN Absent ELSE [Uncached EXCEPT !.confirmed = TRUE]

(* The value cached for an item, or Absent to leave the row alone.  An     *)
(* item whose own confirmation came from the cache counts none.            *)
ToCache(item) ==
  LET deep == item.confirmations >= Safe
      spentDeep == item.spentConfirmations >= Safe
  IN  IF item.spentCached \/ ~deep THEN Absent
      ELSE IF spentDeep
           THEN [confirmed |-> TRUE, spent |-> item.spent, index |-> item.spentIndex,
                 ts |-> item.spentTs]
           ELSE IF item.cached THEN Absent ELSE [Uncached EXCEPT !.confirmed = TRUE]

CacheConfirmations(items) ==
  /\ txa' = [o \in Out |-> [n \in Stamp |->
       IF o \in DOMAIN items /\ n = items[o].ts /\ ToCache(items[o]) # Absent
       THEN ToCache(items[o]) ELSE txa[o][n]]]
  /\ UNCHANGED <<txo, txs>>

(* fillScriptPubKey puts <value>:<confirmed>:<script> under the output's own *)
(* key, where readers expect <addr>:<value>.                               *)
CacheScript(o, item) ==
  /\ txo' = [txo EXCEPT ![o] = [addr |-> NoHash, sat |-> IF item.confirmed THEN 1 ELSE 0]]
  /\ UNCHANGED <<txs, txa>>

----------------------------------------------------------------------------
(* Properties. *)

(* What is cached as confirmed, or as spent, is so on bitcoind's chain for *)
(* good, as long as no reorganisation takes Safe blocks: cacheConfirmations*)
(* writes what several earlier calls counted, on a chain that moved since. *)
CacheTruthful ==
  \A o \in Out : \A n \in Rows(o) :
    LET c == txa[o][n] IN
      /\ c.confirmed => Confirmed(TxOf[o])
      /\ c.spent # NoHash => Confirmed(c.spent)

(* A transaction is only indexed when its outputs and spends are stored:   *)
(* BlockDb.add writes them before the block's batch, and a branch that is  *)
(* connected again needs no other write.                                   *)
IndexedIsStored ==
  \A t \in Tx : btx[t] # NoEntry =>
    /\ \A o \in Out : TxOf[o] = t => txo[o] # Absent /\ Rows(o) # {}
    /\ \A o \in Inputs(t) : txs[o][t] # Unspent
============================================================================
