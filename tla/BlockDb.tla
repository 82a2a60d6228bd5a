------------------------------ MODULE BlockDb ------------------------------
(***************************************************************************)
(* The block index (lib/BlockDb.js): the LevelDB keys that say which       *)
(* blocks are known, how they are linked, which of them are on the main    *)
(* chain and where every confirmed transaction is, with one operator per   *)
(* method.  A method that writes does so in one leveldb put or batch, which*)
(* is atomic, so each is one step.                                         *)
(***************************************************************************)
EXTENDS Integers, Sequences

CONSTANTS
  Block,      \* block hashes
  Genesis,    \* the hash of block 0
  Zeros,      \* the all-zeros hash, previousblockhash of Genesis
  NoHash,     \* what a missing key reads as (null)
  Parent,     \* Parent[b]: the previousblockhash in the header of b
  Depth,      \* Depth[b]: the number of blocks below b
  Tx,         \* transaction ids
  TxsOf,      \* TxsOf[b]: the transactions of b, as bitcoind lists them
  Time,       \* block timestamps
  TimeOf      \* TimeOf[b]: the timestamp in the header of b

(* A hash that may appear in a pointer: a block's, or the parent of block 0. *)
Hash == Block \cup {Zeros}

(* What a key may be made of: the code also reads and writes with null. *)
Key == Hash \cup {NoHash}

ASSUME BlockTreeAssumption ==
  /\ Genesis \in Block
  /\ Zeros \notin Block
  /\ NoHash \notin Hash
  /\ Parent \in [Block -> Hash]
  /\ \A b \in Block : Parent[b] = Zeros <=> b = Genesis
  /\ Depth \in [Block -> Nat]
  /\ Depth[Genesis] = 0
  /\ \A b \in Block \ {Genesis} : Depth[b] = Depth[Parent[b]] + 1
  /\ TxsOf \in [Block -> SUBSET Tx]
  /\ Time \subseteq Nat
  /\ TimeOf \in [Block -> Time]

VARIABLES
  prev,       \* bpr-<hash>: the previous block, for every stored block
  next,       \* bne-<hash>: the next block
  main,       \* bma-<hash>: the height, -1 off the main chain, 0 when missing
  btx,        \* btx-<txid>: <hash>:<height> of the block that confirms it
  bts,        \* bts-<time>: the block with that timestamp
  bti,        \* bti: <hash>:<height> of the tip
  cachedTip   \* BlockDb.cachedTip, in memory only

dbVars == <<prev, next, main, btx, bts, bti, cachedTip>>

(* A <hash>:<height> value; NoEntry is the missing key. *)
Entry == [hash : Key, height : Int]
NoEntry == [hash |-> NoHash, height |-> -1]
At(h, n) == [hash |-> h, height |-> n]

DbTypeOK ==
  /\ prev \in [Key -> Key]
  /\ next \in [Key -> Key]
  /\ main \in [Key -> Int]
  /\ btx \in [Tx -> Entry]
  /\ bts \in [Time -> Block \cup {NoHash}]
  /\ bti \in Entry
  /\ cachedTip \in Entry

DbInit ==
  /\ prev = [h \in Key |-> NoHash]
  /\ next = [h \in Key |-> NoHash]
  /\ main = [h \in Key |-> 0]
  /\ btx = [t \in Tx |-> NoEntry]
  /\ bts = [t \in Time |-> NoHash]
  /\ bti = NoEntry
  /\ cachedTip = NoEntry

----------------------------------------------------------------------------
(* Reads.  A missing key reads as null, or as height 0, which is also the  *)
(* height of Genesis.                                                      *)

Has(h) == prev[h] # NoHash

(* Mutant: a missing height counts as a height. *)
MissingIsHeight(h) == IF main[h] = 0 THEN 1 ELSE main[h]

(* Mutant: a block off the main chain counts as missing. *)
OrphanIsMissing(h) == IF main[h] < 0 THEN 0 ELSE main[h]

GetHeight(h) == main[h]
GetPrev(h) == prev[h]
GetNext(h) == next[h]

(* getTip answers from the cached tip, and from disk when there is none. *)
GetTip == IF cachedTip # NoEntry THEN cachedTip ELSE bti

----------------------------------------------------------------------------
(* Writes. *)

(* btx after the transactions of b are put with value e, or deleted. *)
PutTxs(b, e) == [t \in Tx |-> IF t \in TxsOf[b] THEN e ELSE btx[t]]
(* Mutant: the keys are overwritten instead of deleted. *)
NullTxs(b) == PutTxs(b, NoHash)

DelTxs(b) == PutTxs(b, NoEntry)

(* Mutant: the batch leaves the transactions out. *)
AddBare(b, height) ==
  /\ prev' = [prev EXCEPT ![b] = Parent[b]]
  /\ main' = [main EXCEPT ![b] = height]
  /\ bts' = [bts EXCEPT ![TimeOf[b]] = b]
  /\ UNCHANGED <<next, btx, bti, cachedTip>>

(* add: one batch, after the transactions went to TransactionDb. *)
Add(b, height) ==
  /\ prev' = [prev EXCEPT ![b] = Parent[b]]
  /\ main' = [main EXCEPT ![b] = height]
  /\ bts' = [bts EXCEPT ![TimeOf[b]] = b]
  /\ btx' = PutTxs(b, At(b, height))
  /\ UNCHANGED <<next, bti, cachedTip>>

(* Mutant: the height without the transactions. *)
HeightAlone(h, height) ==
  /\ main' = [main EXCEPT ![h] = height]
  /\ UNCHANGED <<prev, next, btx, bts, bti, cachedTip>>

(* _changeBlockHeight: the height and the transactions in one batch.  *)
(* bitcoind names the transactions, so h is a block it knows.         *)
ChangeBlockHeight(h, height) ==
  /\ main' = [main EXCEPT ![h] = height]
  /\ btx' = IF height >= 0 THEN PutTxs(h, At(h, height)) ELSE DelTxs(h)
  /\ UNCHANGED <<prev, next, bts, bti, cachedTip>>

(* Mutants: the height is one too low, or the one of an orphan. *)
OneLower(h, height) == ChangeBlockHeight(h, height - 1)
NotMainEither(h, height) == ChangeBlockHeight(h, -1)

SetBlockMain(h, height) == ChangeBlockHeight(h, height)
SetBlockNotMain(h) == ChangeBlockHeight(h, -1)

SetNext(h, n) ==
  /\ next' = [next EXCEPT ![h] = n]
  /\ UNCHANGED <<prev, main, btx, bts, bti, cachedTip>>

SetTip(h, height) ==
  /\ cachedTip' = At(h, height)
  /\ bti' = cachedTip'
  /\ UNCHANGED <<prev, next, main, btx, bts>>

(* A getTip that went to disk leaves its answer in memory. *)
CacheTip ==
  /\ cachedTip' = GetTip
  /\ UNCHANGED <<prev, next, main, btx, bts, bti>>
============================================================================
