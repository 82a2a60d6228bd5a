---------------------------- MODULE HistoricSync ----------------------------
(***************************************************************************)
(* lib/HistoricSync.js: find the block to start from, then read bitcoind's *)
(* block files from there, or follow nextblockhash over RPC, until there   *)
(* is no block left.  One step per RPC or database call; the blocks go     *)
(* through the Sync object "historic".                                     *)
(***************************************************************************)
EXTENDS BlockFiles

CONSTANT RollbackLimit  \* how many blocks the start may fall back; 100, as network is no string

ASSUME HistoricAssumption ==
  /\ "historic" \in Syncer
  /\ RollbackLimit \in Nat

VARIABLES
  hist,    \* the HistoricSync object
  config   \* config/config.js, as the environment of the process sets it

Statuses == {"none", "starting", "syncing", "finished", "error"}
Steps == {"none", "count", "tip", "info", "height", "demote", "seek", "fetch", "store"}

(* dataDir: the block files may be read (a dataDir, and no forceRPCsync).  *)
Config == [disableP2p : BOOLEAN, disableHistoric : BOOLEAN, dataDir : BOOLEAN]

(* force: opts.forceRPC.  extractor: blockExtractor.  tip, oldtip, height, own, *)
(* confirmed: the locals of updateStartBlock (own is blockInfo.height).    *)
(* chain: blockChainHeight.  cursor: currentRpcHash, startBlock at first.  *)
Hist == [status : Statuses, step : Steps, force : BOOLEAN, extractor : Extractor,
         tip : Key, oldtip : Key, height : Int, own : Int, confirmed : BOOLEAN,
         chain : Int, cursor : Key]

Unread == -2  \* blockInfo.height when blockInfo is {}: not a number

NewHist ==
  [status |-> "none", step |-> "none", force |-> FALSE, extractor |-> NoExtractor,
   tip |-> NoHash, oldtip |-> NoHash, height |-> 0, own |-> 0, confirmed |-> FALSE,
   chain |-> 0, cursor |-> NoHash]

Ready(step) == ~crashed /\ hist.step = step
Ends(status) == hist' = [hist EXCEPT !.status = status, !.step = "none"]

(* start: refused while a sync runs. *)
Started(h, forceRPC) ==
  IF h.status \in {"starting", "syncing"}
  THEN h
  ELSE [h EXCEPT !.status = "starting", !.step = "count", !.force = forceRPC]

----------------------------------------------------------------------------
(* prepareToSync. *)

(* updateBlockChainHeight, after the checks of version and network. *)
CountBlocks ==
  /\ Ready("count")
  /\ hist' = [hist EXCEPT !.step = "tip", !.chain = Depth[node]]
  /\ UNCHANGED <<dbVars, syncVars>>

(* bitcoind gives no block count: reading it off the answer throws. *)
CountThrows ==
  /\ "rpc" \in Faults
  /\ Ready("count")
  /\ ProcessEnds
  /\ UNCHANGED <<dbVars, hist>>

(* The network check fails: the status says so and nobody is called back. *)
CheckFails ==
  /\ "rpc" \in Faults
  /\ Ready("count")
  /\ Ends("error")
  /\ UNCHANGED <<dbVars, syncVars>>

(* prepareFileSync: files are for a database with less than 80 % of the   *)
(* blocks, and for a first sync.                                          *)
SyncsFiles == config.dataDir /\ ~hist.force /\ 10 * hist.height <= 8 * hist.chain

(* prepareFileSync: the blocks after b, or from Genesis on. *)
StartFiles(b) ==
  LET started == [hist EXCEPT !.extractor = NewExtractor(lastFile), !.cursor = b]
  IN  hist' = IF b = Genesis
              THEN [started EXCEPT !.status = "syncing", !.step = "fetch"]
              ELSE [started EXCEPT !.step = "seek"]

(* prepareRpcSync: from b on, unless an earlier sync left an extractor.     *)
StartRpc(b) ==
  hist' = [hist EXCEPT !.status = "syncing", !.step = "fetch",
                       !.cursor = IF hist.extractor = NoExtractor THEN b ELSE @]

StartFrom(b) == IF SyncsFiles THEN StartFiles(b) ELSE StartRpc(b)

(* updateStartBlock: an empty database starts with Genesis, any other *)
(* with its tip ...                                                   *)
ReadStart ==
  /\ Ready("tip")
  /\ CacheTip
  /\ UNCHANGED syncVars
  /\ \/ /\ GetTip = NoEntry
        /\ StartFrom(Genesis)
     \/ /\ GetTip # NoEntry
        /\ hist' = [hist EXCEPT !.step = "info", !.tip = GetTip.hash, !.oldtip = NoHash,
                                !.height = GetTip.height]

(* Mutant: the search takes the first block it looks at. *)
JudgeFirst(own) == StartFrom(hist.tip) /\ UNCHANGED syncVars

(* ... if bitcoind has it on its chain, or at the height of its own tip.  *)
(* Otherwise back to the previous block, unless the block is too far off.  *)
(* Without a block to go back from it throws, in the callback of the write *)
(* in DemoteOldTip, which lib/leveldb.js calls again with the error.       *)
(* Version 3 of async hands the test of the loop its own callback first,   *)
(* which is taken for an error there.                                      *)
Judge(own) ==
  LET gap == IF own = Unread THEN 0
             ELSE IF hist.height > own THEN hist.height - own ELSE own - hist.height
      accepted == own # Unread /\ (hist.chain = own \/ hist.confirmed)
      back == IF own = Unread THEN NoHash ELSE Parent[hist.tip]
  IN  \/ /\ Async3
         /\ Ends("error")
         /\ UNCHANGED syncVars
      \/ /\ ~Async3 /\ gap > RollbackLimit
         /\ ProcessEnds
         /\ UNCHANGED hist
      \/ /\ ~Async3 /\ gap <= RollbackLimit /\ accepted
         /\ StartFrom(hist.tip)
         /\ UNCHANGED syncVars
      \/ /\ ~Async3 /\ gap <= RollbackLimit /\ ~accepted /\ hist.tip # NoHash
         /\ hist' = [hist EXCEPT !.step = "info", !.oldtip = hist.tip, !.tip = back]
         /\ UNCHANGED syncVars
      \/ /\ ~Async3 /\ gap <= RollbackLimit /\ ~accepted /\ hist.tip = NoHash
         /\ Ends("error")
         /\ UNCHANGED syncVars

(* fromHashWithInfo: what bitcoind says of the block, then its height in *)
(* the database.                                                         *)
ReadInfo ==
  /\ Ready("info") /\ hist.tip # NoHash
  /\ hist' = [hist EXCEPT !.step = "height", !.confirmed = hist.tip \in Active]
  /\ UNCHANGED <<dbVars, syncVars>>

(* bitcoind did not answer, or was asked for no block: blockInfo is {}. *)
ReadInfoFails ==
  /\ Ready("info")
  /\ "rpc" \in Faults \/ hist.tip = NoHash
  /\ UNCHANGED dbVars
  /\ IF hist.oldtip # NoHash
     THEN /\ hist' = [hist EXCEPT !.step = "demote", !.own = Unread, !.confirmed = FALSE]
          /\ UNCHANGED syncVars
     ELSE Judge(Unread)

ReadHeight ==
  /\ Ready("height")
  /\ UNCHANGED dbVars
  /\ IF hist.oldtip # NoHash
     THEN /\ hist' = [hist EXCEPT !.step = "demote", !.own = GetHeight(hist.tip)]
          /\ UNCHANGED syncVars
     ELSE Judge(GetHeight(hist.tip))

(* Mutant: the block looked at goes off, not the one the search came from. *)
DemoteLookedAt ==
  /\ Ready("demote")
  /\ SetBlockNotMain(hist.tip)
  /\ Judge(hist.own)

(* The block the search came from is off the main chain. *)
DemoteOldTip ==
  /\ Ready("demote")
  /\ SetBlockNotMain(hist.oldtip)
  /\ Judge(hist.own)

(* bitcoind does not answer for the block to demote: throw. *)
DemoteThrows ==
  /\ "rpc" \in Faults
  /\ Ready("demote")
  /\ ProcessEnds
  /\ UNCHANGED <<dbVars, hist>>

----------------------------------------------------------------------------
(* The loops over the blocks begin with their test. *)
Looping == hist.step \in {"seek", "fetch"}

(* getBlockFromFile: one block off the files, whose number is put before   *)
(* the block is handed on.                                                 *)
NoBlock(x) == x.buffer = << >>

TakeBlock(x, step) ==
  /\ hist' = [hist EXCEPT !.step = step, !.extractor = [x EXCEPT !.buffer = Tail(@)]]
  /\ lastFile' = x.file

(* Forward to the block to start from, which the database has already.    *)
Seek ==
  LET x == Ahead(hist.extractor) IN
  /\ Ready("seek") /\ ~Async3
  /\ UNCHANGED <<dbVars, syncVars>>
  /\ \/ /\ NoBlock(x)
        /\ hist' = [hist EXCEPT !.status = "error", !.step = "none", !.extractor = x]
        /\ UNCHANGED lastFile
     \/ /\ ~NoBlock(x) /\ Head(x.buffer) # hist.cursor
        /\ TakeBlock(x, "seek")
     \/ /\ ~NoBlock(x) /\ Head(x.buffer) = hist.cursor
        /\ hist' = [hist EXCEPT !.status = "syncing", !.step = "fetch",
                                !.extractor = [x EXCEPT !.buffer = Tail(@)]]
        /\ lastFile' = x.file

FetchFile ==
  LET x == Ahead(hist.extractor) IN
  /\ Ready("fetch") /\ ~Async3
  /\ hist.extractor # NoExtractor
  /\ \/ /\ NoBlock(x)
        /\ hist' = [hist EXCEPT !.status = "finished", !.step = "none", !.extractor = x]
        /\ UNCHANGED <<dbVars, syncVars, lastFile>>
     \/ /\ ~NoBlock(x)
        /\ StoreTipBlock("historic", [blk |-> Head(x.buffer), allow |-> TRUE])
        /\ TakeBlock(x, "store")

----------------------------------------------------------------------------
(* start: the loop. *)

(* getBlockFromRPC: the answer names the block to fetch after this one.    *)
(* Without a next block the sync is over.                                  *)
Fetch ==
  /\ Ready("fetch") /\ ~Async3
  /\ hist.extractor = NoExtractor
  /\ \/ /\ hist.cursor = NoHash
        /\ Ends("finished")
        /\ UNCHANGED <<dbVars, syncVars>>
     \/ /\ hist.cursor # NoHash
        /\ StoreTipBlock("historic", [blk |-> hist.cursor, allow |-> TRUE])
        /\ hist' = [hist EXCEPT !.step = "store", !.cursor = NextBlockHash(@)]

FetchFails ==
  /\ "rpc" \in Faults
  /\ Ready("fetch") /\ ~Async3
  /\ hist.extractor = NoExtractor
  /\ hist.cursor # NoHash
  /\ Ends("error")
  /\ UNCHANGED <<dbVars, syncVars>>

(* storeTipBlock works on the block, and its answer goes on to the next. *)
Store ==
  /\ Step("historic") \/ Polls("historic")
  /\ \/ /\ crashed' \/ pc'["historic"] # "idle"
        /\ UNCHANGED hist
     \/ /\ ~crashed' /\ pc'["historic"] = "idle" /\ reply'["historic"] = "ok"
        /\ hist' = [hist EXCEPT !.step = "fetch"]
     \/ /\ ~crashed' /\ pc'["historic"] = "idle" /\ reply'["historic"] # "ok"
        /\ Ends("error")

(* The transactions of a block off a file need no RPC. *)
StoreFails ==
  /\ hist.extractor = NoExtractor
  /\ AddTxsFails("historic")
  /\ Ends("error")

FileStep == Seek \/ FetchFile

SyncStep ==
  \/ CountBlocks \/ ReadStart \/ ReadInfo \/ ReadHeight \/ DemoteOldTip \/ Fetch \/ Store
SyncFails ==
  \/ CountThrows \/ CheckFails \/ ReadInfoFails \/ DemoteThrows \/ FetchFails \/ StoreFails
  \/ HeightChangeThrows("historic") /\ UNCHANGED hist
============================================================================
