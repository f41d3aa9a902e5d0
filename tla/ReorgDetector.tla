---------------------------- MODULE ReorgDetector ----------------------------
(***************************************************************************)
(* internal/reorg/detector.go: the detection loop for one chain, from a    *)
(* tick to the end of autoProcessReorg, one step for each call to the node *)
(* or the database and each section under d.mu; between them the chain and *)
(* the scanner go on.  checkAllChains waits for the checks it has started, *)
(* so a chain has one check at a time and IsProcessingReorg is never found *)
(* set.  Stop waits for the loop with d.mu held.                           *)
(***************************************************************************)
EXTENDS BlockStore

CONSTANTS Threshold,  \* ReorgDepthThreshold; NewReorgDetector does not check it
          MaxDepth    \* maxDepth of findForkPoint: 100

ASSUME DetectorAssumption ==
    Threshold \in Nat /\ MaxDepth \in Nat \ {0}

VARIABLES pc,        \* where the detection loop is
          latest,    \* latestHeight
          tip,       \* localBlock of DetectReorg
          cur,       \* currentLocal of findForkPoint
          depth,     \* depth of findForkPoint
          event,     \* the ReorgEvent under way
          stats,     \* ReorgsDetected; AverageReorgDepth is finite
          stop,      \* ctx and Stop
          started    \* ghost: forks when the check began

scan == <<latest, tip, cur, depth>>

locals == <<scan, event, started>>

dvars == <<storeVars, pc, locals, stats, stop>>

Genesis == Block(0, 0)

NoEvent == [old |-> Genesis, new |-> Genesis, depth |-> 0]

Events == [old : Blocks, new : Blocks, depth : 0 .. MaxHeight]

LoopStates == {"idle", "height", "local", "same", "walk", "down", "next",
               "create", "handle", "save", "reset", "delete", "mark",
               "finish", "clear", "error", "ended"}

Handling == {"create", "handle", "save", "reset", "delete", "mark", "finish"}

DInit ==
    /\ StoreInit
    /\ pc = "idle"
    /\ latest = 0
    /\ tip = Genesis
    /\ cur = Genesis
    /\ depth = 0
    /\ event = NoEvent
    /\ started = 0
    /\ stats = [detected |-> 0, finite |-> TRUE]
    /\ stop = "running"

(* d.mu is free unless Stop holds it.                                      *)
Mu == stop \in {"running", "cancelled"}

Step(from, to) == pc = from /\ pc' = to

(* The check returns and its locals go.                                    *)
Return ==
    /\ pc' = "idle"
    /\ latest' = 0
    /\ tip' = Genesis
    /\ cur' = Genesis
    /\ depth' = 0
    /\ event' = NoEvent
    /\ started' = 0
    /\ UNCHANGED <<storeVars, stats, stop>>

-----------------------------------------------------------------------------
(* checkChain and DetectReorg.                                             *)

Tick ==
    /\ Step("idle", "height")
    /\ Mu
    /\ started' = forks
    /\ UNCHANGED <<storeVars, scan, event, stats, stop>>

GetLatestHeight ==
    /\ Step("height", "local")
    /\ latest' = Top(chain)
    /\ UNCHANGED <<storeVars, tip, cur, depth, event, stats, stop, started>>

(* GetLatestBlock, and the comparison of the heights.                      *)
NoLocalBlock ==
    /\ pc = "local"
    /\ HeightsIn(store) = {}
    /\ Return

LocalAhead ==
    /\ pc = "local"
    /\ HeightsIn(store) # {}
    /\ latest < Top(store)
    /\ Return

GetLatestBlock ==
    /\ pc = "local"
    /\ HeightsIn(store) # {}
    /\ latest >= Top(store)
    /\ tip' = Block(Top(store), store[Top(store)])
    /\ cur' = tip'
    /\ depth' = 0
    /\ pc' = IF latest = Top(store) THEN "same" ELSE "walk"
    /\ UNCHANGED <<storeVars, latest, event, stats, stop, started>>

OnChain(b) == chain[b.num] = b.fork

SameHash ==
    /\ pc = "same"
    /\ OnChain(tip)
    /\ Return

OtherHash ==
    /\ Step("same", "create")
    /\ ~ OnChain(tip)
    /\ event' = [old |-> tip, new |-> Block(tip.num, chain[tip.num]),
                 depth |-> 1]
    /\ UNCHANGED <<storeVars, scan, stats, stop, started>>

-----------------------------------------------------------------------------
(* findForkPoint.                                                          *)

(* Mutant of DeepEnough: the threshold is not looked at.                   *)
DeepEnoughAlways(n) == n >= 0

DeepEnough(n) == n >= Threshold

Match ==
    /\ Step("walk", "next")
    /\ OnChain(cur)
    /\ DeepEnough(depth)
    /\ UNCHANGED <<storeVars, locals, stats, stop>>

MatchTooShallow ==
    /\ pc = "walk"
    /\ OnChain(cur)
    /\ ~ DeepEnough(depth)
    /\ Return

Mismatch ==
    /\ Step("walk", "down")
    /\ ~ OnChain(cur)
    /\ UNCHANGED <<storeVars, locals, stats, stop>>

(* Mutant of Down: the error of GetBlock is not looked at.                 *)
DownUnchecked ==
    /\ pc = "down"
    /\ cur.num > 0
    /\ cur' = Block(cur.num - 1, store[cur.num - 1])
    /\ depth' = depth + 1
    /\ pc' = IF depth' < MaxDepth THEN "walk" ELSE "error"
    /\ UNCHANGED <<storeVars, latest, tip, event, stats, stop, started>>

(* The previous local block, or an error when there is none.               *)
Down ==
    /\ pc = "down"
    /\ cur.num > 0
    /\ store[cur.num - 1] # NoBlock
    /\ cur' = Block(cur.num - 1, store[cur.num - 1])
    /\ depth' = depth + 1
    /\ pc' = IF depth' < MaxDepth THEN "walk" ELSE "error"
    /\ UNCHANGED <<storeVars, latest, tip, event, stats, stop, started>>

DownFails ==
    /\ Step("down", "error")
    /\ cur.num > 0 => store[cur.num - 1] = NoBlock
    /\ UNCHANGED <<storeVars, locals, stats, stop>>

(* Mutant of NextBlock: the successor's number without its block.          *)
NextBlockStale(b) == Block(b.num + 1, b.fork)

NextBlock(b) == Block(b.num + 1, chain[b.num + 1])

GetNewBlock ==
    /\ Step("next", "create")
    /\ event' = [old |-> cur, new |-> NextBlock(cur), depth |-> depth]
    /\ UNCHANGED <<storeVars, scan, stats, stop, started>>

(* A call to the node or the database fails.                               *)
CallFails ==
    /\ pc \in {"height", "local", "same", "walk", "down", "next"}
    /\ pc' = "error"
    /\ UNCHANGED <<storeVars, locals, stats, stop>>

HandleDetectionError ==
    /\ pc = "error"
    /\ Mu
    /\ Return

(* createReorgEvent computes the average before its caller counts the      *)
(* reorg; the event of two blocks at one height is never counted.          *)
CreateReorgEvent ==
    /\ Step("create", "handle")
    /\ Mu
    /\ stats' = [detected |-> IF event.new.num > event.old.num
                                THEN 1 ELSE stats.detected,
                 finite |-> stats.detected # 0]
    /\ UNCHANGED <<storeVars, locals, stop>>

-----------------------------------------------------------------------------
(* handleReorgEvent and autoProcessReorg.                                  *)

BeginHandling ==
    /\ Step("handle", "save")
    /\ Mu
    /\ UNCHANGED <<storeVars, locals, stats, stop>>

SaveReorgEvent ==
    /\ Step("save", "reset")
    /\ UNCHANGED <<storeVars, locals, stats, stop>>

ResetWatermark ==
    /\ Step("reset", "delete")
    /\ CanReset(SafeHeight(event.old.num))
    /\ scanned' = SafeHeight(event.old.num)
    /\ UNCHANGED <<chain, forks, store, extra, job>>
    /\ UNCHANGED <<locals, stats, stop>>

(* Blocks and logs.                                                        *)
DeleteData ==
    /\ Step("delete", "mark")
    /\ DeleteBlocks(event.new.num, event.old.num)
    /\ UNCHANGED <<chain, forks, scanned, job>>
    /\ UNCHANGED <<locals, stats, stop>>

(* The transactions of the same heights, which are not modelled here.      *)
MarkTransactions ==
    /\ Step("mark", "finish")
    /\ UNCHANGED <<storeVars, locals, stats, stop>>

SaveProcessed ==
    /\ Step("finish", "clear")
    /\ UNCHANGED <<storeVars, locals, stats, stop>>

HandlingFails ==
    /\ pc \in {"save", "reset", "delete", "mark", "finish"}
    /\ pc' = "clear"
    /\ UNCHANGED <<storeVars, locals, stats, stop>>

(* The deferred section that clears IsProcessingReorg.                     *)
EndHandling ==
    /\ pc = "clear"
    /\ Mu
    /\ Return

-----------------------------------------------------------------------------
(* The application cancels the context and calls Stop.                     *)
Cancel ==
    /\ stop = "running"
    /\ stop' = "cancelled"
    /\ UNCHANGED <<storeVars, pc, locals, stats>>

LoopEnds ==
    /\ Step("idle", "ended")
    /\ stop # "running"
    /\ UNCHANGED <<storeVars, locals, stats, stop>>

Stop ==
    /\ stop = "cancelled"
    /\ stop' = "stopping"
    /\ UNCHANGED <<storeVars, pc, locals, stats>>

StopReturns ==
    /\ stop = "stopping"
    /\ pc = "ended"
    /\ stop' = "stopped"
    /\ UNCHANGED <<storeVars, pc, locals, stats>>

Check == \/ Tick \/ GetLatestHeight \/ NoLocalBlock \/ LocalAhead
         \/ GetLatestBlock \/ SameHash \/ OtherHash \/ Match
         \/ MatchTooShallow \/ Mismatch
         \/ Down \/ DownFails \/ GetNewBlock \/ HandleDetectionError

Handle == \/ CreateReorgEvent \/ BeginHandling \/ SaveReorgEvent
          \/ ResetWatermark \/ DeleteData \/ MarkTransactions
          \/ SaveProcessed \/ EndHandling

Fails == CallFails \/ HandlingFails

Shutdown == Cancel \/ LoopEnds \/ Stop \/ StopReturns

Chain == World /\ UNCHANGED <<pc, locals, stats, stop>>

DNext == Chain \/ Check \/ Handle \/ Fails \/ Shutdown

DSpec == DInit /\ [][DNext]_dvars

(* The detector runs on, nothing fails for good, and the scanner scans.    *)
DFairSpec ==
    /\ DInit
    /\ [][Chain \/ Check \/ Handle]_dvars
    /\ WF_dvars(Check \/ Handle)
    /\ \A t \in Tasks :
          WF_dvars(Scan(t) /\ UNCHANGED <<pc, locals, stats, stop>>)

(* Every goroutine takes the steps it can.                                 *)
DStopSpec == DSpec /\ WF_dvars(Check \/ Handle) /\ WF_dvars(LoopEnds)
                   /\ WF_dvars(Stop) /\ WF_dvars(StopReturns)

-----------------------------------------------------------------------------

DTypeOK ==
    /\ StoreTypeOK
    /\ pc \in LoopStates
    /\ latest \in Heights
    /\ tip \in Blocks
    /\ cur \in Blocks
    /\ depth \in Heights
    /\ event \in Events
    /\ stats \in [detected : 0 .. 1, finite : BOOLEAN]
    /\ stop \in {"running", "cancelled", "stopping", "stopped"}
    /\ started \in Forks

(* No false alarm: whatever chain and scanner did while the check read     *)
(* them one by one, an event is only ever made about a local tip that the  *)
(* chain has abandoned.  With a threshold of 0 findForkPoint (367) makes   *)
(* one about a tip that is on the chain, too.                              *)
NoFalseAlarm == pc \in Handling => ~ OnChain(tip)

(* findForkPoint: unless the chain reorganised during the check, the event *)
(* joins the highest local block still on the chain to its successor on    *)
(* the chain: every height above it, up to the local tip of the check,     *)
(* holds a block the chain has abandoned, and the depth is their number.   *)
(* The scanner may save the same heights meanwhile: it replaces no row.    *)
ForkPointExact ==
    pc \in Handling /\ event.new.num > event.old.num /\ forks = started =>
        /\ OnChain(event.old)
        /\ OnChain(event.new)
        /\ event.new.num = event.old.num + 1
        /\ event.old.num + event.depth = tip.num
        /\ \A h \in Heights :
               event.old.num < h /\ h <= tip.num => h \in Orphans

(* README 20: forks are detected in real time.  An abandoned block in the  *)
(* database is found and replaced.                                         *)
OrphansAreFound == \A h \in Heights : h \in Orphans ~> h \notin Orphans

(* Comment at 514: the watermark is reset to a safe height.  With the      *)
(* chain as it was when the check began, nothing at or below it is an      *)
(* orphan.                                                                 *)
ResetsToSafeHeight ==
    pc = "delete" /\ forks = started =>
        \A h \in Orphans : h > SafeHeight(event.old.num)

(* README 21: affected data is rolled back.  When the event is saved as    *)
(* processed, the transactions of the abandoned local tip are among those  *)
(* that MarkTransactionsAsReverted has marked.                             *)
ProcessedIsReverted ==
    pc = "finish" => tip.num \in event.new.num .. event.old.num

(* README 22: data is processed again from the right chain.  What the      *)
(* rollback deletes is above the watermark, so that it is scanned again.   *)
NoHoles ==
    [][DeleteData => \A h \in HeightsIn(store) :
           store'[h] = NoBlock => h > scanned]_dvars

(* AverageReorgDepth, encoded as JSON with the statistics, is a number.    *)
AverageIsFinite == stats.finite

(* Comment at 158: Stop stops the detector.                                *)
StopCompletes == stop = "stopping" ~> stop = "stopped"

=============================================================================
