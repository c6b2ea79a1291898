---------------------------- MODULE TokenBalances ----------------------------
(***************************************************************************)
(* MainSDK.getTokenBalances: up to three branches run side by side, the    *)
(* balance of sUSDC, the ERC-20 balances, and the SRC-20 balances, whose   *)
(* contracts are discovered by scanning the chain for the address's logs.  *)
(* Discovery asks for the windows of a batch in parallel, skips windows    *)
(* whose requests fail, and turns to the explorer when everything it has   *)
(* to show for them is failures.                                           *)
(*                                                                         *)
(* The two requests of a window, for the logs that the address has sent    *)
(* and for those it has received, are one step: they have the same range,  *)
(* which no block is added to any more, and fail together.  Each of them   *)
(* gets a limited number of rows of the explorer.                          *)
(*                                                                         *)
(* Read stands before the names of what BatchBalances has too: Balances    *)
(* extends both.                                                           *)
(***************************************************************************)
EXTENDS Integers, FiniteSets, FiniteSetsExt

CONSTANTS
    Contracts,      \* token contracts
    SUSDC,          \* the address of the sUSDC contract, itself an SRC-20
    Types,          \* values of the type parameter
    GivenLists,     \* values of the contracts parameter, {} for none
    ApiKey,         \* whether SOCIALSCAN_API_KEY is set, as a set of values
    MaxBlock,       \* a bound on the height of the chain
    Activity,       \* what SRC-20 logs of the address the chain may hold
    WindowSize,     \* LOG_WINDOW_SIZE, and the explorer's WINDOW_SIZE
    MaxWindows,     \* DISCOVERY_WINDOWS, and the explorer's MAX_WINDOWS
    BatchSize,      \* DISCOVERY_BATCH_SIZE
    MaxRows         \* how many rows the explorer is asked for, offset

(* The requests of a window, and a log of the address: its place in its     *)
(* block, and the requests that it is an answer to, both if the address has *)
(* sent a token to itself.                                                  *)
Ways == {"sent", "received"}
Log == [block : 1..MaxBlock, index : Nat, contract : Contracts,
        ways : (SUBSET Ways) \ {{}}]

ASSUME TokenAssumption ==
    /\ SUSDC \in Contracts
    /\ Types \subseteq {"erc20", "src20", "all"}
    /\ \A g \in GivenLists : g \subseteq Contracts
    /\ ApiKey \subseteq BOOLEAN
    /\ MaxBlock \in Nat
    /\ {WindowSize, MaxWindows, BatchSize, MaxRows} \subseteq Nat \ {0}
    /\ \A a \in Activity : a \subseteq Log

VARIABLES
    type, given, apiKey,    \* the request, and the configuration
    logs, latest,           \* the chain: the address's SRC-20 logs, its height
    readPc,         \* getTokenBalances as a whole
    branch,         \* the state of each branch
    erc20,          \* contracts whose ERC-20 balance has been read, or failed
    phase,          \* where the SRC-20 branch is suspended
    top,            \* the height its current scan starts from
    first,          \* the first window of the current batch
    waiting,        \* the windows that the scan waits for
    skipped,        \* windows whose requests failed, in the current scan
    cut,            \* requests that had more rows than they got (history)
    contracts,      \* the contracts found in the current scan
    contractList,   \* the contracts whose SRC-20 balances are read
    src20           \* those that have been read, or failed

requestVars == <<type, given, apiKey>>
chainVars == <<logs, latest>>
scanVars == <<top, first, waiting, skipped, cut, contracts>>
listVars == <<contractList, src20>>
readVars == <<requestVars, chainVars, readPc, branch, erc20, phase, scanVars, listVars>>

Branches == {"sUSDC", "erc20", "src20"}
Phases == {"off", "height", "windows", "explorerHeight", "explorer", "reading"}
Indices == 0..(MaxWindows - 1)

ReadTypeOK ==
    /\ type \in Types /\ given \in GivenLists /\ apiKey \in ApiKey
    /\ logs \in Activity /\ latest \in 0..MaxBlock
    /\ readPc \in {"idle", "resolving", "running", "done", "thrown"}
    /\ branch \in [Branches -> {"off", "running", "done", "failed"}]
    /\ erc20 \subseteq given
    /\ phase \in Phases
    /\ top \in 0..MaxBlock
    /\ first \in 0..(MaxWindows + BatchSize)
    /\ waiting \subseteq Indices /\ Cardinality(waiting) <= BatchSize
    /\ skipped \subseteq Indices
    /\ cut \subseteq Indices \X Ways
    /\ contracts \subseteq Contracts
    /\ contractList \subseteq Contracts
    /\ src20 \subseteq contractList

-----------------------------------------------------------------------------
(* Mutant: the number of windows is rounded down.                           *)
WindowCountRoundedDown(h) == Min({MaxWindows, h \div WindowSize})

(* ceil(latest / size) windows, at most MaxWindows, from the newest back.   *)
WindowCount(h) == Min({MaxWindows, (h + WindowSize - 1) \div WindowSize})

(* Window i below height h: its bounds, and the logs in it.                 *)
Hi(h, i) == h - i * WindowSize
Lo(h, i) == Max({0, h + 1 - (i + 1) * WindowSize})
LogsIn(h, i) == {l \in logs : l.block <= latest /\ l.block \in Lo(h, i)..Hi(h, i)}

(* What the requests of a window may get.  The node gives all logs; which   *)
(* ones the explorer leaves out of too many is up to it.                    *)
Matching(i, way) == {l \in LogsIn(top, i) : way \in l.ways}
IsCut(i, way) == phase = "explorer" /\ Cardinality(Matching(i, way)) > MaxRows
Answers(i, way) ==
    IF IsCut(i, way) THEN kSubset(MaxRows, Matching(i, way)) ELSE {Matching(i, way)}

(* Mutant: all windows are asked for at once.                               *)
BatchUnbounded(h, b) == {i \in Indices : b <= i /\ i < WindowCount(h)}

(* indices.slice(b, b + DISCOVERY_BATCH_SIZE)                               *)
Batch(h, b) == {i \in Indices : b <= i /\ i < b + BatchSize /\ i < WindowCount(h)}

(* type = "all" reports sUSDC in a field of its own and reads it there.     *)
Excluded == IF type = "all" THEN {SUSDC} ELSE {}

-----------------------------------------------------------------------------
ReadInit ==
    /\ type \in Types /\ given \in GivenLists /\ apiKey \in ApiKey
    /\ logs \in Activity /\ latest \in 0..MaxBlock
    /\ readPc = "idle"
    /\ branch = [b \in Branches |-> "off"]
    /\ erc20 = {}
    /\ phase = "off"
    /\ top = 0 /\ first = 0
    /\ waiting = {} /\ skipped = {} /\ cut = {} /\ contracts = {}
    /\ contractList = {} /\ src20 = {}

(* A block is added.                                                        *)
Grow ==
    /\ latest < MaxBlock
    /\ latest' = latest + 1
    /\ UNCHANGED <<requestVars, logs, readPc, branch, erc20, phase, scanVars,
                   listVars>>

ReadCall ==
    /\ readPc = "idle"
    /\ readPc' = "resolving"
    /\ UNCHANGED <<requestVars, chainVars, branch, erc20, phase, scanVars,
                   listVars>>

ReadVaultFails ==
    /\ readPc = "resolving"
    /\ readPc' = "thrown"
    /\ UNCHANGED <<requestVars, chainVars, branch, erc20, phase, scanVars,
                   listVars>>

(* ensureVaultData has answered: the branches of the type start.  The       *)
(* SRC-20 branch reads the given contracts, or asks for the height.         *)
Started(b) == type = "all" \/ b = type
ReadVaultReply ==
    /\ readPc = "resolving"
    /\ readPc' = "running"
    /\ branch' = [b \in Branches |-> IF Started(b) THEN "running" ELSE "off"]
    /\ IF ~Started("src20") \/ given = {}
       THEN UNCHANGED contractList
       ELSE contractList' = given \ Excluded
    /\ phase' = CASE ~Started("src20") -> "off"
                  [] given = {} -> "height"
                  [] OTHER -> "reading"
    /\ UNCHANGED <<requestVars, chainVars, erc20, scanVars, src20>>

-----------------------------------------------------------------------------
(* How a branch ends.                                                       *)

(* With type "all" a failure becomes a field of the result.                 *)
Fails(b) ==
    /\ branch' = [branch EXCEPT ![b] = "failed"]
    /\ readPc' = IF type = "all" THEN readPc ELSE "thrown"

Running(b) == readPc = "running" /\ branch[b] = "running"
Ends(b) == branch' = [branch EXCEPT ![b] = "done"]

SUsdcSettles ==
    /\ Running("sUSDC")
    /\ \/ Ends("sUSDC") /\ UNCHANGED readPc
       \/ Fails("sUSDC")
    /\ UNCHANGED <<requestVars, chainVars, erc20, phase, scanVars, listVars>>

(* Given contracts are read one by one; a read that fails gives a zero.     *)
Erc20Reply(c) ==
    /\ Running("erc20")
    /\ c \in given \ erc20
    /\ erc20' = erc20 \cup {c}
    /\ UNCHANGED <<requestVars, chainVars, readPc, branch, phase, scanVars,
                   listVars>>

(* Without them the explorer lists the balances, if there is a key for it.  *)
Erc20Settles ==
    /\ Running("erc20")
    /\ \/ /\ IF given = {} THEN apiKey ELSE erc20 = given
          /\ Ends("erc20") /\ UNCHANGED readPc
       \/ given = {} /\ Fails("erc20")
    /\ UNCHANGED <<requestVars, chainVars, erc20, phase, scanVars, listVars>>

-----------------------------------------------------------------------------
(* The SRC-20 branch.                                                       *)

(* eth_blockNumber answers, and the first batch is asked for.               *)
HeightReply ==
    /\ Running("src20") /\ phase = "height"
    /\ phase' = "windows"
    /\ top' = latest
    /\ waiting' = Batch(latest, 0)
    /\ UNCHANGED <<requestVars, chainVars, readPc, branch, erc20, first,
                   skipped, cut, contracts, listVars>>

(* Nothing catches the failure of either scan's first request.              *)
HeightFails ==
    /\ Running("src20") /\ phase \in {"height", "explorerHeight"}
    /\ Fails("src20")
    /\ UNCHANGED <<requestVars, chainVars, erc20, phase, scanVars, listVars>>

(* The windows of a batch, and the explorer's window, answer in any order.  *)
WindowReply(i) ==
    /\ Running("src20") /\ i \in waiting
    /\ waiting' = waiting \ {i}
    /\ \E sent \in Answers(i, "sent"), received \in Answers(i, "received") :
           contracts' = contracts \cup {l.contract : l \in sent \cup received}
    /\ cut' = cut \cup {<<i, way>> : way \in {w \in Ways : IsCut(i, w)}}
    /\ UNCHANGED <<requestVars, chainVars, readPc, branch, erc20, phase, top,
                   first, skipped, listVars>>

(* Its failure is counted, and the window skipped.                          *)
WindowFails(i) ==
    /\ Running("src20") /\ i \in waiting
    /\ waiting' = waiting \ {i}
    /\ skipped' = skipped \cup {i}
    /\ UNCHANGED <<requestVars, chainVars, readPc, branch, erc20, phase, top,
                   first, cut, contracts, listVars>>

(* Mutant: b is not increased.                                              *)
NextBatchRepeated ==
    /\ Running("src20") /\ phase = "windows" /\ waiting = {}
    /\ first + BatchSize < WindowCount(top)
    /\ waiting' = Batch(top, first)
    /\ UNCHANGED <<requestVars, chainVars, readPc, branch, erc20, phase, top, first,
                   skipped, cut, contracts, listVars>>

(* The next batch is asked for when all windows of this one have answered.  *)
NextBatch ==
    /\ Running("src20") /\ phase = "windows" /\ waiting = {}
    /\ first + BatchSize < WindowCount(top)
    /\ first' = first + BatchSize
    /\ waiting' = Batch(top, first + BatchSize)
    /\ UNCHANGED <<requestVars, chainVars, readPc, branch, erc20, phase, top,
                   skipped, cut, contracts, listVars>>

(* discoverSrc20Contracts has gone through all windows.  If failures are    *)
(* all it has, the explorer is asked, when there is a key for it.           *)
Discovered ==
    /\ Running("src20") /\ phase = "windows" /\ waiting = {}
    /\ first + BatchSize >= WindowCount(top)
    /\ IF contracts = {} /\ skipped # {} /\ apiKey
       THEN phase' = "explorerHeight" /\ UNCHANGED contractList
       ELSE phase' = "reading" /\ contractList' = contracts \ Excluded
    /\ UNCHANGED <<requestVars, chainVars, readPc, branch, erc20, scanVars, src20>>

(* The explorer's scan starts anew, from the height at this time.           *)
ExplorerHeightReply ==
    /\ Running("src20") /\ phase = "explorerHeight"
    /\ phase' = "explorer"
    /\ top' = latest
    /\ first' = 0
    /\ waiting' = {i \in {0} : latest > 0}
    /\ skipped' = {}
    /\ UNCHANGED <<requestVars, chainVars, readPc, branch, erc20, cut, contracts,
                   listVars>>

(* Its windows are asked for one after the other.                           *)
ExplorerNext ==
    /\ Running("src20") /\ phase = "explorer" /\ waiting = {}
    /\ first + 1 < MaxWindows /\ Hi(top, first + 1) > 0
    /\ first' = first + 1
    /\ waiting' = {first + 1}
    /\ UNCHANGED <<requestVars, chainVars, readPc, branch, erc20, phase, top,
                   skipped, cut, contracts, listVars>>

ExplorerDone ==
    /\ Running("src20") /\ phase = "explorer" /\ waiting = {}
    /\ first + 1 >= MaxWindows \/ Hi(top, first + 1) <= 0
    /\ phase' = "reading"
    /\ contractList' = contracts \ Excluded
    /\ UNCHANGED <<requestVars, chainVars, readPc, branch, erc20, scanVars, src20>>

(* getTokenInfo and getSrc20Balance of a contract, whose failures are       *)
(* replaced by defaults and by a balance of zero.                           *)
Src20Reply(c) ==
    /\ Running("src20") /\ phase = "reading"
    /\ c \in contractList \ src20
    /\ src20' = src20 \cup {c}
    /\ UNCHANGED <<requestVars, chainVars, readPc, branch, erc20, phase,
                   scanVars, contractList>>

Src20Settles ==
    /\ Running("src20") /\ phase = "reading"
    /\ src20 = contractList
    /\ Ends("src20")
    /\ UNCHANGED <<requestVars, chainVars, readPc, erc20, phase, scanVars,
                   listVars>>

(* All branches have settled.                                               *)
Return ==
    /\ readPc = "running"
    /\ \A b \in Branches : branch[b] # "running"
    /\ readPc' = "done"
    /\ UNCHANGED <<requestVars, chainVars, branch, erc20, phase, scanVars,
                   listVars>>

-----------------------------------------------------------------------------
Src20Step ==
    \/ HeightReply
    \/ HeightFails
    \/ \E i \in waiting : WindowReply(i) \/ WindowFails(i)
    \/ NextBatch
    \/ Discovered
    \/ ExplorerHeightReply
    \/ ExplorerNext
    \/ ExplorerDone
    \/ \E c \in contractList : Src20Reply(c)
    \/ Src20Settles

ReadStep ==
    \/ ReadVaultFails
    \/ ReadVaultReply
    \/ SUsdcSettles
    \/ \E c \in given : Erc20Reply(c)
    \/ Erc20Settles
    \/ Src20Step
    \/ Return

ReadNext == ReadCall \/ ReadStep \/ Grow

ReadSpec == ReadInit /\ [][ReadNext]_readVars

-----------------------------------------------------------------------------
(* Properties.                                                              *)

(* The logs of a contract below the height that the last scan started from, *)
(* and not too deep for it.                                                 *)
Horizon == top - Min({top, MaxWindows * WindowSize})
Seen(c) == {l \in logs : l.contract = c /\ l.block \in (Horizon + 1)..top}

(* Why the scan may have got no row for a log of window i: the window's     *)
(* requests failed, or those that ask for the log got too few rows.         *)
Hidden(l, i) == i \in skipped \/ {i} \X l.ways \subseteq cut

(* Discovery overlooks nothing: a contract with a log of the address below  *)
(* the scan's height and within its depth is reported, unless for each such *)
(* log the requests that show it have failed, or were cut off at the        *)
(* explorer's limit; the node's are never cut off.  The explorer's scan has *)
(* to make up for the one before, and takes the place of it.                *)
MissingIsExplained ==
    branch["src20"] = "done" /\ given = {} =>
        \A c \in Contracts \ (contractList \cup Excluded) : \A l \in Seen(c) :
            \E i \in Indices : l \in LogsIn(top, i) /\ Hidden(l, i)

(* Every call settles, whatever fails; with type "all" in a result, once    *)
(* the vault is known, as its branches fail apart.                          *)
EveryReadSettles ==
    /\ readPc # "idle" ~> readPc \in {"done", "thrown"}
    /\ readPc = "running" /\ type = "all" ~> readPc = "done"
=============================================================================
