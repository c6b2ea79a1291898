---------------------------- MODULE HistoryPages ----------------------------
(***************************************************************************)
(* A client of GET /api/:vaultId/transactions that pages through the       *)
(* history with limit and offset, while the chain grows.  Each page is a   *)
(* scan of its own, from the chain's height at that time, for offset +     *)
(* limit items; the page is cut out of what the scan found.  A range of    *)
(* blocks given by the client is one request instead; a date is turned     *)
(* into a block, anew for each page, by the chain's height and the clock.  *)
(* Type "all" cuts a page out of three scans and merges them.  Each page   *)
(* derives the vault's viewing key anew, and goes on without it when that  *)
(* fails.  A scan is one step here: LogScan shows that it finds Found of   *)
(* the chain at its start.                                                 *)
(*                                                                         *)
(* A block stands for its timestamp.                                       *)
(***************************************************************************)
EXTENDS WindowScan

CONSTANTS
    MaxBlock,       \* a bound on the height of the chain
    Patterns,       \* what Transfer logs of the address a block may hold
    Queries,        \* what the client may ask for
    MaxRows,        \* the rows of a window that the explorer is asked for
    MaxDrift        \* a bound on the drift of block times

(* "erc20": type erc20, or all, without an API key of the explorer;         *)
(* "explorer" and "all": these types with one; "src20" and "viewingKey":    *)
(* type src20, without and with a viewing key that is registered and can be *)
(* derived; "allKeyed": type all with both keys.                            *)
AllPaths == {"erc20", "explorer", "src20", "viewingKey", "all", "allKeyed"}

(* "pinned": the query has fromBlock and toBlock, the chain's height when   *)
(* the client began; "before" and "after": it has this date.                *)
Ranges == {"open", "pinned", "before", "after"}

ASSUME PagesAssumption ==
    /\ MaxBlock \in Nat
    /\ MaxDrift \in Nat
    /\ MaxRows \in Nat \ {0}
    /\ Queries \subseteq [path : AllPaths, limit : Nat \ {0}, range : Ranges, cut : Nat]
    /\ \A pattern \in Patterns :
        /\ IsFiniteSet(pattern)
        /\ \A x \in pattern :
            /\ x.tx \in Nat /\ x.logIndex \in Nat /\ x.mine \in BOOLEAN
            /\ x.topic \in {"erc20", "src20", "susdc"} /\ x.dir \in {"sent", "received"}
        /\ \A x, y \in pattern : x.logIndex = y.logIndex => x = y

VARIABLES
    chain, latest,  \* the Transfer logs of the address, and the height
    path, limit, range,     \* the client's query
    cut,            \* the block that its date comes to when the client begins
    drift,          \* how many blocks less have come since than time allows
    top,            \* the newest block of the first page's range
    known,          \* what the chain held when the client began
    page,           \* pages received so far
    listing,        \* the last reply's logs or transfers before the slice
    slice,          \* the last reply's data
    hasMore,        \* the last reply's meta.hasMore
    returned,       \* the data of all pages
    repeats,        \* how many of them were in an earlier page
    lost,           \* transactions cut off in the explorer's windows (history)
    fallen,         \* logs have stood in for the explorer or for the log
                    \* filter with the viewing key (history)
    degraded        \* the client is not followed any further (history)

chainVars == <<chain, latest>>
queryVars == <<path, limit, range, cut, drift, top, known>>
replyVars ==
    <<page, listing, slice, hasMore, returned, repeats, lost, fallen, degraded>>
vars == <<chainVars, queryVars, replyVars>>

(* An SRC-20 transfer has two logs, encrypted to the sender's and to the    *)
(* recipient's key; mine holds of the one encrypted to the vault's key.     *)
(* Topic "susdc" is that of an SRC-20 log of the sUSDC contract.            *)
Log == [block : 1..MaxBlock, tx : Nat, logIndex : Nat,
        topic : {"erc20", "src20", "susdc"}, dir : {"sent", "received"},
        mine : BOOLEAN]

LogsOf(b, pattern) ==
    {[block |-> b, tx |-> x.tx, logIndex |-> x.logIndex,
      topic |-> x.topic, dir |-> x.dir, mine |-> x.mine] : x \in pattern}

TypeOK ==
    /\ \A l \in chain : l \in Log
    /\ latest \in 0..MaxBlock
    /\ [path |-> path, limit |-> limit, range |-> range, cut |-> cut] \in Queries
    /\ drift \in -MaxDrift..MaxDrift
    /\ top \in 0..latest
    /\ known \subseteq chain
    /\ page \in 0..(Cardinality(chain) + 1)
    /\ slice \subseteq listing
    /\ slice \subseteq returned
    /\ returned \subseteq chain
    /\ Cardinality(slice) <= limit
    /\ hasMore \in BOOLEAN
    /\ repeats \in Nat
    /\ lost \in Nat
    /\ fallen \in BOOLEAN /\ degraded \in BOOLEAN
    /\ fallen => path \in {"explorer", "viewingKey"}

-----------------------------------------------------------------------------
(* What a source of transfers asks for: two eth_getLogs filters, or the     *)
(* explorer's tokentx.                                                      *)
Matches(k, l) ==
    LET keyed == l.dir = "sent" \/ l.mine IN
    CASE k = "viewingKey" -> l.topic # "erc20" /\ keyed
      [] k = "src20" -> l.topic # "erc20"
      [] k = "susdcKeyed" -> l.topic = "susdc" /\ keyed
      [] k = "susdc" -> l.topic = "susdc"
      [] k \in {"erc20", "explorer"} -> l.topic = "erc20"
      [] k = "allKeyed" -> l.topic = "erc20" \/ keyed
      [] k = "all" -> TRUE
Matching(k, logs) == {l \in logs : Matches(k, l)}

Merging == path \in {"all", "allKeyed"}

(* Newest block first; within a block in the order in which the answers to  *)
(* the two filters are joined, then in the chain's order.                   *)
FirstDir == IF path = "viewingKey" /\ range = "pinned" THEN "received" ELSE "sent"
Before(l, m) ==
    \/ l.block > m.block
    \/ l.block = m.block /\ l.dir = FirstDir /\ m.dir # FirstDir
    \/ l.block = m.block /\ l.dir = m.dir /\ l.logIndex < m.logIndex

SameTx(l, m) == l.block = m.block /\ l.tx = m.tx

(* One log stands for all logs of its transaction.                          *)
Heads(logs) == {l \in logs : \A m \in logs : SameTx(l, m) => ~Before(m, l)}

Smaller(a, b) == IF a <= b THEN a ELSE b

(* dateToBlock: the height less the blocks that the time since the date     *)
(* makes at BLOCK_TIME_MS each; the height itself for a date to come.  With *)
(* a block every BLOCK_TIME_MS this is always the same block.               *)
DateToBlock == IF cut < drift THEN 0 ELSE Smaller(latest, cut - drift)

(* Mutant: every page begins at the chain's height.                         *)
UpperUndated == IF range = "pinned" /\ page > 0 THEN top ELSE latest

(* The blocks that a page is about: a range given by the client ends where  *)
(* the chain did when it began.                                             *)
Upper ==
    CASE range = "pinned" /\ page > 0 -> top
      [] range = "before" -> DateToBlock
      [] OTHER -> latest
Floor == IF range = "after" THEN DateToBlock ELSE 0

(* The explorer's rows: the newest ones of each window, and no second page. *)
Rows(logs, start) ==
    LET window(l) == (start - l.block) \div WindowSize IN
    {l \in logs : Cardinality({m \in logs :
                       window(m) = window(l) /\ Before(m, l)}) < MaxRows}

(* The transactions of the windows scanned of which no row came.            *)
CutOff(needed) ==
    LET logs == Matching("explorer", chain)
        rows == Heads(Rows(logs, Upper))
        k == WindowsTaken(rows, Upper, Floor, needed) IN
    Heads(In(logs, Reach(Upper, Floor, k))) \ rows

(* What a source lists before the slice.  A pinned range is one request,    *)
(* except for the explorer; the SRC-20 sources of type "all" do not get it. *)
(* The explorer's rows are told apart by transaction while the scan counts  *)
(* them, logs with a viewing key after it, and other logs not at all.       *)
Listing(k, offset) ==
    LET logs == Matching(k, chain)
        start == IF range = "pinned" THEN latest ELSE Upper
        found == IF range = "pinned" /\ ~Merging
                 THEN In(logs, 0..Upper)
                 ELSE Found(logs, start, Floor, offset + limit) IN
    CASE k = "explorer" -> Found(Heads(Rows(logs, Upper)), Upper, Floor, offset + limit)
      [] k \in {"viewingKey", "susdcKeyed"} -> Heads(found)
      [] OTHER -> found

(* Mutant: the logs are left as the windows yield them.                     *)
RankUnsorted(l, items) ==
    LET window(m) == (latest - m.block) \div WindowSize IN
    Cardinality({m \in items :
        \/ window(m) < window(l)
        \/ window(m) = window(l) /\ m.dir = "sent" /\ l.dir = "received"
        \/ window(m) = window(l) /\ m.dir = l.dir /\ m.block < l.block
        \/ m.block = l.block /\ m.dir = l.dir /\ m.logIndex < l.logIndex})

Rank(l, items) == Cardinality({m \in items : Before(m, l)})

(* Mutants: slice(offset, offset + limit + 1); slice(offset, limit).        *)
SliceTooLong(items, offset) ==
    {l \in items : Rank(l, items) \in offset..(offset + limit)}
SliceToLimit(items, offset) ==
    {l \in items : Rank(l, items) \in offset..(limit - 1)}

Slice(items, offset) ==
    {l \in items : Rank(l, items) \in offset..(offset + limit - 1)}

(* Type "all": a page of each source that answers, in this order; merged,   *)
(* with one entry for each transaction, and cut again, newest block first.  *)
Sources ==
    IF path = "allKeyed" THEN <<"susdcKeyed", "explorer", "viewingKey">>
    ELSE <<"susdc", "explorer", "src20">>
PageOf(i, offset, up) ==
    IF i \in up THEN Slice(Listing(Sources[i], offset), offset) ELSE {}
Merged(offset, up) ==
    UNION {{l \in Heads(PageOf(i, offset, up)) :
              \A j \in 1..(i - 1) : \A m \in PageOf(j, offset, up) : ~SameTx(l, m)}
           : i \in DOMAIN Sources}
FirstPages(items, offset, up) ==
    LET source(l) == CHOOSE i \in DOMAIN Sources :
            /\ l \in PageOf(i, offset, up)
            /\ \A j \in 1..(i - 1) : l \notin PageOf(j, offset, up)
        ahead(l) == {m \in items :
            \/ m.block > l.block
            \/ m.block = l.block /\ source(m) < source(l)
            \/ m.block = l.block /\ source(m) = source(l) /\ Before(m, l)} IN
    {l \in items : Cardinality(ahead(l)) < limit}

-----------------------------------------------------------------------------
Init ==
    /\ chain = {} /\ latest = 0
    /\ \E q \in Queries :
           path = q.path /\ limit = q.limit /\ range = q.range /\ cut = q.cut
    /\ drift = 0
    /\ top = 0
    /\ known = {}
    /\ page = 0
    /\ listing = {} /\ slice = {} /\ hasMore = TRUE
    /\ returned = {} /\ repeats = 0
    /\ lost = 0
    /\ fallen = FALSE /\ degraded = FALSE

(* A block is appended to the chain.                                        *)
Grow(pattern) ==
    /\ latest < MaxBlock
    /\ latest' = latest + 1
    /\ chain' = chain \cup LogsOf(latest + 1, pattern)
    /\ UNCHANGED <<queryVars, replyVars>>

(* The chain falls behind one block every BLOCK_TIME_MS, or gets ahead of   *)
(* it; once it does the one it does not do the other (a bound).             *)
Drift(d) ==
    /\ range \in {"before", "after"} /\ page > 0
    /\ \/ drift >= 0 /\ d = drift + 1
       \/ drift <= 0 /\ d = drift - 1
    /\ d \in -MaxDrift..MaxDrift
    /\ drift' = d
    /\ UNCHANGED <<chainVars, path, limit, range, cut, top, known, replyVars>>

(* The client takes a page: items are what it is cut from, data the page,   *)
(* total what the reply gives as the number of all items.  The client has   *)
(* gone on unless the last page was not full.                               *)
Reply(items, data, total) ==
    /\ ~degraded
    /\ page > 0 => Cardinality(slice) = limit
    /\ page' = page + 1
    /\ top' = IF page = 0 THEN Upper ELSE top
    /\ known' = IF page = 0 THEN chain ELSE known
    /\ listing' = items
    /\ slice' = data
    /\ hasMore' = (page * limit + Cardinality(data) < total)
    /\ returned' = returned \cup data
    /\ repeats' = repeats + Cardinality(returned \cap data)
    /\ UNCHANGED <<chainVars, path, limit, range, cut, drift>>

(* Logs from the node by filters of kind k.                                 *)
TakeLogs(k) ==
    /\ LET items == Listing(k, page * limit) IN
       Reply(items, Slice(items, page * limit), Cardinality(items))
    /\ UNCHANGED <<lost, degraded>>

(* Type src20, and type erc20 without an API key.                           *)
LogsPage ==
    /\ path \in {"erc20", "src20", "viewingKey"} /\ ~fallen
    /\ TakeLogs(path)
    /\ UNCHANGED fallen

(* Logs stand in, with the offset it would have had, for a page that the    *)
(* explorer fails to give, or that is to be read by a viewing key that can  *)
(* not be derived.                                                          *)
StandIn == IF path = "explorer" THEN "erc20" ELSE "src20"
StandInPage ==
    /\ path = "explorer" \/ (path = "viewingKey" /\ range # "pinned")
    /\ TakeLogs(StandIn)
    /\ fallen' = TRUE

(* The next page is read in another way than the last: the viewing key has  *)
(* been registered, or is there again; or it is not, and the page was of    *)
(* type "all", or of a pinned range, which has another order without it.    *)
(* The client is not followed any further.                                  *)
OtherWay ==
    /\ ~degraded /\ page > 0
    /\ \/ path = "src20" \/ Merging
       \/ path = "viewingKey" /\ (fallen \/ range = "pinned")
    /\ degraded' = TRUE
    /\ UNCHANGED <<chainVars, queryVars, page, listing, slice, hasMore, returned,
                   repeats, lost, fallen>>

(* The explorer's page, whose own length is given as the total.  When it    *)
(* answers again after a failure the client is not followed any further.    *)
ExplorerPage ==
    /\ path = "explorer"
    /\ LET items == Listing("explorer", page * limit)
           data == Slice(items, page * limit) IN
       Reply(items, data, Cardinality(data))
    /\ lost' = lost + Cardinality(CutOff(page * limit + limit))
    /\ degraded' = fallen
    /\ UNCHANGED fallen

(* Type "all": a source that fails counts as empty.  The client is not      *)
(* followed any further then.                                               *)
AllPage(up) ==
    /\ Merging
    /\ LET items == Merged(page * limit, up) IN
       Reply(items, FirstPages(items, page * limit, up), Cardinality(items))
    /\ lost' = lost + Cardinality(CutOff(page * limit + limit))
    /\ degraded' = (up # DOMAIN Sources)
    /\ UNCHANGED fallen

Next ==
    \/ LogsPage
    \/ StandInPage
    \/ OtherWay
    \/ ExplorerPage
    \/ \E up \in SUBSET DOMAIN Sources : AllPage(up)
    \/ \E p \in Patterns : Grow(p)
    \/ \E d \in -MaxDrift..MaxDrift : Drift(d)

Spec == Init /\ [][Next]_vars

-----------------------------------------------------------------------------
(* Properties.                                                              *)

(* A log is shown by itself or, where one entry stands for a transaction,   *)
(* by another log of its transaction.                                       *)
PerTx == path \in {"explorer", "viewingKey"} \/ Merging
Shown(m) == \/ m \in returned
            \/ PerTx /\ \E l \in returned : SameTx(l, m)

(* Counted in what makes an entry, and in what moves the offsets: what the  *)
(* client asked for, or the logs that stand in for it.                      *)
Entries(logs) == Cardinality(IF PerTx THEN Heads(logs) ELSE logs)
Offsets(logs) ==
    IF fallen THEN Cardinality(Matching(StandIn, logs)) ELSE Entries(Matching(path, logs))

(* The newest block that a page may have been about so far.                 *)
Highest ==
    CASE range = "pinned" -> top
      [] range = "before" -> Smaller(latest, cut + IF drift < 0 THEN -drift ELSE 0)
      [] OTHER -> latest
(* Paging leaves no holes, though every page is a scan over other windows   *)
(* than the last: a log that was there when the client began, and is newer  *)
(* than one the client has got, has been shown too.  A date may cost as     *)
(* many entries as lie in the blocks that its estimate has moved down over, *)
(* and the explorer's windows as many as they have cut off.  Going on with  *)
(* logs when the explorer fails, or when the viewing key cannot be derived, *)
(* costs none.  Of type "all" it is so on the first page, among logs of one *)
(* kind, and as long as no source fails.  With a viewing key only those     *)
(* received are asked for that are encrypted to it.                         *)
Asked == Matching(path, In(known, 0..top))
Holes ==
    {m \in Asked : ~Shown(m) /\ \E l \in returned \cap known :
                       Before(m, l) /\ (Merging => m.topic = l.topic)}
NoHoles ==
    /\ ~degraded
    /\ Merging => page <= 1
    => Entries(Holes) <=
           lost + IF range = "before" /\ page > 0
                  THEN Offsets(In(chain, (Upper + 1)..Highest))
                  ELSE 0

(* A client that stops at a page that is not full has seen everything that  *)
(* it asked for when it began and that its last scan has listed, unless     *)
(* the estimate of its date has moved down, or windows were cut off.        *)
ShortPageIsLast ==
    /\ ~Merging /\ ~degraded
    /\ page > 0 /\ Cardinality(slice) < limit
    /\ range = "before" => drift <= 0
    /\ lost = 0
    => \A l \in listing \cap Asked : Shown(l)

(* An item comes twice only because there are new ones under the offsets,   *)
(* by blocks that were added, that an estimate has moved up over, or that   *)
(* were cut off in an earlier page: never more often than there are such    *)
(* items, and never in a pinned range but for the last reason.              *)
RepeatsAreExplained ==
    page > 0 /\ ~Merging /\ ~fallen =>
        repeats <= lost + Offsets(In(chain, (top + 1)..Highest))

-----------------------------------------------------------------------------
(* What the documentation promises and the code does not keep.              *)

(* src/src/api/router.ts:343: hasMore is "True if there are more pages after*)
(* this one"; when it is false, and the chain has not grown, the next page  *)
(* is empty.                                                                *)
HasMoreIsTrue ==
    page > 0 /\ ~hasMore /\ known = chain /\ ~fallen
    /\ path \in {"erc20", "src20", "viewingKey"} =>
        Slice(Listing(path, page * limit), page * limit) = {}
=============================================================================
