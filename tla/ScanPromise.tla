----------------------------- MODULE ScanPromise -----------------------------
(***************************************************************************)
(* What a caller of scanLogsUntil may rely on: the scan is one reading of  *)
(* the chain, at the moment its height is known, however many requests it  *)
(* takes and whatever is appended while they are under way.  Its result    *)
(* and the block down to which it reports to have looked are those of      *)
(* WindowScan on that reading, or it fails.                                *)
(***************************************************************************)
EXTENDS WindowScan

CONSTANT None           \* startFromBlock is left out

VARIABLES
    chain, latest,      \* the chain, to which others append
    needed, startFromBlock, floor,  \* the arguments
    status,             \* "asking", "reading", "done" or "failed"
    from,               \* the first block of the reading
    view,               \* the logs read, down from that block
    result, reported    \* what is returned, and down to which block

vars == <<chain, latest, needed, startFromBlock, floor, status, from, view, result, reported>>
argVars == <<needed, startFromBlock, floor>>

Init ==
    /\ chain = {} /\ latest = 0
    /\ needed \in Nat /\ floor \in Nat
    /\ startFromBlock \in Nat \cup {None}
    /\ status = "asking"
    /\ from = 0 /\ view = {}
    /\ result = {} /\ reported = 0

Append ==
    /\ latest' = latest + 1
    /\ chain \subseteq chain'
    /\ \A l \in chain' \ chain : l.block = latest'
    /\ UNCHANGED <<argVars, status, from, view, result, reported>>

(* The first k windows of a reading, down to which block they reach.        *)
Lowest(start, k) ==
    IF k = 0 THEN start ELSE Larger(floor, start - k * WindowSize + 1)

Returns(logs, start) ==
    /\ status' = "done"
    /\ result' = Found(logs, start, floor, needed)
    /\ reported' = Lowest(start, WindowsTaken(logs, start, floor, needed))

(* The reading; where there is no window to ask for, the scan returns.      *)
Read ==
    /\ status = "asking"
    /\ from' = IF startFromBlock # None /\ startFromBlock <= latest
               THEN startFromBlock ELSE latest
    /\ view' = In(chain, 0..from')
    /\ \/ status' = "reading" /\ UNCHANGED <<result, reported>>
       \/ Returns(view', from')
    /\ UNCHANGED <<chain, latest, argVars>>

Return ==
    /\ status = "reading"
    /\ Returns(view, from)
    /\ UNCHANGED <<chain, latest, argVars, from, view>>

Fail ==
    /\ status \in {"asking", "reading"}
    /\ status' = "failed"
    /\ UNCHANGED <<chain, latest, argVars, from, view, result, reported>>

Next == Append \/ Read \/ Return \/ Fail

Spec == Init /\ [][Next]_vars
=============================================================================
