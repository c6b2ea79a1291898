------------------------------ MODULE LogScan ------------------------------
(***************************************************************************)
(* RpcService.scanLogsUntil: it asks for the chain's height, then requests *)
(* one window of blocks after the other, newest first, with two concurrent *)
(* eth_getLogs each, while the chain goes on growing.  ExplorerService's   *)
(* scanWindowsUntil is the same loop over the explorer's rows.             *)
(***************************************************************************)
EXTENDS WindowScan

CONSTANTS
    MaxBlock,       \* a bound on the height of the chain
    Patterns,       \* what Transfer logs of the address a block may hold
    Needs,          \* values of the argument needed
    Bounds,         \* values of startFromBlock and stopAtBlock
    None            \* the argument is left out, no answer yet

ASSUME ScanAssumption ==
    /\ MaxBlock \in Nat
    /\ Needs \subseteq Nat /\ Bounds \subseteq Nat
    /\ None \notin Nat
    /\ \A pattern \in Patterns :
        /\ IsFiniteSet(pattern)
        /\ \A x \in pattern :
            /\ x.logIndex \in Nat
            /\ x.dirs \in (SUBSET {"sent", "received"}) \ {{}}

VARIABLES
    chain,          \* the Transfer logs of the address in the blocks so far
    latest,         \* the chain's height
    needed, startFromBlock, stopAtBlock,    \* the arguments
    pc,             \* "asking", "fetching", "done" or "failed"
    start,          \* the scan's own latest
    i,              \* the loop's counter
    sent, received, \* the answers to the window's two requests
    collected, consecutiveEmpty, scannedFrom

chainVars == <<chain, latest>>
argVars == <<needed, startFromBlock, stopAtBlock>>
answerVars == <<sent, received>>
resultVars == <<collected, consecutiveEmpty, scannedFrom>>
vars == <<chainVars, argVars, pc, start, i, answerVars, resultVars>>

(* The dedupe key of a log is its transaction and index; a transfer of the  *)
(* address to itself is one log that both filters match.                    *)
Log == [block : 1..MaxBlock, logIndex : Nat, dirs : SUBSET {"sent", "received"}]
LogsOf(b, pattern) ==
    {[block |-> b, logIndex |-> x.logIndex, dirs |-> x.dirs] : x \in pattern}

Floor == IF stopAtBlock = None THEN 0 ELSE stopAtBlock

TypeOK ==
    /\ \A l \in chain : l \in Log
    /\ latest \in 0..MaxBlock
    /\ needed \in Needs
    /\ {startFromBlock, stopAtBlock} \subseteq Bounds \cup {None}
    /\ pc \in {"asking", "fetching", "done", "failed"}
    /\ start \in 0..MaxBlock
    /\ i \in 0..MaxWindows
    /\ sent = None \/ sent \subseteq chain
    /\ received = None \/ received \subseteq chain
    /\ collected \subseteq chain
    /\ consecutiveEmpty \in 0..MaxEmpty
    /\ scannedFrom \in 0..MaxBlock

-----------------------------------------------------------------------------
Init ==
    /\ chain = {} /\ latest = 0
    /\ needed \in Needs
    /\ startFromBlock \in Bounds \cup {None}
    /\ stopAtBlock \in Bounds \cup {None}
    /\ pc = "asking"
    /\ start = 0 /\ i = 0
    /\ sent = None /\ received = None
    /\ collected = {} /\ consecutiveEmpty = 0 /\ scannedFrom = 0

(* A block is appended to the chain.                                        *)
Grow(pattern) ==
    /\ latest < MaxBlock
    /\ latest' = latest + 1
    /\ chain' = chain \cup LogsOf(latest + 1, pattern)
    /\ UNCHANGED <<argVars, pc, start, i, answerVars, resultVars>>

Hi(s, n) == s - n * WindowSize

(* Mutant: a block is left out between two windows.                         *)
LoOffByOne(hi) ==
    LET lo == hi - WindowSize + 2 IN IF lo >= Floor THEN lo ELSE Floor

Lo(hi) ==
    LET lo == hi - WindowSize + 1 IN IF lo >= Floor THEN lo ELSE Floor

(* The head of the loop, with counter n: request a window, or break with    *)
(* the range scanned so far.                                                *)
Loop(s, n, from) ==
    LET hi == Hi(s, n) IN
    /\ i' = n
    /\ IF n < MaxWindows /\ hi > 0 /\ hi >= Floor
       THEN pc' = "fetching" /\ scannedFrom' = Lo(hi)
       ELSE pc' = "done" /\ scannedFrom' = from

(* eth_blockNumber is answered.                                             *)
HeightReply ==
    /\ pc = "asking"
    /\ start' = IF startFromBlock # None /\ startFromBlock <= latest
                THEN startFromBlock ELSE latest
    /\ Loop(start', 0, start')
    /\ UNCHANGED <<chainVars, argVars, answerVars, collected, consecutiveEmpty>>

(* One eth_getLogs of the window is answered.                               *)
Answer(dir) ==
    {l \in chain : dir \in l.dirs /\ l.block \in scannedFrom..Hi(start, i)}

SentReply ==
    /\ pc = "fetching"
    /\ sent = None
    /\ sent' = Answer("sent")
    /\ UNCHANGED <<chainVars, argVars, pc, start, i, received, resultVars>>

ReceivedReply ==
    /\ pc = "fetching"
    /\ received = None
    /\ received' = Answer("received")
    /\ UNCHANGED <<chainVars, argVars, pc, start, i, sent, resultVars>>

(* Mutant: a failed window is asked for again without limit.                *)
RequestFailsRetried ==
    /\ pc \in {"asking", "fetching"}
    /\ sent' = None /\ received' = None
    /\ UNCHANGED <<chainVars, argVars, pc, start, i, resultVars>>

(* A request fails for good: the scan throws, whatever it has collected.    *)
RequestFails ==
    /\ pc \in {"asking", "fetching"}
    /\ pc' = "failed"
    /\ UNCHANGED <<chainVars, argVars, start, i, answerVars, resultVars>>

Fresh == (sent \cup received) \ collected

(* The counter of empty windows starts anew with each log found.            *)
EmptiesKept == IF Fresh = {} THEN consecutiveEmpty + 1 ELSE consecutiveEmpty
Empties == IF Fresh = {} THEN consecutiveEmpty + 1 ELSE 0

(* Mutant: empty windows never end the scan.                                *)
WindowDoneUnbroken ==
    /\ pc = "fetching" /\ sent # None /\ received # None
    /\ collected' = collected \cup Fresh
    /\ consecutiveEmpty' = Empties
    /\ sent' = None /\ received' = None
    /\ IF Cardinality(collected') >= needed
       THEN pc' = "done" /\ UNCHANGED <<i, scannedFrom>>
       ELSE Loop(start, i + 1, scannedFrom)
    /\ UNCHANGED <<chainVars, argVars, start>>

(* Promise.all has both answers: the logs not seen before are collected,    *)
(* and the scan goes on unless enough is found or too many windows were dry.*)
WindowDone ==
    /\ pc = "fetching" /\ sent # None /\ received # None
    /\ collected' = collected \cup Fresh
    /\ consecutiveEmpty' = Empties
    /\ sent' = None /\ received' = None
    /\ IF Empties >= MaxEmpty \/ Cardinality(collected') >= needed
       THEN pc' = "done" /\ UNCHANGED <<i, scannedFrom>>
       ELSE Loop(start, i + 1, scannedFrom)
    /\ UNCHANGED <<chainVars, argVars, start>>

-----------------------------------------------------------------------------
Scan == HeightReply \/ SentReply \/ ReceivedReply \/ RequestFails \/ WindowDone

Next == Scan \/ \E p \in Patterns : Grow(p)

Spec == Init /\ [][Next]_vars

(* Requests end, answered or failed.                                        *)
FairSpec == Spec /\ WF_vars(Scan)

-----------------------------------------------------------------------------
(* Properties.                                                              *)

(* The loop of scanLogsUntil, run against a growing chain whose two filters *)
(* answer at different times, finds what WindowScan defines on the chain as *)
(* it was when the scan began: no log is lost at the border of two windows, *)
(* taken from outside the bounds, or left out because a block was added.    *)
ScanMatchesDefinition ==
    pc = "done" => collected = Found(chain, start, Floor, needed)

(* What is returned with scannedFrom is complete: every log of the address  *)
(* in the range that is reported as scanned, and no other.  With stopAtBlock*)
(* above the first block of the scan no window is requested, and the block  *)
(* that is reported was not looked at.                                      *)
ReportedRangeIsComplete ==
    pc = "done" /\ HasWindow(start, Floor, 0) =>
        collected = In(chain, scannedFrom..start)

(* A scan that comes back with too few logs has a reason: each log it       *)
(* missed lies below a run of MaxEmpty windows without any log, or below    *)
(* MaxWindows windows.                                                      *)
NothingNearMissed ==
    pc = "done" /\ Cardinality(collected) < needed =>
        \A l \in In(chain, Floor..start) \ collected :
            /\ l.block < scannedFrom
            /\ \/ i = MaxWindows
               \/ In(chain, scannedFrom..(scannedFrom + MaxEmpty * WindowSize - 1)) = {}

(* To its caller the whole scan is one reading of the chain, taken when the *)
(* height is known: the windows asked for later, with two filters each, and *)
(* the blocks added meanwhile cannot be told from the result.               *)
Promise == INSTANCE ScanPromise WITH
    floor <- Floor,
    status <- IF pc = "fetching" THEN "reading" ELSE pc,
    from <- start,
    view <- In(chain, 0..start),
    result <- IF pc = "done" THEN collected ELSE {},
    reported <- IF pc = "done" THEN scannedFrom ELSE 0
ScanIsOneReading == Promise!Spec

(* Every scan ends, however the chain grows.                                *)
ScanEnds == <>(pc \in {"done", "failed"})
=============================================================================
