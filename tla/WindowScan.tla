----------------------------- MODULE WindowScan -----------------------------
(***************************************************************************)
(* What a backward scan over block windows finds, stated without a loop:   *)
(* scanLogsUntil of the RPC service and scanWindowsUntil of the explorer   *)
(* service return the logs of the newest windows, as many windows as it    *)
(* takes to find enough logs, to meet MaxEmpty windows without any, or to  *)
(* reach the floor or MaxWindows.                                          *)
(***************************************************************************)
EXTENDS Integers, FiniteSets

CONSTANTS
    WindowSize,     \* LOG_WINDOW_SIZE
    MaxWindows,     \* MAX_LOG_WINDOWS
    MaxEmpty        \* MAX_CONSECUTIVE_EMPTY_LOG_WINDOWS

ASSUME WindowAssumption ==
    /\ WindowSize \in Nat \ {0}
    /\ MaxWindows \in Nat \ {0}
    /\ MaxEmpty \in Nat \ {0}

Larger(a, b) == IF a >= b THEN a ELSE b

(* The blocks of the first k windows down from block start, not below floor.*)
Reach(start, floor, k) == Larger(floor, start - k * WindowSize + 1)..start

In(logs, blocks) == {l \in logs : l.block \in blocks}

(* Window number k + 1 is worth a request: it holds a block above genesis   *)
(* that is not below the floor.                                             *)
HasWindow(start, floor, k) ==
    start - k * WindowSize >= Larger(floor, 1)

(* The scan is over after k windows.                                        *)
Enough(logs, start, floor, needed, k) ==
    Cardinality(In(logs, Reach(start, floor, k))) >= needed
Dry(logs, start, floor, k) ==
    /\ k >= MaxEmpty
    /\ In(logs, Reach(start, floor, k) \ Reach(start, floor, k - MaxEmpty)) = {}
Over(logs, start, floor, needed, k) ==
    \/ k = MaxWindows
    \/ ~HasWindow(start, floor, k)
    \/ k > 0 /\ (Enough(logs, start, floor, needed, k) \/ Dry(logs, start, floor, k))

(* The number of windows a scan takes, and the logs it finds.               *)
WindowsTaken(logs, start, floor, needed) ==
    CHOOSE k \in 0..MaxWindows :
        /\ Over(logs, start, floor, needed, k)
        /\ \A j \in 0..(k - 1) : ~Over(logs, start, floor, needed, j)
Found(logs, start, floor, needed) ==
    LET k == WindowsTaken(logs, start, floor, needed) IN
    IF k = 0 THEN {} ELSE In(logs, Reach(start, floor, k))
=============================================================================
