--------------------------- MODULE LogScanProofs ---------------------------
(***************************************************************************)
(* The loop of scanLogsUntil finds what WindowScan defines, for every      *)
(* window size, limit, chain and bounds.                                   *)
(*                                                                         *)
(* The invariant says what the loop has established when it asks for a     *)
(* window (Underway): it has collected what the first i windows hold, none *)
(* of the ends of a scan was met with i windows or fewer, and the counter  *)
(* of empty windows counts back to the last window with a log.  All of it  *)
(* is about blocks not above the scan's first, which later blocks leave as *)
(* they are.  When the scan is done the same holds of the number of        *)
(* windows taken, and one of the ends was met (Ended).                     *)
(*                                                                         *)
(* From the invariant follow the refinement of ScanPromise, whose reading  *)
(* is the chain up to the scan's first block, and that a scan ends: Left   *)
(* counts the steps it may still take.                                     *)
(***************************************************************************)
EXTENDS LogScan, FiniteSetTheorems, TLAPS

(* The logs in the blocks that k windows hold and j windows do not.         *)
Between(j, k) == In(chain, Reach(start, Floor, k) \ Reach(start, Floor, j))

OverAt(k) == Over(chain, start, Floor, needed, k)

(* The chain's logs are in its blocks, and the scan began at one of these.  *)
Chained ==
    /\ IsFiniteSet(chain)
    /\ \A l \in chain : l.block \in 1..latest /\ l.dirs # {}
    /\ start <= latest

Unasked ==
    pc = "asking" => /\ start = 0 /\ sent = None /\ received = None
                     /\ collected = {} /\ consecutiveEmpty = 0

(* Window i + 1 is being asked for.                                         *)
Underway ==
    pc = "fetching" =>
        /\ \A j \in 0..i : ~OverAt(j)
        /\ collected = In(chain, Reach(start, Floor, i))
        /\ scannedFrom = Lo(Hi(start, i))
        /\ sent = None \/ sent = Answer("sent")
        /\ received = None \/ received = Answer("received")

(* The last consecutiveEmpty windows were empty, and the one before was not.*)
Counted ==
    pc = "fetching" =>
        LET c == consecutiveEmpty IN
        /\ c < MaxEmpty /\ c <= i
        /\ Between(i - c, i) = {}
        /\ c = i \/ Between(i - c - 1, i - c) # {}

(* The scan is over after k windows.                                        *)
EndedAt(k) ==
    /\ \A j \in 0..(k - 1) : ~OverAt(j)
    /\ collected = In(chain, Reach(start, Floor, k))
    /\ scannedFrom = IF k = 0 THEN start ELSE Larger(Floor, start - k * WindowSize + 1)
    /\ \/ i = k /\ (k = MaxWindows \/ ~HasWindow(start, Floor, k))
       \/ k > 0 /\ (Enough(chain, start, Floor, needed, k) \/ Dry(chain, start, Floor, k))

Ended == pc = "done" => \E k \in 0..MaxWindows : EndedAt(k)

IInv == TypeOK /\ Chained /\ Unasked /\ Underway /\ Counted /\ Ended
-----------------------------------------------------------------------------
(* Windows.                                                                 *)

(* Counting windows down from a block.                                      *)
LEMMA Descent ==
    ASSUME NEW j \in Int, NEW k \in Int, j <= k
    PROVE  /\ j * WindowSize \in Int /\ k * WindowSize \in Int
           /\ j * WindowSize <= k * WindowSize
           /\ (k + 1) * WindowSize = k * WindowSize + WindowSize
<1>1. WindowSize \in Nat \ {0}
  BY WindowAssumption
<1>2. (k - j) * WindowSize >= 0
  BY <1>1
<1>3. (k - j) * WindowSize = k * WindowSize - j * WindowSize
  BY <1>1
<1>4. j * WindowSize \in Int /\ k * WindowSize \in Int
  BY <1>1
<1>5. (k + 1) * WindowSize = k * WindowSize + WindowSize
  BY <1>1
<1> QED BY <1>2, <1>3, <1>4, <1>5

(* The blocks of k windows are those between the bounds.                    *)
LEMMA InReach ==
    ASSUME NEW s \in Nat, NEW f \in Nat, NEW k \in Nat, NEW b
    PROVE  b \in Reach(s, f, k) <=> /\ b \in Int /\ f <= b /\ b <= s
                                    /\ s - k * WindowSize + 1 <= b
<1>1. k * WindowSize \in Int
  BY Descent
<1> QED BY <1>1 DEF Reach, Larger

(* More windows hold more blocks.                                           *)
LEMMA ReachGrows ==
    ASSUME NEW s \in Nat, NEW f \in Nat, NEW j \in Nat, NEW k \in Nat, j <= k
    PROVE  Reach(s, f, j) \subseteq Reach(s, f, k)
<1> SUFFICES ASSUME NEW b \in Reach(s, f, j) PROVE b \in Reach(s, f, k)
  OBVIOUS
<1>1. b \in Int /\ f <= b /\ b <= s /\ s - j * WindowSize + 1 <= b
  BY InReach
<1>2. s - k * WindowSize + 1 <= b
  BY <1>1, Descent
<1> QED BY <1>1, <1>2, InReach

(* No window holds no block.                                                *)
LEMMA NoWindow ==
    ASSUME NEW s \in Nat, NEW f \in Nat
    PROVE  Reach(s, f, 0) = {}
<1> SUFFICES ASSUME NEW b \in Reach(s, f, 0) PROVE FALSE
  OBVIOUS
<1>1. 0 * WindowSize = 0
  BY WindowAssumption
<1>2. b \in Int /\ b <= s /\ s - 0 * WindowSize + 1 <= b
  BY InReach
<1> QED BY <1>1, <1>2

(* The loop asks for a window exactly if there is one.                      *)
LEMMA Worthwhile ==
    ASSUME NEW s \in Nat, NEW k \in Nat, Floor \in Nat
    PROVE  /\ Hi(s, k) \in Int /\ Hi(s, k) <= s
           /\ Hi(s, k) > 0 /\ Hi(s, k) >= Floor <=> HasWindow(s, Floor, k)
           /\ Lo(Hi(s, k)) = Larger(Floor, s - (k + 1) * WindowSize + 1)
           /\ HasWindow(s, Floor, k) => Lo(Hi(s, k)) \in 0..s
<1>1. WindowSize \in Nat \ {0} /\ 0 * WindowSize = 0
  BY WindowAssumption
<1>2. /\ k * WindowSize \in Int /\ k * WindowSize >= 0
      /\ (k + 1) * WindowSize = k * WindowSize + WindowSize
  BY <1>1, Descent
<1>3. Hi(s, k) = s - k * WindowSize
  BY DEF Hi
<1> HIDE DEF Hi
<1>4. Hi(s, k) > 0 /\ Hi(s, k) >= Floor <=> HasWindow(s, Floor, k)
  BY <1>2, <1>3 DEF HasWindow, Larger
<1>5. Lo(Hi(s, k)) = Larger(Floor, Hi(s, k) - WindowSize + 1)
  BY <1>1, <1>2, <1>3 DEF Lo, Larger
<1>6. Hi(s, k) - WindowSize + 1 = s - (k + 1) * WindowSize + 1
  BY <1>1, <1>2, <1>3
<1>7. ASSUME HasWindow(s, Floor, k) PROVE Lo(Hi(s, k)) \in 0..s
  BY <1>1, <1>2, <1>3, <1>4, <1>5, <1>7 DEF Larger
<1> QED BY <1>2, <1>3, <1>4, <1>5, <1>6, <1>7

(* The blocks of window k + 1 are those it adds.                            *)
LEMMA NextWindow ==
    ASSUME NEW s \in Nat, NEW k \in Nat, Floor \in Nat, HasWindow(s, Floor, k)
    PROVE  Lo(Hi(s, k))..Hi(s, k) = Reach(s, Floor, k + 1) \ Reach(s, Floor, k)
<1> DEFINE lo == Lo(Hi(s, k))
           hi == Hi(s, k)
<1>1. /\ WindowSize \in Nat \ {0} /\ k + 1 \in Nat /\ k * WindowSize \in Int
      /\ (k + 1) * WindowSize = k * WindowSize + WindowSize
  BY WindowAssumption, Descent
<1>2. /\ hi = s - k * WindowSize /\ hi <= s /\ hi >= Floor
      /\ lo = IF hi - WindowSize + 1 >= Floor THEN hi - WindowSize + 1 ELSE Floor
  BY Worthwhile DEF Hi, Lo
<1>3. ASSUME NEW b
      PROVE  b \in lo..hi <=> b \in Reach(s, Floor, k + 1) /\ b \notin Reach(s, Floor, k)
  <2>1. b \in Reach(s, Floor, k) <=>
            b \in Int /\ Floor <= b /\ b <= s /\ s - k * WindowSize + 1 <= b
    BY InReach
  <2>2. b \in Reach(s, Floor, k + 1) <=>
            b \in Int /\ Floor <= b /\ b <= s /\ s - (k + 1) * WindowSize + 1 <= b
    BY <1>1, InReach
  <2> HIDE DEF lo, hi
  <2> QED BY <1>1, <1>2, <2>1, <2>2
<1> HIDE DEF lo, hi
<1>4. lo..hi = Reach(s, Floor, k + 1) \ Reach(s, Floor, k)
  BY <1>3
<1> QED BY <1>4 DEF lo, hi

(* The first end of a scan is the number of windows it takes.               *)
LEMMA TakenAtFirstEnd ==
    ASSUME NEW k \in 0..MaxWindows, OverAt(k), \A j \in 0..(k - 1) : ~OverAt(j)
    PROVE  WindowsTaken(chain, start, Floor, needed) = k
<1> DEFINE First(n) == /\ Over(chain, start, Floor, needed, n)
                       /\ \A j \in 0..(n - 1) : ~Over(chain, start, Floor, needed, j)
           w == WindowsTaken(chain, start, Floor, needed)
<1>1. MaxWindows \in Nat
  BY WindowAssumption
<1>2. First(k)
  BY DEF OverAt
<1>3. w = CHOOSE n \in 0..MaxWindows : First(n)
  BY DEF WindowsTaken
<1>4. w \in 0..MaxWindows /\ First(w)
  BY <1>2, <1>3, Zenon
<1>5. \A n \in 0..MaxWindows : \A m \in 0..MaxWindows : First(n) /\ First(m) => ~(n < m)
  <2> SUFFICES ASSUME NEW n \in 0..MaxWindows, NEW m \in 0..MaxWindows,
                      First(n), First(m), n < m
               PROVE  FALSE
    BY Zenon
  <2>1. n \in 0..(m - 1)
    BY <1>1
  <2> QED BY <2>1, Zenon
<1>6. ~(w < k) /\ ~(k < w)
  BY <1>2, <1>4, <1>5, Zenon
<1> HIDE DEF w
<1>7. w = k
  BY <1>1, <1>4, <1>6
<1> QED BY <1>7, Zenon DEF w

(* So it determines what the scan finds.                                    *)
LEMMA FoundAtFirstEnd ==
    ASSUME NEW k \in 0..MaxWindows, OverAt(k), \A j \in 0..(k - 1) : ~OverAt(j),
           start \in Nat, Floor \in Nat
    PROVE  Found(chain, start, Floor, needed) = In(chain, Reach(start, Floor, k))
<1>1. Found(chain, start, Floor, needed) = IF k = 0 THEN {} ELSE In(chain, Reach(start, Floor, k))
  BY TakenAtFirstEnd, Zenon DEF Found
<1>2. k = 0 => In(chain, Reach(start, Floor, k)) = {}
  BY NoWindow DEF In
<1> QED BY <1>1, <1>2

-----------------------------------------------------------------------------
(* Steps.                                                                   *)

(* The bounds are numbers.                                                  *)
LEMMA Numbers ==
    ASSUME TypeOK
    PROVE  /\ Floor \in Nat /\ start \in Nat /\ latest \in Nat /\ i \in Nat
           /\ i <= MaxWindows /\ needed \in Nat /\ consecutiveEmpty \in Nat
           /\ MaxBlock \in Nat /\ MaxWindows \in Nat \ {0} /\ MaxEmpty \in Nat \ {0}
<1>1. stopAtBlock \in Bounds \cup {None} /\ Bounds \subseteq Nat
  BY ScanAssumption DEF TypeOK
<1>2. Floor \in Nat
  BY <1>1 DEF Floor
<1>3. MaxBlock \in Nat /\ MaxWindows \in Nat \ {0} /\ MaxEmpty \in Nat \ {0} /\ Needs \subseteq Nat
  BY ScanAssumption, WindowAssumption
<1>4. /\ start \in Nat /\ latest \in Nat /\ i \in Nat
      /\ i <= MaxWindows /\ needed \in Nat /\ consecutiveEmpty \in Nat
  BY <1>3 DEF TypeOK
<1> QED BY <1>2, <1>3, <1>4

THEOREM InitInv == Init => IInv
<1> SUFFICES ASSUME Init PROVE IInv
  OBVIOUS
<1> USE DEF Init
<1>1. TypeOK
  BY ScanAssumption, WindowAssumption DEF TypeOK
<1>2. Chained
  BY FS_EmptySet DEF Chained
<1>3. Unasked /\ Underway /\ Counted /\ Ended
  BY DEF Unasked, Underway, Counted, Ended
<1> QED BY <1>1, <1>2, <1>3 DEF IInv

(* The head of the loop with n windows behind it, none of which was the end.*)
LEMMA LoopHead ==
    ASSUME TypeOK, Floor' = Floor, start' \in 0..MaxBlock,
           NEW n \in 0..MaxWindows, NEW from \in 0..MaxBlock, Loop(start', n, from),
           \A j \in 0..(n - 1) : ~OverAt(j)',
           n > 0 => ~Enough(chain', start', Floor, needed', n) /\ ~Dry(chain', start', Floor, n),
           collected' = In(chain', Reach(start', Floor, n)),
           from = IF n = 0 THEN start' ELSE Larger(Floor, start' - n * WindowSize + 1),
           sent' = None, received' = None
    PROVE  /\ Underway' /\ Ended' /\ i' = n
           /\ pc' \in {"fetching", "done"} /\ scannedFrom' \in 0..MaxBlock
<1> DEFINE s == start'
           more == n < MaxWindows /\ HasWindow(s, Floor, n)
<1>1. s \in Nat /\ Floor \in Nat /\ n \in Nat /\ MaxWindows \in Nat \ {0} /\ s <= MaxBlock
  BY Numbers
<1>2. /\ Hi(s, n) > 0 /\ Hi(s, n) >= Floor <=> HasWindow(s, Floor, n)
      /\ HasWindow(s, Floor, n) => Lo(Hi(s, n)) \in 0..s
  BY <1>1, Worthwhile
<1>3. /\ i' = n
      /\ IF more THEN pc' = "fetching" /\ scannedFrom' = Lo(Hi(s, n))
                 ELSE pc' = "done" /\ scannedFrom' = from
  BY <1>2 DEF Loop
<1>4. pc' \in {"fetching", "done"}
  BY <1>3
<1>5. scannedFrom' \in 0..MaxBlock
  <2>1. CASE more
    <3>1. scannedFrom' \in 0..s
      BY <1>2, <1>3, <2>1, Zenon
    <3> QED BY <1>1, <3>1, Numbers
  <2>2. CASE ~more
    BY <1>3, <2>2, Zenon
  <2> QED BY <2>1, <2>2
<1>6. Underway'
  <2> SUFFICES ASSUME pc' = "fetching" PROVE Underway'
    BY DEF Underway
  <2>1. more /\ scannedFrom' = Lo(Hi(s, n))
    BY <1>3
  <2>2. ~Over(chain', start', Floor', needed', n)
    BY <1>1, <2>1 DEF Over
  <2>3. \A j \in 0..n : ~OverAt(j)'
    <3> SUFFICES ASSUME NEW j \in 0..n PROVE ~OverAt(j)'
      OBVIOUS
    <3>1. CASE j = n
      BY <2>2, <3>1 DEF OverAt
    <3>2. CASE j # n
      <4>1. j \in 0..(n - 1)
        BY <1>1, <3>2
      <4> QED BY <4>1
    <3> QED BY <3>1, <3>2
  <2>4. scannedFrom' = Lo(Hi(start, i))'
    BY <1>3, <2>1 DEF Lo, Hi
  <2> QED BY <1>3, <2>3, <2>4 DEF Underway
<1>7. Ended'
  <2> SUFFICES ASSUME pc' = "done" PROVE \E k \in 0..MaxWindows : EndedAt(k)'
    BY DEF Ended
  <2>1. ~more /\ scannedFrom' = from
    BY <1>3
  <2>2. n = MaxWindows \/ ~HasWindow(s, Floor, n)
    BY <1>1, <2>1
  <2>3. EndedAt(n)'
    BY <1>3, <2>1, <2>2 DEF EndedAt
  <2> QED BY <2>3
<1> QED BY <1>3, <1>4, <1>5, <1>6, <1>7

(* The scan begins at the chain's height, or at the block it was given.     *)
LEMMA HeightReplyInv ==
    ASSUME IInv, HeightReply
    PROVE  IInv'
<1> USE DEF IInv
<1>1. /\ pc = "asking" /\ UNCHANGED <<chainVars, argVars, answerVars, collected, consecutiveEmpty>>
      /\ Loop(start', 0, start')
      /\ start' = IF startFromBlock # None /\ startFromBlock <= latest
                  THEN startFromBlock ELSE latest
  BY DEF HeightReply
<1>2. chain' = chain /\ latest' = latest /\ needed' = needed /\ Floor' = Floor
  BY <1>1 DEF chainVars, argVars, Floor
<1>3. /\ sent' = None /\ received' = None /\ collected' = {} /\ consecutiveEmpty' = 0
      /\ startFromBlock' = startFromBlock /\ stopAtBlock' = stopAtBlock
  BY <1>1 DEF Unasked, answerVars, argVars
<1>4. start' \in 0..MaxBlock /\ start' <= latest
  <2>1. latest \in 0..MaxBlock /\ startFromBlock \in Bounds \cup {None} /\ Bounds \subseteq Nat
    BY ScanAssumption DEF TypeOK
  <2> QED BY <1>1, <2>1, ScanAssumption
<1>5. collected' = In(chain', Reach(start', Floor, 0))
  BY <1>3, <1>4, Numbers, NoWindow DEF In
<1>6. /\ Underway' /\ Ended' /\ i' = 0
      /\ pc' \in {"fetching", "done"} /\ scannedFrom' \in 0..MaxBlock
  <2>1. 0 \in 0..MaxWindows /\ ~(0 > 0) /\ 0..(0 - 1) = {}
    BY WindowAssumption
  <2> QED BY <1>1, <1>2, <1>3, <1>4, <1>5, <2>1, LoopHead
<1>7. TypeOK'
  BY <1>2, <1>3, <1>4, <1>6, WindowAssumption DEF TypeOK
<1>8. Chained' /\ Unasked'
  BY <1>2, <1>4, <1>6 DEF Chained, Unasked
<1>9. Counted'
  <2>1. In(chain', Reach(start', Floor', 0) \ Reach(start', Floor', 0)) = {}
    BY DEF In
  <2>2. 0 - 0 = 0 /\ 0 < MaxEmpty /\ 0 <= 0
    BY WindowAssumption
  <2> QED BY <1>3, <1>6, <2>1, <2>2 DEF Counted, Between
<1> QED BY <1>6, <1>7, <1>8, <1>9

(* What a scan has found in blocks that exist is not changed by later ones. *)
LEMMA LaterBlocks ==
    ASSUME IInv, NEW p \in Patterns, Grow(p)
    PROVE  /\ chain \subseteq chain'
           /\ \A l \in chain' \ chain : l.block = latest + 1 /\ l \in Log /\ l.dirs # {}
           /\ IsFiniteSet(chain')
<1>1. chain' = chain \cup LogsOf(latest + 1, p)
  BY DEF Grow
<1>2. IsFiniteSet(p) /\ \A x \in p : x.logIndex \in Nat /\ x.dirs \in (SUBSET {"sent", "received"}) \ {{}}
  BY ScanAssumption
<1>3. latest + 1 \in 1..MaxBlock
  BY Numbers DEF Grow, IInv, TypeOK
<1>4. IsFiniteSet(LogsOf(latest + 1, p))
  <2> DEFINE f == [x \in p |-> [block |-> latest + 1, logIndex |-> x.logIndex, dirs |-> x.dirs]]
  <2>1. f \in Surjection(p, LogsOf(latest + 1, p))
    BY DEF Surjection, LogsOf
  <2> QED BY <1>2, <2>1, FS_Surjection
<1>5. \A l \in LogsOf(latest + 1, p) : l.block = latest + 1 /\ l \in Log /\ l.dirs # {}
  <2> SUFFICES ASSUME NEW x \in p,
                      NEW l, l = [block |-> latest + 1, logIndex |-> x.logIndex, dirs |-> x.dirs]
               PROVE  l.block = latest + 1 /\ l \in Log /\ l.dirs # {}
    BY DEF LogsOf
  <2>1. x.logIndex \in Nat /\ x.dirs \in SUBSET {"sent", "received"} /\ x.dirs # {}
    BY <1>2
  <2> QED BY <1>3, <2>1 DEF Log
<1>6. IsFiniteSet(chain')
  BY <1>1, <1>4, FS_Union DEF IInv, Chained
<1> QED BY <1>1, <1>5, <1>6

(* A new block lies above all that a scan asks for.                         *)
LEMMA OldBlocks ==
    ASSUME IInv, NEW p \in Patterns, Grow(p), NEW S, \A b \in S : b \in Int /\ b <= start
    PROVE  In(chain', S) = In(chain, S)
<1>1. \A l \in chain' \ chain : l.block \notin S
  <2>1. start <= latest /\ start \in Nat /\ latest \in Nat
    BY Numbers DEF IInv, Chained
  <2> QED BY <2>1, LaterBlocks
<1>2. chain \subseteq chain'
  BY LaterBlocks
<1> QED BY <1>1, <1>2 DEF In

(* So a block that is added changes nothing of a scan under way.            *)
LEMMA GrowInv ==
    ASSUME IInv, NEW p \in Patterns, Grow(p)
    PROVE  IInv'
<1>1. /\ needed' = needed /\ startFromBlock' = startFromBlock /\ stopAtBlock' = stopAtBlock
      /\ pc' = pc /\ start' = start /\ i' = i /\ sent' = sent /\ received' = received
      /\ collected' = collected /\ consecutiveEmpty' = consecutiveEmpty /\ scannedFrom' = scannedFrom
      /\ latest' = latest + 1 /\ latest < MaxBlock
  BY DEF Grow, argVars, answerVars, resultVars
<1>2. /\ Floor \in Nat /\ start \in Nat /\ latest \in Nat /\ i \in Nat
      /\ MaxBlock \in Nat /\ MaxEmpty \in Nat \ {0} /\ consecutiveEmpty \in Nat /\ MaxWindows \in Nat
  BY Numbers DEF IInv
<1>3. Floor' = Floor
  BY <1>1 DEF Floor
<1>4. \A k \in Nat : In(chain', Reach(start, Floor, k)) = In(chain, Reach(start, Floor, k))
  <2> SUFFICES ASSUME NEW k \in Nat
               PROVE  In(chain', Reach(start, Floor, k)) = In(chain, Reach(start, Floor, k))
    OBVIOUS
  <2>1. \A b \in Reach(start, Floor, k) : b \in Int /\ b <= start
    BY <1>2, InReach
  <2> QED BY <2>1, OldBlocks
<1>5. \A k \in Nat : \A j : In(chain', Reach(start, Floor, k) \ Reach(start, Floor, j))
                          = In(chain, Reach(start, Floor, k) \ Reach(start, Floor, j))
  <2> SUFFICES ASSUME NEW k \in Nat, NEW j
               PROVE  In(chain', Reach(start, Floor, k) \ Reach(start, Floor, j))
                          = In(chain, Reach(start, Floor, k) \ Reach(start, Floor, j))
    OBVIOUS
  <2>1. \A b \in Reach(start, Floor, k) \ Reach(start, Floor, j) : b \in Int /\ b <= start
    BY <1>2, InReach
  <2> QED BY <2>1, OldBlocks
<1>6. \A k \in Nat : /\ Enough(chain, start, Floor, needed, k)' = Enough(chain, start, Floor, needed, k)
                     /\ Dry(chain, start, Floor, k)' = Dry(chain, start, Floor, k)
                     /\ OverAt(k)' = OverAt(k)
  BY <1>1, <1>3, <1>4, <1>5 DEF Enough, Dry, Over, OverAt
<1>7. TypeOK'
  <2>1. \A l \in chain' : l \in Log
    BY LaterBlocks DEF IInv, TypeOK
  <2>2. latest' \in 0..MaxBlock
    BY <1>1, <1>2
  <2>3. /\ sent' = None \/ sent' \subseteq chain'
        /\ received' = None \/ received' \subseteq chain'
        /\ collected' \subseteq chain'
    BY <1>1, LaterBlocks DEF IInv, TypeOK
  <2> QED BY <1>1, <2>1, <2>2, <2>3 DEF IInv, TypeOK
<1>8. Chained'
  <2>1. \A l \in chain' : l.block \in 1..latest' /\ l.dirs # {}
    BY <1>1, <1>2, LaterBlocks DEF IInv, Chained
  <2>2. start' <= latest'
    BY <1>1, <1>2 DEF IInv, Chained
  <2> QED BY <2>1, <2>2, LaterBlocks DEF Chained
<1>9. Unasked'
  BY <1>1 DEF IInv, Unasked
<1>10. Underway'
  <2> SUFFICES ASSUME pc = "fetching" PROVE Underway'
    BY <1>1 DEF Underway
  <2>1. (\A j \in 0..i : ~OverAt(j))'
    BY <1>1, <1>2, <1>6 DEF IInv, Underway
  <2>2. (collected = In(chain, Reach(start, Floor, i)))'
    BY <1>1, <1>2, <1>3, <1>4 DEF IInv, Underway
  <2>3. (scannedFrom = Lo(Hi(start, i)))'
    BY <1>1, <1>3 DEF IInv, Underway, Lo, Hi
  <2>4. \A dir : Answer(dir)' = Answer(dir)
    <3>1. \A l \in chain' \ chain : l.block \notin scannedFrom..Hi(start, i)
      <4>1. Hi(start, i) \in Int /\ Hi(start, i) <= start
        BY <1>2, Worthwhile
      <4>2. start <= latest
        BY DEF IInv, Chained
      <4> QED BY <1>2, <4>1, <4>2, LaterBlocks
    <3>2. Hi(start, i)' = Hi(start, i)
      BY <1>1 DEF Hi
    <3> QED BY <1>1, <3>1, <3>2, LaterBlocks DEF Answer
  <2>5. (/\ sent = None \/ sent = Answer("sent")
         /\ received = None \/ received = Answer("received"))'
    BY <1>1, <2>4 DEF IInv, Underway
  <2> QED BY <2>1, <2>2, <2>3, <2>5 DEF Underway
<1>11. Counted'
  <2>1. \A k \in Nat : \A j : Between(j, k)' = Between(j, k)
    BY <1>1, <1>3, <1>5 DEF Between
  <2> SUFFICES ASSUME pc = "fetching" PROVE Counted'
    BY <1>1 DEF Counted
  <2>2. consecutiveEmpty <= i /\ i - consecutiveEmpty \in Nat
    BY <1>2 DEF IInv, Counted
  <2> QED BY <1>1, <1>2, <2>1, <2>2 DEF IInv, Counted
<1>12. Ended'
  <2> SUFFICES ASSUME pc = "done" PROVE \E k \in 0..MaxWindows : EndedAt(k)'
    BY <1>1 DEF Ended
  <2>1. PICK k \in 0..MaxWindows : EndedAt(k)
    BY DEF IInv, Ended
  <2>2. k \in Nat /\ \A j \in 0..(k - 1) : j \in Nat
    BY <1>2
  <2>3. EndedAt(k)'
    BY <1>1, <1>3, <1>4, <1>6, <2>1, <2>2 DEF EndedAt
  <2> QED BY <2>3
<1> QED BY <1>7, <1>8, <1>9, <1>10, <1>11, <1>12 DEF IInv

(* An answer changes nothing else.                                          *)
LEMMA ReplyInv ==
    ASSUME IInv, SentReply \/ ReceivedReply
    PROVE  IInv'
<1> USE DEF IInv
<1>1. /\ pc = "fetching"
      /\ UNCHANGED <<chain, latest, needed, startFromBlock, stopAtBlock, pc, start, i,
                     collected, consecutiveEmpty, scannedFrom>>
      /\ sent' = sent \/ sent' = Answer("sent")
      /\ received' = received \/ received' = Answer("received")
  BY DEF SentReply, ReceivedReply, chainVars, argVars, resultVars
<1>2. /\ Floor' = Floor /\ Hi(start, i)' = Hi(start, i) /\ Lo(Hi(start, i))' = Lo(Hi(start, i))
      /\ \A dir : Answer(dir)' = Answer(dir)
  BY <1>1 DEF Floor, Hi, Lo, Answer
<1>3. TypeOK'
  <2>1. \A dir : Answer(dir) \subseteq chain
    BY DEF Answer
  <2> QED BY <1>1, <2>1 DEF TypeOK
<1>4. Chained' /\ Unasked' /\ Ended'
  BY <1>1 DEF Chained, Unasked, Ended
<1>5. Underway'
  <2>1. \A j : OverAt(j)' = OverAt(j)
    BY <1>1, <1>2 DEF OverAt
  <2> QED BY <1>1, <1>2, <2>1 DEF Underway
<1>6. Counted'
  <2>1. \A j, k : Between(j, k)' = Between(j, k)
    BY <1>1, <1>2 DEF Between
  <2> QED BY <1>1, <2>1 DEF Counted
<1> QED BY <1>3, <1>4, <1>5, <1>6

(* A scan that fails has nothing to show.                                   *)
LEMMA RequestFailsInv ==
    ASSUME IInv, RequestFails
    PROVE  IInv'
<1> USE DEF IInv
<1>1. /\ UNCHANGED <<chain, latest, needed, startFromBlock, stopAtBlock, start, i, sent, received,
                     collected, consecutiveEmpty, scannedFrom>>
      /\ pc' = "failed"
  BY DEF RequestFails, chainVars, argVars, answerVars, resultVars
<1>2. TypeOK' /\ Chained'
  BY <1>1 DEF TypeOK, Chained
<1>3. Unasked' /\ Underway' /\ Counted' /\ Ended'
  BY <1>1 DEF Unasked, Underway, Counted, Ended
<1> QED BY <1>2, <1>3

(* Nothing depends on more than the variables.                              *)
LEMMA StutterInv ==
    ASSUME IInv, UNCHANGED vars
    PROVE  IInv'
<1> USE DEF IInv
<1>1. UNCHANGED <<chain, latest, needed, startFromBlock, stopAtBlock, pc, start, i, sent, received,
                  collected, consecutiveEmpty, scannedFrom>>
  BY DEF vars, chainVars, argVars, answerVars, resultVars
<1>2. Floor' = Floor /\ Hi(start, i)' = Hi(start, i) /\ Lo(Hi(start, i))' = Lo(Hi(start, i))
  BY <1>1 DEF Floor, Hi, Lo
<1>3. \A dir : Answer(dir)' = Answer(dir)
  BY <1>1, <1>2 DEF Answer
<1>4. \A j : OverAt(j)' = OverAt(j) /\ EndedAt(j)' = EndedAt(j)
  BY <1>1, <1>2 DEF OverAt, EndedAt
<1>5. \A j, k : Between(j, k)' = Between(j, k)
  BY <1>1, <1>2 DEF Between
<1>6. TypeOK' /\ Chained' /\ Unasked'
  BY <1>1 DEF TypeOK, Chained, Unasked
<1>7. Underway'
  BY <1>1, <1>2, <1>3, <1>4 DEF Underway
<1>8. Counted'
  BY <1>1, <1>5 DEF Counted
<1>9. Ended'
  BY <1>1, <1>4 DEF Ended
<1> QED BY <1>6, <1>7, <1>8, <1>9

(* With both answers a window is complete: what is fresh is what the window *)
(* holds, and what has been collected is what one window more holds.        *)
LEMMA WindowComplete ==
    ASSUME IInv, pc = "fetching", sent # None, received # None
    PROVE  /\ HasWindow(start, Floor, i) /\ i < MaxWindows
           /\ Fresh = Between(i, i + 1)
           /\ collected \cup Fresh = In(chain, Reach(start, Floor, i + 1))
           /\ scannedFrom = Larger(Floor, start - (i + 1) * WindowSize + 1)
<1> DEFINE lo == scannedFrom
           hi == Hi(start, i)
           now == Reach(start, Floor, i)
           next == Reach(start, Floor, i + 1)
<1>1. /\ sent = Answer("sent") /\ received = Answer("received")
      /\ collected = In(chain, now) /\ lo = Lo(hi) /\ \A j \in 0..i : ~OverAt(j)
  BY DEF IInv, Underway
<1>2. i \in Nat /\ i + 1 \in Nat /\ start \in Nat /\ Floor \in Nat /\ i <= MaxWindows /\ MaxWindows \in Nat
  BY Numbers DEF IInv
<1>3. HasWindow(start, Floor, i) /\ i # MaxWindows
  <2>1. ~OverAt(i)
    BY <1>1, <1>2
  <2> QED BY <2>1 DEF OverAt, Over
<1>4. lo..hi = next \ now
  BY <1>1, <1>2, <1>3, NextWindow
<1>5. now \subseteq next
  BY <1>2, ReachGrows
<1>6. \A l \in chain : "sent" \in l.dirs \/ "received" \in l.dirs
  <2> SUFFICES ASSUME NEW l \in chain PROVE "sent" \in l.dirs \/ "received" \in l.dirs
    OBVIOUS
  <2>1. l.dirs \subseteq {"sent", "received"} /\ l.dirs # {}
    BY DEF IInv, TypeOK, Chained, Log
  <2> QED BY <2>1
<1> HIDE DEF hi, now, next
<1>7. sent \cup received = In(chain, next \ now)
  BY <1>1, <1>4, <1>6 DEF Answer, In, hi
<1>8. Fresh = In(chain, next \ now)
  BY <1>1, <1>7 DEF Fresh, In
<1>9. collected \cup Fresh = In(chain, next)
  BY <1>1, <1>5, <1>8 DEF In
<1>10. lo = Larger(Floor, start - (i + 1) * WindowSize + 1)
  BY <1>1, <1>2, Worthwhile DEF hi
<1>11. i < MaxWindows
  BY <1>2, <1>3
<1> QED BY <1>3, <1>8, <1>9, <1>10, <1>11 DEF Between, now, next

(* The counter reaches its limit exactly when the last MaxEmpty windows     *)
(* were empty; below the limit it still counts back to a window with a log. *)
LEMMA EmptiesCount ==
    ASSUME IInv, pc = "fetching", sent # None, received # None
    PROVE  /\ Empties \in Nat /\ Empties <= MaxEmpty /\ Empties <= i + 1
           /\ Between(i + 1 - Empties, i + 1) = {}
           /\ Empties = i + 1 \/ Empties = MaxEmpty \/ Between(i - Empties, i + 1 - Empties) # {}
           /\ Empties >= MaxEmpty <=> Dry(chain, start, Floor, i + 1)
<1> DEFINE c == consecutiveEmpty
<1>1. /\ i \in Nat /\ start \in Nat /\ Floor \in Nat /\ c \in Nat /\ MaxEmpty \in Nat \ {0}
  BY Numbers DEF IInv
<1>2. /\ c < MaxEmpty /\ c <= i /\ Between(i - c, i) = {}
      /\ c = i \/ Between(i - c - 1, i - c) # {}
  BY DEF IInv, Counted
<1>3. Fresh = Between(i, i + 1)
  BY WindowComplete
<1>4. Empties = IF Fresh = {} THEN c + 1 ELSE 0
  BY DEF Empties
(* What lies between is monotone.                                           *)
<1>5. \A a, b, d, e \in Nat : a <= b /\ d <= e => Between(b, d) \subseteq Between(a, e)
  BY <1>1, ReachGrows DEF Between, In
<1>6. \A a, b, d \in Nat : Between(a, d) \subseteq Between(a, b) \cup Between(b, d)
  BY DEF Between, In
<1>7. \A k \in Nat : Dry(chain, start, Floor, k) <=> k >= MaxEmpty /\ Between(k - MaxEmpty, k) = {}
  BY DEF Dry, Between
<1> HIDE DEF c
<1>8. CASE Fresh = {}
  <2>1. Empties = c + 1
    BY <1>4, <1>8
  <2>2. /\ i - c \in Nat /\ i + 1 \in Nat /\ i + 1 - Empties = i - c /\ i - Empties = i - c - 1
    BY <1>1, <1>2, <2>1
  <2>3. Between(i - c, i + 1) = {}
    BY <1>1, <1>2, <1>3, <1>6, <1>8, <2>2
  <2>4. ASSUME c + 1 = MaxEmpty PROVE Dry(chain, start, Floor, i + 1)
    BY <1>1, <1>2, <1>7, <2>2, <2>3, <2>4
  <2>5. ASSUME c + 1 < MaxEmpty PROVE ~Dry(chain, start, Floor, i + 1)
    <3> SUFFICES ASSUME Dry(chain, start, Floor, i + 1) PROVE FALSE
      OBVIOUS
    <3>0. i + 1 >= MaxEmpty /\ Between(i + 1 - MaxEmpty, i + 1) = {}
      BY <1>1, <1>7, <2>2
    <3>1. c # i /\ i - c - 1 \in Nat /\ i + 1 - MaxEmpty \in Nat /\ i + 1 - MaxEmpty <= i - c - 1
      BY <1>1, <1>2, <2>5, <3>0
    <3>2. Between(i - c - 1, i - c) \subseteq Between(i + 1 - MaxEmpty, i + 1)
      <4>1. i - c <= i + 1
        BY <1>1
      <4> QED BY <1>5, <2>2, <3>1, <4>1
    <3> QED BY <1>2, <3>0, <3>1, <3>2
  <2>6. Empties >= MaxEmpty <=> Dry(chain, start, Floor, i + 1)
    BY <1>1, <1>2, <2>1, <2>4, <2>5
  <2>7. Empties \in Nat /\ Empties <= MaxEmpty /\ Empties <= i + 1
    BY <1>1, <1>2, <2>1
  <2>8. Empties = i + 1 \/ Empties = MaxEmpty \/ Between(i - Empties, i + 1 - Empties) # {}
    BY <1>1, <1>2, <2>1, <2>2
  <2> QED BY <2>2, <2>3, <2>6, <2>7, <2>8
<1>9. CASE Fresh # {}
  <2>1. Empties = 0
    BY <1>4, <1>9
  <2>2. i + 1 \in Nat /\ i + 1 - Empties = i + 1 /\ i - Empties = i
    BY <1>1, <2>1
  <2>3. Between(i + 1, i + 1) = {}
    BY DEF Between, In
  <2>4. ~Dry(chain, start, Floor, i + 1)
    <3> SUFFICES ASSUME Dry(chain, start, Floor, i + 1) PROVE FALSE
      OBVIOUS
    <3>0. i + 1 >= MaxEmpty /\ Between(i + 1 - MaxEmpty, i + 1) = {}
      BY <1>1, <1>7, <2>2
    <3>1. i + 1 - MaxEmpty \in Nat /\ i + 1 - MaxEmpty <= i
      BY <1>1, <3>0
    <3>2. Between(i, i + 1) \subseteq Between(i + 1 - MaxEmpty, i + 1)
      <4>1. i + 1 <= i + 1
        BY <1>1
      <4> QED BY <1>1, <1>5, <2>2, <3>1, <4>1
    <3> QED BY <1>3, <1>9, <3>0, <3>2
  <2> QED BY <1>1, <1>3, <1>9, <2>1, <2>2, <2>3, <2>4
<1> QED BY <1>8, <1>9

(* Both answers for a window are there: it is collected and counted.        *)
LEMMA WindowDoneInv ==
    ASSUME IInv, WindowDone
    PROVE  IInv'
<1>0. PICK n : n = i + 1
  OBVIOUS
<1>1. /\ pc = "fetching" /\ sent # None /\ received # None
      /\ collected' = collected \cup Fresh /\ consecutiveEmpty' = Empties
      /\ sent' = None /\ received' = None
      /\ chain' = chain /\ latest' = latest /\ start' = start
      /\ needed' = needed /\ startFromBlock' = startFromBlock /\ stopAtBlock' = stopAtBlock
      /\ IF Empties >= MaxEmpty \/ Cardinality(collected') >= needed
         THEN pc' = "done" /\ UNCHANGED <<i, scannedFrom>>
         ELSE Loop(start, n, scannedFrom)
  BY <1>0 DEF WindowDone, chainVars, argVars
<1>2. /\ Floor \in Nat /\ start \in Nat /\ i \in Nat /\ MaxWindows \in Nat \ {0}
      /\ MaxEmpty \in Nat \ {0} /\ Floor' = Floor
  BY <1>1, Numbers DEF IInv, Floor
<1>3. /\ HasWindow(start, Floor, i) /\ i < MaxWindows /\ Fresh = Between(i, n)
      /\ collected' = In(chain, Reach(start, Floor, n))
      /\ scannedFrom = Larger(Floor, start - n * WindowSize + 1)
  BY <1>0, <1>1, WindowComplete
<1>4. /\ Empties \in Nat /\ Empties <= MaxEmpty /\ Empties <= n
      /\ Between(n - Empties, n) = {}
      /\ Empties = n \/ Empties = MaxEmpty \/ Between(n - 1 - Empties, n - Empties) # {}
      /\ Empties >= MaxEmpty <=> Dry(chain, start, Floor, n)
  <2>1. n - 1 = i
    BY <1>0, <1>2
  <2> QED BY <1>0, <1>1, <2>1, EmptiesCount
<1>5. n \in 1..MaxWindows /\ n - 1 = i /\ n > 0
  BY <1>0, <1>2, <1>3
<1>6. (\A j \in 0..i : ~OverAt(j)) /\ (\A j : OverAt(j)' = OverAt(j))
  BY <1>1, <1>2 DEF IInv, Underway, OverAt
<1>7. Cardinality(collected') >= needed <=> Enough(chain, start, Floor, needed, n)
  BY <1>3 DEF Enough
<1>8. scannedFrom \in 0..MaxBlock
  BY DEF IInv, TypeOK
<1>9. CASE Empties >= MaxEmpty \/ Cardinality(collected') >= needed
  <2>1. pc' = "done" /\ i' = i /\ scannedFrom' = scannedFrom
    BY <1>1, <1>9
  <2>2. EndedAt(n)'
    <3>1. (\A j \in 0..(n - 1) : ~OverAt(j))'
      BY <1>5, <1>6
    <3>2. (collected = In(chain, Reach(start, Floor, n)))'
      BY <1>1, <1>2, <1>3
    <3>3. (scannedFrom = IF n = 0 THEN start ELSE Larger(Floor, start - n * WindowSize + 1))'
      BY <1>1, <1>2, <1>3, <1>5, <2>1
    <3>4. (n > 0 /\ (Enough(chain, start, Floor, needed, n) \/ Dry(chain, start, Floor, n)))'
      BY <1>1, <1>2, <1>4, <1>5, <1>7, <1>9, <2>1
    <3> QED BY <3>1, <3>2, <3>3, <3>4 DEF EndedAt
  <2>3. Ended'
    BY <1>5, <2>2 DEF Ended
  <2>4. Underway' /\ Unasked' /\ Counted'
    BY <2>1 DEF Underway, Unasked, Counted
  <2>5. Chained'
    BY <1>1 DEF IInv, Chained
  <2>6. TypeOK'
    BY <1>1, <1>2, <1>3, <1>4, <2>1 DEF IInv, TypeOK, In
  <2> QED BY <2>3, <2>4, <2>5, <2>6 DEF IInv
<1>10. CASE ~(Empties >= MaxEmpty \/ Cardinality(collected') >= needed)
  <2>1. Loop(start', n, scannedFrom) /\ start' \in 0..MaxBlock
    BY <1>1, <1>10 DEF IInv, TypeOK
  <2>2. \A j \in 0..(n - 1) : ~OverAt(j)'
    BY <1>5, <1>6
  <2>3. n > 0 => ~Enough(chain', start', Floor, needed', n) /\ ~Dry(chain', start', Floor, n)
    BY <1>1, <1>4, <1>7, <1>10
  <2>4. collected' = In(chain', Reach(start', Floor, n))
    BY <1>1, <1>3
  <2>5. scannedFrom = IF n = 0 THEN start' ELSE Larger(Floor, start' - n * WindowSize + 1)
    BY <1>1, <1>3, <1>5
  <2>6. n \in 0..MaxWindows
    BY <1>5
  <2>7. /\ Underway' /\ Ended' /\ i' = n
        /\ pc' \in {"fetching", "done"} /\ scannedFrom' \in 0..MaxBlock
    BY <1>1, <1>2, <1>8, <2>1, <2>2, <2>3, <2>4, <2>5, <2>6, LoopHead DEF IInv
  <2>8. Chained' /\ Unasked'
    BY <1>1, <2>7 DEF IInv, Chained, Unasked
  <2>9. Counted'
    <3>1. Empties < MaxEmpty /\ Empties # MaxEmpty
      BY <1>2, <1>4, <1>10
    <3>2. \A j, k : Between(j, k)' = Between(j, k)
      BY <1>1, <1>2 DEF Between
    <3>3. n - Empties - 1 = n - 1 - Empties
      BY <1>4, <1>5
    <3> QED BY <1>1, <1>4, <2>7, <3>1, <3>2, <3>3 DEF Counted
  <2>10. TypeOK'
    <3>1. collected' \subseteq chain'
      BY <1>1, <1>3 DEF In
    <3>2. Empties \in 0..MaxEmpty
      BY <1>2, <1>4
    <3> QED BY <1>1, <2>6, <2>7, <3>1, <3>2 DEF IInv, TypeOK
  <2> QED BY <2>7, <2>8, <2>9, <2>10 DEF IInv
<1> QED BY <1>9, <1>10

(* Every step preserves the invariant.                                      *)
THEOREM StepInv == IInv /\ [Next]_vars => IInv'
<1> SUFFICES ASSUME IInv, [Next]_vars PROVE IInv'
  OBVIOUS
<1>1. CASE HeightReply
  BY <1>1, HeightReplyInv
<1>2. CASE SentReply \/ ReceivedReply
  BY <1>2, ReplyInv
<1>3. CASE RequestFails
  BY <1>3, RequestFailsInv
<1>4. CASE WindowDone
  BY <1>4, WindowDoneInv
<1>5. CASE \E p \in Patterns : Grow(p)
  BY <1>5, GrowInv
<1>6. CASE UNCHANGED vars
  BY <1>6, StutterInv
<1> QED BY <1>1, <1>2, <1>3, <1>4, <1>5, <1>6 DEF Next, Scan

THEOREM Invariance == Spec => []IInv
BY InitInv, StepInv, PTL DEF Spec

-----------------------------------------------------------------------------
(* Results.                                                                 *)

(* The variables of scanLogsUntil keep their types: the counters stay within*)
(* their limits, and what is collected is on the chain.                     *)
THEOREM ScanTypeCorrect == Spec => []TypeOK
<1>1. IInv => TypeOK
  BY DEF IInv
<1> QED BY <1>1, Invariance, PTL

(* Where a scan ended, with the facts the results need.                     *)
LEMMA WhereItEnded ==
    ASSUME IInv, pc = "done"
    PROVE  \E k \in 0..MaxWindows : EndedAt(k) /\ OverAt(k)
<1>1. PICK k \in 0..MaxWindows : EndedAt(k)
  BY DEF IInv, Ended
<1>2. OverAt(k)
  BY <1>1 DEF EndedAt, OverAt, Over
<1> QED BY <1>1, <1>2

(* The loop of scanLogsUntil returns what the definition without a loop     *)
(* says, on the chain as it was when the scan began.                        *)
THEOREM ScanAlwaysMatchesDefinition == Spec => []ScanMatchesDefinition
<1>1. ASSUME IInv PROVE ScanMatchesDefinition
  <2> SUFFICES ASSUME pc = "done" PROVE collected = Found(chain, start, Floor, needed)
    BY DEF ScanMatchesDefinition
  <2>1. PICK k \in 0..MaxWindows : EndedAt(k) /\ OverAt(k)
    BY <1>1, WhereItEnded
  <2>2. start \in Nat /\ Floor \in Nat
    BY <1>1, Numbers DEF IInv
  <2> QED BY <2>1, <2>2, FoundAtFirstEnd DEF EndedAt
<1> QED BY <1>1, Invariance, PTL

(* Every log of the address in the range reported as scanned is returned,   *)
(* and no other, whatever was appended to the chain meanwhile.              *)
THEOREM ReportedRangeIsAlwaysComplete == Spec => []ReportedRangeIsComplete
<1>1. ASSUME IInv PROVE ReportedRangeIsComplete
  <2> SUFFICES ASSUME pc = "done", HasWindow(start, Floor, 0)
               PROVE  collected = In(chain, scannedFrom..start)
    BY DEF ReportedRangeIsComplete
  <2>1. PICK k \in 0..MaxWindows : EndedAt(k)
    BY <1>1 DEF IInv, Ended
  <2>2. k > 0
    BY <2>1, WindowAssumption DEF EndedAt
  <2>3. Reach(start, Floor, k) = scannedFrom..start
    BY <2>1, <2>2 DEF EndedAt, Reach
  <2> QED BY <2>1, <2>3 DEF EndedAt
<1> QED BY <1>1, Invariance, PTL

(* A scan that returns too few logs missed none but those below MaxEmpty    *)
(* windows without any, or below MaxWindows windows.                        *)
THEOREM NothingNearEverMissed == Spec => []NothingNearMissed
<1>1. ASSUME IInv PROVE NothingNearMissed
  <2> SUFFICES ASSUME pc = "done", Cardinality(collected) < needed,
                      NEW l \in In(chain, Floor..start) \ collected
               PROVE  /\ l.block < scannedFrom
                      /\ \/ i = MaxWindows
                         \/ In(chain, scannedFrom..(scannedFrom + MaxEmpty * WindowSize - 1)) = {}
    BY DEF NothingNearMissed
  <2> DEFINE b == l.block
  <2>1. PICK k \in 0..MaxWindows : EndedAt(k)
    BY <1>1 DEF IInv, Ended
  <2>2. /\ start \in Nat /\ Floor \in Nat /\ k \in Nat /\ needed \in Nat
        /\ MaxWindows \in Nat \ {0} /\ MaxEmpty \in Nat \ {0} /\ WindowSize \in Nat \ {0}
    BY <1>1, Numbers, WindowAssumption DEF IInv
  <2>3. l \in chain /\ b \in Int /\ 1 <= b /\ Floor <= b /\ b <= start
    BY <1>1, Numbers DEF IInv, Chained, In
  <2>4. b \notin Reach(start, Floor, k)
    BY <2>1, <2>3 DEF EndedAt, In
  <2>5. k * WindowSize \in Int /\ b < start - k * WindowSize + 1
    BY <2>2, <2>3, <2>4, Descent, InReach
  <2> HIDE DEF b
  <2>6. HasWindow(start, Floor, k)
    BY <2>2, <2>3, <2>5 DEF HasWindow, Larger
  <2>7. ~Enough(chain, start, Floor, needed, k)
    <3>1. collected \subseteq chain /\ IsFiniteSet(chain)
      BY <1>1 DEF IInv, TypeOK, Chained
    <3>2. Cardinality(collected) \in Nat
      BY <3>1, FS_Subset, FS_CardinalityType
    <3> QED BY <2>1, <2>2, <3>2 DEF EndedAt, Enough
  <2>8. \/ i = MaxWindows
        \/ k > 0 /\ Dry(chain, start, Floor, k)
    BY <2>1, <2>6, <2>7 DEF EndedAt
  <2>9. k > 0
    BY <2>1, <2>2, <2>6, <2>8 DEF EndedAt
  <2>10. scannedFrom = start - k * WindowSize + 1
    BY <2>1, <2>2, <2>3, <2>5, <2>9 DEF EndedAt, Larger
  <2>11. b < scannedFrom
    BY <2>5, <2>10
  <2>12. ASSUME Dry(chain, start, Floor, k)
         PROVE  In(chain, scannedFrom..(scannedFrom + MaxEmpty * WindowSize - 1)) = {}
    <3> DEFINE m == k - MaxEmpty
               span == scannedFrom..(scannedFrom + MaxEmpty * WindowSize - 1)
    <3>1. m \in Nat /\ In(chain, Reach(start, Floor, k) \ Reach(start, Floor, m)) = {}
      <4>1. k >= MaxEmpty /\ In(chain, Reach(start, Floor, k) \ Reach(start, Floor, m)) = {}
        BY <2>12, Zenon DEF Dry
      <4>2. m \in Nat
        BY <2>2, <4>1
      <4> QED BY <4>1, <4>2, Zenon
    <3>2. /\ m * WindowSize = k * WindowSize - MaxEmpty * WindowSize
          /\ MaxEmpty * WindowSize \in Int
      BY <2>2
    <3>3. m * WindowSize \in Int /\ m * WindowSize >= 0
      BY <2>2, <3>1
    <3> HIDE DEF m
    <3>4. ASSUME NEW x \in span
          PROVE  x \in Reach(start, Floor, k) /\ x \notin Reach(start, Floor, m)
      <4>1. /\ x \in Int /\ start - k * WindowSize + 1 <= x
            /\ x < start - m * WindowSize + 1 /\ x <= start
        BY <2>2, <2>5, <2>10, <3>2, <3>3
      <4>2. Floor <= x
        BY <2>2, <2>3, <2>5, <4>1
      <4>3. x \in Reach(start, Floor, k)
        BY <2>2, <4>1, <4>2, InReach
      <4>4. x \notin Reach(start, Floor, m)
        BY <2>2, <3>1, <3>3, <4>1, InReach
      <4> QED BY <4>3, <4>4
    <3> QED BY <3>1, <3>4 DEF In
  <2> QED BY <2>8, <2>11, <2>12 DEF b
<1> QED BY <1>1, Invariance, PTL

-----------------------------------------------------------------------------
(* One reading of the chain.                                                *)

(* The reading of a scan: the logs down from its first block.               *)
View == In(chain, 0..start)

(* ScanPromise means by its terms what WindowScan does.                     *)
LEMMA SameTerms ==
    /\ \A logs, blocks : Promise!In(logs, blocks) = In(logs, blocks)
    /\ \A a, b : Promise!Larger(a, b) = Larger(a, b)
    /\ \A logs, s, f, n : /\ Promise!WindowsTaken(logs, s, f, n) = WindowsTaken(logs, s, f, n)
                          /\ Promise!Found(logs, s, f, n) = Found(logs, s, f, n)
<1>1. \A logs, blocks : Promise!In(logs, blocks) = In(logs, blocks)
  BY DEF Promise!In, In
<1>2. \A a, b : Promise!Larger(a, b) = Larger(a, b)
  BY DEF Promise!Larger, Larger
<1>3. /\ \A s, f, k : Promise!Reach(s, f, k) = Reach(s, f, k)
      /\ \A s, f, k : Promise!HasWindow(s, f, k) = HasWindow(s, f, k)
  BY <1>2 DEF Promise!Reach, Reach, Promise!HasWindow, HasWindow
<1>4. \A logs, s, f, n, k : Promise!Over(logs, s, f, n, k) <=> Over(logs, s, f, n, k)
  <2>1. \A logs, s, f, n, k : Promise!Enough(logs, s, f, n, k) <=> Enough(logs, s, f, n, k)
    <3> SUFFICES ASSUME NEW logs, NEW s, NEW f, NEW n, NEW k
                 PROVE  Promise!Enough(logs, s, f, n, k) <=> Enough(logs, s, f, n, k)
      OBVIOUS
    <3>1. Promise!In(logs, Promise!Reach(s, f, k)) = In(logs, Reach(s, f, k))
      BY <1>1, <1>3
    <3>2. \A S : Promise!Cardinality(S) = Cardinality(S)
      BY Zenon DEF Promise!Cardinality, Cardinality
    <3> QED BY <3>1, <3>2 DEF Promise!Enough, Enough
  <2>2. \A logs, s, f, k : Promise!Dry(logs, s, f, k) <=> Dry(logs, s, f, k)
    BY <1>1, <1>3 DEF Promise!Dry, Dry
  <2> QED BY <1>3, <2>1, <2>2, Zenon DEF Promise!Over, Over
<1>5. \A logs, s, f, n : Promise!WindowsTaken(logs, s, f, n) = WindowsTaken(logs, s, f, n)
  BY <1>4 DEF Promise!WindowsTaken, WindowsTaken
<1>6. \A logs, s, f, n : Promise!Found(logs, s, f, n) = Found(logs, s, f, n)
  BY <1>1, <1>3, <1>5 DEF Promise!Found, Found
<1> QED BY <1>1, <1>2, <1>5, <1>6

(* No window is above the reading, so a scan of it is a scan of the chain.  *)
LEMMA ReadingSuffices ==
    ASSUME start \in Nat, Floor \in Nat
    PROVE  /\ WindowsTaken(View, start, Floor, needed) = WindowsTaken(chain, start, Floor, needed)
           /\ WindowsTaken(chain, start, Floor, needed) \in 0..MaxWindows =>
                  Found(View, start, Floor, needed) = Found(chain, start, Floor, needed)
<1> DEFINE R(k) == Reach(start, Floor, k)
<1>1. ASSUME NEW k \in Int PROVE R(k) \subseteq 0..start
  <2>1. k * WindowSize \in Int
    BY Descent
  <2> QED BY <2>1 DEF Reach, Larger
<1>2. \A blocks : blocks \subseteq 0..start => In(View, blocks) = In(chain, blocks)
  BY DEF View, In
<1> HIDE DEF R
<1>3. MaxWindows \in Nat /\ MaxEmpty \in Nat
  BY WindowAssumption
<1>4. ASSUME NEW k \in Int
      PROVE  /\ In(View, R(k)) = In(chain, R(k))
             /\ In(View, R(k) \ R(k - MaxEmpty)) = In(chain, R(k) \ R(k - MaxEmpty))
  <2>1. R(k) \subseteq 0..start /\ R(k) \ R(k - MaxEmpty) \subseteq 0..start
    BY <1>1
  <2> QED BY <1>2, <2>1
<1>5. ASSUME NEW k \in 0..MaxWindows
      PROVE  Over(View, start, Floor, needed, k) <=> Over(chain, start, Floor, needed, k)
  <2>1. k \in Int
    BY <1>3
  <2>2. Enough(View, start, Floor, needed, k) <=> Enough(chain, start, Floor, needed, k)
    BY <1>4, <2>1, Zenon DEF Enough, R
  <2>3. Dry(View, start, Floor, k) <=> Dry(chain, start, Floor, k)
    BY <1>4, <2>1, Zenon DEF Dry, R
  <2> QED BY <2>2, <2>3, Zenon DEF Over
<1>6. WindowsTaken(View, start, Floor, needed) = WindowsTaken(chain, start, Floor, needed)
  <2> DEFINE First(logs, k) == /\ Over(logs, start, Floor, needed, k)
                               /\ \A j \in 0..(k - 1) : ~Over(logs, start, Floor, needed, j)
  <2>1. ASSUME NEW k \in 0..MaxWindows PROVE First(View, k) <=> First(chain, k)
    <3>1. 0..(k - 1) \subseteq 0..MaxWindows
      BY <1>3
    <3> QED BY <1>5, <3>1, Zenon
  <2> HIDE DEF First
  <2>2. (CHOOSE k \in 0..MaxWindows : First(View, k)) = (CHOOSE k \in 0..MaxWindows : First(chain, k))
    BY <2>1
  <2> QED BY <2>2 DEF WindowsTaken, First
<1>7. WindowsTaken(chain, start, Floor, needed) \in 0..MaxWindows
      => Found(View, start, Floor, needed) = Found(chain, start, Floor, needed)
  <2> SUFFICES ASSUME WindowsTaken(chain, start, Floor, needed) \in 0..MaxWindows
               PROVE  Found(View, start, Floor, needed) = Found(chain, start, Floor, needed)
    OBVIOUS
  <2> DEFINE w == WindowsTaken(chain, start, Floor, needed)
  <2>1. w \in Int
    BY <1>3
  <2>2. In(View, R(w)) = In(chain, R(w))
    BY <1>4, <2>1
  <2> QED BY <1>6, <2>2, Zenon DEF Found, R
<1> QED BY <1>6, <1>7

(* What is returned, and down to which block, is what the definition says   *)
(* of the reading.                                                          *)
Returned ==
    /\ collected = Promise!Found(View, start, Floor, needed)
    /\ scannedFrom = Promise!Lowest(start, Promise!WindowsTaken(View, start, Floor, needed))

LEMMA DoneReturns == IInv /\ pc = "done" => Returned
<1> SUFFICES ASSUME IInv, pc = "done" PROVE Returned
  OBVIOUS
<1>1. PICK k \in 0..MaxWindows : EndedAt(k) /\ OverAt(k)
  BY WhereItEnded
<1>2. start \in Nat /\ Floor \in Nat
  BY Numbers DEF IInv
<1>3. /\ WindowsTaken(chain, start, Floor, needed) = k
      /\ Found(chain, start, Floor, needed) = In(chain, Reach(start, Floor, k))
  BY <1>1, <1>2, TakenAtFirstEnd, FoundAtFirstEnd DEF EndedAt
<1>4. /\ Promise!WindowsTaken(View, start, Floor, needed) = k
      /\ Promise!Found(View, start, Floor, needed) = collected
  BY <1>1, <1>2, <1>3, SameTerms, ReadingSuffices DEF EndedAt
<1>5. scannedFrom = Promise!Lowest(start, k)
  BY <1>1, SameTerms DEF EndedAt, Promise!Lowest
<1> QED BY <1>4, <1>5 DEF Returned

LEMMA DoneReturnsNext == (IInv /\ pc = "done" => Returned)'
BY DoneReturns, PTL

LEMMA PromiseInit == Init => Promise!Init
<1> SUFFICES ASSUME Init PROVE Promise!Init
  OBVIOUS
<1>1. /\ needed \in Nat /\ stopAtBlock \in Nat \cup {None} /\ startFromBlock \in Nat \cup {None}
      /\ Floor \in Nat
  BY ScanAssumption DEF Init, Floor
<1>2. Promise!In(chain, 0..start) = {}
  BY DEF Init, Promise!In
<1>3. In(chain, 0..start) = {}
  BY DEF Init, In
<1> QED BY <1>1, <1>2, <1>3 DEF Init, Promise!Init

(* A block is appended: none of it is in the reading of a scan under way.   *)
LEMMA GrowAppends ==
    ASSUME IInv, NEW p \in Patterns, Grow(p)
    PROVE  Promise!Append
<1>1. \A b \in 0..start : b \in Int /\ b <= start
  BY Numbers DEF IInv
<1>2. In(chain', 0..start) = In(chain, 0..start)
  BY <1>1, OldBlocks
<1>3. /\ latest' = latest + 1 /\ UNCHANGED <<needed, startFromBlock, stopAtBlock, pc, start,
                                             collected, scannedFrom>>
  BY DEF Grow, argVars, answerVars, resultVars
<1>4. chain \subseteq chain' /\ \A l \in chain' \ chain : l.block = latest'
  BY <1>3, LaterBlocks
<1> QED BY <1>2, <1>3, <1>4 DEF Promise!Append, Promise!argVars, Floor

(* The height is known: the chain is read, and returned at once where there *)
(* is no window to ask for.                                                 *)
LEMMA HeightReplyReads ==
    ASSUME IInv, IInv', HeightReply
    PROVE  Promise!Read
<1>1. /\ pc = "asking"
      /\ start' = IF startFromBlock # None /\ startFromBlock <= latest
                  THEN startFromBlock ELSE latest
      /\ UNCHANGED <<chain, latest, needed, startFromBlock, stopAtBlock, collected>>
      /\ pc' \in {"fetching", "done"}
  BY DEF HeightReply, chainVars, argVars, Loop
<1>2. Floor' = Floor /\ In(chain', 0..start') = In(chain, 0..start')
  BY <1>1 DEF Floor
<1>3. Promise!In(chain, 0..start') = In(chain, 0..start')
  BY SameTerms
<1>4. CASE pc' = "fetching"
  BY <1>1, <1>2, <1>3, <1>4 DEF Promise!Read, Promise!argVars
<1>5. CASE pc' = "done"
  <2>1. Returned'
    BY <1>5, DoneReturnsNext
  <2>2. /\ collected' = Promise!Found(In(chain', 0..start'), start', Floor', needed')
        /\ scannedFrom' = Promise!Lowest(start, Promise!WindowsTaken(View, start, Floor, needed))'
    BY <2>1 DEF Returned, View
  <2>3. scannedFrom' = Promise!Lowest(start', Promise!WindowsTaken(In(chain', 0..start'), start', Floor, needed))
    BY <1>1, <1>2, <2>2 DEF Promise!Lowest, View
  <2>4. Promise!Returns(In(chain', 0..start'), start')
    BY <1>1, <1>2, <1>5, <2>2, <2>3 DEF Promise!Returns
  <2> QED BY <1>1, <1>2, <1>3, <2>4 DEF Promise!Read, Promise!argVars
<1> QED BY <1>1, <1>4, <1>5

(* Every step of a scan is a step of the one reading, or none.              *)
LEMMA PromiseStep ==
    ASSUME IInv, IInv', [Next]_vars
    PROVE  [Promise!Next]_(Promise!vars)
<1>1. ASSUME NEW p \in Patterns, Grow(p) PROVE Promise!Next
  BY <1>1, GrowAppends DEF Promise!Next
<1>2. ASSUME HeightReply PROVE Promise!Next
  BY <1>2, HeightReplyReads DEF Promise!Next
<1>3. ASSUME UNCHANGED <<chain, latest, needed, startFromBlock, stopAtBlock, start>>,
             pc' = pc, pc = "done" => UNCHANGED <<collected, scannedFrom>>
      PROVE  UNCHANGED Promise!vars
  BY <1>3 DEF Promise!vars, Floor
<1>4. ASSUME SentReply \/ ReceivedReply \/ UNCHANGED vars PROVE UNCHANGED Promise!vars
  BY <1>3, <1>4 DEF SentReply, ReceivedReply, vars, chainVars, argVars, resultVars
<1>5. ASSUME RequestFails PROVE Promise!Next
  <2>1. /\ pc \in {"asking", "fetching"} /\ pc' = "failed"
        /\ UNCHANGED <<chain, latest, needed, startFromBlock, stopAtBlock, start>>
    BY <1>5 DEF RequestFails, chainVars, argVars
  <2> QED BY <2>1 DEF Promise!Next, Promise!Fail, Promise!argVars, Floor
<1>6. ASSUME WindowDone PROVE Promise!Next \/ UNCHANGED Promise!vars
  <2>1. /\ pc = "fetching" /\ pc' \in {"fetching", "done"}
        /\ UNCHANGED <<chain, latest, needed, startFromBlock, stopAtBlock, start>>
    BY <1>6 DEF WindowDone, chainVars, argVars, Loop
  <2>2. CASE pc' = "fetching"
    BY <1>3, <2>1, <2>2
  <2>3. CASE pc' = "done"
    <3>1. Returned'
      BY <2>3, DoneReturnsNext
    <3>2. Floor' = Floor /\ In(chain', 0..start') = In(chain, 0..start)
      BY <2>1 DEF Floor
    <3>3. /\ collected' = Promise!Found(In(chain, 0..start), start, Floor, needed)
          /\ scannedFrom' = Promise!Lowest(start, Promise!WindowsTaken(In(chain, 0..start), start, Floor, needed))
      BY <2>1, <3>1, <3>2 DEF Returned, View, Promise!Lowest
    <3> QED BY <2>1, <2>3, <3>2, <3>3 DEF Promise!Next, Promise!Return, Promise!Returns, Promise!argVars
  <2> QED BY <2>1, <2>2, <2>3
<1> QED BY <1>1, <1>2, <1>4, <1>5, <1>6 DEF Next, Scan

(* However many requests it takes, and whatever is appended to the chain    *)
(* meanwhile, a scan returns what one reading of the chain at its beginning *)
(* does, and reports the block down to which that reading went.             *)
THEOREM ScanIsAlwaysOneReading == Spec => ScanIsOneReading
<1>1. IInv /\ IInv' /\ [Next]_vars => [Promise!Next]_(Promise!vars)
  BY PromiseStep
<1> QED BY <1>1, PromiseInit, Invariance, PTL DEF Spec, ScanIsOneReading, Promise!Spec

-----------------------------------------------------------------------------
(* The end of a scan.                                                       *)

(* The steps that a scan has still to take, at the most: two answers for    *)
(* each window and the step that collects them.                             *)
Left ==
    CASE pc = "asking" -> 3 * MaxWindows + 1
      [] pc = "fetching" -> 3 * (MaxWindows - i - 1) + 1
                            + (IF sent = None THEN 1 ELSE 0)
                            + (IF received = None THEN 1 ELSE 0)
      [] OTHER -> 0

(* An answer is a set of logs, and so it is there.                          *)
LEMMA AnswerIsThere ==
    ASSUME IInv, None \notin SUBSET Log, NEW dir
    PROVE  Answer(dir) # None
BY DEF IInv, TypeOK, Answer

(* While a scan goes on, it has a step to take.                             *)
LEMMA LeftIsNumber ==
    ASSUME IInv
    PROVE  /\ Left \in Nat
           /\ pc \in {"asking", "fetching"} => Left > 0
           /\ pc = "fetching" => i < MaxWindows
<1>1. MaxWindows \in Nat \ {0} /\ i \in Nat /\ i <= MaxWindows
  BY Numbers DEF IInv
<1>2. pc = "fetching" => i < MaxWindows
  <2> SUFFICES ASSUME pc = "fetching" PROVE i < MaxWindows
    OBVIOUS
  <2>1. ~OverAt(i)
    BY <1>1 DEF IInv, Underway
  <2>2. i # MaxWindows
    BY <2>1 DEF OverAt, Over
  <2> QED BY <1>1, <2>2
<1> QED BY <1>1, <1>2 DEF Left

(* No step of a scan undoes what it has done: each of them leaves fewer     *)
(* than before, and blocks that are added do not make them more.  A scan    *)
(* takes at most 3 * MaxWindows + 1 steps.                                  *)
THEOREM ScanStepsRunOut ==
    ASSUME None \notin SUBSET Log
    PROVE  Spec => /\ [](Left \in Nat /\ Left <= 3 * MaxWindows + 1)
                   /\ [][(Scan => Left' < Left) /\ Left' <= Left]_vars
<1>1. IInv => Left \in Nat /\ Left <= 3 * MaxWindows + 1
  <2> SUFFICES ASSUME IInv PROVE Left \in Nat /\ Left <= 3 * MaxWindows + 1
    OBVIOUS
  <2>1. MaxWindows \in Nat \ {0} /\ i \in Nat
    BY Numbers DEF IInv
  <2> QED BY <2>1, LeftIsNumber DEF Left
<1>2. IInv => Left \in Nat /\ (pc = "fetching" => i < MaxWindows) /\ i \in Nat
  BY LeftIsNumber, Numbers DEF IInv
<1>3. (IInv => Left \in Nat /\ (pc = "fetching" => i < MaxWindows) /\ i \in Nat)'
  BY <1>2, PTL
<1>4. IInv /\ IInv' /\ [Next]_vars => [(Scan => Left' < Left) /\ Left' <= Left]_vars
  <2> SUFFICES ASSUME IInv, IInv', Next PROVE (Scan => Left' < Left) /\ Left' <= Left
    OBVIOUS
  <2>0. /\ MaxWindows \in Nat \ {0} /\ i \in Nat /\ i' \in Nat
        /\ Left \in Nat /\ Left' \in Nat
        /\ pc \in {"asking", "fetching"} => Left > 0
        /\ pc' = "fetching" => i' < MaxWindows
    BY <1>3, LeftIsNumber, Numbers DEF IInv
  <2>1. ASSUME HeightReply PROVE Left' < Left
    <3>1. pc = "asking" /\ i' = 0 /\ pc' \in {"fetching", "done"}
      BY <2>1 DEF HeightReply, Loop
    <3> QED BY <2>0, <3>1 DEF Left
  <2>2. ASSUME SentReply PROVE Left' < Left
    <3>1. /\ pc = "fetching" /\ sent = None /\ sent' # None
          /\ UNCHANGED <<pc, i, received>>
      BY <2>2, AnswerIsThere DEF SentReply, resultVars
    <3> QED BY <2>0, <3>1 DEF Left
  <2>3. ASSUME ReceivedReply PROVE Left' < Left
    <3>1. /\ pc = "fetching" /\ received = None /\ received' # None
          /\ UNCHANGED <<pc, i, sent>>
      BY <2>3, AnswerIsThere DEF ReceivedReply, resultVars
    <3> QED BY <2>0, <3>1 DEF Left
  <2>4. ASSUME RequestFails PROVE Left' < Left
    <3>1. pc \in {"asking", "fetching"} /\ pc' = "failed"
      BY <2>4 DEF RequestFails
    <3> QED BY <2>0, <3>1 DEF Left
  <2>5. ASSUME WindowDone PROVE Left' < Left
    <3>1. /\ pc = "fetching" /\ sent # None /\ received # None
          /\ pc' = "done" \/ (pc' = "fetching" /\ i' = i + 1)
          /\ sent' = None /\ received' = None
      BY <2>5 DEF WindowDone, Loop
    <3>2. CASE pc' = "done"
      BY <2>0, <3>1, <3>2 DEF Left
    <3>3. CASE pc' = "fetching" /\ i' = i + 1
      BY <2>0, <3>1, <3>3 DEF Left
    <3> QED BY <3>1, <3>2, <3>3
  <2>6. ASSUME NEW p \in Patterns, Grow(p) PROVE Left' = Left
    BY <2>6 DEF Grow, answerVars, resultVars, Left
  <2> QED BY <2>0, <2>1, <2>2, <2>3, <2>4, <2>5, <2>6 DEF Next, Scan
<1> QED BY <1>1, <1>4, Invariance, PTL DEF Spec
=============================================================================
