------------------------- MODULE HistoryPagesProofs -------------------------
(***************************************************************************)
(* Proofs about HistoryPages: what a client that pages through a history   *)
(* with limit and offset misses, and what it gets twice.                   *)
(*                                                                         *)
(* A page is cut, by places, out of the entries that a scan has found; the *)
(* explorer may have cut some off.  Cutting off one entry moves one other  *)
(* to an earlier place, so a page comes by all but as many entries as were *)
(* cut off (PageMisses).  The invariant counts them over all pages: Missed *)
(* are the entries that should have been shown by now and never were, and  *)
(* Sparse says that there are no more of them than were cut off and than   *)
(* lie above the estimate of a date (Passed).  Begun ties the first page   *)
(* to the range of the others, and Tallied makes every item of a page      *)
(* either a new one or a repeated one; these two leave only so many places *)
(* for items that come twice.                                              *)
(*                                                                         *)
(* The three properties themselves are conjuncts too: a property speaks of *)
(* what has been shown, which later pages change only for the better, and  *)
(* of what the next page is computed from, which Missed is about.  Between *)
(* two pages blocks come and the clock runs on; MoveKeeps says of both     *)
(* that no entry leaves the places that were come by.                      *)
(*                                                                         *)
(* Offsets count transactions on some pages, and logs on those that stand  *)
(* in for them: Counted is what they count, and Sought what of it the      *)
(* client asked for.  Where logs stand in there are more of them than      *)
(* there were transactions, so that an offset comes by no more than before *)
(* (CountsKept).                                                           *)
(*                                                                         *)
(* Type "all" is proved of its first page only, as NoHoles states it: the  *)
(* merged page is ordered (MergedIsOrdered), and lists before an entry of  *)
(* one kind whatever is newer of this kind (ListsWhatIsNewer).             *)
(***************************************************************************)
EXTENDS HistoryPages, FiniteSetTheorems, TLAPS

-----------------------------------------------------------------------------
(* Two sets have no more members together than each of them.                *)
LEMMA AtMostTheSum ==
    ASSUME NEW S, NEW T, IsFiniteSet(S), IsFiniteSet(T)
    PROVE  /\ IsFiniteSet(S \cup T) /\ Cardinality(S \cup T) \in Nat
           /\ Cardinality(S \cup T) <= Cardinality(S) + Cardinality(T)
           /\ S \cap T = {} => Cardinality(S \cup T) = Cardinality(S) + Cardinality(T)
<1>1. IsFiniteSet(S \cap T) /\ IsFiniteSet(S \cup T)
  BY FS_Intersection, FS_Union
<1>2. /\ Cardinality(S) \in Nat /\ Cardinality(T) \in Nat
      /\ Cardinality(S \cap T) \in Nat /\ Cardinality(S \cup T) \in Nat
  BY <1>1, FS_CardinalityType
<1>3. Cardinality(S \cup T) = Cardinality(S) + Cardinality(T) - Cardinality(S \cap T)
  BY FS_Union
<1> QED BY <1>1, <1>2, <1>3, FS_EmptySet

-----------------------------------------------------------------------------
(* Places in an order.                                                      *)

(* R orders the members of S.                                               *)
Orders(R, S) ==
    /\ \A x \in S : <<x, x>> \notin R
    /\ \A x, y \in S : x = y \/ <<x, y>> \in R \/ <<y, x>> \in R
    /\ \A x, y, z \in S : <<x, y>> \in R /\ <<y, z>> \in R => <<x, z>> \in R

(* The place of x among the members of S: how many come before it.          *)
Place(R, S, x) == Cardinality({y \in S : <<y, x>> \in R})

(* What comes before no more than another set's members is no larger.       *)
LEMMA PlaceInSubset ==
    ASSUME NEW R, NEW S, IsFiniteSet(S), NEW T \in SUBSET S, NEW x
    PROVE  /\ Place(R, T, x) \in Nat
           /\ Place(R, T, x) <= Place(R, S, x)
           /\ Place(R, T, x) <= Cardinality(T)
<1> DEFINE before(U) == {y \in U : <<y, x>> \in R}
<1>1. before(T) \subseteq before(S) /\ before(S) \subseteq S /\ before(T) \subseteq T
  OBVIOUS
<1>2. IsFiniteSet(T) /\ IsFiniteSet(before(S)) /\ IsFiniteSet(before(T))
  BY <1>1, FS_Subset
<1>3. Cardinality(before(T)) \in Nat
  BY <1>2, FS_CardinalityType
<1>4. Cardinality(before(T)) <= Cardinality(before(S)) /\ Cardinality(before(T)) <= Cardinality(T)
  BY <1>1, <1>2, FS_Subset
<1> QED BY <1>3, <1>4 DEF Place

(* Who comes later has more before him.                                     *)
LEMMA PlaceGrows ==
    ASSUME NEW R, NEW S, IsFiniteSet(S), Orders(R, S), NEW x \in S, NEW y \in S, <<x, y>> \in R
    PROVE  Place(R, S, x) < Place(R, S, y)
<1> DEFINE before(z) == {w \in S : <<w, z>> \in R}
<1>1. before(x) \subseteq before(y) /\ x \in before(y) /\ x \notin before(x)
  BY DEF Orders
<1>2. IsFiniteSet(before(x)) /\ IsFiniteSet(before(y))
  BY FS_Subset
<1>3. Cardinality(before(x)) \in Nat /\ Cardinality(before(y)) \in Nat
  BY <1>2, FS_CardinalityType
<1>4. Cardinality(before(x)) <= Cardinality(before(y)) /\ Cardinality(before(x)) # Cardinality(before(y))
  BY <1>1, <1>2, FS_Subset
<1> QED BY <1>3, <1>4 DEF Place

(* Between two places there are no more members than places.                *)
LEMMA PlacesDiffer ==
    ASSUME NEW R, NEW S, IsFiniteSet(S), Orders(R, S), NEW T \in SUBSET S,
           NEW a \in Int, NEW b \in Int, a <= b,
           \A x \in T : a <= Place(R, S, x) /\ Place(R, S, x) < b
    PROVE  IsFiniteSet(T) /\ Cardinality(T) \in Nat /\ Cardinality(T) <= b - a
<1> DEFINE f == [x \in T |-> Place(R, S, x)]
<1>1. \A x \in T : Place(R, S, x) \in a..(b - 1)
  BY PlaceInSubset
<1>2. \A x, y \in T : Place(R, S, x) = Place(R, S, y) => x = y
  <2> SUFFICES ASSUME NEW x \in T, NEW y \in T, Place(R, S, x) = Place(R, S, y), x # y
               PROVE  FALSE
    OBVIOUS
  <2>1. <<x, y>> \in R \/ <<y, x>> \in R
    BY DEF Orders
  <2>2. Place(R, S, x) \in Nat /\ Place(R, S, y) \in Nat
    BY PlaceInSubset
  <2> QED BY <2>1, <2>2, PlaceGrows
<1>3. f \in Injection(T, a..(b - 1))
  BY <1>1, <1>2 DEF Injection, IsInjective
<1>4. IsFiniteSet(a..(b - 1)) /\ Cardinality(a..(b - 1)) = b - a
  <2>1. b - 1 \in Int
    OBVIOUS
  <2>2. /\ IsFiniteSet(a..(b - 1))
        /\ Cardinality(a..(b - 1)) = IF a > b - 1 THEN 0 ELSE (b - 1) - a + 1
    BY <2>1, FS_Interval
  <2> QED BY <2>2
<1>5. IsFiniteSet(T) /\ Cardinality(T) <= b - a
  BY <1>3, <1>4, FS_Injection
<1> QED BY <1>5, FS_CardinalityType

(* A set of natural numbers has a least element.                            *)
LEMMA LeastNatural ==
    ASSUME NEW T \in SUBSET Nat, T # {}
    PROVE  \E n \in T : \A m \in T : n <= m
<1>1. \E x \in T : \A y \in T : <<y, x>> \notin OpToRel(<, Nat)
  BY NatLessThanWellFounded, WFMin, Zenon
<1>2. \A y \in Nat, x \in Nat : y < x => <<y, x>> \in OpToRel(<, Nat)
  BY DEF OpToRel
<1>3. \E x \in T : \A y \in T : ~(y < x)
  BY <1>1, <1>2, Zenon
<1> QED BY <1>3

(* What comes before place k.                                               *)
UpTo(R, S, k) == {x \in S : Place(R, S, x) < k}

(* No place is left out: as many members are before place k as there are    *)
(* places.                                                                  *)
LEMMA NoPlaceIsEmpty ==
    ASSUME NEW R, NEW S, IsFiniteSet(S), Orders(R, S), NEW k \in Nat, k <= Cardinality(S)
    PROVE  Cardinality(UpTo(R, S, k)) = k
<1> DEFINE A == UpTo(R, S, k)
           places == {Place(R, S, x) : x \in S \ A}
<1>1. A \subseteq S /\ \A x \in S : Place(R, S, x) \in Nat /\ (x \in A <=> Place(R, S, x) < k)
  BY PlaceInSubset DEF UpTo
<1>2. IsFiniteSet(A) /\ Cardinality(A) \in Nat /\ Cardinality(A) <= k
  <2>1. \A x \in A : 0 <= Place(R, S, x) /\ Place(R, S, x) < k
    BY <1>1
  <2>2. A \in SUBSET S /\ 0 \in Int /\ k \in Int /\ 0 <= k
    BY <1>1
  <2> HIDE DEF A
  <2>3. IsFiniteSet(A) /\ Cardinality(A) \in Nat /\ Cardinality(A) <= k - 0
    BY <2>1, <2>2, PlacesDiffer
  <2> QED BY <2>3
<1>3. CASE S = A
  BY <1>2, <1>3
<1>4. CASE S # A
  <2>1. places # {} /\ places \in SUBSET Nat
    BY <1>1, <1>4
  <2>2. PICK n \in places : \A m \in places : n <= m
    BY <2>1, LeastNatural
  <2>3. PICK x \in S \ A : n = Place(R, S, x)
    BY <2>2
  <2>4. \A y \in S : <<y, x>> \in R => y \in A
    <3> SUFFICES ASSUME NEW y \in S, <<y, x>> \in R, y \notin A PROVE FALSE
      OBVIOUS
    <3>1. Place(R, S, y) < Place(R, S, x) /\ Place(R, S, y) \in places
      BY PlaceGrows
    <3>2. n <= Place(R, S, y)
      BY <2>2, <3>1
    <3> QED BY <1>1, <2>3, <3>1, <3>2
  <2>5. Place(R, S, x) <= Cardinality(A)
    <3>1. {y \in S : <<y, x>> \in R} \subseteq A
      BY <2>4
    <3> HIDE DEF A
    <3> QED BY <1>2, <3>1, FS_Subset DEF Place
  <2>6. k <= Place(R, S, x)
    BY <1>1, <2>3
  <2> QED BY <1>1, <1>2, <2>5, <2>6
<1> QED BY <1>3, <1>4

(* The first places of a set are those of the part that comes before the    *)
(* rest, and the places in the rest count on from there.                    *)
LEMMA FirstPart ==
    ASSUME NEW R, NEW S, IsFiniteSet(S), Orders(R, S), NEW T \in SUBSET S,
           \A x \in T, y \in S \ T : <<x, y>> \in R, NEW z \in T
    PROVE  Place(R, S, z) = Place(R, T, z) /\ Place(R, S, z) < Cardinality(T)
<1> DEFINE before == {y \in T : <<y, z>> \in R}
<1>0. IsFiniteSet(T) /\ Cardinality(T) \in Nat
  BY FS_Subset, FS_CardinalityType
<1>1. {y \in S : <<y, z>> \in R} = before
  <2>1. \A y \in S \ T : <<y, z>> \notin R
    BY DEF Orders
  <2> QED BY <2>1
<1>2. before \subseteq T \ {z} /\ IsFiniteSet(T \ {z})
  BY <1>0, FS_RemoveElement DEF Orders
<1>3. Cardinality(before) <= Cardinality(T \ {z}) /\ Cardinality(T \ {z}) = Cardinality(T) - 1
  BY <1>0, <1>2, FS_Subset, FS_RemoveElement
<1>4. Cardinality(before) \in Nat
  BY <1>2, FS_Subset, FS_CardinalityType
<1>5. Cardinality(before) < Cardinality(T)
  BY <1>0, <1>3, <1>4
<1> QED BY <1>1, <1>5 DEF Place

(* A place after a first part is that part's size and a place in the rest.  *)
LEMMA LastPart ==
    ASSUME NEW R, NEW S, IsFiniteSet(S), NEW T \in SUBSET S,
           \A x \in T, y \in S \ T : <<x, y>> \in R, NEW z \in S \ T
    PROVE  /\ Place(R, S, z) = Cardinality(T) + Place(R, S \ T, z)
           /\ Cardinality(T) \in Nat /\ Place(R, S \ T, z) \in Nat
<1> DEFINE before == {y \in S \ T : <<y, z>> \in R}
<1>1. IsFiniteSet(T) /\ Cardinality(T) \in Nat /\ IsFiniteSet(before) /\ Cardinality(before) \in Nat
  BY FS_Subset, FS_CardinalityType
<1>2. {y \in S : <<y, z>> \in R} = T \cup before /\ T \cap before = {}
  OBVIOUS
<1> HIDE DEF before
<1>3. Cardinality(T \cup before) = Cardinality(T) + Cardinality(before)
  BY <1>1, <1>2, AtMostTheSum
<1> QED BY <1>1, <1>2, <1>3 DEF Place, before

-----------------------------------------------------------------------------
(* Cutting a page.                                                          *)

(* items.slice(n, n + size)                                                 *)
Cut(R, items, n, size) ==
    {x \in items : n <= Place(R, items, x) /\ Place(R, items, x) < n + size}

(* A page that is not empty has n items before it; one that is not full has *)
(* none after it.                                                           *)
LEMMA CutOut ==
    ASSUME NEW R, NEW S, IsFiniteSet(S), Orders(R, S), NEW n \in Nat, NEW size \in Nat
    PROVE  /\ IsFiniteSet(Cut(R, S, n, size))
           /\ Cardinality(Cut(R, S, n, size)) \in Nat
           /\ Cardinality(Cut(R, S, n, size)) <= size
           /\ Cut(R, S, n, size) # {} =>
                 /\ Cardinality(S) > n
                 /\ Cardinality(UpTo(R, S, n + size)) = n + Cardinality(Cut(R, S, n, size))
           /\ Cardinality(Cut(R, S, n, size)) < size =>
                 \A x \in S : Place(R, S, x) < n + size
<1> DEFINE data == Cut(R, S, n, size)
           upTo(k) == UpTo(R, S, k)
<1>1. data \subseteq S /\ \A x \in data : n <= Place(R, S, x) /\ Place(R, S, x) < n + size
  BY DEF Cut
<1>2. \A x \in S : Place(R, S, x) \in Nat /\ Place(R, S, x) <= Cardinality(S)
  BY PlaceInSubset
<1>3. n + size \in Nat /\ n <= n + size /\ (n + size) - n = size /\ Cardinality(S) \in Nat
  BY FS_CardinalityType
<1>4. IsFiniteSet(data) /\ Cardinality(data) \in Nat /\ Cardinality(data) <= size
  <2> HIDE DEF data
  <2>1. IsFiniteSet(data) /\ Cardinality(data) \in Nat /\ Cardinality(data) <= (n + size) - n
    BY <1>1, <1>3, PlacesDiffer
  <2> QED BY <1>3, <2>1
<1>5. upTo(n + size) = upTo(n) \cup data /\ upTo(n) \cap data = {}
  BY <1>2, <1>3 DEF Cut, UpTo
<1>6. IsFiniteSet(upTo(n)) /\ Cardinality(upTo(n)) \in Nat
  BY FS_Subset, FS_CardinalityType DEF UpTo
<1>7. Cardinality(upTo(n + size)) = Cardinality(upTo(n)) + Cardinality(data)
  <2>1. Cardinality(upTo(n) \cup data) =
           Cardinality(upTo(n)) + Cardinality(data) - Cardinality(upTo(n) \cap data)
    BY <1>4, <1>6, FS_Union
  <2> HIDE DEF data, upTo
  <2> QED BY <1>4, <1>5, <1>6, <2>1, FS_EmptySet
<1> HIDE DEF data
<1>8. ASSUME data # {}
      PROVE  Cardinality(S) > n /\ Cardinality(upTo(n + size)) = n + Cardinality(data)
  <2>1. PICK x \in S : n <= Place(R, S, x)
    BY <1>1, <1>8
  <2>2. x \notin {y \in S : <<y, x>> \in R}
    BY DEF Orders
  <2>3. Place(R, S, x) < Cardinality(S)
    <3>1. {y \in S : <<y, x>> \in R} # S
      BY <2>1, <2>2
    <3>2. Cardinality(S) # Place(R, S, x)
      BY <3>1, FS_Subset DEF Place
    <3> QED BY <1>2, <1>3, <3>2
  <2>4. Cardinality(S) > n /\ n <= Cardinality(S)
    BY <1>2, <1>3, <2>1, <2>3
  <2>5. Cardinality(upTo(n)) = n
    BY <2>4, NoPlaceIsEmpty
  <2> QED BY <1>7, <2>4, <2>5
<1>9. ASSUME Cardinality(data) < size, NEW x \in S
      PROVE  Place(R, S, x) < n + size
  <2> SUFFICES ASSUME n + size <= Place(R, S, x) PROVE FALSE
    BY <1>2, <1>3
  <2>1. n + size <= Cardinality(S) /\ n <= Cardinality(S)
    BY <1>2, <1>3
  <2>2. Cardinality(upTo(n + size)) = n + size /\ Cardinality(upTo(n)) = n
    BY <1>3, <2>1, NoPlaceIsEmpty
  <2> QED BY <1>4, <1>7, <1>9, <2>2
<1> QED BY <1>4, <1>8, <1>9 DEF data

(* What of U is passed over, or among the entries that come before place n. *)
Overdue(R, U, A, E, n) == {x \in U : x \in A \/ (x \in E /\ Place(R, E, x) < n)}

(* What of U a page that ends at place n passes over or comes by in B.      *)
ComeBy(R, U, A, B, items, n) ==
    {x \in U : x \in A \/ (x \in B /\ (x \in items => Place(R, items, x) < n))}

(* A page cuts its data out of items, which are those of B but for what the *)
(* explorer has cut off; B comes first among the entries E that the page is *)
(* about, and A is what it passes over.  What of U is not shown, among the  *)
(* entries that the page should have come by, was so before, or was cut     *)
(* off: cutting off one entry moves one other to an earlier page.           *)
LEMMA PageMisses ==
    ASSUME NEW R, NEW E, IsFiniteSet(E), Orders(R, E),
           NEW A, A \cap E = {},
           NEW B \in SUBSET E, \A x \in B, y \in E \ B : <<x, y>> \in R,
           NEW items \in SUBSET B, NEW n \in Nat, NEW size \in Nat,
           NEW U, IsFiniteSet(U), U \cap Cut(R, items, n, size) = {}
    PROVE  Cardinality(ComeBy(R, U, A, B, items, n + size)) <=
               Cardinality(Overdue(R, U, A, E, n)) + Cardinality(B \ items)
<1> DEFINE cutOff == B \ items
           early == {x \in cutOff : Place(R, B, x) < n}
           ahead == {x \in items : Place(R, B, x) < n}
           moved == {x \in items : Place(R, items, x) < n /\ n <= Place(R, B, x)}
           old == Overdue(R, U, A, E, n)
           new == ComeBy(R, U, A, B, items, n + size)
<1>0. /\ old = {x \in U : x \in A \/ (x \in E /\ Place(R, E, x) < n)}
      /\ new = {x \in U : x \in A \/ (x \in B /\ (x \in items => Place(R, items, x) < n + size))}
  BY DEF Overdue, ComeBy
<1>1. IsFiniteSet(B) /\ IsFiniteSet(items) /\ IsFiniteSet(cutOff)
  <2>1. B \subseteq E /\ items \subseteq E /\ cutOff \subseteq E
    OBVIOUS
  <2> HIDE DEF cutOff
  <2> QED BY <2>1, FS_Subset
<1>2. Orders(R, B) /\ Orders(R, items)
  BY DEF Orders
<1>4. \A x \in B : Place(R, E, x) = Place(R, B, x)
  BY FirstPart
<1>5. \A x \in items : Place(R, items, x) \in Nat /\ Place(R, items, x) <= Place(R, B, x)
  BY <1>1, PlaceInSubset
<1>6. \A x : Place(R, B, x) \in Nat
  BY <1>1, PlaceInSubset
<1>7. \A x \in E : x \in U /\ x \in items /\ Place(R, items, x) < n + size => Place(R, items, x) < n
  BY <1>5 DEF Cut
<1>8. new \subseteq old \cup (cutOff \ early) \cup moved
  <2> SUFFICES ASSUME NEW x \in new PROVE x \in old \cup (cutOff \ early) \cup moved
    OBVIOUS
  <2>1. CASE x \in A
    BY <1>0, <2>1
  <2>2. CASE x \in cutOff
    BY <1>0, <1>4, <2>2
  <2>3. CASE x \in items
    <3>1. x \in U /\ Place(R, items, x) < n /\ x \in B
      BY <1>0, <1>7, <2>3
    <3>2. CASE n <= Place(R, B, x)
      BY <2>3, <3>1, <3>2
    <3>3. CASE Place(R, B, x) < n
      BY <1>0, <1>4, <3>1, <3>3
    <3> QED BY <1>6, <3>2, <3>3
  <2>4. x \in A \/ x \in cutOff \/ x \in items
    BY <1>0
  <2> QED BY <2>1, <2>2, <2>3, <2>4
<1>9. /\ IsFiniteSet(early) /\ IsFiniteSet(ahead) /\ IsFiniteSet(moved) /\ IsFiniteSet(old)
      /\ IsFiniteSet(cutOff \ early)
  BY <1>0, <1>1, FS_Subset
<1>10. /\ Cardinality(early) \in Nat /\ Cardinality(ahead) \in Nat /\ Cardinality(moved) \in Nat
       /\ Cardinality(old) \in Nat /\ Cardinality(cutOff \ early) \in Nat /\ Cardinality(cutOff) \in Nat
  BY <1>1, <1>9, FS_CardinalityType
<1>11. Cardinality(moved) <= Cardinality(early)
  <2>1. CASE moved = {}
    <3> HIDE DEF moved, early
    <3> QED BY <1>10, <2>1, FS_EmptySet
  <2>2. CASE moved # {}
    <3>1. PICK x \in B : n <= Place(R, B, x)
      BY <2>2
    <3>2. n <= Cardinality(B)
      <4>1. Place(R, B, x) <= Cardinality(B) /\ Cardinality(B) \in Nat
        BY <1>1, PlaceInSubset, FS_CardinalityType
      <4> QED BY <1>6, <3>1, <4>1
    <3>3. Cardinality(UpTo(R, B, n)) = n
      BY <1>1, <1>2, <3>2, NoPlaceIsEmpty
    <3>4. UpTo(R, B, n) = early \cup ahead /\ early \cap ahead = {}
      BY DEF UpTo
    <3>5. Cardinality(early) + Cardinality(ahead) = n
      <4>1. Cardinality(early \cup ahead) = n
        BY <3>3, <3>4
      <4> HIDE DEF early, ahead
      <4> QED BY <1>9, <3>4, <4>1, AtMostTheSum
    <3>6. ahead \cap moved = {}
      BY <1>6
    <3>7. Cardinality(ahead \cup moved) = Cardinality(ahead) + Cardinality(moved)
      <4> HIDE DEF ahead, moved
      <4> QED BY <1>9, <3>6, AtMostTheSum
    <3>8. \A y \in ahead \cup moved : 0 <= Place(R, items, y) /\ Place(R, items, y) < n
      BY <1>5, <1>6
    <3>9. ahead \cup moved \in SUBSET items
      OBVIOUS
    <3>10. Cardinality(ahead \cup moved) <= n - 0
      <4> HIDE DEF ahead, moved
      <4> QED BY <1>1, <1>2, <3>8, <3>9, PlacesDiffer
    <3> HIDE DEF early, ahead, moved
    <3> QED BY <1>10, <3>5, <3>7, <3>10
  <2> QED BY <2>1, <2>2
<1>12. Cardinality(cutOff \ early) = Cardinality(cutOff) - Cardinality(early)
  <2>1. cutOff \cap early = early
    OBVIOUS
  <2> HIDE DEF cutOff, early
  <2> QED BY <1>1, <2>1, FS_Difference
<1> HIDE DEF cutOff, early, moved, old, new
<1>13. /\ IsFiniteSet(old \cup (cutOff \ early))
       /\ Cardinality(old \cup (cutOff \ early)) \in Nat
       /\ Cardinality(old \cup (cutOff \ early)) <= Cardinality(old) + Cardinality(cutOff \ early)
  BY <1>9, <1>10, AtMostTheSum
<1>14. /\ IsFiniteSet(old \cup (cutOff \ early) \cup moved)
       /\ Cardinality(old \cup (cutOff \ early) \cup moved) \in Nat
       /\ Cardinality(old \cup (cutOff \ early) \cup moved) <=
             Cardinality(old \cup (cutOff \ early)) + Cardinality(moved)
  BY <1>9, <1>10, <1>13, AtMostTheSum
<1>15. Cardinality(new) <= Cardinality(old \cup (cutOff \ early) \cup moved) /\ Cardinality(new) \in Nat
  BY <1>8, <1>14, FS_Subset, FS_CardinalityType
<1>16. Cardinality(new) <= Cardinality(old) + Cardinality(cutOff)
  BY <1>10, <1>11, <1>12, <1>13, <1>14, <1>15
<1> QED BY <1>16 DEF cutOff, old, new

(* What the scan behind a full page did not come by has the page before it. *)
LEMMA BeyondTheScan ==
    ASSUME NEW R, NEW E, IsFiniteSet(E), Orders(R, E),
           NEW B \in SUBSET E, \A x \in B, y \in E \ B : <<x, y>> \in R,
           NEW items \in SUBSET B, NEW n \in Nat, NEW size \in Nat \ {0},
           Cardinality(Cut(R, items, n, size)) = size,
           NEW x \in E \ B
    PROVE  n + size <= Place(R, E, x)
<1>1. IsFiniteSet(items) /\ IsFiniteSet(B) /\ IsFiniteSet(E \ B)
  <2>1. B \subseteq E /\ items \subseteq E
    OBVIOUS
  <2> QED BY <2>1, FS_Subset, FS_Difference
<1>2. Orders(R, items)
  BY DEF Orders
<1>3. Place(R, E, x) = Cardinality(B) + Place(R, E \ B, x)
  BY LastPart
<1>4. Place(R, E \ B, x) \in Nat
  BY <1>1, PlaceInSubset
<1>5. Cut(R, items, n, size) # {}
  BY FS_EmptySet
<1>6. n + size <= Cardinality(items)
  <2>0. size \in Nat
    OBVIOUS
  <2>1. Cardinality(UpTo(R, items, n + size)) = n + Cardinality(Cut(R, items, n, size))
    BY <1>1, <1>2, <1>5, <2>0, CutOut
  <2>2. Cardinality(UpTo(R, items, n + size)) <= Cardinality(items)
    BY <1>1, FS_Subset DEF UpTo
  <2> QED BY <2>1, <2>2
<1>7. Cardinality(items) <= Cardinality(B) /\ Cardinality(items) \in Nat /\ Cardinality(B) \in Nat
  BY <1>1, FS_Subset, FS_CardinalityType
<1> QED BY <1>3, <1>4, <1>6, <1>7

-----------------------------------------------------------------------------
(* Logs.                                                                    *)

(* Logs of the chain, each with its own place in it.                        *)
Keyed(logs) ==
    /\ IsFiniteSet(logs)
    /\ \A l \in logs : /\ l.block \in Nat /\ l.logIndex \in Nat
                       /\ l.dir \in {"sent", "received"}
    /\ \A l, m \in logs : l.block = m.block /\ l.logIndex = m.logIndex => l = m

Newer(logs) == {p \in logs \X logs : Before(p[1], p[2])}

(* Before orders them, and a rank is a place in this order.                 *)
LEMMA NewestFirst ==
    ASSUME NEW logs, Keyed(logs), NEW part \in SUBSET logs
    PROVE  /\ Orders(Newer(logs), part)
           /\ \A x, y \in logs : <<x, y>> \in Newer(logs) <=> Before(x, y)
           /\ \A x \in logs : Place(Newer(logs), part, x) = Rank(x, part)
<1>1. \A x, y \in logs : <<x, y>> \in Newer(logs) <=> Before(x, y)
  BY DEF Newer
<1>2. FirstDir \in {"sent", "received"}
  BY DEF FirstDir
<1>3. \A x \in logs : ~Before(x, x)
  BY DEF Before, Keyed
<1>4. \A x, y \in logs : x = y \/ Before(x, y) \/ Before(y, x)
  BY <1>2 DEF Before, Keyed
<1>5. \A x, y, z \in logs : Before(x, y) /\ Before(y, z) => Before(x, z)
  BY <1>2 DEF Before, Keyed
<1>6. Orders(Newer(logs), part)
  BY <1>1, <1>3, <1>4, <1>5 DEF Orders
<1>7. ASSUME NEW x \in logs PROVE Place(Newer(logs), part, x) = Rank(x, part)
  <2>1. {y \in part : <<y, x>> \in Newer(logs)} = {m \in part : Before(m, x)}
    BY <1>1
  <2> QED BY <2>1 DEF Place, Rank
<1> QED BY <1>1, <1>6, <1>7

(* A part of the chain's logs is keyed as these are.                        *)
LEMMA KeyedPart ==
    ASSUME NEW logs, Keyed(logs), NEW part \in SUBSET logs
    PROVE  Keyed(part)
BY FS_Subset DEF Keyed

(* What is newer has no greater rank.                                       *)
LEMMA RankOfNewer ==
    ASSUME NEW logs, Keyed(logs), NEW part \in SUBSET logs,
           NEW x \in logs, NEW h \in logs, h = x \/ Before(h, x)
    PROVE  Rank(h, part) \in Nat /\ Rank(h, part) <= Rank(x, part)
<1>1. \A y \in part : Before(y, h) => Before(y, x)
  BY NewestFirst DEF Orders
<1>2. /\ {m \in part : Before(m, h)} \subseteq {m \in part : Before(m, x)}
      /\ IsFiniteSet({m \in part : Before(m, x)})
      /\ IsFiniteSet({m \in part : Before(m, h)})
  BY <1>1, FS_Subset DEF Keyed
<1> QED BY <1>2, FS_Subset, FS_CardinalityType DEF Rank

(* Each log's transaction has a head, which is not older than the log.      *)
LEMMA HeadOf ==
    ASSUME NEW logs, Keyed(logs), NEW x \in logs
    PROVE  \E h \in Heads(logs) : SameTx(h, x) /\ (h = x \/ Before(h, x))
<1> DEFINE mates == {m \in logs : SameTx(m, x)}
           ranks == {Rank(m, logs) : m \in mates}
<1>1. \A m \in logs : Rank(m, logs) \in Nat
  BY RankOfNewer
<1>2. x \in mates
  BY DEF SameTx
<1>3. ranks # {} /\ ranks \in SUBSET Nat
  BY <1>1, <1>2
<1>4. PICK r \in ranks : \A q \in ranks : r <= q
  BY <1>3, LeastNatural
<1>5. PICK h \in mates : r = Rank(h, logs)
  BY <1>4
<1>6. \A m \in logs : SameTx(h, m) => ~Before(m, h)
  <2> SUFFICES ASSUME NEW m \in logs, SameTx(h, m), Before(m, h) PROVE FALSE
    OBVIOUS
  <2>1. m \in mates
    BY <1>5 DEF SameTx
  <2>2. Rank(m, logs) < Rank(h, logs)
    <3>1. /\ Orders(Newer(logs), logs) /\ <<m, h>> \in Newer(logs)
          /\ Place(Newer(logs), logs, m) = Rank(m, logs)
          /\ Place(Newer(logs), logs, h) = Rank(h, logs)
      BY NewestFirst
    <3>2. IsFiniteSet(logs)
      BY DEF Keyed
    <3> QED BY <3>1, <3>2, PlaceGrows
  <2> QED BY <1>1, <1>4, <1>5, <2>1, <2>2
<1>7. h = x \/ Before(h, x)
  <2>1. SameTx(h, x)
    BY <1>5
  <2> QED BY <1>6, <2>1, NewestFirst DEF Orders
<1> QED BY <1>5, <1>6, <1>7 DEF Heads

(* Whether a log is a head is decided in its block.                         *)
LEMMA HeadsIn ==
    ASSUME NEW logs, NEW blocks
    PROVE  Heads(In(logs, blocks)) = In(Heads(logs), blocks)
BY DEF Heads, In, SameTx

(* Heads are heads of themselves.                                           *)
LEMMA HeadsOfHeads ==
    ASSUME NEW logs
    PROVE  Heads(Heads(logs)) = Heads(logs) /\ Heads(logs) \subseteq logs
BY DEF Heads

-----------------------------------------------------------------------------
(* What a page is cut out of.                                               *)

(* A scan finds the logs of a range that ends at the block it starts from.  *)
LEMMA FoundIsRange ==
    ASSUME NEW logs, NEW start \in Nat, NEW floor \in Nat, NEW needed
    PROVE  \E lo \in Nat :
               /\ Reach(start, floor, WindowsTaken(logs, start, floor, needed)) = lo..start
               /\ Found(logs, start, floor, needed) = In(logs, lo..start)
<1> DEFINE over(k) == Over(logs, start, floor, needed, k)
           ends == {k \in Nat : k <= MaxWindows /\ over(k)}
<1>1. MaxWindows \in Nat /\ WindowSize \in Nat \ {0}
  BY WindowAssumption
<1>2. over(MaxWindows)
  BY DEF Over
<1>3. PICK k \in ends : \A j \in ends : k <= j
  <2>1. MaxWindows \in ends /\ ends \in SUBSET Nat
    BY <1>1, <1>2
  <2> HIDE DEF ends
  <2> QED BY <2>1, LeastNatural
<1>4. k \in 0..MaxWindows /\ over(k) /\ \A j \in 0..(k - 1) : ~over(j)
  BY <1>1, <1>3
<1> HIDE DEF over
<1>5. PICK n \in 0..MaxWindows : n = WindowsTaken(logs, start, floor, needed)
  BY <1>4 DEF WindowsTaken, over
<1> DEFINE lo == Larger(floor, start - n * WindowSize + 1)
<1>6. n \in Nat /\ n * WindowSize \in Nat
  BY <1>1
<1>7. lo \in Nat
  BY <1>6 DEF Larger
<1>8. Reach(start, floor, n) = lo..start
  BY DEF Reach
<1>9. n = 0 => lo..start = {}
  <2> SUFFICES ASSUME n = 0 PROVE start < lo
    BY <1>7
  <2>1. n * WindowSize = 0
    BY <1>1
  <2> QED BY <2>1 DEF Larger
<1>10. Found(logs, start, floor, needed) = In(logs, lo..start)
  BY <1>5, <1>8, <1>9 DEF Found, In
<1> QED BY <1>5, <1>7, <1>8, <1>10

(* With a transaction's row the explorer has given the one of its head.     *)
LEMMA RowsHaveHeads ==
    ASSUME NEW logs, Keyed(logs), NEW start
    PROVE  Heads(Rows(logs, start)) \subseteq Heads(logs)
<1> DEFINE window(l) == (start - l.block) \div WindowSize
           above(l) == {m \in logs : window(m) = window(l) /\ Before(m, l)}
<1>1. Rows(logs, start) = {l \in logs : Cardinality(above(l)) < MaxRows}
  BY DEF Rows
<1> SUFFICES ASSUME NEW h \in Heads(Rows(logs, start)), NEW m \in logs, SameTx(h, m), Before(m, h)
             PROVE  FALSE
  BY <1>1 DEF Heads
<1>2. h \in logs /\ Cardinality(above(h)) < MaxRows
  BY <1>1 DEF Heads
<1>3. m.block = h.block
  BY DEF SameTx
<1>4. window(m) = window(h)
  BY <1>3
<1>5. above(m) \subseteq above(h)
  <2>1. \A l \in logs : Before(l, m) => Before(l, h)
    BY <1>2, NewestFirst DEF Orders
  <2> HIDE DEF window
  <2> QED BY <1>4, <2>1
<1>6. IsFiniteSet(above(h)) /\ IsFiniteSet(above(m))
  BY FS_Subset DEF Keyed
<1>7. Cardinality(above(m)) < MaxRows
  <2> HIDE DEF above
  <2>1. Cardinality(above(m)) <= Cardinality(above(h)) /\ Cardinality(above(m)) \in Nat
        /\ Cardinality(above(h)) \in Nat
    BY <1>5, <1>6, FS_Subset, FS_CardinalityType
  <2> QED BY <1>2, <2>1, PagesAssumption
<1>8. m \in Rows(logs, start)
  BY <1>1, <1>7
<1> QED BY <1>8 DEF Heads

(* The types of what a page is computed from; an estimated block is one of  *)
(* the chain's, or 0.                                                       *)
LEMMA QueryTypes ==
    ASSUME TypeOK
    PROVE  /\ path \in AllPaths /\ limit \in Nat \ {0} /\ range \in Ranges /\ cut \in Nat
           /\ latest \in Nat /\ drift \in Int /\ top \in Nat /\ top <= latest /\ page \in Nat
           /\ DateToBlock \in 0..latest /\ Upper \in 0..latest /\ Floor \in Nat
<1>1. path \in AllPaths /\ limit \in Nat \ {0} /\ range \in Ranges /\ cut \in Nat
  BY PagesAssumption DEF TypeOK
<1>2. page \in Nat /\ latest \in Nat /\ drift \in Int /\ top \in 0..latest
  BY PagesAssumption DEF TypeOK
<1>3. DateToBlock \in 0..latest
  BY <1>1, <1>2 DEF DateToBlock, Smaller
<1> QED BY <1>1, <1>2, <1>3 DEF Upper, Floor

(* The node's logs, or their transactions, of a range that ends where the   *)
(* page does.                                                               *)
LEMMA LogsListing ==
    ASSUME TypeOK, ~Merging, NEW k \in {"erc20", "src20", "viewingKey"}, NEW offset
    PROVE  \E lo \in Nat :
               Listing(k, offset) =
                   In(IF k = "viewingKey" THEN Heads(Matching(k, chain))
                                          ELSE Matching(k, chain), lo..Upper)
<1> DEFINE logs == Matching(k, chain)
           start == IF range = "pinned" THEN latest ELSE Upper
<1>1. start \in Nat /\ Floor \in Nat /\ Upper \in Nat
  BY QueryTypes
<1>2. PICK lo \in Nat : Found(logs, start, Floor, offset + limit) = In(logs, lo..start)
  BY <1>1, FoundIsRange
<1>3. CASE range = "pinned"
  <2>1. Listing(k, offset) = IF k = "viewingKey" THEN Heads(In(logs, 0..Upper))
                                                 ELSE In(logs, 0..Upper)
    BY <1>3 DEF Listing
  <2>2. 0 \in Nat
    OBVIOUS
  <2> QED BY <2>1, <2>2, HeadsIn
<1>4. CASE range # "pinned"
  <2>1. Listing(k, offset) = IF k = "viewingKey" THEN Heads(In(logs, lo..Upper))
                                                 ELSE In(logs, lo..Upper)
    BY <1>2, <1>4 DEF Listing
  <2> QED BY <2>1, HeadsIn
<1> QED BY <1>3, <1>4

(* The explorer's transactions of such a range, but for those cut off.      *)
LEMMA ExplorerListing ==
    ASSUME TypeOK, Keyed(chain), NEW offset
    PROVE  \E lo \in Nat :
               LET all == In(Heads(Matching("explorer", chain)), lo..Upper) IN
               /\ Listing("explorer", offset) \subseteq all
               /\ CutOff(offset + limit) = all \ Listing("explorer", offset)
<1> DEFINE logs == Matching("explorer", chain)
           rows == Heads(Rows(logs, Upper))
           k == WindowsTaken(rows, Upper, Floor, offset + limit)
<1>1. Upper \in Nat /\ Floor \in Nat
  BY QueryTypes
<1>2. PICK lo \in Nat :
          /\ Reach(Upper, Floor, k) = lo..Upper
          /\ Found(rows, Upper, Floor, offset + limit) = In(rows, lo..Upper)
  BY <1>1, FoundIsRange
<1>3. rows \subseteq Heads(logs)
  <2>1. Keyed(logs)
    BY KeyedPart DEF Matching
  <2> QED BY <2>1, RowsHaveHeads
<1>4. Listing("explorer", offset) = In(rows, lo..Upper)
  BY <1>2 DEF Listing
<1>5. CutOff(offset + limit) = In(Heads(logs), lo..Upper) \ rows
  <2>1. CutOff(offset + limit) = Heads(In(logs, lo..Upper)) \ rows
    BY <1>2 DEF CutOff
  <2> QED BY <2>1, HeadsIn
<1> QED BY <1>3, <1>4, <1>5 DEF In

(* Slice is a cut by rank.                                                  *)
LEMMA SliceIsCut ==
    ASSUME Keyed(chain), NEW items \in SUBSET chain, NEW n \in Nat, limit \in Nat
    PROVE  Slice(items, n) = Cut(Newer(chain), items, n, limit)
<1>1. \A x \in items : Place(Newer(chain), items, x) = Rank(x, items) /\ Rank(x, items) \in Nat
  BY NewestFirst, RankOfNewer
<1> QED BY <1>1 DEF Slice, Cut

(* What a page down to block lo comes by, or passes over, when it ends at   *)
(* place n; what it should have come by before, in its own range or above.  *)
Reached(unshown, items, up, lo, n) ==
    {x \in unshown :
        \/ x.block > up
        \/ x.block >= lo /\ (x \in items => Rank(x, items) < n)}
Behind(unshown, counted, up, n) ==
    {x \in unshown : x.block > up \/ Rank(x, In(counted, 0..up)) < n}

(* What a page does, of entries that are counted up to block hi, when it is *)
(* cut out of items in the blocks from lo to up.                            *)
LEMMA PageTaken ==
    ASSUME Keyed(chain), limit \in Nat \ {0},
           NEW counted \in SUBSET chain, NEW up \in Nat, NEW hi \in Nat, NEW lo \in Nat,
           NEW items \in SUBSET In(counted, lo..up), NEW n \in Nat,
           NEW unshown \in SUBSET In(counted, 0..hi), unshown \cap Slice(items, n) = {}
    PROVE  /\ Cardinality(Reached(unshown, items, up, lo, n + limit))
              <= Cardinality(Behind(unshown, counted, up, n))
                 + Cardinality(In(counted, lo..up) \ items)
           /\ Cardinality(Slice(items, n)) = limit =>
                  \A x \in In(counted, 0..up) :
                      x.block < lo => n + limit <= Rank(x, In(counted, 0..up))
<1> DEFINE R == Newer(chain)
           E == In(counted, 0..up)
           A == In(counted, (up + 1)..hi)
           B == In(counted, lo..up)
<1>1. /\ E \subseteq chain /\ A \subseteq chain /\ B \subseteq E /\ items \subseteq chain
      /\ A \cap E = {} /\ unshown \subseteq A \cup E
  BY DEF In, Keyed
<1>2. /\ Orders(R, E) /\ Orders(R, items)
      /\ \A x, y \in chain : <<x, y>> \in R <=> Before(x, y)
      /\ \A x \in chain : Place(R, E, x) = Rank(x, E) /\ Place(R, items, x) = Rank(x, items)
  BY <1>1, NewestFirst
<1>3. \A x \in B, y \in E \ B : <<x, y>> \in R
  <2>1. \A x \in B, y \in E \ B : x \in chain /\ y \in chain /\ y.block < x.block
    BY <1>1 DEF In, Keyed
  <2> QED BY <1>2, <2>1 DEF Before, Keyed
<1>4. IsFiniteSet(E) /\ IsFiniteSet(unshown)
  <2>1. unshown \subseteq chain
    BY <1>1
  <2> QED BY <1>1, <2>1, FS_Subset DEF Keyed
<1>5. Slice(items, n) = Cut(R, items, n, limit)
  BY <1>1, SliceIsCut
<1>6. \A x \in unshown : /\ x.block > up <=> x \in A
                         /\ x.block >= lo /\ x \notin A <=> x \in B
                         /\ x \notin A => x \in E
  BY <1>1 DEF In, Keyed
<1> HIDE DEF E, A, B, R
<1>7. Cardinality(ComeBy(R, unshown, A, B, items, n + limit)) <=
          Cardinality(Overdue(R, unshown, A, E, n)) + Cardinality(B \ items)
  <2>1. items \in SUBSET B
    BY DEF B
  <2> QED BY <1>1, <1>2, <1>3, <1>4, <1>5, <2>1, PageMisses
<1>8. ComeBy(R, unshown, A, B, items, n + limit) = Reached(unshown, items, up, lo, n + limit)
  BY <1>1, <1>2, <1>6 DEF ComeBy, Reached
<1>9. Overdue(R, unshown, A, E, n) = Behind(unshown, counted, up, n)
  BY <1>1, <1>2, <1>6 DEF Overdue, Behind, E
<1>10. ASSUME Cardinality(Slice(items, n)) = limit, NEW x \in E, x.block < lo
       PROVE  n + limit <= Rank(x, E)
  <2>1. x \in E \ B /\ items \in SUBSET B /\ x \in chain
    <3>1. x \notin B
      BY <1>10 DEF B, In
    <3> QED BY <1>1, <3>1 DEF B
  <2> QED BY <1>1, <1>2, <1>3, <1>4, <1>5, <1>10, <2>1, BeyondTheScan
<1> QED BY <1>7, <1>8, <1>9, <1>10 DEF E, B

-----------------------------------------------------------------------------
(* The inductive invariant.                                                 *)

(* What the offsets count: transactions, or logs, of the kind that the last *)
(* page was about.                                                          *)
ByTx == PerTx /\ ~fallen
Way == IF fallen THEN StandIn ELSE path
Counted ==
    LET logs == Matching(Way, chain) IN IF ByTx THEN Heads(logs) ELSE logs

(* What holes are counted in; what of the counted the client asked for.     *)
Units(logs) == IF PerTx THEN Heads(logs) ELSE logs
Sought(counted) == Units(Matching(path, counted))

(* The entries that the next page would be about, and those above it.       *)
Due == In(Counted, 0..Upper)
Passed == In(Counted, (Upper + 1)..Highest)

(* Those that a page should have shown by now, and none did.                *)
Missed ==
    {l \in In(Sought(Counted), 0..top) :
        ~Shown(l) /\ (l.block > Upper \/ Rank(l, Due) < page * limit)}

Chained ==
    /\ IsFiniteSet(chain)
    /\ \A l \in chain : l.block \in 1..latest
    /\ \A l, m \in chain : l.block = m.block /\ l.logIndex = m.logIndex => l = m

Begun ==
    /\ page = 0 => /\ drift = 0 /\ top = 0 /\ known = {}
                   /\ slice = {} /\ returned = {} /\ repeats = 0
                   /\ lost = 0 /\ ~fallen /\ ~degraded
    /\ page > 0 => top <= Highest /\ In(chain, 0..top) \subseteq known

Full == Cardinality(slice) = limit

(* Every item of a page was new or is counted as repeated.                  *)
Tallied ==
    /\ page > 0 =>
        repeats + Cardinality(returned) = (page - 1) * limit + Cardinality(slice)
    /\ page > 0 /\ Full => page <= Cardinality(chain)
    /\ ~Merging /\ ~fallen => returned \subseteq Counted

(* No more was missed than the explorer has cut off, and the estimate of a  *)
(* date has passed over.                                                    *)
Sparse ==
    page > 0 /\ ~Merging /\ ~degraded /\ Full =>
        Cardinality(Missed) <= lost + Cardinality(Passed)

IInv ==
    /\ TypeOK /\ Chained /\ Begun /\ Tallied /\ Sparse
    /\ NoHoles /\ ShortPageIsLast /\ RepeatsAreExplained

(* The chain's logs have distinct places in the order.                      *)
LEMMA ChainIsKeyed ==
    ASSUME TypeOK, Chained
    PROVE  Keyed(chain)
<1>1. latest \in Nat
  BY QueryTypes
<1> QED BY <1>1 DEF TypeOK, Chained, Keyed, Log

(* A client that has received no page has missed none.                      *)
LEMMA InitInv == Init => IInv
<1> SUFFICES ASSUME Init PROVE IInv
  OBVIOUS
<1>1. /\ chain = {} /\ latest = 0 /\ drift = 0 /\ top = 0 /\ known = {} /\ page = 0
      /\ listing = {} /\ slice = {} /\ hasMore = TRUE /\ returned = {} /\ repeats = 0
      /\ lost = 0 /\ fallen = FALSE /\ degraded = FALSE
  BY DEF Init
<1>2. Cardinality({}) = 0 /\ IsFiniteSet({})
  BY FS_EmptySet
<1>3. PICK q \in Queries : path = q.path /\ limit = q.limit /\ range = q.range /\ cut = q.cut
  BY DEF Init
<1>4. [path |-> path, limit |-> limit, range |-> range, cut |-> cut] = q /\ limit \in Nat
  BY <1>3, PagesAssumption
<1>5. TypeOK
  <2>1. 0 \in 0..MaxBlock /\ 0 \in -MaxDrift..MaxDrift /\ 0 \in 0..0 /\ 0 \in 0..(0 + 1)
    BY PagesAssumption
  <2>2. Cardinality({}) <= limit
    BY <1>2, <1>4
  <2>3. Cardinality(chain) = 0 /\ Cardinality(slice) <= limit
    BY <1>1, <1>2, <2>2
  <2> QED BY <1>1, <1>4, <2>1, <2>3 DEF TypeOK
<1>6. Chained /\ Begun /\ Tallied /\ Sparse /\ ShortPageIsLast /\ RepeatsAreExplained
  BY <1>1, <1>2 DEF Chained, Begun, Tallied, Sparse, ShortPageIsLast, RepeatsAreExplained
<1>7. NoHoles
  <2>1. Holes = {}
    BY <1>1 DEF Holes
  <2>2. Entries({}) = 0
    <3>1. Heads({}) = {}
      BY DEF Heads
    <3> QED BY <1>2, <3>1 DEF Entries
  <2> QED BY <1>1, <2>1, <2>2 DEF NoHoles
<1> QED BY <1>5, <1>6, <1>7 DEF IInv

(* The properties count in entries what the invariant counts by blocks.     *)
LEMMA OffsetsAreEntries ==
    ASSUME NEW blocks
    PROVE  Offsets(In(chain, blocks)) = Cardinality(In(Counted, blocks))
<1>1. Matching(Way, In(chain, blocks)) = In(Matching(Way, chain), blocks)
  BY DEF Matching, In
<1>2. Heads(In(Matching(Way, chain), blocks)) = In(Heads(Matching(Way, chain)), blocks)
  BY HeadsIn
<1>3. CASE fallen
  BY <1>1, <1>3 DEF Offsets, Counted, ByTx, Way
<1>4. CASE ~fallen
  BY <1>1, <1>2, <1>4 DEF Offsets, Entries, Counted, ByTx, Way
<1> QED BY <1>3, <1>4

(* What has come above the first page's range, as RepeatsAreExplained counts*)
(* it, is counted by the entries themselves.                                *)
LEMMA LaterEntries ==
    Offsets(In(chain, (top + 1)..Highest)) = Cardinality(In(Counted, (top + 1)..Highest))
BY OffsetsAreEntries

(* Only the estimate of a date passes over anything.                        *)
LEMMA Estimates ==
    ASSUME TypeOK, page > 0
    PROVE  /\ Highest \in Nat /\ Upper \in Nat /\ Upper <= Highest /\ Highest <= latest
           /\ range # "before" \/ drift <= 0 => Upper = Highest
<1>1. /\ range \in Ranges /\ cut \in Nat /\ latest \in Nat /\ drift \in Int
      /\ top \in Nat /\ top <= latest
  BY QueryTypes
<1> QED BY <1>1 DEF Upper, Highest, DateToBlock, Smaller, Ranges

(* What NoHoles allows for the estimate of a date.                          *)
Shift ==
    IF range = "before" /\ page > 0
    THEN Offsets(In(chain, (Upper + 1)..Highest)) ELSE 0

(* The allowance of NoHoles for a date is the number of entries that its    *)
(* estimate has passed over.                                                *)
LEMMA ShiftIsPassed == TypeOK /\ page > 0 => Shift = Cardinality(Passed)
<1> SUFFICES ASSUME TypeOK, page > 0 PROVE Shift = Cardinality(Passed)
  OBVIOUS
<1>1. CASE range = "before"
  BY <1>1, OffsetsAreEntries DEF Passed, Shift
<1>2. CASE range # "before"
  <2>1. Upper = Highest /\ Upper \in Nat
    BY <1>2, Estimates
  <2>2. Passed = {}
    BY <2>1 DEF Passed, In
  <2> QED BY <1>2, <2>2, FS_EmptySet DEF Shift
<1> QED BY <1>1, <1>2

-----------------------------------------------------------------------------
(* A page.                                                                  *)

(* What the range of a page has to do with that of the first.               *)
LEMMA ReplyBounds ==
    ASSUME IInv, NEW items, NEW data, NEW total, Reply(items, data, total)
    PROVE  /\ chain' = chain /\ latest' = latest /\ path' = path /\ limit' = limit
           /\ range' = range /\ cut' = cut /\ drift' = drift
           /\ page' = page + 1 /\ page \in Nat /\ page' > 0
           /\ Upper' = Upper /\ Upper \in 0..latest
           /\ Highest' \in Nat /\ Upper <= Highest' /\ Highest' <= latest
           /\ top' \in Nat /\ top' <= Highest'
           /\ In(chain, 0..top') \subseteq known' /\ known' \subseteq chain
           /\ page > 0 => top' = top /\ known' = known /\ Highest' = Highest
           /\ page = 0 => top' = Upper /\ Highest' = Upper
           /\ range # "before" \/ drift <= 0 => Upper = Highest'
<1>1. /\ chain' = chain /\ latest' = latest /\ path' = path /\ limit' = limit
      /\ range' = range /\ cut' = cut /\ drift' = drift /\ page' = page + 1
      /\ top' = (IF page = 0 THEN Upper ELSE top)
      /\ known' = (IF page = 0 THEN chain ELSE known)
  BY DEF Reply, chainVars
<1>2. /\ range \in Ranges /\ cut \in Nat /\ latest \in Nat /\ drift \in Int
      /\ top \in Nat /\ top <= latest /\ page \in Nat /\ Upper \in 0..latest
      /\ DateToBlock \in 0..latest
  BY QueryTypes DEF IInv
<1>3. page' > 0 /\ page' # 0
  BY <1>1, <1>2
<1>4. DateToBlock' = DateToBlock
  BY <1>1 DEF DateToBlock
<1>5. Upper' = Upper
  BY <1>1, <1>2, <1>3, <1>4 DEF Upper
<1>6. known \subseteq chain
  BY DEF IInv, TypeOK
<1>7. CASE page = 0
  <2>1. drift = 0
    BY <1>7 DEF IInv, Begun
  <2>2. DateToBlock = Smaller(latest, cut)
    BY <1>2, <2>1 DEF DateToBlock
  <2>3. Highest' = Upper
    <3>1. range = "before" => Highest' = Smaller(latest, cut + 0)
      BY <1>1, <2>1 DEF Highest
    <3>2. range # "before" => Highest' = Upper
      BY <1>1, <1>7 DEF Highest, Upper
    <3>3. range = "before" => Upper = DateToBlock
      BY DEF Upper
    <3> QED BY <1>2, <2>2, <3>1, <3>2, <3>3
  <2>4. In(chain, 0..top') \subseteq known'
    BY <1>1, <1>7 DEF In
  <2> QED BY <1>1, <1>2, <1>3, <1>5, <1>7, <2>3, <2>4
<1>8. CASE page > 0
  <2>1. top' = top /\ known' = known /\ top <= Highest /\ In(chain, 0..top) \subseteq known
    BY <1>1, <1>2, <1>8 DEF IInv, Begun
  <2>2. Highest' = Highest
    BY <1>1, <2>1 DEF Highest
  <2>3. /\ Highest \in Nat /\ Upper <= Highest /\ Highest <= latest
        /\ range # "before" \/ drift <= 0 => Upper = Highest
    BY <1>8, Estimates DEF IInv
  <2> QED BY <1>1, <1>2, <1>3, <1>5, <1>6, <1>8, <2>1, <2>2, <2>3
<1> QED BY <1>2, <1>7, <1>8

(* Types and counts after a page.                                           *)
LEMMA ReplyTypes ==
    ASSUME IInv, NEW items \in SUBSET chain, NEW data \in SUBSET items, NEW total,
           Reply(items, data, total),
           Cardinality(data) <= limit,
           Cardinality(data) = limit => page * limit < Cardinality(chain),
           lost' \in Nat, fallen' \in BOOLEAN, degraded' \in BOOLEAN,
           fallen' => path \in {"explorer", "viewingKey"},
           ~Merging /\ ~fallen' =>
               Counted' = Counted /\ ~fallen /\ data \subseteq Counted
    PROVE  TypeOK' /\ Chained' /\ Begun' /\ Tallied'
<1>1. /\ chain' = chain /\ latest' = latest /\ path' = path /\ limit' = limit
      /\ range' = range /\ cut' = cut /\ drift' = drift /\ page' = page + 1 /\ page \in Nat
      /\ top' \in Nat /\ top' <= Highest' /\ Highest' <= latest /\ Highest' \in Nat
      /\ In(chain, 0..top') \subseteq known' /\ known' \subseteq chain
  BY ReplyBounds
<1>2. /\ listing' = items /\ slice' = data /\ returned' = returned \cup data
      /\ repeats' = repeats + Cardinality(returned \cap data)
      /\ hasMore' = (page * limit + Cardinality(data) < total)
      /\ page > 0 => Full
  BY DEF Reply, Full
<1>3. /\ IsFiniteSet(chain) /\ returned \subseteq chain /\ latest \in Nat
      /\ limit \in Nat \ {0} /\ repeats \in Nat
  BY QueryTypes DEF IInv, Chained, TypeOK
<1>4. /\ IsFiniteSet(data) /\ IsFiniteSet(returned) /\ IsFiniteSet(returned \cap data)
      /\ Cardinality(data) \in Nat /\ Cardinality(returned) \in Nat
      /\ Cardinality(returned \cap data) \in Nat /\ Cardinality(chain) \in Nat
  <2>1. data \subseteq chain /\ returned \cap data \subseteq chain
    BY <1>3
  <2>2. IsFiniteSet(data) /\ IsFiniteSet(returned) /\ IsFiniteSet(returned \cap data)
    BY <1>3, <2>1, FS_Subset
  <2> QED BY <1>3, <2>2, FS_CardinalityType
<1>5. Cardinality(returned') + Cardinality(returned \cap data) =
          Cardinality(returned) + Cardinality(data) /\ Cardinality(returned') \in Nat
  <2>1. Cardinality(returned \cup data) =
           Cardinality(returned) + Cardinality(data) - Cardinality(returned \cap data)
    BY <1>4, FS_Union
  <2>2. Cardinality(returned \cup data) \in Nat
    BY <1>4, FS_Union, FS_CardinalityType
  <2> QED BY <1>2, <1>4, <2>1, <2>2
<1>6. page' \in 0..(Cardinality(chain') + 1)
  <2>1. page > 0 => page <= Cardinality(chain)
    BY <1>2 DEF IInv, Tallied
  <2> QED BY <1>1, <1>4, <2>1
<1>7. TypeOK'
  <2>1. /\ latest \in 0..MaxBlock /\ drift \in -MaxDrift..MaxDrift
        /\ [path |-> path, limit |-> limit, range |-> range, cut |-> cut] \in Queries
        /\ \A l \in chain : l \in Log
    BY DEF IInv, TypeOK
  <2>2. [path |-> path', limit |-> limit', range |-> range', cut |-> cut'] \in Queries
    BY <1>1, <2>1
  <2>3. top' \in 0..latest' /\ repeats' \in Nat /\ hasMore' \in BOOLEAN
    BY <1>1, <1>2, <1>3, <1>4
  <2>4. slice' \subseteq listing' /\ slice' \subseteq returned' /\ returned' \subseteq chain'
        /\ Cardinality(slice') <= limit'
    BY <1>1, <1>2, <1>3
  <2>5. latest' \in 0..MaxBlock /\ drift' \in -MaxDrift..MaxDrift /\ \A l \in chain' : l \in Log
    BY <1>1, <2>1
  <2>6. known' \subseteq chain' /\ (fallen' => path' \in {"explorer", "viewingKey"})
    BY <1>1
  <2> QED BY <1>6, <2>2, <2>3, <2>4, <2>5, <2>6 DEF TypeOK
<1>8. Chained'
  BY <1>1 DEF IInv, Chained
<1>9. Begun'
  BY <1>1 DEF Begun
<1>10. Tallied'
  <2>1. repeats' + Cardinality(returned') = (page' - 1) * limit' + Cardinality(slice')
    <3>1. CASE page = 0
      <4>1. repeats = 0 /\ Cardinality(returned) = 0
        BY <3>1, FS_EmptySet DEF IInv, Begun
      <4>2. (page' - 1) * limit' = 0
        BY <1>1, <1>3, <3>1
      <4> QED BY <1>2, <1>3, <1>4, <1>5, <4>1, <4>2
    <3>2. CASE page > 0
      <4>1. repeats + Cardinality(returned) = (page - 1) * limit + limit
        BY <1>2, <3>2 DEF IInv, Tallied, Full
      <4>2. (page - 1) * limit + limit = page * limit /\ page * limit \in Nat
        BY <1>1, <1>3
      <4>3. (page' - 1) * limit' = page * limit
        BY <1>1
      <4> QED BY <1>2, <1>3, <1>4, <1>5, <4>1, <4>2, <4>3
    <3> QED BY <1>1, <3>1, <3>2
  <2>2. Full' => page' <= Cardinality(chain')
    <3> SUFFICES ASSUME Cardinality(data) = limit PROVE page + 1 <= Cardinality(chain)
      BY <1>1, <1>2 DEF Full
    <3>1. page <= page * limit /\ page * limit \in Nat
      <4>1. page * limit = page * (limit - 1) + page /\ page * (limit - 1) \in Nat
        BY <1>1, <1>3
      <4> QED BY <1>1, <4>1
    <3> QED BY <1>1, <1>4, <3>1
  <2>3. ~Merging' /\ ~fallen' => returned' \subseteq Counted'
    BY <1>1, <1>2 DEF IInv, Tallied, Merging
  <2> QED BY <2>1, <2>2, <2>3 DEF Tallied
<1> QED BY <1>7, <1>8, <1>9, <1>10

(* A page is cut out of the items that a scan down to block lo has found,   *)
(* of what the offsets now count.                                           *)
CutFrom(items, lo) ==
    /\ ~Merging /\ ~degraded'
    /\ fallen' \in BOOLEAN /\ (fallen => fallen')
    /\ fallen' => path \in {"explorer", "viewingKey"}
    /\ items \subseteq In(Counted', lo..Upper)
    /\ lost' = lost + Cardinality(In(Counted', lo..Upper) \ items)

(* What stands in for an entry lists it, and more.                          *)
LEMMA StandInLists ==
    ASSUME path \in {"explorer", "viewingKey"}, NEW logs
    PROVE  /\ Matching(path, logs) \subseteq Matching(StandIn, logs)
           /\ Matching(path, Matching(StandIn, logs)) = Matching(path, logs)
BY DEF StandIn, Matching, Matches

(* The offsets count transactions of what is asked for, or all logs that    *)
(* are of it or stand in for it.                                            *)
LEMMA CountedNext ==
    ASSUME path' = path, range' = range, chain' = chain
    PROVE  Counted' = IF PerTx /\ ~fallen' THEN Heads(Matching(path, chain))
                      ELSE Matching(IF fallen' THEN StandIn ELSE path, chain)
<1>1. /\ PerTx' <=> PerTx
      /\ FirstDir' = FirstDir /\ StandIn' = StandIn
  BY DEF PerTx, Merging, FirstDir, StandIn
<1>2. ByTx' <=> PerTx /\ ~fallen'
  BY <1>1 DEF ByTx
<1>3. Way' = IF fallen' THEN StandIn ELSE path
  BY <1>1 DEF Way
<1>4. Matching(Way, chain)' = Matching(Way', chain)
  BY DEF Matching, Matches
<1>5. Heads(Matching(Way, chain))' = Heads(Matching(Way', chain))
  BY <1>1, <1>4 DEF Heads, Before
<1>6. Counted' = IF ByTx' THEN Heads(Matching(Way, chain))' ELSE Matching(Way, chain)'
  BY DEF Counted
<1> QED BY <1>1, <1>2, <1>3, <1>4, <1>5, <1>6

(* What is counted, and where, before and after it.                         *)
LEMMA CountsKept ==
    ASSUME IInv, NEW items, NEW lo \in Nat, NEW data, NEW total,
           Reply(items, data, total), CutFrom(items, lo)
    PROVE  /\ Keyed(chain) /\ Matching(path, chain) \subseteq chain
           /\ Counted \subseteq Counted' /\ Counted' \subseteq chain
           /\ Sought(Counted') = Units(Matching(path, chain))
           /\ Sought(Counted) = Units(Matching(path, chain))
           /\ Sought(Counted') \subseteq Counted'
           /\ ~fallen' => Counted' = Counted /\ Sought(Counted') = Counted'
           /\ Due' = In(Counted', 0..Upper)
           /\ Passed' = In(Counted', (Upper + 1)..Highest')
           /\ page > 0 => Passed \subseteq Passed'
<1> DEFINE logs == Matching(path, chain)
           more == Matching(StandIn, chain)
<1>1. /\ chain' = chain /\ path' = path /\ range' = range /\ Upper' = Upper
      /\ page > 0 => Highest' = Highest
  BY ReplyBounds
<1>2. Keyed(chain) /\ logs \subseteq chain /\ more \subseteq chain
  BY ChainIsKeyed DEF IInv, Matching
<1>3. /\ Heads(Heads(logs)) = Heads(logs) /\ Heads(logs) \subseteq logs
      /\ Matching(path, logs) = logs /\ Matching(path, Heads(logs)) = Heads(logs)
  BY HeadsOfHeads DEF Matching, Heads
<1>4. Counted = IF PerTx /\ ~fallen THEN Heads(logs) ELSE IF fallen THEN more ELSE logs
  BY DEF Counted, ByTx, Way
<1>5. Counted' = IF PerTx /\ ~fallen' THEN Heads(logs) ELSE IF fallen' THEN more ELSE logs
  BY <1>1, CountedNext
<1>6. /\ fallen => fallen'
      /\ fallen' => PerTx /\ logs \subseteq more /\ Matching(path, more) = logs
  BY StandInLists DEF CutFrom, PerTx
<1> HIDE DEF logs, more
<1>7. Counted \subseteq Counted' /\ Counted' \subseteq chain
  BY <1>2, <1>3, <1>4, <1>5, <1>6
<1>8. Units(logs) = IF PerTx THEN Heads(logs) ELSE logs
  BY DEF Units
<1>9. /\ Matching(path, Counted) = IF PerTx /\ ~fallen THEN Heads(logs) ELSE logs
      /\ Matching(path, Counted') = IF PerTx /\ ~fallen' THEN Heads(logs) ELSE logs
  BY <1>3, <1>4, <1>5, <1>6
<1>10. Sought(Counted') = Units(logs) /\ Sought(Counted) = Units(logs)
  BY <1>3, <1>8, <1>9 DEF Sought, Units
<1>11. Sought(Counted') \subseteq Counted' /\ (~fallen' => Counted' = Counted /\ Sought(Counted') = Counted')
  BY <1>3, <1>4, <1>5, <1>6, <1>8, <1>10
<1>12. Due' = In(Counted', 0..Upper) /\ Passed' = In(Counted', (Upper + 1)..Highest')
  BY <1>1 DEF Due, Passed
<1>13. page > 0 => Passed \subseteq Passed'
  BY <1>1, <1>7, <1>12 DEF Passed, In
<1> QED BY <1>2, <1>7, <1>10, <1>11, <1>12, <1>13 DEF logs

Seen(shown, m) == m \in shown \/ (PerTx /\ \E l \in shown : SameTx(l, m))
Unseen(counted, shown, hi) == {x \in In(Sought(counted), 0..hi) : ~Seen(shown, x)}

(* A page, and those before it, have skipped no more than there was cut off *)
(* and passed over.                                                         *)
LEMMA PageSkips ==
    ASSUME IInv, NEW items, NEW lo \in Nat, NEW total,
           Reply(items, Slice(items, page * limit), total), CutFrom(items, lo),
           NEW skipped,
           skipped = Reached(Unseen(Counted', returned', top'), items, Upper, lo, page * limit + limit)
    PROVE  /\ IsFiniteSet(skipped) /\ Cardinality(skipped) \in Nat
           /\ lost' \in Nat /\ lost <= lost' /\ IsFiniteSet(Passed') /\ Cardinality(Passed') \in Nat
           /\ Cardinality(skipped) <= lost' + Cardinality(Passed')
<1> DEFINE n == page * limit
           W == Counted'
           unseen == Unseen(W, returned', top')
           old == Behind(unseen, W, Upper, n)
           cutOff == In(W, lo..Upper) \ items
<1>1. /\ page \in Nat /\ n \in Nat /\ limit \in Nat \ {0} /\ lost \in Nat
      /\ top' \in Nat /\ Upper \in Nat /\ Highest' \in Nat /\ top' <= Highest'
      /\ page > 0 => top' = top
      /\ page = 0 => top' = Upper
  <2>1. lost \in Nat /\ limit \in Nat \ {0} /\ page \in Nat /\ Upper \in Nat
    BY QueryTypes DEF IInv, TypeOK
  <2> QED BY <2>1, ReplyBounds
<1>2. /\ Keyed(chain) /\ W \subseteq chain /\ Counted \subseteq W
      /\ Sought(W) = Sought(Counted) /\ Sought(W) \subseteq W
      /\ Passed' = In(W, (Upper + 1)..Highest')
      /\ page > 0 => Passed \subseteq Passed'
  BY CountsKept
<1>3. unseen \subseteq In(W, 0..top') /\ unseen \subseteq chain /\ unseen \in SUBSET In(W, 0..Highest')
  BY <1>1, <1>2 DEF In, Keyed, Unseen
<1>4. unseen \cap Slice(items, n) = {}
  BY DEF Reply, Seen, Unseen
<1>5. /\ IsFiniteSet(unseen) /\ IsFiniteSet(old) /\ IsFiniteSet(cutOff) /\ IsFiniteSet(Passed')
      /\ Cardinality(old) \in Nat /\ Cardinality(cutOff) \in Nat /\ Cardinality(Passed') \in Nat
  <2>1. old \subseteq chain /\ cutOff \subseteq chain /\ Passed' \subseteq chain
    BY <1>2, <1>3 DEF In, Behind
  <2> HIDE DEF unseen, old, cutOff
  <2>2. IsFiniteSet(unseen) /\ IsFiniteSet(old) /\ IsFiniteSet(cutOff) /\ IsFiniteSet(Passed')
    BY <1>2, <1>3, <2>1, FS_Subset DEF Keyed
  <2> QED BY <2>2, FS_CardinalityType
<1>6. skipped = Reached(unseen, items, Upper, lo, n + limit) /\ skipped \subseteq unseen
  BY DEF Reached
<1>7. Cardinality(skipped) <= Cardinality(old) + Cardinality(cutOff)
  <2>1. items \in SUBSET In(W, lo..Upper)
    BY DEF CutFrom
  <2> HIDE DEF W, unseen, n
  <2> QED BY <1>1, <1>2, <1>3, <1>4, <1>6, <2>1, PageTaken
<1>8. Cardinality(old) <= lost + Cardinality(Passed')
  <2>1. CASE page = 0
    <3>1. n = 0
      BY <1>1, <2>1
    <3>2. \A x \in unseen : Rank(x, In(W, 0..Upper)) \in Nat /\ x.block <= Upper
      <4>1. In(W, 0..Upper) \subseteq chain
        BY <1>2 DEF In
      <4>2. \A x \in unseen : x.block \in 0..Upper /\ x \in chain
        BY <1>1, <1>3, <2>1 DEF In
      <4> HIDE DEF unseen, W
      <4> QED BY <1>2, <4>1, <4>2, RankOfNewer DEF Keyed
    <3>3. old = {}
      <4> HIDE DEF W, unseen, n
      <4> QED BY <1>1, <3>1, <3>2, <1>3, <1>2 DEF Keyed, Behind
    <3> HIDE DEF old
    <3> QED BY <1>1, <1>5, <3>3, FS_EmptySet
  <2>2. CASE page > 0
    <3>1. Cardinality(Missed) <= lost + Cardinality(Passed)
      BY <2>2 DEF IInv, Sparse, Full, Reply, CutFrom
    <3>2. old \subseteq Missed
      <4> SUFFICES ASSUME NEW x \in old PROVE x \in Missed
        OBVIOUS
      <4>1. x \in In(Sought(Counted), 0..top)
        BY <1>1, <1>2, <2>2 DEF In, Behind, Unseen
      <4>2. ~Shown(x)
        BY DEF Shown, Seen, Reply, Behind, Unseen
      <4>3. ASSUME Rank(x, In(W, 0..Upper)) < n PROVE Rank(x, Due) < n
        <5>1. /\ {m \in Due : Before(m, x)} \subseteq {m \in In(W, 0..Upper) : Before(m, x)}
              /\ {m \in In(W, 0..Upper) : Before(m, x)} \subseteq chain
              /\ {m \in Due : Before(m, x)} \subseteq chain
          BY <1>2 DEF Due, In
        <5>2. /\ IsFiniteSet({m \in In(W, 0..Upper) : Before(m, x)})
              /\ IsFiniteSet({m \in Due : Before(m, x)})
          BY <1>2, <5>1, FS_Subset DEF Keyed
        <5>3. Rank(x, Due) <= Rank(x, In(W, 0..Upper)) /\ Rank(x, Due) \in Nat
              /\ Rank(x, In(W, 0..Upper)) \in Nat
          BY <5>1, <5>2, FS_Subset, FS_CardinalityType DEF Rank
        <5> HIDE DEF n, W
        <5> QED BY <1>1, <4>3, <5>3
      <4>4. x.block > Upper \/ Rank(x, Due) < n
        BY <4>3 DEF Behind
      <4> QED BY <4>1, <4>2, <4>4 DEF Missed
    <3>3. IsFiniteSet(Missed) /\ Cardinality(Missed) \in Nat
      <4>1. Missed \subseteq chain
        BY <1>2 DEF Missed, In
      <4> QED BY <1>2, <4>1, FS_Subset, FS_CardinalityType DEF Keyed
    <3>4. Cardinality(Passed) <= Cardinality(Passed') /\ Cardinality(Passed) \in Nat
      BY <1>2, <1>5, <2>2, FS_Subset, FS_CardinalityType
    <3>5. Cardinality(old) <= Cardinality(Missed)
      <4> HIDE DEF old
      <4> QED BY <3>2, <3>3, FS_Subset
    <3> HIDE DEF old
    <3> QED BY <1>1, <1>5, <3>1, <3>3, <3>4, <3>5
  <2> QED BY <1>1, <2>1, <2>2
<1>9. lost' = lost + Cardinality(cutOff)
  BY DEF CutFrom
<1>10. IsFiniteSet(skipped) /\ Cardinality(skipped) \in Nat
  <2> HIDE DEF unseen
  <2> QED BY <1>5, <1>6, FS_Subset, FS_CardinalityType
<1> HIDE DEF old, cutOff
<1> QED BY <1>1, <1>5, <1>7, <1>8, <1>9, <1>10

(* What a client has missed, after a page.                                  *)
LEMMA MissedNext ==
    ASSUME path' = path, range' = range
    PROVE  Missed' = {l \in Unseen(Counted', returned', top') :
                         l.block > Upper' \/ Rank(l, Due') < page' * limit'}
<1>1. /\ FirstDir' = FirstDir
      /\ PerTx' <=> PerTx
  BY DEF FirstDir, PerTx, Merging
<1>2. \A x, y : Before(x, y)' <=> Before(x, y)
  BY <1>1 DEF Before
<1>3. Sought(Counted)' = Sought(Counted')
  BY <1>1, <1>2 DEF Sought, Units, Heads, Matching, Matches
<1>4. \A l : Rank(l, Due)' = Rank(l, Due')
  BY <1>2 DEF Rank
<1>5. \A l : Shown(l)' <=> Seen(returned', l)
  BY <1>1 DEF Shown, Seen
<1>6. Missed' = {l \in In(Sought(Counted), 0..top)' :
                    ~Shown(l)' /\ (l.block > Upper' \/ Rank(l, Due)' < page' * limit')}
  BY DEF Missed
<1>7. In(Sought(Counted), 0..top)' = In(Sought(Counted'), 0..top')
  BY <1>3
<1> QED BY <1>4, <1>5, <1>6, <1>7 DEF Unseen

(* After a full page: whatever has a place before the next page was come by.*)
LEMMA SparseNext ==
    ASSUME IInv, NEW items, NEW lo \in Nat, NEW total,
           Reply(items, Slice(items, page * limit), total), CutFrom(items, lo)
    PROVE  Sparse'
<1> DEFINE n == page * limit
           W == Counted'
           unseen == Unseen(W, returned', top')
           skipped == Reached(unseen, items, Upper, lo, n + limit)
<1>1. /\ page \in Nat /\ n \in Nat /\ limit \in Nat \ {0} /\ Upper \in Nat
      /\ top' \in Nat /\ Highest' \in Nat /\ top' <= Highest'
      /\ path' = path /\ range' = range /\ Upper' = Upper /\ limit' = limit /\ page' = page + 1
  <2>1. limit \in Nat \ {0} /\ page \in Nat /\ Upper \in Nat
    BY QueryTypes DEF IInv
  <2> QED BY <2>1, ReplyBounds
<1>2. /\ Keyed(chain) /\ W \subseteq chain /\ Sought(W) \subseteq W /\ Due' = In(W, 0..Upper)
      /\ \A x \in W : x \in chain /\ x.block \in Nat
  <2>1. Keyed(chain) /\ W \subseteq chain /\ Sought(W) \subseteq W /\ Due' = In(W, 0..Upper)
    BY CountsKept
  <2> QED BY <2>1 DEF Keyed
<1>3. /\ IsFiniteSet(skipped) /\ Cardinality(skipped) \in Nat
      /\ lost' \in Nat /\ Cardinality(Passed') \in Nat
      /\ Cardinality(skipped) <= lost' + Cardinality(Passed')
  <2> HIDE DEF skipped
  <2>1. skipped = Reached(Unseen(Counted', returned', top'), items, Upper, lo, page * limit + limit)
    BY DEF skipped
  <2> QED BY <2>1, PageSkips
<1>4. n + limit = page' * limit
  BY <1>1
<1>5. /\ items \in SUBSET In(W, lo..Upper)
      /\ unseen \in SUBSET In(W, 0..Highest') /\ unseen \cap Slice(items, n) = {}
  <2>1. items \in SUBSET In(W, lo..Upper)
    BY DEF CutFrom
  <2>2. unseen \in SUBSET In(W, 0..Highest')
    BY <1>1, <1>2 DEF Unseen, In
  <2>3. unseen \cap Slice(items, n) = {}
    BY DEF Reply, Seen, Unseen
  <2> QED BY <2>1, <2>2, <2>3
<1>6. ASSUME Full', NEW l \in Missed'
      PROVE  l \in skipped
  <2>1. Cardinality(Slice(items, n)) = limit
    BY <1>1, <1>6 DEF Full, Reply
  <2>2. /\ l \in unseen /\ (l.block > Upper \/ Rank(l, Due') < n + limit)
        /\ l \in W /\ l \in chain /\ l.block \in Nat
    <3>1. l \in unseen /\ (l.block > Upper \/ Rank(l, Due') < n + limit)
      BY <1>1, <1>4, <1>6, MissedNext
    <3>2. l \in W
      BY <1>2, <3>1 DEF Unseen, In
    <3> QED BY <1>2, <3>1, <3>2
  <2>3. CASE l.block > Upper
    BY <2>2, <2>3 DEF Reached
  <2>4. CASE l.block <= Upper
    <3>1. l \in In(W, 0..Upper) /\ Rank(l, Due') < n + limit
      BY <1>1, <2>2, <2>4 DEF In
    <3>2. ~(l.block < lo)
      <4>1. l.block < lo => n + limit <= Rank(l, In(W, 0..Upper))
        <5> HIDE DEF W, unseen, n
        <5> QED BY <1>1, <1>2, <1>5, <2>1, <3>1, PageTaken
      <4>2. Rank(l, Due') \in Nat
        <5>1. Due' \in SUBSET chain
          BY <1>2 DEF In
        <5> QED BY <1>2, <2>2, <5>1, RankOfNewer
      <4> HIDE DEF n
      <4> QED BY <1>1, <1>2, <3>1, <4>1, <4>2
    <3>3. l \in items => Rank(l, items) <= Rank(l, Due') /\ Rank(l, items) \in Nat /\ Rank(l, Due') \in Nat
      <4>1. /\ {m \in items : Before(m, l)} \subseteq {m \in Due' : Before(m, l)}
            /\ {m \in items : Before(m, l)} \subseteq chain
            /\ {m \in Due' : Before(m, l)} \subseteq chain
        BY <1>1, <1>2, <1>5 DEF In
      <4>2. /\ IsFiniteSet({m \in Due' : Before(m, l)})
            /\ IsFiniteSet({m \in items : Before(m, l)})
        BY <1>2, <4>1, FS_Subset DEF Keyed
      <4> QED BY <4>1, <4>2, FS_Subset, FS_CardinalityType DEF Rank
    <3>4. l.block >= lo /\ (l \in items => Rank(l, items) < n + limit)
      <4> HIDE DEF n
      <4> QED BY <1>1, <2>2, <3>1, <3>2, <3>3
    <3> QED BY <2>2, <3>4 DEF Reached
  <2> QED BY <1>1, <2>2, <2>3, <2>4
<1> HIDE DEF skipped
<1>7. ASSUME Full' PROVE Cardinality(Missed') <= Cardinality(skipped) /\ Cardinality(Missed') \in Nat
  <2>1. Missed' \subseteq skipped
    BY <1>6, <1>7
  <2> QED BY <1>3, <2>1, FS_Subset, FS_CardinalityType
<1>8. ASSUME Full' PROVE Cardinality(Missed)' <= lost' + Cardinality(Passed)'
  BY <1>3, <1>7, <1>8
<1> QED BY <1>8 DEF Sparse

(* The holes after a page.                                                  *)
LeftOut(logs, shown, seen) ==
    {m \in logs : ~Seen(shown, m) /\ \E l \in seen : Before(m, l)}

(* The holes after a step and before it, of what is shown then.             *)
LEMMA HolesNext ==
    ASSUME path' = path, range' = range, ~Merging
    PROVE  /\ Holes' = LeftOut(In(Matching(path, known'), 0..top'), returned', returned' \cap known')
           /\ Holes = LeftOut(In(Matching(path, known), 0..top), returned, returned \cap known)
           /\ Entries(Holes)' = Cardinality(Units(Holes'))
           /\ Entries(Holes) = Cardinality(Units(Holes))
<1>1. FirstDir' = FirstDir /\ (PerTx' <=> PerTx) /\ ~Merging'
  BY DEF FirstDir, PerTx, Merging
<1>2. \A x, y : Before(x, y)' <=> Before(x, y)
  BY <1>1 DEF Before
<1>3. \A l : Shown(l)' <=> Seen(returned', l)
  BY <1>1 DEF Shown, Seen
<1>4. \A l : Shown(l) <=> Seen(returned, l)
  BY DEF Shown, Seen
<1>5. /\ Asked' = In(Matching(path, known'), 0..top')
      /\ Asked = In(Matching(path, known), 0..top)
  BY DEF Asked, Matching, Matches, In
<1>6. Holes' = {m \in Asked' : ~Shown(m)' /\ \E l \in returned' \cap known' : Before(m, l)'}
  BY <1>1 DEF Holes
<1>7. Holes = {m \in Asked : ~Shown(m) /\ \E l \in returned \cap known : Before(m, l)}
  BY DEF Holes
<1>8. Entries(Holes)' = Cardinality(Units(Holes'))
  BY <1>1, <1>2 DEF Entries, Units, Heads
<1>9. Entries(Holes) = Cardinality(Units(Holes))
  BY DEF Entries, Units
<1> QED BY <1>2, <1>3, <1>4, <1>5, <1>6, <1>7, <1>8, <1>9 DEF LeftOut

(* The head of a transaction's holes is the head of the transaction.        *)
LEMMA HolesHaveHeads ==
    ASSUME Keyed(chain), NEW logs \in SUBSET chain, NEW hi, NEW shown, NEW seen \in SUBSET chain
    PROVE  Units(LeftOut(In(logs, 0..hi), shown, seen)) \subseteq
               Units(logs) \cap LeftOut(In(logs, 0..hi), shown, seen)
<1> DEFINE holes == LeftOut(In(logs, 0..hi), shown, seen)
<1>1. holes \subseteq logs
  BY DEF In, LeftOut
<1>2. CASE ~PerTx
  BY <1>1, <1>2 DEF Units
<1>3. CASE PerTx
  <2>1. Units(holes) = Heads(holes) /\ Units(logs) = Heads(logs)
    BY <1>3 DEF Units
  <2> SUFFICES ASSUME NEW h \in Heads(holes), NEW m \in logs, SameTx(h, m), Before(m, h)
               PROVE  FALSE
    BY <1>1, <2>1 DEF Heads
  <2>2. h \in holes /\ m \notin holes
    BY DEF Heads
  <2>3. m \in In(logs, 0..hi)
    BY <2>2 DEF In, SameTx, LeftOut
  <2>4. ~Seen(shown, m)
    BY <1>3, <2>2 DEF Seen, SameTx, LeftOut
  <2>5. \A l \in seen : Before(h, l) => Before(m, l)
    <3>1. h \in chain /\ m \in chain
      BY <1>1, <2>2
    <3> QED BY <3>1, NewestFirst DEF Orders
  <2> QED BY <2>2, <2>3, <2>4, <2>5 DEF LeftOut
<1> QED BY <1>2, <1>3

(* A head of some logs is a head of any of them that it is among.           *)
LEMMA HeadsOfPart ==
    ASSUME NEW logs, NEW part \in SUBSET logs
    PROVE  Units(logs) \cap part \subseteq Units(part)
BY DEF Units, Heads

(* Either each hole is before an entry of the page, which has come by it, or*)
(* each was a hole before.                                                  *)
LEMMA NoHolesNext ==
    ASSUME IInv, NEW items, NEW lo \in Nat, NEW total,
           Reply(items, Slice(items, page * limit), total), CutFrom(items, lo), TypeOK'
    PROVE  NoHoles'
<1> DEFINE n == page * limit
           W == Counted'
           data == Slice(items, n)
           skipped == Reached(Unseen(W, returned', top'), items, Upper, lo, n + limit)
           logs == Matching(path, chain)
           seen == returned' \cap known'
<1> DEFINE bound == lost' + Cardinality(Passed')
<1> SUFFICES Cardinality(Units(Holes')) <= bound
  <2>1. path' = path /\ range' = range /\ ~Merging /\ page' > 0
    BY ReplyBounds DEF CutFrom
  <2>2. Entries(Holes)' = Cardinality(Units(Holes'))
    BY <2>1, HolesNext
  <2>3. Shift' = Cardinality(Passed')
    <3>1. (TypeOK /\ page > 0 => Shift = Cardinality(Passed))'
      BY ShiftIsPassed, PTL
    <3> QED BY <2>1, <3>1
  <2> QED BY <2>1, <2>2, <2>3 DEF NoHoles, Shift
<1>1. /\ page \in Nat /\ n \in Nat /\ limit \in Nat \ {0} /\ Upper \in Nat
      /\ top' \in Nat /\ top \in Nat /\ chain' = chain
      /\ path' = path /\ range' = range /\ page' > 0
      /\ In(chain, 0..top') \subseteq known' /\ known' \subseteq chain
      /\ page > 0 => top' = top /\ known' = known
      /\ returned' = returned \cup data /\ ~Merging /\ ~degraded'
  <2>1. limit \in Nat \ {0} /\ page \in Nat /\ Upper \in Nat /\ top \in Nat
    BY QueryTypes DEF IInv
  <2>2. returned' = returned \cup data /\ ~Merging /\ ~degraded'
    BY DEF Reply, CutFrom
  <2> QED BY <2>1, <2>2, ReplyBounds
<1>2. /\ Keyed(chain) /\ logs \subseteq chain /\ W \subseteq chain /\ Sought(W) = Units(logs)
      /\ page > 0 => Passed \subseteq Passed'
      /\ \A x \in chain : x.block \in Nat
      /\ \A x, y, z \in chain : Before(x, y) /\ Before(y, z) => Before(x, z)
      /\ \A x, y \in chain : x = y \/ Before(x, y) \/ Before(y, x)
  <2>1. /\ Keyed(chain) /\ logs \subseteq chain /\ W \subseteq chain /\ Sought(W) = Units(logs)
        /\ page > 0 => Passed \subseteq Passed'
    BY CountsKept
  <2>2. /\ \A x, y, z \in chain : Before(x, y) /\ Before(y, z) => Before(x, z)
        /\ \A x, y \in chain : x = y \/ Before(x, y) \/ Before(y, x)
    <3>1. /\ Orders(Newer(chain), chain)
          /\ \A x, y \in chain : <<x, y>> \in Newer(chain) <=> Before(x, y)
      BY <2>1, NewestFirst
    <3> QED BY <3>1 DEF Orders
  <2> QED BY <2>1, <2>2 DEF Keyed
<1>3. /\ IsFiniteSet(skipped) /\ Cardinality(skipped) \in Nat
      /\ lost' \in Nat /\ lost <= lost' /\ IsFiniteSet(Passed') /\ Cardinality(Passed') \in Nat
      /\ Cardinality(skipped) <= lost' + Cardinality(Passed')
  <2> HIDE DEF skipped
  <2>1. skipped = Reached(Unseen(Counted', returned', top'), items, Upper, lo, page * limit + limit)
    BY DEF skipped
  <2> QED BY <2>1, PageSkips
<1>4. /\ Holes' = LeftOut(In(Matching(path, known'), 0..top'), returned', seen)
      /\ Holes = LeftOut(In(Matching(path, known), 0..top), returned, returned \cap known)
      /\ Entries(Holes)' = Cardinality(Units(Holes'))
      /\ Entries(Holes) = Cardinality(Units(Holes))
  BY <1>1, HolesNext
<1>5. In(Matching(path, known'), 0..top') = In(logs, 0..top')
  BY <1>1 DEF In, Matching
<1>6. seen \subseteq chain
  BY <1>1
<1>7. Units(Holes') \subseteq Units(logs) \cap Holes' /\ Units(Holes') \subseteq chain
  <2>1. Holes' = LeftOut(In(logs, 0..top'), returned', seen)
    BY <1>4, <1>5
  <2> HIDE DEF logs, seen
  <2>2. Units(LeftOut(In(logs, 0..top'), returned', seen)) \subseteq
            Units(logs) \cap LeftOut(In(logs, 0..top'), returned', seen)
    BY <1>1, <1>2, <1>6, HolesHaveHeads
  <2>3. LeftOut(In(logs, 0..top'), returned', seen) \subseteq chain
    BY <1>2 DEF LeftOut, In
  <2> QED BY <2>1, <2>2, <2>3
<1>8. IsFiniteSet(Units(Holes')) /\ Cardinality(Units(Holes')) \in Nat
  BY <1>2, <1>7, FS_Subset, FS_CardinalityType DEF Keyed
<1>9. CASE \E l \in data \cap known' : \A m \in returned \cap known' : m = l \/ Before(m, l)
  <2>1. PICK l \in data \cap known' : \A m \in returned \cap known' : m = l \/ Before(m, l)
    BY <1>9
  <2>2. ASSUME NEW x \in Units(Holes') PROVE x \in skipped
    <3>1. x \in Sought(W) /\ x \in In(logs, 0..top') /\ ~Seen(returned', x) /\ x \in chain
      BY <1>2, <1>4, <1>5, <1>7 DEF LeftOut
    <3>2. x \in Unseen(W, returned', top')
      BY <3>1 DEF Unseen, In
    <3>3. PICK d \in data \cap known' : Before(x, d)
      <4>1. PICK m \in seen : Before(x, m)
        BY <1>4, <1>7 DEF LeftOut
      <4>2. CASE m \in data
        BY <4>1, <4>2
      <4>3. CASE m \in returned
        <5>1. m = l \/ Before(m, l)
          BY <2>1, <4>1, <4>3
        <5>2. m \in chain /\ l \in chain
          BY <1>1, <1>6, <2>1, <4>1
        <5>3. Before(x, l)
          BY <1>2, <3>1, <4>1, <5>1, <5>2
        <5> QED BY <2>1, <5>3
      <4> QED BY <1>1, <4>1, <4>2, <4>3
    <3>4. d \in items /\ Rank(d, items) < n + limit /\ d \in chain /\ d.block >= lo /\ items \subseteq chain
      <4>1. items \subseteq In(W, lo..Upper)
        BY DEF CutFrom
      <4>2. items \subseteq chain /\ d \in items /\ d.block >= lo /\ d \in chain
        BY <1>2, <3>3, <4>1 DEF In, Slice
      <4>3. Rank(d, items) \in n..(n + limit - 1)
        BY <3>3 DEF Slice
      <4> QED BY <1>1, <4>2, <4>3
    <3>5. x.block >= d.block
      BY <1>2, <3>1, <3>3, <3>4 DEF Before
    <3>6. Rank(x, items) < n + limit
      <4>1. Rank(x, items) \in Nat /\ Rank(x, items) <= Rank(d, items)
        BY <1>2, <3>1, <3>3, <3>4, RankOfNewer
      <4>2. Rank(d, items) \in Nat
        BY <1>2, <3>4, RankOfNewer
      <4> QED BY <1>1, <3>4, <4>1, <4>2
    <3>7. x.block >= lo
      BY <1>2, <3>1, <3>4, <3>5
    <3> QED BY <3>2, <3>6, <3>7 DEF Reached
  <2>3. Cardinality(Units(Holes')) <= Cardinality(skipped)
    <3> HIDE DEF skipped
    <3> QED BY <1>3, <2>2, FS_Subset
  <2> HIDE DEF skipped
  <2> QED BY <1>3, <1>8, <2>3
<1>10. CASE ~\E l \in data \cap known' : \A m \in returned \cap known' : m = l \/ Before(m, l)
  <2>1. \A l \in data \cap known' : \E m \in returned \cap known' : Before(l, m)
    BY <1>1, <1>2, <1>10
  <2>2. \A x \in Holes' : \E m \in returned \cap known' : Before(x, m)
    <3> SUFFICES ASSUME NEW x \in Holes' PROVE \E m \in returned \cap known' : Before(x, m)
      OBVIOUS
    <3>1. PICK l \in seen : Before(x, l)
      BY <1>4 DEF LeftOut
    <3>2. CASE l \in returned
      BY <3>1, <3>2
    <3>3. CASE l \in data
      <4>1. PICK m \in returned \cap known' : Before(l, m)
        BY <2>1, <3>1, <3>3
      <4>2. x \in chain /\ l \in chain /\ m \in chain
        BY <1>1, <1>2, <1>4, <1>5 DEF LeftOut, In
      <4> QED BY <1>2, <3>1, <4>1, <4>2
    <3> QED BY <1>1, <3>1, <3>2, <3>3
  <2>3. CASE page = 0
    <3>1. returned = {}
      BY <2>3 DEF IInv, Begun
    <3>2. Units(Holes') = {}
      BY <1>7, <2>2, <3>1
    <3>3. Cardinality(Units(Holes')) = 0
      BY <3>2, FS_EmptySet
    <3> QED BY <1>3, <3>3
  <2>4. CASE page > 0
    <3>1. Holes' \subseteq Holes /\ Holes \subseteq logs
      <4>1. Holes \subseteq logs
        BY <1>4 DEF IInv, TypeOK, LeftOut, In, Matching
      <4>2. \A x : Seen(returned, x) => Seen(returned', x)
        BY <1>1 DEF Seen
      <4> QED BY <1>1, <1>4, <2>2, <2>4, <4>1, <4>2 DEF LeftOut
    <3>2. Units(Holes') \subseteq Units(Holes)
      <4> HIDE DEF logs
      <4>1. Units(logs) \cap Holes \subseteq Units(Holes)
        BY <3>1, HeadsOfPart
      <4> QED BY <1>7, <3>1, <4>1
    <3>3. Entries(Holes) <= lost + Cardinality(Passed)
      <4>1. ~degraded /\ ~Merging
        BY <1>1 DEF Reply
      <4>2. Shift = Cardinality(Passed) /\ NoHoles
        BY <2>4, ShiftIsPassed DEF IInv
      <4> QED BY <4>1, <4>2 DEF NoHoles, Shift
    <3>4. IsFiniteSet(Units(Holes)) /\ Cardinality(Units(Holes)) \in Nat
      <4>1. Units(Holes) \subseteq chain
        BY <1>2, <3>1 DEF Units, Heads
      <4> QED BY <1>2, <4>1, FS_Subset, FS_CardinalityType DEF Keyed
    <3>5. Cardinality(Units(Holes')) <= Cardinality(Units(Holes))
      BY <3>2, <3>4, FS_Subset
    <3>6. Cardinality(Passed) <= Cardinality(Passed') /\ Cardinality(Passed) \in Nat
      BY <1>2, <1>3, <2>4, FS_Subset, FS_CardinalityType
    <3>7. lost \in Nat
      BY DEF IInv, TypeOK
    <3> QED BY <1>3, <1>4, <1>8, <3>3, <3>4, <3>5, <3>6, <3>7
  <2> QED BY <1>1, <2>3, <2>4
<1> QED BY <1>9, <1>10

(* A page that is not full has come by all items, and none was skipped.     *)
LEMMA ShortPageNext ==
    ASSUME IInv, NEW items, NEW lo \in Nat, NEW total,
           Reply(items, Slice(items, page * limit), total), CutFrom(items, lo), TypeOK'
    PROVE  ShortPageIsLast'
<1> DEFINE n == page * limit
           W == Counted'
           data == Slice(items, n)
           skipped == Reached(Unseen(W, returned', top'), items, Upper, lo, n + limit)
           logs == Matching(path, chain)
<1>1. /\ page \in Nat /\ n \in Nat /\ limit \in Nat \ {0} /\ Upper \in Nat /\ top' \in Nat
      /\ chain' = chain /\ path' = path /\ range' = range /\ limit' = limit /\ drift' = drift
      /\ known' \subseteq chain /\ listing' = items /\ slice' = data
      /\ range # "before" \/ drift <= 0 => Upper = Highest'
  <2>1. limit \in Nat \ {0} /\ page \in Nat /\ Upper \in Nat
    BY QueryTypes DEF IInv
  <2>2. listing' = items /\ slice' = data
    BY DEF Reply
  <2> QED BY <2>1, <2>2, ReplyBounds
<1>2. /\ Keyed(chain) /\ logs \subseteq chain /\ W \subseteq chain /\ Sought(W) = Units(logs)
      /\ Passed' = In(W, (Upper + 1)..Highest')
      /\ \A x \in chain : x.block \in Nat
      /\ items \subseteq chain /\ \A x \in items : x.block >= lo
  <2>1. /\ Keyed(chain) /\ logs \subseteq chain /\ W \subseteq chain /\ Sought(W) = Units(logs)
        /\ Passed' = In(W, (Upper + 1)..Highest')
    BY CountsKept
  <2>2. items \subseteq In(W, lo..Upper)
    BY DEF CutFrom
  <2>3. items \subseteq chain /\ \A x \in items : x.block >= lo
    BY <2>1, <2>2 DEF In
  <2> QED BY <2>1, <2>3 DEF Keyed
<1>3. /\ IsFiniteSet(skipped) /\ Cardinality(skipped) \in Nat
      /\ Cardinality(skipped) <= lost' + Cardinality(Passed')
  <2> HIDE DEF skipped
  <2>1. skipped = Reached(Unseen(Counted', returned', top'), items, Upper, lo, page * limit + limit)
    BY DEF skipped
  <2> QED BY <2>1, PageSkips
<1>4. \A l : Shown(l)' <=> Seen(returned', l)
  <2>1. PerTx' <=> PerTx
    BY <1>1 DEF PerTx, Merging
  <2> QED BY <2>1 DEF Shown, Seen
<1>5. ASSUME Cardinality(data) < limit, range = "before" => drift <= 0, lost' = 0,
             NEW l \in items, l \in Asked', ~Seen(returned', l)
      PROVE  FALSE
  <2>1. \A x \in items : Rank(x, items) < n + limit
    <3>1. /\ Orders(Newer(chain), items) /\ IsFiniteSet(items)
          /\ \A x \in items : Place(Newer(chain), items, x) = Rank(x, items)
      BY <1>2, NewestFirst, FS_Subset DEF Keyed
    <3>2. data = Cut(Newer(chain), items, n, limit)
      <4> HIDE DEF n
      <4> QED BY <1>1, <1>2, SliceIsCut
    <3>3. \A x \in items : Place(Newer(chain), items, x) < n + limit
      <4> HIDE DEF n, data
      <4> QED BY <1>1, <1>5, <3>1, <3>2, CutOut
    <3> QED BY <3>1, <3>3
  <2>2. skipped = {}
    <3>1. Upper = Highest'
      BY <1>1, <1>5
    <3>2. Passed' = {}
      BY <1>1, <1>2, <3>1 DEF In
    <3>3. Cardinality(Passed') = 0
      BY <3>2, FS_EmptySet
    <3> HIDE DEF skipped
    <3> QED BY <1>3, <1>5, <3>3, FS_EmptySet
  <2>3. l \in logs /\ l.block \in 0..top' /\ l.block >= lo
    <3>1. Asked' = Matching(path, In(known', 0..top'))
      BY <1>1 DEF Asked, Matching
    <3> QED BY <1>1, <1>2, <1>5, <3>1 DEF Matching, In
  <2>4. PICK h \in Units(logs) : h = l \/ (PerTx /\ SameTx(h, l))
    <3>1. CASE PerTx
      <4>1. Keyed(logs)
        BY <1>2, KeyedPart
      <4>2. \E h \in Heads(logs) : SameTx(h, l)
        <5> HIDE DEF logs
        <5> QED BY <2>3, <4>1, HeadOf
      <4> QED BY <3>1, <4>2 DEF Units
    <3>2. CASE ~PerTx
      BY <2>3, <3>2 DEF Units
    <3> QED BY <3>1, <3>2
  <2>5. h.block = l.block /\ ~Seen(returned', h)
    BY <1>5, <2>4 DEF SameTx, Seen
  <2>6. h \in Unseen(W, returned', top')
    BY <1>2, <2>3, <2>4, <2>5 DEF Unseen, In
  <2>7. h \in skipped
    BY <2>1, <2>3, <2>5, <2>6 DEF Reached
  <2> QED BY <2>2, <2>7
<1> QED BY <1>1, <1>4, <1>5 DEF ShortPageIsLast

(* What is shown among the entries that a page came by was new, or comes    *)
(* again; and what it came by takes up all places to the page's end.        *)
LEMMA RepeatsNext ==
    ASSUME IInv, NEW items, NEW lo \in Nat, NEW total,
           Reply(items, Slice(items, page * limit), total), CutFrom(items, lo),
           TypeOK', Tallied'
    PROVE  RepeatsAreExplained'
<1> DEFINE n == page * limit
           W == Counted'
           data == Slice(items, n)
           skipped == Reached(Unseen(W, returned', top'), items, Upper, lo, n + limit)
           logs == Matching(path, chain)
           first == {x \in items : Rank(x, items) < n + limit}
           later == In(W, (top' + 1)..Highest')
<1>1. /\ page \in Nat /\ n \in Nat /\ limit \in Nat \ {0} /\ Upper \in Nat /\ top' \in Nat
      /\ lost \in Nat /\ repeats \in Nat /\ Highest' \in Nat /\ Upper <= Highest'
      /\ chain' = chain /\ path' = path /\ page' = page + 1 /\ limit' = limit
      /\ slice' = data /\ returned' = returned \cup data /\ page' > 0
      /\ repeats' = repeats + Cardinality(returned \cap data)
      /\ page > 0 => top' = top /\ Highest' = Highest
      /\ ~Merging /\ ~degraded'
  <2>1. limit \in Nat \ {0} /\ page \in Nat /\ Upper \in Nat /\ lost \in Nat /\ repeats \in Nat
    BY QueryTypes DEF IInv, TypeOK
  <2>2. /\ slice' = data /\ returned' = returned \cup data /\ ~Merging /\ ~degraded'
        /\ repeats' = repeats + Cardinality(returned \cap data)
    BY DEF Reply, CutFrom
  <2> QED BY <2>1, <2>2, ReplyBounds
<1>2. /\ Keyed(chain) /\ W \subseteq chain
      /\ ~fallen' => W = Counted /\ Sought(W) = W
      /\ Passed' = In(W, (Upper + 1)..Highest')
      /\ \A x \in chain : x.block \in Nat
      /\ items \subseteq In(W, lo..Upper) /\ items \subseteq chain
  <2>1. /\ Keyed(chain) /\ W \subseteq chain
        /\ ~fallen' => W = Counted /\ Sought(W) = W
        /\ Passed' = In(W, (Upper + 1)..Highest')
    BY CountsKept
  <2>2. items \subseteq In(W, lo..Upper)
    BY DEF CutFrom
  <2>3. items \subseteq chain
    BY <2>1, <2>2 DEF In
  <2> QED BY <2>1, <2>2, <2>3 DEF Keyed
<1>3. /\ IsFiniteSet(skipped) /\ Cardinality(skipped) \in Nat
      /\ lost' \in Nat /\ lost <= lost' /\ IsFiniteSet(Passed') /\ Cardinality(Passed') \in Nat
      /\ Cardinality(skipped) <= lost' + Cardinality(Passed')
  <2> HIDE DEF skipped
  <2>1. skipped = Reached(Unseen(Counted', returned', top'), items, Upper, lo, page * limit + limit)
    BY DEF skipped
  <2> QED BY <2>1, PageSkips
<1>4. Offsets(In(chain, (top + 1)..Highest))' = Cardinality(later)
  <2>1. (Offsets(In(chain, (top + 1)..Highest)) =
            Cardinality(In(Counted, (top + 1)..Highest)))'
    BY LaterEntries, PTL
  <2> QED BY <2>1
<1> SUFFICES ASSUME ~fallen' PROVE repeats' <= lost' + Cardinality(later)
  BY <1>4 DEF RepeatsAreExplained
<1>5. IsFiniteSet(later) /\ Cardinality(later) \in Nat
  <2>1. later \subseteq chain
    BY <1>2 DEF In
  <2> HIDE DEF later
  <2> QED BY <1>2, <2>1, FS_Subset, FS_CardinalityType DEF Keyed
<1>6. CASE data = {}
  <2>1. repeats' = repeats
    BY <1>1, <1>6, FS_EmptySet
  <2>2. CASE page = 0
    <3>1. repeats = 0
      BY <2>2 DEF IInv, Begun
    <3> QED BY <1>3, <1>5, <2>1, <3>1
  <2>3. CASE page > 0
    <3>1. ~fallen
      BY DEF CutFrom
    <3>2. repeats <= lost + Cardinality(In(Counted, (top + 1)..Highest))
      BY <1>1, <2>3, <3>1, OffsetsAreEntries DEF IInv, RepeatsAreExplained
    <3>3. In(Counted, (top + 1)..Highest) = later
      BY <1>1, <1>2, <2>3
    <3> QED BY <1>1, <1>3, <1>5, <2>1, <3>2, <3>3
  <2> QED BY <1>1, <2>2, <2>3
<1>7. CASE data # {}
  <2>1. repeats' + Cardinality(returned') = n + Cardinality(data)
    <3>1. repeats' + Cardinality(returned') = (page' - 1) * limit + Cardinality(data)
      BY <1>1 DEF Tallied
    <3> QED BY <1>1, <3>1
  <2>2. /\ IsFiniteSet(data) /\ Cardinality(data) \in Nat
        /\ Cardinality(first) = n + Cardinality(data)
    <3>1. /\ Orders(Newer(chain), items) /\ IsFiniteSet(items)
          /\ \A x \in items : Place(Newer(chain), items, x) = Rank(x, items)
      BY <1>2, NewestFirst, FS_Subset DEF Keyed
    <3>2. data = Cut(Newer(chain), items, n, limit)
      <4> HIDE DEF n
      <4> QED BY <1>1, <1>2, SliceIsCut
    <3>3. first = UpTo(Newer(chain), items, n + limit)
      BY <3>1 DEF UpTo
    <3> HIDE DEF n, data, first
    <3> QED BY <1>1, <1>7, <3>1, <3>2, <3>3, CutOut
  <2>3. IsFiniteSet(first) /\ IsFiniteSet(returned') /\ Cardinality(returned') \in Nat
    <3>1. first \subseteq chain /\ returned' \subseteq chain
      BY <1>1, <1>2 DEF TypeOK
    <3> HIDE DEF first
    <3> QED BY <1>2, <3>1, FS_Subset, FS_CardinalityType DEF Keyed
  <2>4. Passed' \cap first = {}
    BY <1>1, <1>2 DEF In
  <2>5. Cardinality(Passed' \cup first) = Cardinality(Passed') + n + Cardinality(data)
    <3> HIDE DEF first, n, data
    <3> QED BY <1>1, <1>3, <2>2, <2>3, <2>4, AtMostTheSum
  <2>6. ASSUME NEW x \in Passed' \cup first, x \notin later, x \notin skipped
        PROVE  x \in returned'
    <3>1. x \in W /\ x \in chain /\ x.block \in Nat /\ x.block <= Highest' /\ x \in Sought(W)
      BY <1>1, <1>2 DEF In
    <3>2. x.block \in 0..top'
      BY <1>1, <2>6, <3>1 DEF In
    <3>3. \/ x.block > Upper
          \/ x.block >= lo /\ (x \in items => Rank(x, items) < n + limit)
      BY <1>1, <1>2 DEF In
    <3>4. Seen(returned', x)
      <4> SUFFICES ASSUME ~Seen(returned', x) PROVE x \in skipped
        BY <2>6
      <4>1. x \in Unseen(W, returned', top')
        BY <3>1, <3>2 DEF Unseen, In
      <4> QED BY <3>3, <4>1 DEF Reached
    <3>5. ASSUME PerTx, NEW l \in returned', SameTx(l, x)
          PROVE  l = x
      <4>1. l \in W /\ l \in chain
        BY <1>1, <1>2 DEF Tallied, Merging
      <4>2. W = Heads(logs)
        <5>1. W = Counted /\ ~fallen
          BY <1>2 DEF CutFrom
        <5> QED BY <3>5, <5>1 DEF Counted, ByTx, Way
      <4>3. ~Before(l, x) /\ ~Before(x, l)
        BY <3>1, <3>5, <4>1, <4>2 DEF Heads, SameTx
      <4>4. /\ Orders(Newer(chain), chain)
            /\ \A y, z \in chain : <<y, z>> \in Newer(chain) <=> Before(y, z)
        BY <1>2, NewestFirst
      <4> QED BY <3>1, <4>1, <4>3, <4>4 DEF Orders
    <3> QED BY <3>4, <3>5 DEF Seen
  <2>7. Cardinality(Passed' \cup first) <= Cardinality(later) + Cardinality(skipped) + Cardinality(returned')
    <3> HIDE DEF first, later, skipped
    <3>1. (Passed' \cup first) \subseteq (later \cup skipped) \cup returned'
      BY <2>6
    <3>2. /\ IsFiniteSet(later \cup skipped) /\ Cardinality(later \cup skipped) \in Nat
          /\ Cardinality(later \cup skipped) <= Cardinality(later) + Cardinality(skipped)
      BY <1>3, <1>5, AtMostTheSum
    <3>3. /\ IsFiniteSet((later \cup skipped) \cup returned')
          /\ Cardinality((later \cup skipped) \cup returned') \in Nat
          /\ Cardinality((later \cup skipped) \cup returned') <=
                Cardinality(later \cup skipped) + Cardinality(returned')
      BY <2>3, <3>2, AtMostTheSum
    <3>4. /\ Cardinality(Passed' \cup first) <= Cardinality((later \cup skipped) \cup returned')
          /\ Cardinality(Passed' \cup first) \in Nat
      BY <3>1, <3>3, FS_Subset, FS_CardinalityType
    <3> QED BY <1>3, <1>5, <2>3, <3>2, <3>3, <3>4
  <2>8. repeats' \in Nat
    BY DEF TypeOK
  <2> HIDE DEF first, later, skipped, n, data
  <2> QED BY <1>1, <1>3, <1>5, <2>1, <2>2, <2>3, <2>5, <2>7, <2>8
<1> QED BY <1>6, <1>7

(* A page that is cut out of items down to block lo keeps the invariant:    *)
(* what the three sources of a page have in common.                         *)
LEMMA PageKeeps ==
    ASSUME IInv, NEW items \in SUBSET chain, NEW total,
           Reply(items, Slice(items, page * limit), total), ~Merging,
           lost' \in Nat, fallen' \in BOOLEAN, degraded' \in BOOLEAN,
           fallen' => path \in {"explorer", "viewingKey"}, degraded' => fallen',
           ~degraded' => \E lo \in Nat : CutFrom(items, lo)
    PROVE  IInv'
<1> DEFINE n == page * limit
           data == Slice(items, n)
<1>1. /\ limit \in Nat \ {0} /\ page \in Nat /\ n \in Nat /\ Keyed(chain) /\ IsFiniteSet(chain)
      /\ Cardinality(chain) \in Nat /\ limit \in Nat
  <2>1. limit \in Nat \ {0} /\ page \in Nat
    BY QueryTypes DEF IInv
  <2>2. Keyed(chain)
    BY ChainIsKeyed DEF IInv
  <2>3. IsFiniteSet(chain)
    BY <2>2 DEF Keyed
  <2> QED BY <2>1, <2>2, <2>3, FS_CardinalityType
<1>2. /\ data \subseteq items /\ Cardinality(data) <= limit
      /\ Cardinality(data) = limit => n < Cardinality(chain)
  <2>1. Orders(Newer(chain), items) /\ IsFiniteSet(items)
        /\ Cardinality(items) <= Cardinality(chain) /\ Cardinality(items) \in Nat
    BY <1>1, NewestFirst, FS_Subset, FS_CardinalityType
  <2>2. data = Cut(Newer(chain), items, n, limit)
    <3> HIDE DEF n
    <3> QED BY <1>1, SliceIsCut
  <2>3. Cardinality(data) <= limit /\ (data # {} => n < Cardinality(items))
    <3> HIDE DEF n, data
    <3> QED BY <1>1, <2>1, <2>2, CutOut
  <2>4. Cardinality(data) = limit => data # {}
    BY <1>1, FS_EmptySet
  <2> HIDE DEF n
  <2> QED BY <1>1, <2>1, <2>3, <2>4 DEF Slice
<1>3. ASSUME ~degraded' PROVE \E lo \in Nat : CutFrom(items, lo)
  BY <1>3
<1>4. ASSUME ~fallen' PROVE Counted' = Counted /\ ~fallen /\ data \subseteq Counted
  <2>1. PICK lo \in Nat : CutFrom(items, lo)
    BY <1>4
  <2>2. Counted' = Counted
    BY <1>4, <2>1, CountsKept
  <2>3. items \subseteq Counted'
    BY <2>1 DEF CutFrom, In
  <2> HIDE DEF data
  <2> QED BY <1>2, <1>4, <2>1, <2>2, <2>3 DEF CutFrom
<1>5. TypeOK' /\ Chained' /\ Begun' /\ Tallied'
  <2> HIDE DEF data
  <2>1. data \in SUBSET items /\ Reply(items, data, total)
    BY <1>2 DEF data
  <2> QED BY <1>2, <1>4, <2>1, ReplyTypes
<1>6. CASE degraded'
  BY <1>5, <1>6 DEF IInv, NoHoles, Sparse, ShortPageIsLast, RepeatsAreExplained
<1>7. CASE ~degraded'
  <2>1. PICK lo \in Nat : CutFrom(items, lo)
    BY <1>7
  <2>2. Sparse'
    BY <2>1, SparseNext
  <2>3. NoHoles'
    BY <1>5, <2>1, NoHolesNext
  <2>4. ShortPageIsLast'
    BY <1>5, <2>1, ShortPageNext
  <2>5. RepeatsAreExplained'
    BY <1>5, <2>1, RepeatsNext
  <2> QED BY <1>5, <2>2, <2>3, <2>4, <2>5 DEF IInv
<1> QED BY <1>6, <1>7

(* Logs are listed whole, by the filters of kind k.                         *)
LEMMA TakeLogsInv ==
    ASSUME IInv, ~Merging, NEW k \in {"erc20", "src20", "viewingKey"}, TakeLogs(k),
           k = IF fallen' THEN StandIn ELSE path,
           fallen' \in BOOLEAN, fallen => fallen',
           fallen' => path \in {"explorer", "viewingKey"}
    PROVE  IInv'
<1> DEFINE items == Listing(k, page * limit)
<1>1. /\ lost' = lost /\ degraded' = degraded /\ ~degraded
      /\ Reply(items, Slice(items, page * limit), Cardinality(items))
  BY DEF TakeLogs, Reply
<1>2. chain' = chain /\ path' = path /\ range' = range
  BY <1>1, ReplyBounds
<1>3. PICK lo \in Nat :
          items = In(IF k = "viewingKey" THEN Heads(Matching(k, chain))
                                         ELSE Matching(k, chain), lo..Upper)
  BY LogsListing DEF IInv
<1>4. Counted' = IF k = "viewingKey" THEN Heads(Matching(k, chain)) ELSE Matching(k, chain)
  <2>1. PerTx /\ ~fallen' <=> k = "viewingKey"
    BY DEF PerTx, StandIn
  <2>2. Counted' = IF PerTx /\ ~fallen' THEN Heads(Matching(path, chain))
                   ELSE Matching(IF fallen' THEN StandIn ELSE path, chain)
    BY <1>2, CountedNext
  <2> QED BY <2>1, <2>2
<1>5. items = In(Counted', lo..Upper)
  BY <1>3, <1>4
<1>6. items \subseteq chain
  BY <1>3 DEF In, Heads, Matching
<1>7. lost \in Nat /\ degraded \in BOOLEAN
  BY DEF IInv, TypeOK
<1> HIDE DEF items
<1>8. CutFrom(items, lo)
  <2>1. In(Counted', lo..Upper) \ items = {}
    BY <1>5
  <2>2. Cardinality(In(Counted', lo..Upper) \ items) = 0
    BY <2>1, FS_EmptySet
  <2> QED BY <1>1, <1>5, <1>7, <2>2 DEF CutFrom
<1> QED BY <1>1, <1>6, <1>7, <1>8, PageKeeps

LEMMA LogsPageInv == ASSUME IInv, LogsPage PROVE IInv'
<1>1. /\ path \in {"erc20", "src20", "viewingKey"} /\ ~fallen /\ fallen' = fallen
      /\ TakeLogs(path)
  BY DEF LogsPage
<1>2. ~Merging /\ fallen \in BOOLEAN
  BY <1>1 DEF Merging, IInv, TypeOK
<1> QED BY <1>1, <1>2, TakeLogsInv

LEMMA StandInPageInv == ASSUME IInv, StandInPage PROVE IInv'
<1>1. path \in {"explorer", "viewingKey"} /\ fallen' = TRUE /\ TakeLogs(StandIn)
  BY DEF StandInPage
<1>2. ~Merging /\ StandIn \in {"erc20", "src20", "viewingKey"}
  BY <1>1 DEF Merging, StandIn
<1> QED BY <1>1, <1>2, TakeLogsInv

(* The explorer's transactions are listed but for those that it cut off.    *)
LEMMA ExplorerPageInv == ASSUME IInv, ExplorerPage PROVE IInv'
<1> DEFINE items == Listing("explorer", page * limit)
           cutOff == CutOff(page * limit + limit)
           total == Cardinality(Slice(items, page * limit))
<1>1. /\ path = "explorer" /\ fallen' = fallen
      /\ lost' = lost + Cardinality(cutOff) /\ degraded' = fallen
      /\ Reply(items, Slice(items, page * limit), total)
  BY DEF ExplorerPage
<1>2. chain' = chain /\ path' = path /\ range' = range
  BY <1>1, ReplyBounds
<1>3. Keyed(chain) /\ lost \in Nat /\ fallen \in BOOLEAN
  BY ChainIsKeyed DEF IInv, TypeOK
<1>4. PICK lo \in Nat :
          LET all == In(Heads(Matching("explorer", chain)), lo..Upper) IN
          items \subseteq all /\ cutOff = all \ items
  BY <1>3, ExplorerListing DEF IInv
<1> DEFINE all == In(Heads(Matching("explorer", chain)), lo..Upper)
<1>5. items \subseteq all /\ cutOff = all \ items /\ all \subseteq chain
  BY <1>4 DEF In, Heads, Matching
<1>6. IsFiniteSet(cutOff) /\ Cardinality(cutOff) \in Nat
  <2>1. cutOff \subseteq chain
    BY <1>5
  <2> HIDE DEF cutOff
  <2> QED BY <1>3, <2>1, FS_Subset, FS_CardinalityType DEF Keyed
<1>7. ASSUME ~fallen PROVE CutFrom(items, lo)
  <2>1. Counted' = Heads(Matching("explorer", chain))
    BY <1>1, <1>2, <1>7, CountedNext DEF PerTx
  <2> HIDE DEF items, cutOff
  <2> QED BY <1>1, <1>3, <1>5, <1>7, <2>1 DEF CutFrom, Merging
<1>8. items \in SUBSET chain /\ lost' \in Nat
  <2> HIDE DEF items, cutOff, all
  <2> QED BY <1>1, <1>3, <1>5, <1>6
<1> HIDE DEF items, cutOff, total
<1>9. Reply(items, Slice(items, page * limit), total) /\ ~Merging
  BY <1>1 DEF Merging
<1>10. /\ fallen' \in BOOLEAN /\ degraded' \in BOOLEAN
       /\ degraded' => fallen'
       /\ fallen' => path \in {"explorer", "viewingKey"}
  BY <1>1, <1>3
<1>11. ~degraded' => \E l \in Nat : CutFrom(items, l)
  BY <1>1, <1>7
<1> QED BY <1>8, <1>9, <1>10, <1>11, PageKeeps

-----------------------------------------------------------------------------
(* Type "all".                                                              *)

(* Every source lists logs of the chain.                                    *)
LEMMA ListingInChain ==
    ASSUME NEW k, NEW offset
    PROVE  Listing(k, offset) \subseteq chain
<1>1. Matching(k, chain) \subseteq chain /\ Matching("explorer", chain) \subseteq chain
  BY DEF Matching
<1>2. \A logs, start, floor, needed : Found(logs, start, floor, needed) \subseteq logs
  BY DEF Found, In
<1>3. \A logs : Heads(logs) \subseteq logs
  BY DEF Heads
<1>4. \A logs, start : Rows(logs, start) \subseteq logs
  BY DEF Rows
<1>5. \A logs, blocks : In(logs, blocks) \subseteq logs
  BY DEF In
<1> DEFINE logs == Matching(k, chain)
           start == IF range = "pinned" THEN latest ELSE Upper
           scan == Found(logs, start, Floor, offset + limit)
           rows == Rows(logs, Upper)
           found == Found(Heads(rows), Upper, Floor, offset + limit)
<1>6. \/ Listing(k, offset) = found
      \/ Listing(k, offset) \in {In(logs, 0..Upper), scan}
      \/ Listing(k, offset) \in {Heads(In(logs, 0..Upper)), Heads(scan)}
  BY DEF Listing
<1>7. found \subseteq chain /\ scan \subseteq chain /\ In(logs, 0..Upper) \subseteq chain
  <2>1. rows \subseteq logs /\ Heads(rows) \subseteq rows /\ found \subseteq Heads(rows)
    BY <1>2, <1>3, <1>4
  <2>2. scan \subseteq logs /\ In(logs, 0..Upper) \subseteq logs
    BY <1>2, <1>5
  <2> HIDE DEF found, scan, rows
  <2> QED BY <1>1, <2>1, <2>2
<1> HIDE DEF found, scan, logs
<1> QED BY <1>3, <1>6, <1>7

(* The source that an entry of the merged page comes from: the first one    *)
(* whose page shows its transaction.                                        *)
From(l, i, offset, up) ==
    /\ l \in Heads(PageOf(i, offset, up))
    /\ \A j \in 1..(i - 1) : \A m \in PageOf(j, offset, up) : ~SameTx(l, m)
Source(l, offset, up) ==
    CHOOSE i \in DOMAIN Sources :
        /\ l \in PageOf(i, offset, up)
        /\ \A j \in 1..(i - 1) : l \notin PageOf(j, offset, up)
Ahead(m, l, offset, up) ==
    \/ m.block > l.block
    \/ m.block = l.block /\ Source(m, offset, up) < Source(l, offset, up)
    \/ m.block = l.block /\ Source(m, offset, up) = Source(l, offset, up) /\ Before(m, l)
MergedOrder(items, offset, up) ==
    {p \in items \X items : Ahead(p[1], p[2], offset, up)}

(* So does every page.                                                      *)
LEMMA PagesInChain ==
    ASSUME NEW i, NEW offset, NEW up
    PROVE  PageOf(i, offset, up) \subseteq chain
BY ListingInChain DEF PageOf, Slice

(* An entry of the merged page comes from one of the three sources.         *)
LEMMA MergedFrom ==
    ASSUME NEW offset, NEW up
    PROVE  /\ DOMAIN Sources = 1..3
           /\ \A l \in Merged(offset, up) : \E i \in 1..3 : From(l, i, offset, up)
           /\ \A l, i : i \in 1..3 /\ From(l, i, offset, up) => l \in Merged(offset, up)
           /\ Merged(offset, up) \subseteq chain
<1>1. DOMAIN Sources = 1..3
  BY DEF Sources
<1>2. \A l : l \in Merged(offset, up) <=> \E i \in DOMAIN Sources : From(l, i, offset, up)
  BY DEF Merged, From
<1>3. \A l, i : From(l, i, offset, up) => l \in chain
  BY PagesInChain DEF From, Heads
<1> QED BY <1>1, <1>2, <1>3

(* The source that FirstPages finds for an entry is the one it was merged   *)
(* from.                                                                    *)
LEMMA SourceIsFrom ==
    ASSUME NEW offset, NEW up, NEW l, NEW i \in 1..3, From(l, i, offset, up)
    PROVE  Source(l, offset, up) = i
<1> DEFINE in(j) == /\ l \in PageOf(j, offset, up)
                    /\ \A k \in 1..(j - 1) : l \notin PageOf(k, offset, up)
<1>1. DOMAIN Sources = 1..3
  BY MergedFrom
<1>2. in(i)
  <2>1. SameTx(l, l)
    BY DEF SameTx
  <2>2. l \in PageOf(i, offset, up)
    BY DEF From, Heads
  <2>3. \A k \in 1..(i - 1) : l \notin PageOf(k, offset, up)
    BY <2>1 DEF From
  <2> QED BY <2>2, <2>3
<1>3. \A j \in 1..3 : in(j) => j = i
  BY <1>2
<1> HIDE DEF in
<1>4. (CHOOSE j \in 1..3 : in(j)) = i
  BY <1>2, <1>3
<1> QED BY <1>1, <1>4 DEF Source, in

(* The merged page is ordered, and its first places are what is returned.   *)
LEMMA MergedIsOrdered ==
    ASSUME Keyed(chain), NEW offset, NEW up
    PROVE  LET items == Merged(offset, up)
               R == MergedOrder(items, offset, up) IN
           /\ Orders(R, items) /\ IsFiniteSet(items)
           /\ FirstPages(items, offset, up) = UpTo(R, items, limit)
           /\ FirstPages(items, offset, up) \subseteq items
<1> DEFINE items == Merged(offset, up)
           R == MergedOrder(items, offset, up)
           src(l) == Source(l, offset, up)
<1>1. items \subseteq chain /\ IsFiniteSet(items)
  BY MergedFrom, FS_Subset DEF Keyed
<1>2. \A l \in items : src(l) \in 1..3 /\ l.block \in Nat
  BY <1>1, MergedFrom, SourceIsFrom DEF Keyed
<1>3. \A x, y \in items : <<x, y>> \in R <=> Ahead(x, y, offset, up)
  BY DEF MergedOrder
<1>4. /\ \A x \in chain : ~Before(x, x)
      /\ \A x, y \in chain : x = y \/ Before(x, y) \/ Before(y, x)
      /\ \A x, y, z \in chain : Before(x, y) /\ Before(y, z) => Before(x, z)
  <2>1. /\ Orders(Newer(chain), chain)
        /\ \A x, y \in chain : <<x, y>> \in Newer(chain) <=> Before(x, y)
    BY NewestFirst
  <2> QED BY <2>1 DEF Orders
<1>5. Orders(R, items)
  <2> HIDE DEF items, R, src
  <2>1. \A x \in items : ~Ahead(x, x, offset, up)
    BY <1>1, <1>2, <1>4 DEF Ahead, src
  <2>2. \A x, y \in items : x = y \/ Ahead(x, y, offset, up) \/ Ahead(y, x, offset, up)
    BY <1>1, <1>2, <1>4 DEF Ahead, src
  <2>3. \A x, y, z \in items : Ahead(x, y, offset, up) /\ Ahead(y, z, offset, up) => Ahead(x, z, offset, up)
    BY <1>1, <1>2, <1>4 DEF Ahead, src
  <2> QED BY <1>3, <2>1, <2>2, <2>3 DEF Orders
<1>6. FirstPages(items, offset, up) =
          {l \in items : Cardinality({m \in items : Ahead(m, l, offset, up)}) < limit}
  BY DEF FirstPages, Ahead, Source
<1>7. \A l \in items : Place(R, items, l) = Cardinality({m \in items : Ahead(m, l, offset, up)})
  <2> HIDE DEF items, R
  <2> TAKE l \in items
  <2>1. {m \in items : <<m, l>> \in R} = {m \in items : Ahead(m, l, offset, up)}
    BY <1>3
  <2> QED BY <2>1 DEF Place
<1>8. FirstPages(items, offset, up) = UpTo(R, items, limit)
  BY <1>6, <1>7 DEF UpTo
<1>9. FirstPages(items, offset, up) \subseteq items
  BY <1>6
<1> QED BY <1>1, <1>5, <1>8, <1>9

(* A merged page is no longer than asked for; if it is not empty then a     *)
(* source has more than offset transfers.                                   *)
LEMMA MergedPage ==
    ASSUME TypeOK, Keyed(chain), NEW offset \in Nat, NEW up
    PROVE  LET data == FirstPages(Merged(offset, up), offset, up) IN
           /\ Cardinality(data) <= limit
           /\ Cardinality(data) = limit => offset < Cardinality(chain)
<1> DEFINE items == Merged(offset, up)
           R == MergedOrder(items, offset, up)
           data == FirstPages(items, offset, up)
<1>1. limit \in Nat \ {0} /\ limit \in Nat /\ limit - 0 = limit
  BY QueryTypes
<1>2. /\ Orders(R, items) /\ IsFiniteSet(items) /\ data = UpTo(R, items, limit)
      /\ data \subseteq items
  BY MergedIsOrdered
<1>3. \A x \in data : 0 <= Place(R, items, x) /\ Place(R, items, x) < limit
  <2> HIDE DEF items, R, data
  <2>1. \A x \in items : Place(R, items, x) \in Nat
    BY <1>2, PlaceInSubset
  <2> QED BY <1>2, <2>1 DEF UpTo
<1>4. Cardinality(data) <= limit
  <2> HIDE DEF items, R, data
  <2>1. 0 \in Int /\ limit \in Int /\ 0 <= limit /\ data \in SUBSET items
    BY <1>1, <1>2
  <2>2. Cardinality(data) <= limit - 0
    BY <1>2, <1>3, <2>1, PlacesDiffer
  <2> QED BY <1>1, <2>2
<1>5. ASSUME Cardinality(data) = limit PROVE offset < Cardinality(chain)
  <2>1. data # {}
    BY <1>1, <1>5, FS_EmptySet
  <2>2. PICK l \in items : TRUE
    BY <1>2, <2>1
  <2>3. PICK i \in 1..3 : From(l, i, offset, up)
    BY MergedFrom
  <2> DEFINE listed == Listing(Sources[i], offset)
  <2>4. l \in Slice(listed, offset)
    BY <2>3 DEF From, Heads, PageOf
  <2>5. listed \subseteq chain
    BY ListingInChain
  <2> HIDE DEF listed
  <2>6. Orders(Newer(chain), listed) /\ IsFiniteSet(listed) /\ Cardinality(listed) \in Nat
        /\ Cardinality(listed) <= Cardinality(chain) /\ Cardinality(chain) \in Nat
    BY <2>5, NewestFirst, FS_Subset, FS_CardinalityType DEF Keyed
  <2>7. Cut(Newer(chain), listed, offset, limit) # {}
    BY <1>1, <2>4, <2>5, SliceIsCut
  <2>8. Cardinality(listed) > offset
    BY <1>1, <2>6, <2>7, CutOut
  <2> QED BY <2>6, <2>8
<1> QED BY <1>4, <1>5

(* What a source's page holds before an entry that it has given to the      *)
(* merged page is shown in the merged page too.                             *)
LEMMA MergedShows ==
    ASSUME Keyed(chain), limit \in Nat, NEW offset, NEW up, NEW l, NEW i \in 1..3,
           From(l, i, offset, up), l \in FirstPages(Merged(offset, up), offset, up),
           NEW m \in PageOf(i, offset, up), Before(m, l)
    PROVE  \E h \in FirstPages(Merged(offset, up), offset, up) : SameTx(h, m)
<1> DEFINE items == Merged(offset, up)
           R == MergedOrder(items, offset, up)
           data == FirstPages(items, offset, up)
           has(j) == \E x \in PageOf(j, offset, up) : SameTx(x, m)
           having == {j \in 1..3 : has(j)}
<1>1. i \in having
  BY DEF SameTx
<1>2. PICK j \in having : \A k \in having : j <= k
  <2>1. having \in SUBSET Nat /\ having # {}
    BY <1>1
  <2> HIDE DEF having
  <2> QED BY <2>1, LeastNatural
<1>3. j \in 1..3 /\ j <= i /\ \A k \in 1..(j - 1) : \A x \in PageOf(k, offset, up) : ~SameTx(x, m)
  BY <1>1, <1>2
<1>4. PICK x \in PageOf(j, offset, up) : SameTx(x, m) /\ (j = i => x = m)
  BY <1>2 DEF SameTx
<1>5. PICK h \in Heads(PageOf(j, offset, up)) : SameTx(h, x) /\ (h = x \/ Before(h, x))
  <2>1. Keyed(PageOf(j, offset, up))
    BY PagesInChain, KeyedPart
  <2> QED BY <2>1, HeadOf
<1>6. SameTx(h, m)
  BY <1>4, <1>5 DEF SameTx
<1>7. From(h, j, offset, up)
  <2>1. \A k \in 1..(j - 1) : \A y \in PageOf(k, offset, up) : ~SameTx(h, y)
    BY <1>3, <1>6 DEF SameTx
  <2> QED BY <2>1 DEF From
<1>8. h \in items /\ l \in items /\ items \subseteq chain
      /\ Source(h, offset, up) = j /\ Source(l, offset, up) = i
  BY <1>3, <1>7, MergedFrom, SourceIsFrom
<1>9. Ahead(h, l, offset, up)
  <2>1. h.block = m.block /\ m \in chain /\ h \in chain /\ l \in chain
    BY <1>6, <1>8, PagesInChain DEF SameTx
  <2>2. h.block \in Nat /\ l.block \in Nat /\ m.block >= l.block
    BY <2>1 DEF Keyed, Before
  <2>3. CASE h.block > l.block
    BY <2>3 DEF Ahead
  <2>4. CASE h.block = l.block /\ j < i
    BY <1>8, <2>4 DEF Ahead
  <2>5. CASE h.block = l.block /\ j = i
    <3>1. h = m \/ Before(h, m)
      BY <1>4, <1>5, <2>5
    <3>2. /\ Orders(Newer(chain), chain)
          /\ \A y, z \in chain : <<y, z>> \in Newer(chain) <=> Before(y, z)
      BY NewestFirst
    <3>3. Before(h, l)
      BY <2>1, <3>1, <3>2 DEF Orders
    <3> QED BY <1>8, <2>5, <3>3 DEF Ahead
  <2> QED BY <1>3, <2>1, <2>2, <2>3, <2>4, <2>5
<1>10. /\ Orders(R, items) /\ IsFiniteSet(items) /\ data = UpTo(R, items, limit)
  BY MergedIsOrdered
<1>11. Place(R, items, h) < Place(R, items, l)
  <2>1. <<h, l>> \in R
    BY <1>8, <1>9 DEF MergedOrder
  <2> HIDE DEF items, R
  <2> QED BY <1>8, <1>10, <2>1, PlaceGrows
<1>12. h \in data
  <2>1. Place(R, items, h) \in Nat /\ Place(R, items, l) \in Nat
    <3> HIDE DEF items, R
    <3> QED BY <1>10, PlaceInSubset
  <2>2. l \in UpTo(R, items, limit)
    BY <1>10
  <2> HIDE DEF items, R, data
  <2>3. Place(R, items, l) < limit
    BY <2>2 DEF UpTo
  <2>4. Place(R, items, h) < limit
    BY <1>11, <2>1, <2>3
  <2> QED BY <1>8, <1>10, <2>4 DEF UpTo
<1> QED BY <1>6, <1>12

(* A source lists what is asked for, of the same kind as one of its         *)
(* transfers and newer than it, or an earlier log of the transaction, but   *)
(* for what the explorer has cut off.                                       *)
LEMMA ListsWhatIsNewer ==
    ASSUME TypeOK, Keyed(chain), Merging, page = 0, NEW offset,
           NEW i \in 1..3, NEW l \in Listing(Sources[i], offset),
           NEW h \in Matching(path, chain), h.topic = l.topic, h.block >= l.block, h.block <= Upper,
           \A g \in Listing(Sources[i], offset) : ~(SameTx(g, h) /\ (g = h \/ Before(g, h)))
    PROVE  /\ h \in Matching("explorer", chain)
           /\ h \in Heads(Matching("explorer", chain)) => h \in CutOff(offset + limit)
<1>1. /\ Upper \in Nat /\ Floor \in Nat /\ latest \in Nat /\ range \in Ranges
      /\ range = "pinned" => Upper = latest
  BY QueryTypes DEF Upper
<1>2. /\ l \in chain /\ h \in chain /\ h.block \in Nat /\ l.block \in Nat
      /\ h \notin Listing(Sources[i], offset)
  <2>1. l \in chain /\ h \in chain
    BY ListingInChain DEF Matching
  <2> QED BY <2>1 DEF Keyed, SameTx
<1>3. CASE Sources[i] \in {"susdc", "src20", "susdcKeyed", "viewingKey"}
  <2> DEFINE k == Sources[i]
             logs == Matching(k, chain)
  <2>1. PICK lo \in Nat : Found(logs, Upper, Floor, offset + limit) = In(logs, lo..Upper)
    BY <1>1, FoundIsRange
  <2> DEFINE keyed == k \in {"susdcKeyed", "viewingKey"}
             scan == In(logs, lo..Upper)
  <2>2. Listing(k, offset) = IF keyed THEN Heads(scan) ELSE scan
    <3>1. Found(logs, IF range = "pinned" THEN latest ELSE Upper, Floor, offset + limit) = scan
      BY <1>1, <2>1
    <3> QED BY <1>3, <3>1 DEF Listing
  <2>3. l \in logs /\ l.block >= lo
    BY <2>2 DEF In, Heads
  <2>4. h \in logs
    <3>1. k \in (IF path = "allKeyed" THEN {"susdcKeyed", "viewingKey"} ELSE {"susdc", "src20"})
      BY <1>3 DEF Sources
    <3> QED BY <2>3, <3>1 DEF Matching, Matches, Merging
  <2>5. h \in scan
    <3>1. h.block \in lo..Upper
      BY <1>1, <1>2, <2>3
    <3> QED BY <2>4, <3>1 DEF In
  <2>6. CASE keyed
    <3>1. Keyed(scan)
      BY KeyedPart DEF In, Matching
    <3>2. \E g \in Heads(scan) : SameTx(g, h) /\ (g = h \/ Before(g, h))
      <4> HIDE DEF scan
      <4> QED BY <2>5, <3>1, HeadOf
    <3> QED BY <2>2, <2>6, <3>2
  <2> QED BY <1>2, <2>2, <2>5, <2>6
<1>4. CASE Sources[i] = "explorer"
  <2> DEFINE logs == Matching("explorer", chain)
  <2>1. PICK lo \in Nat :
            LET all == In(Heads(logs), lo..Upper) IN
            /\ Listing("explorer", offset) \subseteq all
            /\ CutOff(offset + limit) = all \ Listing("explorer", offset)
    BY ExplorerListing
  <2>2. l \in In(Heads(logs), lo..Upper)
    BY <1>4, <2>1
  <2>3. l \in logs /\ l.block >= lo
    BY <2>2 DEF In, Heads
  <2>4. h \in logs
    BY <2>3 DEF Matching, Matches
  <2>5. h \in Heads(logs) => h \in In(Heads(logs), lo..Upper)
    <3>1. h.block \in lo..Upper
      BY <1>1, <1>2, <2>3
    <3> QED BY <3>1 DEF In
  <2> QED BY <1>2, <1>4, <2>1, <2>4, <2>5
<1>5. Sources[i] \in {"susdc", "src20", "susdcKeyed", "viewingKey", "explorer"}
  BY DEF Sources
<1> QED BY <1>3, <1>4, <1>5

(* The first page of type "all": a hole is a transaction that the explorer  *)
(* has cut off.                                                             *)
LEMMA AllHolesNext ==
    ASSUME IInv, NEW up, AllPage(up), page = 0, ~degraded', TypeOK'
    PROVE  Heads(Holes') \subseteq CutOff(page * limit + limit)
<1> DEFINE offset == page * limit
           items == Merged(offset, up)
           data == FirstPages(items, offset, up)
<1>1. /\ Merging /\ up = DOMAIN Sources
      /\ Reply(items, data, Cardinality(items))
  BY DEF AllPage
<1>2. /\ chain' = chain /\ path' = path /\ range' = range
      /\ top' = Upper /\ known' = chain /\ Upper \in Nat
  <2>1. known' = chain
    BY <1>1 DEF Reply
  <2>2. Upper \in Nat
    BY QueryTypes DEF IInv
  <2> HIDE DEF items, data
  <2> QED BY <1>1, <2>1, <2>2, ReplyBounds
<1>3. returned' = data
  <2>1. returned = {}
    BY DEF IInv, Begun
  <2> QED BY <1>1, <2>1 DEF Reply
<1>4. Keyed(chain) /\ limit \in Nat \ {0} /\ limit \in Nat /\ offset = 0
  <2>1. limit \in Nat \ {0}
    BY QueryTypes DEF IInv
  <2> QED BY <2>1, ChainIsKeyed DEF IInv
<1>5. /\ \A m : Shown(m)' <=> (m \in data \/ \E l \in data : SameTx(l, m))
      /\ \A l, m : Before(m, l)' <=> Before(m, l)
  <2>1. PerTx' /\ FirstDir' = FirstDir
    BY <1>1, <1>2 DEF PerTx, Merging, FirstDir
  <2> HIDE DEF data
  <2>2. \A m : Shown(m)' <=> (m \in returned' \/ \E l \in returned' : SameTx(l, m))
    BY <2>1 DEF Shown
  <2>3. \A l, m : Before(m, l)' <=> Before(m, l)
    BY <2>1 DEF Before
  <2> QED BY <1>3, <2>2, <2>3
<1>6. Holes' = {m \in In(Matching(path, chain), 0..Upper) :
                   /\ ~\E l \in data : SameTx(l, m)
                   /\ \E l \in data \cap chain : Before(m, l) /\ m.topic = l.topic}
  <2>1. Asked' = In(Matching(path, chain), 0..Upper)
    BY <1>2 DEF Asked, Matching, Matches, In
  <2>2. \A m : SameTx(m, m)
    BY DEF SameTx
  <2>3. Holes' = {m \in Asked' : ~Shown(m)' /\ \E l \in returned' \cap known' :
                      Before(m, l)' /\ (Merging' => m.topic = l.topic)}
    BY DEF Holes
  <2> HIDE DEF data
  <2>4. Merging'
    BY <1>1, <1>2 DEF Merging
  <2> QED BY <1>2, <1>3, <1>5, <2>1, <2>2, <2>3, <2>4
<1> HIDE DEF data
<1>7. ASSUME NEW h \in Heads(Holes') PROVE h \in CutOff(offset + limit)
  <2>1. /\ h \in Matching(path, chain) /\ h \in chain /\ h.block \in 0..Upper
        /\ ~\E l \in data : SameTx(l, h)
        /\ \A m \in Holes' : SameTx(h, m) => ~Before(m, h)
    BY <1>6, <1>7 DEF Heads, In, Matching
  <2>2. PICK l \in data \cap chain : Before(h, l) /\ h.topic = l.topic
    BY <1>6, <1>7 DEF Heads
  <2>3. PICK i \in 1..3 : From(l, i, offset, up)
    BY <1>4, MergedFrom, MergedIsOrdered DEF data
  <2> DEFINE listed == Listing(Sources[i], offset)
  <2>4. PageOf(i, offset, up) = Slice(listed, offset)
    BY <1>1, MergedFrom DEF PageOf
  <2>5. l \in listed /\ Rank(l, listed) \in offset..(offset + limit - 1) /\ listed \subseteq chain
    <3>1. l \in Slice(listed, offset)
      BY <2>3, <2>4 DEF From, Heads
    <3> QED BY <3>1, ListingInChain DEF Slice
  <2>6. /\ Orders(Newer(chain), chain)
        /\ \A y, z \in chain : <<y, z>> \in Newer(chain) <=> Before(y, z)
    BY <1>4, NewestFirst
  <2>7. ASSUME NEW g \in listed, SameTx(g, h), g = h \/ Before(g, h) PROVE FALSE
    <3>1. g \in chain /\ Before(g, l)
      BY <2>1, <2>2, <2>5, <2>6, <2>7 DEF Orders
    <3>2. Rank(g, listed) \in Nat /\ Rank(g, listed) <= Rank(l, listed) /\ Rank(l, listed) \in Nat
      <4> HIDE DEF listed
      <4> QED BY <1>4, <2>2, <2>5, <3>1, RankOfNewer
    <3>3. Rank(g, listed) \in offset..(offset + limit - 1)
      <4> HIDE DEF listed
      <4> QED BY <1>4, <2>5, <3>2
    <3>4. g \in PageOf(i, offset, up)
      BY <2>4, <2>7, <3>3 DEF Slice
    <3>5. \E x \in data : SameTx(x, g)
      BY <1>4, <2>2, <2>3, <3>1, <3>4, MergedShows DEF data
    <3> QED BY <2>1, <2>7, <3>5 DEF SameTx
  <2>8. h.block >= l.block /\ h.block <= Upper
    <3>1. h.block \in Nat /\ l.block \in Nat
      BY <1>4, <2>1, <2>2 DEF Keyed
    <3> QED BY <1>2, <2>1, <2>2, <3>1 DEF Before
  <2>9. /\ h \in Matching("explorer", chain)
        /\ h \in Heads(Matching("explorer", chain)) => h \in CutOff(offset + limit)
    <3> HIDE DEF offset
    <3> QED BY <1>1, <1>4, <2>1, <2>2, <2>5, <2>7, <2>8, ListsWhatIsNewer DEF IInv
  <2>10. h \in Heads(Matching("explorer", chain))
    <3> SUFFICES ASSUME NEW m \in Matching("explorer", chain), SameTx(h, m), Before(m, h) PROVE FALSE
      BY <2>9 DEF Heads
    <3>1. /\ m \in chain /\ m \in Matching(path, chain)
          /\ m.topic = h.topic /\ m.block = h.block
      BY <1>1, <2>9 DEF Matching, Matches, SameTx, Merging
    <3>2. Before(m, l)
      BY <2>1, <2>2, <2>6, <3>1 DEF Orders
    <3>3. ~\E x \in data : SameTx(x, m)
      BY <2>1 DEF SameTx
    <3>4. m \in Holes'
      BY <1>6, <2>1, <2>2, <3>1, <3>2, <3>3 DEF In
    <3> QED BY <2>1, <3>4
  <2> QED BY <2>9, <2>10
<1> QED BY <1>7

(* The invariant says of type "all" what its first page shows.              *)
LEMMA AllPageInv == ASSUME IInv, NEW up, AllPage(up) PROVE IInv'
<1> DEFINE offset == page * limit
           items == Merged(offset, up)
           data == FirstPages(items, offset, up)
           cutOff == CutOff(offset + limit)
<1>1. /\ Merging /\ fallen' = fallen /\ degraded' = (up # DOMAIN Sources)
      /\ lost' = lost + Cardinality(cutOff)
      /\ Reply(items, data, Cardinality(items))
  BY DEF AllPage
<1>2. /\ Keyed(chain) /\ lost \in Nat /\ fallen \in BOOLEAN /\ ~fallen /\ page \in Nat
      /\ limit \in Nat \ {0} /\ offset \in Nat
  <2>1. page \in Nat /\ limit \in Nat \ {0}
    BY QueryTypes DEF IInv
  <2> QED BY <1>1, <2>1, ChainIsKeyed DEF IInv, TypeOK, Merging
<1>3. data \subseteq items /\ items \subseteq chain
  BY <1>2, MergedFrom, MergedIsOrdered
<1>4. Cardinality(data) <= limit /\ (Cardinality(data) = limit => offset < Cardinality(chain))
  <2> HIDE DEF offset
  <2> QED BY <1>2, MergedPage DEF IInv
<1>5. IsFiniteSet(cutOff) /\ Cardinality(cutOff) \in Nat
  <2>1. cutOff \subseteq chain
    BY DEF CutOff, Heads, In, Matching
  <2> HIDE DEF cutOff
  <2> QED BY <1>2, <2>1, FS_Subset, FS_CardinalityType DEF Keyed
<1>6. lost' \in Nat
  <2> HIDE DEF cutOff
  <2> QED BY <1>1, <1>2, <1>5
<1>7. /\ chain' = chain /\ path' = path /\ page' = page + 1 /\ page' > 0 /\ range' = range
      /\ Merging'
  <2> HIDE DEF items, data
  <2> QED BY <1>1, ReplyBounds DEF Merging
<1>8. TypeOK' /\ Chained' /\ Begun' /\ Tallied'
  <2> HIDE DEF items, data, cutOff
  <2>1. degraded' \in BOOLEAN /\ fallen' \in BOOLEAN /\ ~fallen'
    BY <1>1, <1>2
  <2> QED BY <1>1, <1>3, <1>4, <1>6, <2>1, ReplyTypes
<1>9. Sparse' /\ ShortPageIsLast' /\ RepeatsAreExplained'
  BY <1>1, <1>7 DEF Sparse, ShortPageIsLast, RepeatsAreExplained
<1>10. ASSUME ~degraded', page' <= 1
       PROVE  Entries(Holes)' <= lost' + Shift'
  <2>1. page = 0
    BY <1>2, <1>7, <1>10
  <2>2. Heads(Holes') \subseteq cutOff
    BY <1>8, <1>10, <2>1, AllHolesNext
  <2>3. Entries(Holes)' = Cardinality(Heads(Holes'))
    <3>1. PerTx' /\ FirstDir' = FirstDir
      BY <1>7 DEF PerTx, FirstDir
    <3> QED BY <3>1 DEF Entries, Heads, Before
  <2>4. Cardinality(Heads(Holes')) <= Cardinality(cutOff) /\ Cardinality(Heads(Holes')) \in Nat
    <3> HIDE DEF cutOff
    <3> QED BY <1>5, <2>2, FS_Subset, FS_CardinalityType
  <2>5. Shift' \in Nat
    <3>1. (TypeOK /\ page > 0 => Shift = Cardinality(Passed))'
      BY ShiftIsPassed, PTL
    <3>2. Passed' \subseteq chain
      BY <1>7 DEF Passed, In, Counted, Heads, Matching
    <3>3. Cardinality(Passed') \in Nat
      BY <1>2, <3>2, FS_Subset, FS_CardinalityType DEF Keyed
    <3> QED BY <1>7, <1>8, <3>1, <3>3
  <2> HIDE DEF cutOff
  <2> QED BY <1>1, <1>2, <1>5, <2>3, <2>4, <2>5
<1>11. NoHoles'
  BY <1>1, <1>7, <1>10 DEF NoHoles, Shift
<1> QED BY <1>8, <1>9, <1>11 DEF IInv

-----------------------------------------------------------------------------
(* A block is added, or the clock runs on, between two pages.               *)

(* What is behind a page is what has a place before its end, counted from   *)
(* the highest block that any page has been about.                          *)
LEMMA BehindByPlace ==
    ASSUME NEW counted, Keyed(counted), NEW up \in Nat, NEW hi \in Nat, up <= hi, NEW n \in Nat,
           NEW unseen \in SUBSET In(counted, 0..hi), NEW x \in unseen
    PROVE  /\ Cardinality(In(counted, (up + 1)..hi)) \in Nat
           /\ Rank(x, In(counted, 0..hi)) \in Nat
           /\ x \in Behind(unseen, counted, up, n) <=>
                  Rank(x, In(counted, 0..hi)) < Cardinality(In(counted, (up + 1)..hi)) + n
<1> DEFINE G == In(counted, 0..hi)
           A == In(counted, (up + 1)..hi)
           E == In(counted, 0..up)
           R == Newer(counted)
<1>1. /\ G \subseteq counted /\ A \subseteq G /\ E \subseteq counted /\ G \ A = E
      /\ x \in G /\ (x \in A <=> x.block > up) /\ (x \notin A => x \in E)
  BY DEF In, Keyed
<1>2. IsFiniteSet(G) /\ IsFiniteSet(A) /\ Cardinality(A) \in Nat
  <2>1. G \subseteq counted /\ A \subseteq counted
    BY <1>1
  <2> HIDE DEF G, A
  <2> QED BY <2>1, FS_Subset, FS_CardinalityType DEF Keyed
<1>3. /\ Orders(R, G)
      /\ \A y, z \in counted : <<y, z>> \in R <=> Before(y, z)
      /\ Place(R, G, x) = Rank(x, G) /\ Place(R, E, x) = Rank(x, E)
  <2> HIDE DEF G, E
  <2> QED BY <1>1, NewestFirst
<1>4. \A y \in A, z \in G \ A : <<y, z>> \in R
  <2>1. \A y \in A, z \in G \ A : y \in counted /\ z \in counted /\ z.block < y.block
    BY <1>1 DEF In, Keyed
  <2> QED BY <1>3, <2>1 DEF Before, Keyed
<1>5. x \in Behind(unseen, counted, up, n) <=> x \in A \/ Rank(x, E) < n
  BY <1>1 DEF Behind
<1>6. Rank(x, G) \in Nat
  <2> HIDE DEF G
  <2> QED BY <1>1, RankOfNewer
<1>7. x \in Behind(unseen, counted, up, n) <=> Rank(x, G) < Cardinality(A) + n
  <2>1. CASE x \in A
    <3> HIDE DEF G, A, R
    <3>1. Place(R, G, x) < Cardinality(A)
      BY <1>1, <1>2, <1>3, <1>4, <2>1, FirstPart
    <3> QED BY <1>2, <1>3, <1>5, <1>6, <2>1, <3>1
  <2>2. CASE x \notin A
    <3> HIDE DEF G, A, R
    <3>1. Place(R, G, x) = Cardinality(A) + Place(R, G \ A, x) /\ Place(R, G \ A, x) \in Nat
      BY <1>1, <1>2, <1>4, <2>2, LastPart
    <3>2. Rank(x, G) = Cardinality(A) + Rank(x, E) /\ Rank(x, E) \in Nat
      BY <1>1, <1>3, <3>1
    <3> QED BY <1>2, <1>5, <1>6, <2>2, <3>2
  <2> QED BY <2>1, <2>2
<1> QED BY <1>2, <1>6, <1>7

(* No more gets behind than is passed over now and was not before.          *)
LEMMA BehindMore ==
    ASSUME NEW more, Keyed(more), NEW counted \in SUBSET more,
           NEW hi \in Nat, NEW up \in Nat, up <= hi,
           NEW hi2 \in Nat, NEW up2 \in Nat, up2 <= hi2, hi <= hi2,
           In(more, 0..hi) = In(counted, 0..hi),
           In(counted, (up + 1)..hi) \subseteq In(more, (up2 + 1)..hi2),
           NEW n \in Nat, NEW unseen \in SUBSET In(counted, 0..hi)
    PROVE  Cardinality(Behind(unseen, more, up2, n)) <=
               Cardinality(Behind(unseen, counted, up, n))
               + (Cardinality(In(more, (up2 + 1)..hi2)) - Cardinality(In(counted, (up + 1)..hi)))
<1> DEFINE G == In(counted, 0..hi)
           G2 == In(more, 0..hi2)
           A == In(counted, (up + 1)..hi)
           A2 == In(more, (up2 + 1)..hi2)
           D == In(more, (hi + 1)..hi2)
           R == Newer(more)
           old == Behind(unseen, counted, up, n)
           new == Behind(unseen, more, up2, n)
           a == Cardinality(A) + n
           b == Cardinality(A2) + n
<1>1. /\ G \subseteq more /\ G2 \subseteq more /\ D \subseteq G2 /\ G2 \ D = G /\ G \subseteq G2
      /\ A \subseteq A2 /\ A2 \subseteq more /\ unseen \subseteq G
  <2>1. G2 \ D = In(more, 0..hi)
    BY DEF In, Keyed
  <2>2. G \subseteq more /\ G2 \subseteq more /\ D \subseteq G2 /\ A2 \subseteq more
    BY DEF In
  <2> QED BY <2>1, <2>2
<1>2. /\ IsFiniteSet(G) /\ IsFiniteSet(G2) /\ IsFiniteSet(A) /\ IsFiniteSet(A2) /\ IsFiniteSet(D)
      /\ Cardinality(A) \in Nat /\ Cardinality(A2) \in Nat /\ Cardinality(A) <= Cardinality(A2)
      /\ IsFiniteSet(old) /\ IsFiniteSet(new) /\ Cardinality(old) \in Nat /\ Cardinality(new) \in Nat
  <2>1. D \subseteq more /\ A \subseteq more /\ old \subseteq more /\ new \subseteq more
    BY <1>1 DEF Behind
  <2> HIDE DEF G, G2, A, A2, D, old, new
  <2>2. /\ IsFiniteSet(G) /\ IsFiniteSet(G2) /\ IsFiniteSet(A) /\ IsFiniteSet(A2) /\ IsFiniteSet(D)
        /\ IsFiniteSet(old) /\ IsFiniteSet(new)
    BY <1>1, <2>1, FS_Subset DEF Keyed
  <2> QED BY <1>1, <2>2, FS_Subset, FS_CardinalityType
<1>3. Keyed(counted)
  BY KeyedPart
<1>4. /\ Orders(R, G) /\ Orders(R, G2)
      /\ \A y, z \in more : <<y, z>> \in R <=> Before(y, z)
      /\ \A x \in more : Place(R, G, x) = Rank(x, G) /\ Place(R, G2, x) = Rank(x, G2)
  <2> HIDE DEF G, G2
  <2> QED BY <1>1, NewestFirst
<1>5. \A y \in D, z \in G2 \ D : <<y, z>> \in R
  <2>1. \A y \in D, z \in G2 \ D : y \in more /\ z \in more /\ z.block < y.block
    BY <1>1 DEF In, Keyed
  <2> QED BY <1>4, <2>1 DEF Before, Keyed
<1>5a. ASSUME NEW x \in G2 \ D
       PROVE  Place(R, G2, x) = Cardinality(D) + Place(R, G2 \ D, x) /\ Cardinality(D) \in Nat
  <2> HIDE DEF G, G2, D, R
  <2>1. D \in SUBSET G2 /\ IsFiniteSet(G2)
    BY <1>1, <1>2
  <2> QED BY <1>5, <2>1, LastPart
<1>6. ASSUME NEW x \in new \ old
      PROVE  a <= Place(R, G, x) /\ Place(R, G, x) < b
  <2>1. x \in unseen /\ x \in G /\ x \in G2 \ D /\ x \in more
    BY <1>1 DEF Behind
  <2>2. Rank(x, G) \in Nat /\ ~(Rank(x, G) < a)
    BY <1>3, <2>1, BehindByPlace
  <2>3. Rank(x, G2) \in Nat /\ Rank(x, G2) < b
    <3>1. unseen \in SUBSET G2
      BY <1>1
    <3> QED BY <2>1, <3>1, BehindByPlace
  <2>4. Place(R, G2, x) = Cardinality(D) + Place(R, G2 \ D, x) /\ Cardinality(D) \in Nat
    BY <1>5a, <2>1
  <2>5. Rank(x, G) <= Rank(x, G2)
    <3>1. Rank(x, G2) = Cardinality(D) + Rank(x, G)
      <4> HIDE DEF G, G2, D, R
      <4> QED BY <1>1, <1>4, <2>1, <2>4
    <3> HIDE DEF G, G2, D
    <3> QED BY <2>2, <2>3, <2>4, <3>1
  <2> HIDE DEF G, G2, a, b
  <2>6. a \in Nat /\ b \in Nat
    BY <1>2 DEF a, b
  <2> QED BY <1>4, <2>1, <2>2, <2>3, <2>5, <2>6
<1>7. Cardinality(new \ old) <= Cardinality(A2) - Cardinality(A) /\ Cardinality(new \ old) \in Nat
      /\ IsFiniteSet(new \ old)
  <2>1. new \ old \in SUBSET G
    BY <1>1 DEF Behind
  <2>2. a \in Int /\ b \in Int /\ a <= b /\ b - a = Cardinality(A2) - Cardinality(A)
    <3> HIDE DEF A, A2
    <3> QED BY <1>2
  <2> HIDE DEF G, R, a, b, new, old
  <2>3. /\ IsFiniteSet(new \ old) /\ Cardinality(new \ old) \in Nat
        /\ Cardinality(new \ old) <= b - a
    BY <1>2, <1>4, <1>6, <2>1, <2>2, PlacesDiffer
  <2> QED BY <2>2, <2>3
<1>8. Cardinality(new) <= Cardinality(old) + Cardinality(new \ old)
  <2> HIDE DEF new, old
  <2>1. new \subseteq old \cup (new \ old)
    OBVIOUS
  <2>2. /\ IsFiniteSet(old \cup (new \ old)) /\ Cardinality(old \cup (new \ old)) \in Nat
        /\ Cardinality(old \cup (new \ old)) <= Cardinality(old) + Cardinality(new \ old)
    BY <1>2, <1>7, AtMostTheSum
  <2>3. Cardinality(new) <= Cardinality(old \cup (new \ old))
    BY <2>1, <2>2, FS_Subset
  <2> QED BY <1>2, <1>7, <2>2, <2>3
<1> HIDE DEF new, old, A, A2
<1>9. Cardinality(new) <= Cardinality(old) + (Cardinality(A2) - Cardinality(A))
  BY <1>2, <1>7, <1>8
<1> QED BY <1>9 DEF new, old, A, A2

(* Logs of new blocks leave the heads of the others as they are.            *)
LEMMA HeadsOfMore ==
    ASSUME NEW more, NEW logs \in SUBSET more,
           \A l \in logs, m \in more \ logs : l.block # m.block
    PROVE  Heads(logs) = Heads(more) \cap logs
BY DEF Heads, SameTx

(* Between two pages: the chain may have got new blocks, and the clock may  *)
(* have run on; what was passed over stays so.                              *)
Moved ==
    /\ page > 0
    /\ UNCHANGED <<path, limit, range, cut, top, known, replyVars>>
    /\ chain \subseteq chain'
    /\ \A l \in chain, m \in chain' \ chain : l.block # m.block
    /\ In(chain', 0..Highest) \subseteq chain
    /\ Highest <= Highest' /\ (Upper < Highest => Upper' <= Upper)
    /\ range = "before" /\ drift' <= 0 => drift <= 0

(* ChainIsKeyed and Estimates again, as formulas that hold of both states.  *)
LEMMA KeyedChain == TypeOK /\ Chained => Keyed(chain)
BY ChainIsKeyed

LEMMA EstimatesHold ==
    TypeOK /\ page > 0 => Highest \in Nat /\ Upper \in Nat /\ Upper <= Highest
BY Estimates

(* What is counted only grows between pages, and only above what the pages  *)
(* were about.                                                              *)
LEMMA MoveCounts ==
    ASSUME IInv, Moved, TypeOK', Chained'
    PROVE  /\ Keyed(chain') /\ Counted' \subseteq chain'
           /\ Counted \subseteq Counted' /\ In(Counted', 0..Highest) = In(Counted, 0..Highest)
           /\ In(Sought(Counted'), 0..top) = In(Sought(Counted), 0..top)
           /\ Sought(Counted) \subseteq Counted
           /\ FirstDir' = FirstDir /\ (PerTx' <=> PerTx)
           /\ top \in Nat /\ Highest \in Nat /\ top <= Highest /\ Upper \in Nat /\ Upper <= Highest
           /\ Highest' \in Nat /\ Upper' \in Nat /\ Upper' <= Highest'
           /\ Passed \subseteq Passed'
<1> DEFINE logs == Matching(Way, chain)
           more == Matching(Way, chain')
           asked == Matching(path, chain)
           wanted == Matching(path, chain')
<1>1. /\ path' = path /\ range' = range /\ page' = page /\ fallen' = fallen /\ page > 0
      /\ FirstDir' = FirstDir /\ (PerTx' <=> PerTx) /\ Way' = Way
  BY DEF Moved, replyVars, FirstDir, PerTx, Merging, Way, StandIn
<1>2. Keyed(chain')
  <2>1. (TypeOK /\ Chained => Keyed(chain))'
    BY KeyedChain, PTL
  <2>2. Keyed(chain)' <=> Keyed(chain')
    BY DEF Keyed
  <2> QED BY <2>1, <2>2
<1>3. /\ top \in Nat /\ Highest \in Nat /\ top <= Highest /\ Upper \in Nat /\ Upper <= Highest
  BY <1>1, QueryTypes, Estimates DEF IInv, Begun
<1>4. Highest' \in Nat /\ Upper' \in Nat /\ Upper' <= Highest'
  <2>1. (TypeOK /\ page > 0 => Highest \in Nat /\ Upper \in Nat /\ Upper <= Highest)'
    BY EstimatesHold, PTL
  <2> QED BY <1>1, <2>1
<1>5. /\ logs \subseteq more /\ more \subseteq chain' /\ logs = more \cap chain
      /\ asked \subseteq wanted /\ wanted \subseteq chain' /\ asked = wanted \cap chain
  BY DEF Moved, Matching
<1>6. /\ Heads(logs) = Heads(more) \cap logs /\ Heads(logs) \subseteq logs /\ Heads(more) \subseteq more
      /\ Heads(asked) = Heads(wanted) \cap asked
      /\ Heads(asked) \subseteq asked /\ Heads(wanted) \subseteq wanted
  <2>1. /\ \A l \in logs, m \in more \ logs : l.block # m.block
        /\ \A l \in asked, m \in wanted \ asked : l.block # m.block
    BY <1>5 DEF Moved
  <2> HIDE DEF logs, more, asked, wanted
  <2> QED BY <1>5, <2>1, HeadsOfMore, HeadsOfHeads
<1>7. Counted = IF PerTx /\ ~fallen THEN Heads(logs) ELSE logs
  BY DEF Counted, ByTx
<1>8. Counted' = IF PerTx /\ ~fallen THEN Heads(more) ELSE more
  <2>1. ByTx' <=> PerTx /\ ~fallen
    BY <1>1 DEF ByTx
  <2>2. Counted' = IF ByTx' THEN Heads(logs)' ELSE logs'
    BY DEF Counted
  <2>3. logs' = more
    BY <1>1 DEF Matching, Matches
  <2>4. Heads(logs)' = Heads(more)
    <3> HIDE DEF logs, more
    <3> QED BY <1>1, <2>3 DEF Heads, Before
  <2> HIDE DEF logs, more
  <2> QED BY <2>1, <2>2, <2>3, <2>4
<1>9. /\ ~fallen => logs = asked /\ more = wanted
      /\ fallen => /\ PerTx /\ asked \subseteq logs
                   /\ Matching(path, logs) = asked /\ Matching(path, more) = wanted
  <2>1. CASE ~fallen
    BY <2>1 DEF Way
  <2>2. CASE fallen
    <3>1. Way = StandIn /\ path \in {"explorer", "viewingKey"}
      BY <2>2 DEF Way, IInv, TypeOK
    <3> QED BY <2>2, <3>1, StandInLists DEF PerTx
  <2> QED BY <2>1, <2>2
<1>10. /\ Sought(Counted) = IF PerTx THEN Heads(asked) ELSE asked
       /\ Sought(Counted') = IF PerTx THEN Heads(wanted) ELSE wanted
  <2>1. /\ Heads(Heads(asked)) = Heads(asked) /\ Heads(Heads(wanted)) = Heads(wanted)
        /\ Matching(path, asked) = asked /\ Matching(path, wanted) = wanted
        /\ Matching(path, Heads(asked)) = Heads(asked)
        /\ Matching(path, Heads(wanted)) = Heads(wanted)
    BY HeadsOfHeads DEF Matching, Heads
  <2> HIDE DEF logs, more, asked, wanted
  <2> QED BY <1>7, <1>8, <1>9, <2>1 DEF Sought, Units
<1>11. In(more, 0..Highest) \subseteq chain /\ In(wanted, 0..Highest) \subseteq chain
  BY <1>5 DEF Moved, In
<1> HIDE DEF logs, more, asked, wanted
<1>12. /\ Counted \subseteq Counted' /\ Counted' \subseteq chain' /\ Sought(Counted) \subseteq Counted
       /\ In(Counted', 0..Highest) = In(Counted, 0..Highest)
  BY <1>5, <1>6, <1>7, <1>8, <1>9, <1>10, <1>11 DEF In
<1>13. In(Sought(Counted'), 0..top) = In(Sought(Counted), 0..top)
  <2>1. In(wanted, 0..top) \subseteq In(wanted, 0..Highest)
    BY <1>3 DEF In
  <2> QED BY <1>5, <1>6, <1>10, <1>11, <2>1 DEF In
<1>14. Passed \subseteq Passed'
  <2>1. Upper < Highest => Upper' <= Upper
    BY DEF Moved
  <2>2. Highest <= Highest'
    BY DEF Moved
  <2>3. Passed' = In(Counted', (Upper' + 1)..Highest')
    BY DEF Passed
  <2> QED BY <1>3, <1>4, <1>12, <2>1, <2>2, <2>3 DEF Passed, In
<1> QED BY <1>1, <1>2, <1>3, <1>4, <1>12, <1>13, <1>14

(* The invariant is kept between pages: an entry that an estimate moves down*)
(* over joins what was passed over, and new entries take no places below the*)
(* old ones.                                                                *)
LEMMA MoveKeeps ==
    ASSUME IInv, Moved, TypeOK', Chained', Begun', Tallied'
    PROVE  IInv'
<1>1. /\ path' = path /\ range' = range /\ limit' = limit /\ page' = page /\ top' = top
      /\ known' = known /\ returned' = returned /\ slice' = slice /\ listing' = listing
      /\ lost' = lost /\ fallen' = fallen /\ degraded' = degraded /\ repeats' = repeats
      /\ page > 0 /\ (Merging' <=> Merging)
  BY DEF Moved, replyVars, Merging
<1>2. /\ Keyed(chain') /\ Counted' \subseteq chain'
      /\ Counted \subseteq Counted' /\ In(Counted', 0..Highest) = In(Counted, 0..Highest)
      /\ In(Sought(Counted'), 0..top) = In(Sought(Counted), 0..top)
      /\ Sought(Counted) \subseteq Counted
      /\ FirstDir' = FirstDir /\ (PerTx' <=> PerTx)
      /\ top \in Nat /\ Highest \in Nat /\ top <= Highest /\ Upper \in Nat /\ Upper <= Highest
      /\ Highest' \in Nat /\ Upper' \in Nat /\ Upper' <= Highest'
      /\ Passed \subseteq Passed' /\ Highest <= Highest'
  BY MoveCounts DEF Moved
<1>3. /\ \A l : Shown(l)' <=> Shown(l)
      /\ \A l, m : Before(m, l)' <=> Before(m, l)
      /\ \A l : Seen(returned', l) <=> Shown(l)
  BY <1>1, <1>2 DEF Shown, Before, Seen
<1>4. Asked' = Asked
  BY <1>1 DEF Asked, Matching, Matches
<1>5. Holes' = Holes
  BY <1>1, <1>3, <1>4 DEF Holes
<1>6. Entries(Holes)' = Entries(Holes)
  BY <1>2, <1>3, <1>5 DEF Entries, Heads
<1>7. /\ IsFiniteSet(Passed') /\ Cardinality(Passed') \in Nat /\ Cardinality(Passed) \in Nat
      /\ Cardinality(Passed) <= Cardinality(Passed')
  <2>1. Passed' \subseteq chain'
    BY <1>2 DEF Passed, In
  <2>2. IsFiniteSet(Passed')
    BY <1>2, <2>1, FS_Subset DEF Keyed
  <2> QED BY <1>2, <2>2, FS_Subset, FS_CardinalityType
<1>8. lost \in Nat /\ limit \in Nat /\ page \in Nat
  BY QueryTypes DEF IInv, TypeOK
<1>9. Shift = Cardinality(Passed) /\ Shift' = Cardinality(Passed')
  <2>1. (TypeOK /\ page > 0 => Shift = Cardinality(Passed))'
    BY ShiftIsPassed, PTL
  <2> QED BY <1>1, <2>1, ShiftIsPassed DEF IInv
<1>10. NoHoles'
  <2> SUFFICES ASSUME ~degraded, Merging => page <= 1
               PROVE  Entries(Holes) <= lost + Shift'
    BY <1>1, <1>6 DEF NoHoles, Shift
  <2>1. Entries(Holes) <= lost + Shift
    BY DEF IInv, NoHoles, Shift
  <2>2. Entries(Holes) \in Nat
    <3>1. Holes \subseteq chain
      BY DEF Holes, Asked, Matching, In, IInv, TypeOK
    <3>2. Holes \subseteq chain'
      BY <3>1 DEF Moved
    <3>3. IsFiniteSet(Holes) /\ IsFiniteSet(Heads(Holes))
      <4>1. Heads(Holes) \subseteq Holes
        BY DEF Heads
      <4> QED BY <1>2, <3>2, <4>1, FS_Subset DEF Keyed
    <3> QED BY <3>3, FS_CardinalityType DEF Entries
  <2> QED BY <1>7, <1>8, <1>9, <2>1, <2>2
<1>11. ShortPageIsLast'
  <2>1. range = "before" /\ drift' <= 0 => drift <= 0
    BY DEF Moved
  <2> QED BY <1>1, <1>3, <1>4, <2>1 DEF IInv, ShortPageIsLast
<1>12. RepeatsAreExplained'
  <2>1. /\ Offsets(In(chain, (top + 1)..Highest)) =
               Cardinality(In(Counted, (top + 1)..Highest))
        /\ Offsets(In(chain, (top + 1)..Highest))' =
               Cardinality(In(Counted', (top + 1)..Highest'))
    <3>1. (Offsets(In(chain, (top + 1)..Highest)) =
               Cardinality(In(Counted, (top + 1)..Highest)))'
      BY LaterEntries, PTL
    <3> QED BY <1>1, <3>1, LaterEntries
  <2>2. /\ In(Counted, (top + 1)..Highest) \subseteq In(Counted', (top + 1)..Highest')
        /\ In(Counted', (top + 1)..Highest') \subseteq chain'
    BY <1>2 DEF In
  <2>3. /\ Cardinality(In(Counted, (top + 1)..Highest)) <= Cardinality(In(Counted', (top + 1)..Highest'))
        /\ Cardinality(In(Counted, (top + 1)..Highest)) \in Nat
        /\ Cardinality(In(Counted', (top + 1)..Highest')) \in Nat
    <3>1. IsFiniteSet(In(Counted', (top + 1)..Highest'))
      BY <1>2, <2>2, FS_Subset DEF Keyed
    <3> QED BY <2>2, <3>1, FS_Subset, FS_CardinalityType
  <2>4. repeats \in Nat
    BY DEF IInv, TypeOK
  <2> SUFFICES ASSUME ~Merging, ~fallen
               PROVE  repeats <= lost + Cardinality(In(Counted', (top + 1)..Highest'))
    BY <1>1, <2>1 DEF RepeatsAreExplained
  <2>5. repeats <= lost + Cardinality(In(Counted, (top + 1)..Highest))
    BY <1>1, <2>1 DEF IInv, RepeatsAreExplained
  <2> QED BY <1>8, <2>3, <2>4, <2>5
<1>13. Sparse'
  <2> SUFFICES ASSUME ~Merging, ~degraded, Full
               PROVE  Cardinality(Missed') <= lost + Cardinality(Passed')
    BY <1>1 DEF Sparse, Full
  <2>1. Cardinality(Missed) <= lost + Cardinality(Passed)
    BY <1>1 DEF IInv, Sparse
  <2> DEFINE unseen == Unseen(Counted, returned, top)
             n == page * limit
  <2>2. Missed' = Behind(unseen, Counted', Upper', n)
    <3>1. Missed' = {l \in Unseen(Counted', returned', top') :
                        l.block > Upper' \/ Rank(l, Due') < page' * limit'}
      BY <1>1, MissedNext
    <3>2. Unseen(Counted', returned', top') = unseen
      BY <1>1, <1>2 DEF Unseen
    <3>3. Due' = In(Counted', 0..Upper')
      BY DEF Due
    <3> QED BY <1>1, <3>1, <3>2, <3>3 DEF Behind
  <2>3. Missed = Behind(unseen, Counted, Upper, n)
    BY DEF Missed, Behind, Unseen, Shown, Seen, Due
  <2>4. unseen \in SUBSET In(Counted, 0..Highest) /\ n \in Nat /\ unseen \subseteq chain'
    <3>1. unseen \subseteq In(Counted, 0..Highest)
      BY <1>2 DEF Unseen, In
    <3> QED BY <1>2, <1>8, <3>1 DEF In
  <2>5. Keyed(Counted')
    BY <1>2, KeyedPart
  <2> HIDE DEF unseen, n
  <2>6. Cardinality(Missed') <= Cardinality(Missed) + (Cardinality(Passed') - Cardinality(Passed))
    <3>1. Passed' = In(Counted', (Upper' + 1)..Highest') /\ Passed = In(Counted, (Upper + 1)..Highest)
      BY DEF Passed
    <3> QED BY <1>2, <2>2, <2>3, <2>4, <2>5, <3>1, BehindMore
  <2>7. Cardinality(Missed) \in Nat /\ Cardinality(Missed') \in Nat
    <3>1. Missed \subseteq chain' /\ Missed' \subseteq chain'
      BY <2>2, <2>3, <2>4 DEF Behind
    <3> QED BY <1>2, <3>1, FS_Subset, FS_CardinalityType DEF Keyed
  <2> QED BY <1>7, <1>8, <2>1, <2>6, <2>7
<1> QED BY <1>10, <1>11, <1>12, <1>13 DEF IInv

(* A new block's logs have places of their own, above all others.           *)
LEMMA GrowInv == ASSUME IInv, NEW pattern \in Patterns, Grow(pattern) PROVE IInv'
<1> DEFINE new == LogsOf(latest + 1, pattern)
<1>1. /\ latest' = latest + 1 /\ chain' = chain \cup new
      /\ path' = path /\ range' = range /\ limit' = limit /\ cut' = cut /\ drift' = drift
      /\ page' = page /\ top' = top /\ known' = known /\ returned' = returned /\ slice' = slice
      /\ listing' = listing /\ hasMore' = hasMore /\ lost' = lost /\ fallen' = fallen
      /\ degraded' = degraded /\ repeats' = repeats
      /\ UNCHANGED replyVars
  BY DEF Grow, queryVars, replyVars
<1>2. /\ latest \in Nat /\ top \in Nat /\ top <= latest /\ page \in Nat
      /\ latest + 1 \in 1..MaxBlock /\ latest + 1 \in Nat
  BY QueryTypes, PagesAssumption DEF IInv, TypeOK, Grow
<1>3. /\ IsFiniteSet(pattern)
      /\ \A x \in pattern :
            /\ x.tx \in Nat /\ x.logIndex \in Nat /\ x.mine \in BOOLEAN
            /\ x.topic \in {"erc20", "src20", "susdc"} /\ x.dir \in {"sent", "received"}
      /\ \A x, y \in pattern : x.logIndex = y.logIndex => x = y
  BY PagesAssumption
<1>4. \A l \in new : /\ l \in Log /\ l.block = latest + 1
                     /\ \E x \in pattern : l.logIndex = x.logIndex /\
                           l = [block |-> latest + 1, tx |-> x.tx, logIndex |-> x.logIndex,
                                topic |-> x.topic, dir |-> x.dir, mine |-> x.mine]
  BY <1>2, <1>3 DEF LogsOf, Log
<1>5. IsFiniteSet(new)
  <2> DEFINE f == [x \in pattern |->
                      [block |-> latest + 1, tx |-> x.tx, logIndex |-> x.logIndex,
                       topic |-> x.topic, dir |-> x.dir, mine |-> x.mine]]
  <2>1. f \in Surjection(pattern, new)
    BY DEF Surjection, LogsOf
  <2> HIDE DEF f, new
  <2> QED BY <1>3, <2>1, FS_Surjection
<1>6. /\ IsFiniteSet(chain) /\ \A l \in chain : l.block \in 1..latest
  BY DEF IInv, Chained
<1>7. /\ IsFiniteSet(chain') /\ Cardinality(chain) <= Cardinality(chain')
      /\ Cardinality(chain) \in Nat /\ Cardinality(chain') \in Nat
  <2> HIDE DEF new
  <2>1. IsFiniteSet(chain') /\ chain \subseteq chain'
    BY <1>1, <1>5, <1>6, FS_Union
  <2> QED BY <2>1, FS_Subset, FS_CardinalityType
<1> HIDE DEF new
<1>8. TypeOK'
  <2>1. /\ \A l \in chain : l \in Log
    BY DEF IInv, TypeOK
  <2>2. /\ [path |-> path, limit |-> limit, range |-> range, cut |-> cut] \in Queries
        /\ drift \in -MaxDrift..MaxDrift
        /\ known \subseteq chain
        /\ page \in 0..(Cardinality(chain) + 1)
        /\ slice \subseteq listing /\ slice \subseteq returned /\ returned \subseteq chain
        /\ Cardinality(slice) <= limit
        /\ hasMore \in BOOLEAN /\ repeats \in Nat /\ lost \in Nat
        /\ fallen \in BOOLEAN /\ degraded \in BOOLEAN
        /\ fallen => path \in {"explorer", "viewingKey"}
    BY DEF IInv, TypeOK
  <2>3. \A l \in chain' : l \in Log
    BY <1>1, <1>4, <2>1
  <2>4. latest' \in 0..MaxBlock /\ top' \in 0..latest' /\ page' \in 0..(Cardinality(chain') + 1)
    BY <1>1, <1>2, <1>7, <2>2, PagesAssumption
  <2>5. [path |-> path', limit |-> limit', range |-> range', cut |-> cut'] \in Queries
    BY <1>1, <2>2
  <2>6. known' \subseteq chain' /\ returned' \subseteq chain'
    BY <1>1, <2>2
  <2> QED BY <1>1, <2>2, <2>3, <2>4, <2>5, <2>6 DEF TypeOK
<1>9. Chained'
  <2>1. \A l \in chain' : l.block \in 1..latest'
    BY <1>1, <1>2, <1>4, <1>6
  <2>2. ASSUME NEW l \in chain', NEW m \in chain', l.block = m.block, l.logIndex = m.logIndex
        PROVE  l = m
    <3>1. CASE l \in chain /\ m \in chain
      BY <2>2, <3>1 DEF IInv, Chained
    <3>2. CASE l \in new /\ m \in new
      <4>1. PICK x \in pattern : l.logIndex = x.logIndex /\
                l = [block |-> latest + 1, tx |-> x.tx, logIndex |-> x.logIndex,
                     topic |-> x.topic, dir |-> x.dir, mine |-> x.mine]
        BY <1>4, <3>2
      <4>2. PICK y \in pattern : m.logIndex = y.logIndex /\
                m = [block |-> latest + 1, tx |-> y.tx, logIndex |-> y.logIndex,
                     topic |-> y.topic, dir |-> y.dir, mine |-> y.mine]
        BY <1>4, <3>2
      <4>3. x = y
        BY <1>3, <2>2, <4>1, <4>2
      <4> QED BY <4>1, <4>2, <4>3
    <3>3. CASE (l \in chain /\ m \in new) \/ (l \in new /\ m \in chain)
      BY <1>2, <1>4, <1>6, <2>2, <3>3
    <3> QED BY <1>1, <3>1, <3>2, <3>3
  <2> QED BY <1>7, <2>1, <2>2 DEF Chained
<1>10. page > 0 => /\ Highest \in Nat /\ Highest <= latest /\ Highest <= Highest'
                   /\ (Upper < Highest => Upper' <= Upper) /\ top <= Highest
  <2> SUFFICES ASSUME page > 0
               PROVE  /\ Highest \in Nat /\ Highest <= latest /\ Highest <= Highest'
                      /\ (Upper < Highest => Upper' <= Upper) /\ top <= Highest
    OBVIOUS
  <2>1. /\ Highest \in Nat /\ Highest <= latest
        /\ range # "before" \/ drift <= 0 => Upper = Highest
    BY Estimates DEF IInv
  <2>2. range \in Ranges /\ cut \in Nat /\ drift \in Int
    BY QueryTypes DEF IInv
  <2>3. Highest <= Highest'
    BY <1>1, <1>2, <2>1, <2>2 DEF Highest, Smaller
  <2>4. ASSUME Upper < Highest PROVE Upper' <= Upper
    <3>1. range = "before" /\ drift > 0
      BY <2>1, <2>2, <2>4
    <3>2. Upper = DateToBlock /\ Upper' = DateToBlock'
      BY <1>1, <3>1 DEF Upper
    <3>3. Highest = Smaller(latest, cut + 0)
      BY <2>2, <3>1 DEF Highest
    <3> QED BY <1>1, <1>2, <2>1, <2>2, <2>4, <3>1, <3>2, <3>3 DEF DateToBlock, Smaller
  <2> QED BY <2>1, <2>3, <2>4 DEF IInv, Begun
<1>11. Begun'
  <2>1. In(chain', 0..top) = In(chain, 0..top)
    BY <1>1, <1>2, <1>4 DEF In
  <2>2. page > 0 => top <= Highest' /\ In(chain, 0..top) \subseteq known
    <3>1. page > 0 => Highest' \in Nat
      <4>1. (TypeOK /\ page > 0 => Highest \in Nat /\ Upper \in Nat /\ Upper <= Highest)'
        BY EstimatesHold, PTL
      <4> QED BY <1>1, <1>8, <4>1
    <3> QED BY <1>2, <1>10, <3>1 DEF IInv, Begun
  <2> QED BY <1>1, <2>1, <2>2 DEF IInv, Begun
<1>12. \A l \in chain, m \in new : l.block # m.block
  BY <1>2, <1>4, <1>6
<1>13. page > 0 => Moved
  <2>1. page > 0 => In(chain', 0..Highest) \subseteq chain
    BY <1>1, <1>2, <1>4, <1>10 DEF In
  <2> QED BY <1>1, <1>10, <1>12, <2>1 DEF Moved
<1>14. Tallied'
  <2>1. page > 0 /\ Full => page <= Cardinality(chain')
    BY <1>2, <1>7 DEF IInv, Tallied
  <2>2. Counted \subseteq Counted'
    <3> DEFINE logs == Matching(Way, chain)
               more == Matching(Way, chain')
    <3>1. logs \subseteq more /\ \A l \in logs, m \in more \ logs : l.block # m.block
      BY <1>1, <1>12 DEF Matching
    <3>2. Heads(logs) \subseteq Heads(more)
      <4> HIDE DEF logs, more
      <4> QED BY <3>1, HeadsOfMore
    <3>3. FirstDir' = FirstDir /\ (ByTx' <=> ByTx) /\ logs' = more
      BY <1>1 DEF FirstDir, ByTx, PerTx, Merging, Way, StandIn, Matching, Matches
    <3>4. Heads(logs)' = Heads(more)
      <4> HIDE DEF logs, more
      <4> QED BY <3>3 DEF Heads, Before
    <3>5. Counted' = IF ByTx' THEN Heads(logs)' ELSE logs'
      BY DEF Counted
    <3>6. Counted = IF ByTx THEN Heads(logs) ELSE logs
      BY DEF Counted
    <3> HIDE DEF logs, more
    <3> QED BY <3>1, <3>2, <3>3, <3>4, <3>5, <3>6
  <2> QED BY <1>1, <2>1, <2>2 DEF IInv, Tallied, Full, Merging
<1>15. CASE page > 0
  BY <1>8, <1>9, <1>11, <1>13, <1>14, <1>15, MoveKeeps
<1>16. CASE page = 0
  <2>1. returned' = {}
    BY <1>1, <1>16 DEF IInv, Begun
  <2>2. Holes' = {}
    BY <2>1 DEF Holes
  <2>3. Entries(Holes)' = 0
    <3>1. Heads(Holes)' = {}
      BY <2>2 DEF Heads
    <3> QED BY <2>2, <3>1, FS_EmptySet DEF Entries
  <2>4. lost' = 0
    BY <1>1, <1>16 DEF IInv, Begun
  <2>5. NoHoles'
    BY <1>1, <1>16, <2>3, <2>4 DEF NoHoles
  <2>6. Sparse' /\ ShortPageIsLast' /\ RepeatsAreExplained'
    BY <1>1, <1>16 DEF Sparse, ShortPageIsLast, RepeatsAreExplained
  <2> QED BY <1>8, <1>9, <1>11, <1>14, <2>5, <2>6 DEF IInv
<1> QED BY <1>2, <1>15, <1>16

(* An estimate that moves down passes over more; one that has gone up before*)
(* passes over nothing, and only its highest block counts.                  *)
LEMMA DriftInv == ASSUME IInv, NEW d \in -MaxDrift..MaxDrift, Drift(d) PROVE IInv'
<1>1. /\ latest' = latest /\ chain' = chain /\ page > 0
      /\ path' = path /\ range' = range /\ limit' = limit /\ cut' = cut /\ drift' = d
      /\ page' = page /\ top' = top /\ known' = known /\ returned' = returned /\ slice' = slice
      /\ listing' = listing /\ hasMore' = hasMore /\ lost' = lost /\ fallen' = fallen
      /\ degraded' = degraded /\ repeats' = repeats
      /\ (drift >= 0 /\ d = drift + 1) \/ (drift <= 0 /\ d = drift - 1)
      /\ UNCHANGED replyVars
  BY DEF Drift, chainVars, replyVars
<1>2. /\ latest \in Nat /\ top \in Nat /\ range \in Ranges /\ cut \in Nat /\ drift \in Int
      /\ d \in Int /\ -MaxDrift \in Int
  BY QueryTypes, PagesAssumption DEF IInv
<1>3. TypeOK'
  <2>1. /\ \A l \in chain : l \in Log
    BY DEF IInv, TypeOK
  <2>2. /\ [path |-> path, limit |-> limit, range |-> range, cut |-> cut] \in Queries
        /\ latest \in 0..MaxBlock /\ top \in 0..latest
        /\ known \subseteq chain
        /\ page \in 0..(Cardinality(chain) + 1)
        /\ slice \subseteq listing /\ slice \subseteq returned /\ returned \subseteq chain
        /\ Cardinality(slice) <= limit
        /\ hasMore \in BOOLEAN /\ repeats \in Nat /\ lost \in Nat
        /\ fallen \in BOOLEAN /\ degraded \in BOOLEAN
        /\ fallen => path \in {"explorer", "viewingKey"}
    BY DEF IInv, TypeOK
  <2>3. [path |-> path', limit |-> limit', range |-> range', cut |-> cut'] \in Queries
    BY <1>1, <2>2
  <2> QED BY <1>1, <2>1, <2>2, <2>3 DEF TypeOK
<1>4. Chained'
  BY <1>1 DEF IInv, Chained
<1>5. /\ Highest \in Nat /\ Upper \in Nat /\ Upper <= Highest /\ Highest <= latest
      /\ range # "before" \/ drift <= 0 => Upper = Highest
  BY <1>1, Estimates DEF IInv
<1>6. Highest <= Highest'
  BY <1>1, <1>2, <1>5 DEF Highest, Smaller
<1>7. Upper < Highest => Upper' <= Upper
  <2> SUFFICES ASSUME Upper < Highest PROVE Upper' <= Upper
    OBVIOUS
  <2>1. range = "before" /\ drift > 0 /\ d = drift + 1
    BY <1>1, <1>2, <1>5
  <2>2. Upper = DateToBlock /\ Upper' = DateToBlock'
    BY <1>1, <2>1 DEF Upper
  <2> QED BY <1>1, <1>2, <2>1, <2>2 DEF DateToBlock, Smaller
<1>8. Begun'
  <2>1. Highest' \in Nat
    <3>1. (TypeOK /\ page > 0 => Highest \in Nat /\ Upper \in Nat /\ Upper <= Highest)'
      BY EstimatesHold, PTL
    <3> QED BY <1>1, <1>3, <3>1
  <2>2. top <= Highest'
    BY <1>1, <1>2, <1>5, <1>6, <2>1 DEF IInv, Begun
  <2>3. page # 0
    BY <1>1
  <2> QED BY <1>1, <2>2, <2>3 DEF IInv, Begun
<1>9. Tallied'
  <2>1. Counted' = Counted
    BY <1>1, CountedNext DEF Counted, ByTx, Way
  <2> QED BY <1>1, <2>1 DEF IInv, Tallied, Full, Merging
<1>10. Moved
  <2>1. In(chain', 0..Highest) \subseteq chain
    BY <1>1 DEF In
  <2>2. range = "before" /\ drift' <= 0 => drift <= 0
    BY <1>1, <1>2
  <2>3. /\ chain \subseteq chain'
        /\ \A l \in chain, m \in chain' \ chain : l.block # m.block
    BY <1>1
  <2> QED BY <1>1, <1>6, <1>7, <2>1, <2>2, <2>3 DEF Moved
<1> QED BY <1>3, <1>4, <1>8, <1>9, <1>10, MoveKeeps

(* A step that at most ends the following of a client: the invariant        *)
(* depends on nothing but the variables, and asks less of such a client.    *)
LEMMA LeftAloneInv ==
    ASSUME IInv, degraded' \in BOOLEAN, degraded => degraded', page = 0 => ~degraded',
           UNCHANGED <<chainVars, queryVars, page, listing, slice, hasMore, returned,
                       repeats, lost, fallen>>
    PROVE  IInv'
<1>1. /\ latest' = latest /\ chain' = chain
      /\ path' = path /\ range' = range /\ limit' = limit /\ cut' = cut /\ drift' = drift
      /\ page' = page /\ top' = top /\ known' = known /\ returned' = returned /\ slice' = slice
      /\ listing' = listing /\ hasMore' = hasMore /\ lost' = lost /\ fallen' = fallen
      /\ repeats' = repeats
  BY DEF chainVars, queryVars
<1>2. /\ FirstDir' = FirstDir /\ (PerTx' <=> PerTx) /\ (ByTx' <=> ByTx) /\ (Full' <=> Full)
      /\ (Merging' <=> Merging) /\ StandIn' = StandIn /\ Way' = Way
  BY <1>1 DEF FirstDir, PerTx, ByTx, Full, Merging, StandIn, Way
<1>3. \A x, y : Before(x, y)' <=> Before(x, y)
  BY <1>2 DEF Before
<1>4. Upper' = Upper /\ Highest' = Highest
  BY <1>1 DEF Upper, Highest, DateToBlock, Smaller
<1>5. Counted' = Counted
  BY <1>1, <1>2, <1>3 DEF Counted, Heads, Matching, Matches
<1>6. Due' = Due /\ Passed' = Passed
  BY <1>4, <1>5 DEF Due, Passed
<1>7. \A l : Shown(l)' <=> Shown(l)
  BY <1>1, <1>2 DEF Shown
<1>8. Missed' = Missed
  <2>1. Sought(Counted)' = Sought(Counted)
    BY <1>1, <1>2, <1>3, <1>5 DEF Sought, Units, Heads, Matching, Matches
  <2>2. \A l : Rank(l, Due)' = Rank(l, Due)
    BY <1>3, <1>6 DEF Rank
  <2> QED BY <1>1, <1>4, <1>7, <2>1, <2>2 DEF Missed
<1>9. TypeOK' /\ Chained' /\ Begun' /\ Tallied' /\ Sparse'
  <2>1. TypeOK'
    BY <1>1 DEF IInv, TypeOK
  <2>2. Chained' /\ Begun'
    BY <1>1, <1>4 DEF IInv, Chained, Begun
  <2>3. Tallied' /\ Sparse'
    BY <1>1, <1>2, <1>5, <1>6, <1>8 DEF IInv, Tallied, Sparse
  <2> QED BY <2>1, <2>2, <2>3
<1>10. Asked' = Asked
  BY <1>1 DEF Asked, Matching, Matches
<1>11. NoHoles' /\ ShortPageIsLast' /\ RepeatsAreExplained'
  <2>1. Holes' = Holes
    BY <1>1, <1>2, <1>3, <1>7, <1>10 DEF Holes
  <2>2. Entries(Holes)' = Entries(Holes)
    BY <1>2, <1>3, <2>1 DEF Entries, Heads
  <2>3. \A b : Offsets(b)' = Offsets(b)
    <3>1. \A b, k : Matching(k, b)' = Matching(k, b) /\ Heads(b)' = Heads(b)
      BY <1>3 DEF Matching, Matches, Heads
    <3> QED BY <1>1, <1>2, <3>1 DEF Offsets, Entries
  <2>4. NoHoles'
    BY <1>1, <1>2, <1>4, <2>2, <2>3 DEF IInv, NoHoles
  <2>5. ShortPageIsLast'
    BY <1>1, <1>2, <1>7, <1>10 DEF IInv, ShortPageIsLast
  <2>6. RepeatsAreExplained'
    BY <1>1, <1>2, <1>4, <2>3 DEF IInv, RepeatsAreExplained
  <2> QED BY <2>4, <2>5, <2>6
<1> QED BY <1>9, <1>11 DEF IInv

(* Every step keeps the invariant.                                          *)
LEMMA NextInv == IInv /\ [Next]_vars => IInv'
<1> SUFFICES ASSUME IInv, [Next]_vars PROVE IInv'
  OBVIOUS
<1>1. CASE LogsPage
  BY <1>1, LogsPageInv
<1>2. CASE StandInPage
  BY <1>2, StandInPageInv
<1>3. CASE OtherWay
  <2>1. page # 0
    BY <1>3 DEF OtherWay
  <2> QED BY <1>3, <2>1, LeftAloneInv DEF OtherWay
<1>4. CASE ExplorerPage
  BY <1>4, ExplorerPageInv
<1>5. ASSUME NEW up \in SUBSET DOMAIN Sources, AllPage(up) PROVE IInv'
  BY <1>5, AllPageInv
<1>6. ASSUME NEW p \in Patterns, Grow(p) PROVE IInv'
  BY <1>6, GrowInv
<1>7. ASSUME NEW d \in -MaxDrift..MaxDrift, Drift(d) PROVE IInv'
  BY <1>7, DriftInv
<1>8. CASE UNCHANGED vars
  <2>1. degraded \in BOOLEAN /\ (page = 0 => ~degraded)
    BY DEF IInv, TypeOK, Begun
  <2> QED BY <1>8, <2>1, LeftAloneInv DEF vars, replyVars
<1> QED BY <1>1, <1>2, <1>3, <1>4, <1>5, <1>6, <1>7, <1>8 DEF Next

(* The conjunction of all that is proved to hold of every page and between  *)
(* any two of them.                                                         *)
LEMMA PagesInv == Spec => []IInv
<1> QED BY InitInv, NextInv, PTL DEF Spec

-----------------------------------------------------------------------------
(* Theorems.                                                                *)

(* A page is made of logs of the chain and no longer than the limit, and a  *)
(* client takes at most one page more than there are logs: paging ends      *)
(* (getTransactionHistory and its sources).                                 *)
THEOREM PagesTypeCorrect == Spec => []TypeOK
<1>1. IInv => TypeOK
  BY DEF IInv
<1> QED BY <1>1, PagesInv, PTL

(* A client that pages by limit and offset, each page a scan of its own over*)
(* a chain that grows and by an estimate of its date that moves, misses no  *)
(* entry but as many as the explorer has cut off and the estimate has       *)
(* passed over, though logs may stand in for the explorer, or for those that*)
(* are read by the viewing key (scanLogsUntil, the slices in                *)
(* getTransactionHistory).                                                  *)
THEOREM PagesLeaveNoHoles == Spec => []NoHoles
<1>1. IInv => NoHoles
  BY DEF IInv
<1> QED BY <1>1, PagesInv, PTL

(* A client that stops at the first page that is not full has seen all that *)
(* it asked for and the last scan has found.                                *)
THEOREM PagesEndShort == Spec => []ShortPageIsLast
<1>1. IInv => ShortPageIsLast
  BY DEF IInv
<1> QED BY <1>1, PagesInv, PTL

(* An entry comes twice only for an entry that has come under the offsets   *)
(* since the client began.                                                  *)
THEOREM PagesRepeatForAReason == Spec => []RepeatsAreExplained
<1>1. IInv => RepeatsAreExplained
  BY DEF IInv
<1> QED BY <1>1, PagesInv, PTL
=============================================================================
