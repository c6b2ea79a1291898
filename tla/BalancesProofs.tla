--------------------------- MODULE BalancesProofs ---------------------------
(***************************************************************************)
(* What BatchBalances and TokenBalances promise: for any sequences of      *)
(* vaults, other calls and shutdowns, and for any chain, window size,      *)
(* depth and batch size.                                                   *)
(*                                                                         *)
(* Batch: the answers are matched with the vaults by counting, so that the *)
(* proofs are about counting: the fulfilled lookups before a position      *)
(* number the resolved vaults without gaps and without repetitions.  The   *)
(* invariant keeps, across the awaits, why the map has the vaults that     *)
(* were resolved (Stored), that the request is for those (Asked), and that *)
(* the result is made of the answers to it (Matched).                      *)
(*                                                                         *)
(* Tokens: the invariant says of a scan that is under way which windows it *)
(* has dealt with: each of these has given its contracts, or is counted as *)
(* skipped, or is noted as cut off, or is still waited for (Scanning).  A  *)
(* window with a log of the address is never beyond the last one asked for *)
(* (the lemmas on windows), so that a scan which is through has dealt with *)
(* all of them, and the list of contracts is made then (Listed).           *)
(*                                                                         *)
(* Ends: ReadLeft adds up the windows and contracts that each branch of a  *)
(* token read has yet to ask for.                                          *)
(***************************************************************************)
EXTENDS Balances, FiniteSetTheorems, WellFoundedInduction, TLAPS

-----------------------------------------------------------------------------
(* A batch over vaults.                                                     *)

(* Unless a shutdown came between, the map has what was looked up.          *)
Stored ==
    pc = "resolving" /\ ~overlapped =>
        \A i \in DOMAIN vaultIds : lookups[i] = "fulfilled" => vaultIds[i] \in vaultData

Asked ==
    /\ pc \in {"idle", "resolving"} => requests = <<>>
    /\ pc \in {"asking", "done", "thrown"} => AllSettled /\ requests = Resolved

Matched ==
    /\ pc # "done" => items = <<>>
    /\ pc = "done" => /\ DOMAIN items = DOMAIN requests
                      /\ output = Assembled(requests, items)

IInv == TypeOK /\ Stored /\ Asked /\ Matched /\ ThrowsForAReason

-----------------------------------------------------------------------------
(* Counting.                                                                *)

(* A set of natural numbers has a least element.                            *)
LEMMA LeastNatural ==
    ASSUME NEW T \in SUBSET Nat, T # {}
    PROVE  \E n \in T : \A m \in T : n <= m
<1>1. \E x \in T : \A y \in T : <<y, x>> \notin OpToRel(<, Nat)
  BY NatLessThanWellFounded, WFMin, Zenon
<1>2. \A y \in Nat, x \in Nat : y < x => <<y, x>> \in OpToRel(<, Nat)
  BY DEF OpToRel
<1>3. \E x \in T : \A y \in T : ~(y < x)
  BY <1>1, <1>2, Zenon
<1> QED BY <1>3

Count(i) == Cardinality(FulfilledBefore(i))

(* The vaults and their lookups have the same positions.                    *)
LEMMA Positions ==
    ASSUME TypeOK
    PROVE  /\ vaultIds \in Seq(Vaults) /\ Len(vaultIds) \in Nat
           /\ DOMAIN vaultIds = 1..Len(vaultIds) /\ DOMAIN lookups = DOMAIN vaultIds
BY BatchAssumption DEF TypeOK

(* The count grows by one at a fulfilled lookup and at no other.            *)
LEMMA CountStep ==
    ASSUME NEW i \in Nat
    PROVE  /\ IsFiniteSet(FulfilledBefore(i)) /\ Count(i) \in Nat
           /\ Count(i + 1) = IF i > 0 /\ lookups[i] = "fulfilled" THEN Count(i) + 1 ELSE Count(i)
<1>1. IsFiniteSet(FulfilledBefore(i)) /\ Count(i) \in Nat
  <2>1. FulfilledBefore(i) \subseteq 1..(i - 1)
    BY DEF FulfilledBefore
  <2>2. IsFiniteSet(1..(i - 1))
    BY FS_Interval
  <2>3. IsFiniteSet(FulfilledBefore(i))
    BY <2>1, <2>2, FS_Subset
  <2> QED BY <2>3, FS_CardinalityType DEF Count
<1>2. CASE i > 0 /\ lookups[i] = "fulfilled"
  <2>1. FulfilledBefore(i + 1) = FulfilledBefore(i) \cup {i} /\ i \notin FulfilledBefore(i)
    BY <1>2 DEF FulfilledBefore
  <2> QED BY <1>1, <1>2, <2>1, FS_AddElement DEF Count
<1>3. CASE ~(i > 0 /\ lookups[i] = "fulfilled")
  <2>1. FulfilledBefore(i + 1) = FulfilledBefore(i)
    BY <1>3 DEF FulfilledBefore
  <2> QED BY <1>1, <1>3, <2>1 DEF Count
<1> QED BY <1>1, <1>2, <1>3

(* The count never goes down.                                               *)
LEMMA CountGrows ==
    ASSUME NEW i \in Nat, NEW j \in Nat, i <= j
    PROVE  Count(i) <= Count(j)
<1>1. FulfilledBefore(i) \subseteq FulfilledBefore(j)
  BY DEF FulfilledBefore
<1> QED BY <1>1, CountStep, FS_Subset DEF Count

(* No two fulfilled lookups have the same number.                           *)
LEMMA NumbersDiffer ==
    ASSUME NEW i \in Nat \ {0}, NEW j \in Nat \ {0},
           lookups[i] = "fulfilled", lookups[j] = "fulfilled", Count(i) = Count(j)
    PROVE  i = j
<1>1. CASE i < j
  <2>1. Count(i + 1) <= Count(j) /\ Count(i + 1) = Count(i) + 1 /\ Count(i) \in Nat
    BY <1>1, CountStep, CountGrows
  <2> QED BY <2>1
<1>2. CASE j < i
  <2>1. Count(j + 1) <= Count(i) /\ Count(j + 1) = Count(j) + 1 /\ Count(j) \in Nat
    BY <1>2, CountStep, CountGrows
  <2> QED BY <2>1
<1> QED BY <1>1, <1>2

(* Every number up to the count of all is that of a fulfilled lookup.       *)
LEMMA NoNumberIsMissing ==
    ASSUME NEW n \in Nat, NEW k \in 1..Count(n + 1)
    PROVE  \E i \in 1..n : lookups[i] = "fulfilled" /\ Count(i) = k - 1
<1> DEFINE T == {m \in Nat : m <= n /\ k <= Count(m + 1)}
<1>1. n \in T /\ T \in SUBSET Nat
  BY CountStep
<1>2. PICK m \in T : \A l \in T : m <= l
  BY <1>1, LeastNatural
<1>3. Count(1) = 0
  <2>1. FulfilledBefore(1) = {}
    BY DEF FulfilledBefore
  <2> QED BY <2>1, FS_EmptySet DEF Count
<1>4. m # 0 /\ m \in 1..n
  BY <1>2, <1>3
<1>5. m - 1 \in Nat /\ m - 1 <= n /\ m - 1 \notin T /\ (m - 1) + 1 = m
  BY <1>2, <1>4
<1>6. Count(m) \in Nat /\ Count(m + 1) \in Nat /\ Count(m) < k /\ k <= Count(m + 1)
  BY <1>2, <1>4, <1>5, CountStep
<1> QED BY <1>4, <1>6, CountStep

(* The resolved vault with the number of a fulfilled lookup is its own.     *)
LEMMA ResolvedAt ==
    ASSUME TypeOK, NEW i \in DOMAIN vaultIds, lookups[i] = "fulfilled"
    PROVE  Count(i) + 1 \in DOMAIN Resolved /\ Resolved[Count(i) + 1] = vaultIds[i]
<1> DEFINE n == Len(vaultIds)
           k == Count(i) + 1
           Is(j) == lookups[j] = "fulfilled" /\ Cardinality(FulfilledBefore(j)) = k - 1
           c == CHOOSE j \in DOMAIN vaultIds : Is(j)
<1>1. n \in Nat /\ DOMAIN vaultIds = 1..n /\ i \in Nat \ {0} /\ i <= n
  BY Positions
<1>2. k \in 1..Count(n + 1) /\ k - 1 = Count(i)
  <2>1. i + 1 \in Nat /\ n + 1 \in Nat /\ i + 1 <= n + 1
    BY <1>1
  <2>2. Count(i + 1) <= Count(n + 1) /\ Count(n + 1) \in Nat
    BY <2>1, CountGrows, CountStep
  <2>3. Count(i + 1) = Count(i) + 1 /\ Count(i) \in Nat
    <3>1. i \in Nat /\ i > 0 /\ lookups[i] = "fulfilled"
      BY <1>1
    <3> QED BY ONLY <3>1, CountStep
  <2> QED BY <2>2, <2>3
<1>3. \E j \in DOMAIN vaultIds : Is(j)
  BY <1>2 DEF Count
<1>4. c \in DOMAIN vaultIds /\ Is(c)
  BY <1>3
<1>5. c = i
  BY <1>1, <1>2, <1>4, NumbersDiffer DEF Count
<1>6. DOMAIN Resolved = 1..Count(n + 1) /\ Resolved[k] = vaultIds[c]
  BY <1>2 DEF Resolved, Count
<1> QED BY <1>2, <1>5, <1>6

(* There are no others among the resolved vaults.                           *)
LEMMA ResolvedFrom ==
    ASSUME TypeOK, NEW k \in DOMAIN Resolved
    PROVE  \E i \in DOMAIN vaultIds : lookups[i] = "fulfilled" /\ Resolved[k] = vaultIds[i]
<1> DEFINE n == Len(vaultIds)
           Is(j) == lookups[j] = "fulfilled" /\ Cardinality(FulfilledBefore(j)) = k - 1
           c == CHOOSE j \in DOMAIN vaultIds : Is(j)
<1>1. n \in Nat /\ DOMAIN vaultIds = 1..n /\ k \in 1..Count(n + 1)
  BY Positions DEF Resolved, Count
<1>2. \E j \in DOMAIN vaultIds : Is(j)
  BY <1>1, NoNumberIsMissing DEF Count
<1>3. c \in DOMAIN vaultIds /\ Is(c)
  BY <1>2
<1>4. Resolved[k] = vaultIds[c]
  BY DEF Resolved, Count
<1> QED BY <1>3, <1>4

(* There are at most as many resolved vaults as vaults.                     *)
LEMMA ResolvedIsSequence ==
    ASSUME TypeOK
    PROVE  /\ Resolved \in Seq(Vaults) /\ Len(Resolved) <= Len(vaultIds)
           /\ DOMAIN Resolved = 1..Len(Resolved)
<1> DEFINE n == Len(vaultIds)
           size == Count(n + 1)
<1>1. n \in Nat /\ DOMAIN vaultIds = 1..n /\ vaultIds \in Seq(Vaults)
  BY Positions
<1>2. size \in Nat /\ size <= n
  <2>1. FulfilledBefore(n + 1) \subseteq 1..n
    BY <1>1 DEF FulfilledBefore
  <2>2. IsFiniteSet(1..n) /\ Cardinality(1..n) = n
    BY <1>1, FS_Interval
  <2> QED BY <1>1, <2>1, <2>2, FS_Subset, FS_CardinalityType DEF Count
<1>3. DOMAIN Resolved = 1..size /\ Resolved = [k \in 1..size |-> Resolved[k]]
  BY DEF Resolved, Count
<1>4. \A k \in 1..size : Resolved[k] \in Vaults
  BY <1>1, <1>3, ResolvedFrom
<1> QED BY <1>2, <1>3, <1>4

-----------------------------------------------------------------------------
(* The invariant.                                                           *)

(* The result has an entry for each vault of the argument.                  *)
LEMMA AssembledIsOutput ==
    ASSUME TypeOK, NEW sent \in Seq(Vaults), NEW answers, DOMAIN answers \subseteq DOMAIN sent
    PROVE  /\ Assembled(sent, answers) \in Seq(Entry)
           /\ Len(Assembled(sent, answers)) = Len(vaultIds)
<1> DEFINE out == Assembled(sent, answers)
           n == Len(vaultIds)
<1>1. n \in Nat /\ DOMAIN vaultIds = 1..n /\ vaultIds \in Seq(Vaults)
  BY Positions
<1>2. DOMAIN out = 1..n /\ out = [i \in 1..n |-> out[i]]
  BY <1>1 DEF Assembled
<1>3. ASSUME NEW i \in 1..n PROVE out[i] \in Entry
  <2>1. vaultIds[i] \in Vaults
    BY <1>1
  <2>2. \A k \in DOMAIN answers : sent[k] \in Vaults
    OBVIOUS
  <2> QED BY <1>1, <2>1, <2>2 DEF Assembled, FailedEntry, Entry
<1> HIDE DEF out
<1> QED BY <1>1, <1>2, <1>3 DEF out

(* What depends on the vaults and their lookups alone stays with them.      *)
LEMMA SameLookups ==
    ASSUME UNCHANGED <<vaultIds, lookups>>
    PROVE  /\ Resolved' = Resolved /\ AllSettled' = AllSettled
           /\ VaultErrors' = VaultErrors
           /\ \A i : ResolvedIdx(i)' = ResolvedIdx(i)
BY DEF Resolved, FulfilledBefore, AllSettled, VaultErrors, ResolvedIdx

(* The result is a function of them, of the request, and of its answers.    *)
LEMMA SameResult ==
    ASSUME UNCHANGED <<vaultIds, lookups>>
    PROVE  Assembled(requests, items)' = Assembled(requests', items')
<1>1. /\ DOMAIN vaultIds' = DOMAIN vaultIds /\ VaultErrors' = VaultErrors
      /\ \A i : ResolvedIdx(i)' = ResolvedIdx(i)
      /\ \A i : vaultIds'[i] = vaultIds[i]
  BY SameLookups
<1> QED BY <1>1 DEF Assembled, FailedEntry

(* The invariant holds at the start.                                        *)
LEMMA BatchInitInv == Init => IInv
<1> SUFFICES ASSUME Init PROVE IInv
  OBVIOUS
<1>1. /\ \A S : <<>> \in Seq(S)
      /\ Len(<<>>) = 0 /\ DOMAIN <<>> = {}
      /\ <<>> \in [{} -> {"pending", "fulfilled", "rejected"}]
  OBVIOUS
<1>2. TypeOK
  <2>1. lookups \in [DOMAIN vaultIds -> {"pending", "fulfilled", "rejected"}]
    BY <1>1 DEF Init
  <2>2. /\ requests \in Seq(Vaults) /\ Len(requests) <= Len(vaultIds)
        /\ output \in Seq(Entry)
        /\ items \in Seq(Item) /\ Len(items) <= Len(requests)
    BY <1>1 DEF Init
  <2>3. /\ vaultData \subseteq Vaults
        /\ pc = "idle" /\ vaultIds = <<>>
        /\ overlapped \in BOOLEAN /\ httpFailed \in BOOLEAN
    BY DEF Init
  <2>4. shutdowns \in 0..MaxShutdowns
    BY BatchAssumption DEF Init
  <2> QED BY ONLY <2>1, <2>2, <2>3, <2>4 DEF TypeOK
<1> QED BY <1>2 DEF Init, IInv, Stored, Asked, Matched, ThrowsForAReason

(* A lookup of a vault with an entry is fulfilled at once.                  *)
LEMMA CallKeeps ==
    ASSUME IInv, NEW in \in Inputs, Call(in)
    PROVE  IInv'
<1>1. /\ pc = "idle" /\ pc' = "resolving" /\ vaultIds' = in
      /\ lookups' = [i \in DOMAIN in |-> IF in[i] \in vaultData THEN "fulfilled" ELSE "pending"]
      /\ UNCHANGED <<vaultData, shutdowns, overlapped, requests, output, items, httpFailed>>
  BY DEF Call, sessionVars
<1>2. TypeOK /\ Asked /\ Matched /\ ThrowsForAReason
  BY DEF IInv
<1>3. TypeOK'
  <2>1. in \in Seq(Vaults) /\ Len(in) \in Nat
    BY BatchAssumption
  <2>2. requests' = <<>> /\ items' = <<>>
    BY <1>1, <1>2 DEF Asked, Matched
  <2> QED BY <1>1, <1>2, <2>1, <2>2 DEF TypeOK
<1>4. Stored'
  BY <1>1 DEF Stored
<1>5. Asked'
  BY <1>1, <1>2 DEF Asked
<1> QED BY <1>1, <1>2, <1>3, <1>4, <1>5 DEF IInv, Matched, ThrowsForAReason

(* A lookup ends; when it is fulfilled, its vault has an entry.             *)
LEMMA SettleKeeps ==
    ASSUME IInv, NEW i \in DOMAIN vaultIds, VaultReply(i) \/ VaultFails(i)
    PROVE  IInv'
<1>0. TypeOK /\ Stored /\ Asked /\ Matched /\ ThrowsForAReason
  BY DEF IInv
<1>1. PICK outcome \in {"fulfilled", "rejected"} :
        /\ pc = "resolving" /\ lookups' = [lookups EXCEPT ![i] = outcome]
        /\ vaultData \subseteq vaultData' /\ vaultData' \subseteq vaultData \cup {vaultIds[i]}
        /\ outcome = "fulfilled" => vaultIds[i] \in vaultData'
        /\ UNCHANGED <<pc, vaultIds, requests, output, items, shutdowns, overlapped, httpFailed>>
  BY DEF VaultReply, VaultFails, Settle
<1>2. vaultIds[i] \in Vaults /\ DOMAIN lookups = DOMAIN vaultIds
  BY <1>0, Positions
<1>3. /\ lookups' \in [DOMAIN vaultIds -> {"pending", "fulfilled", "rejected"}]
      /\ lookups'[i] = outcome
      /\ \A j \in DOMAIN vaultIds : j # i => lookups'[j] = lookups[j]
  BY <1>0, <1>1, <1>2 DEF TypeOK
<1>4. TypeOK'
  BY <1>0, <1>1, <1>2, <1>3 DEF TypeOK
<1>5. Stored'
  BY <1>0, <1>1, <1>3 DEF Stored
<1> QED BY <1>0, <1>1, <1>4, <1>5 DEF IInv, Asked, Matched, ThrowsForAReason

(* The entries are read again; all are there unless a shutdown came between.*)
LEMMA SendKeeps ==
    ASSUME IInv, Send
    PROVE  IInv'
<1>0. TypeOK /\ Stored /\ Matched /\ ThrowsForAReason
  BY DEF IInv
<1>1. /\ pc = "resolving" /\ AllSettled /\ requests' = Resolved
      /\ pc' \in {"thrown", "done", "asking"}
      /\ pc' = "thrown" => \E k \in DOMAIN Resolved : Resolved[k] \notin vaultData
      /\ pc' # "done" => output' = output
      /\ pc' = "done" => Resolved = <<>> /\ output' = Assembled(<<>>, <<>>)
      /\ UNCHANGED <<vaultData, shutdowns, overlapped, vaultIds, lookups, items, httpFailed>>
  BY DEF Send, sessionVars
<1>2. items' = <<>> /\ DOMAIN items' = {}
  BY <1>0, <1>1 DEF Matched
<1>3. /\ requests' \in Seq(Vaults) /\ Len(requests') <= Len(vaultIds)
      /\ Len(requests') \in Nat
  BY <1>0, <1>1, ResolvedIsSequence
<1>4. output' \in Seq(Entry) /\ (pc' = "done" => Len(output') = Len(vaultIds))
  <2>1. CASE pc' = "done"
    <3>1. <<>> \in Seq(Vaults) /\ DOMAIN <<>> \subseteq DOMAIN <<>>
      OBVIOUS
    <3>2. Assembled(<<>>, <<>>) \in Seq(Entry) /\ Len(Assembled(<<>>, <<>>)) = Len(vaultIds)
      BY <1>0, <3>1, AssembledIsOutput
    <3> QED BY <1>1, <2>1, <3>2
  <2>2. CASE pc' # "done"
    BY <1>0, <1>1, <2>2 DEF TypeOK
  <2> QED BY <2>1, <2>2
<1>5. TypeOK'
  BY <1>0, <1>1, <1>2, <1>3, <1>4 DEF TypeOK
<1>6. ThrowsForAReason'
  <2> SUFFICES ASSUME pc' = "thrown", ~overlapped PROVE FALSE
    BY <1>1 DEF ThrowsForAReason
  <2>1. PICK k \in DOMAIN Resolved : Resolved[k] \notin vaultData
    BY <1>1
  <2>2. PICK i \in DOMAIN vaultIds : lookups[i] = "fulfilled" /\ Resolved[k] = vaultIds[i]
    BY <1>0, ResolvedFrom
  <2> QED BY <1>0, <1>1, <2>1, <2>2 DEF Stored
<1>7. Asked'
  BY <1>1, SameLookups DEF Asked
<1>8. Matched'
  <2>1. pc' = "done" => requests' = <<>> /\ DOMAIN requests' = {}
    BY <1>1
  <2> QED BY <1>1, <1>2, <2>1, SameResult DEF Matched
<1> QED BY <1>1, <1>5, <1>6, <1>7, <1>8 DEF IInv, Stored

(* The node's answers are put together with the vaults.                     *)
LEMMA BatchReplyKeeps ==
    ASSUME IInv, NEW ans \in [DOMAIN requests -> Item], BatchReply(ans)
    PROVE  IInv'
<1>0. TypeOK /\ Asked /\ ThrowsForAReason
  BY DEF IInv
<1>1. /\ pc = "asking" /\ pc' = "done" /\ items' = ans
      /\ output' = Assembled(requests, ans)
      /\ UNCHANGED <<vaultData, shutdowns, overlapped, vaultIds, lookups, requests, httpFailed>>
  BY DEF BatchReply, sessionVars
<1>2. requests \in Seq(Vaults) /\ DOMAIN ans = DOMAIN requests
  BY <1>0 DEF TypeOK
<1>3. items' \in Seq(Item) /\ Len(items') = Len(requests) /\ Len(requests) \in Nat
  <2>1. DOMAIN ans = 1..Len(requests) /\ Len(requests) \in Nat
    BY <1>2
  <2> QED BY <1>1, <2>1
<1>4. output' \in Seq(Entry) /\ Len(output') = Len(vaultIds)
  BY <1>0, <1>1, <1>2, AssembledIsOutput
<1>5. TypeOK'
  BY <1>0, <1>1, <1>3, <1>4 DEF TypeOK
<1>6. Asked'
  BY <1>0, <1>1, SameLookups DEF Asked
<1>7. Matched'
  BY <1>1, <1>2, SameResult DEF Matched
<1> QED BY <1>1, <1>5, <1>6, <1>7 DEF IInv, Stored, ThrowsForAReason

(* The other steps leave the lookups alone; none takes an entry away but a  *)
(* shutdown, which shows.                                                   *)
LEMMA OthersKeep ==
    ASSUME IInv,
           BatchFails \/ (\E v \in Vaults : OtherCall(v)) \/ Shutdown \/ UNCHANGED vars
    PROVE  IInv'
<1>0. TypeOK /\ Stored /\ Asked /\ Matched /\ ThrowsForAReason
  BY DEF IInv
<1>1. UNCHANGED <<vaultIds, lookups, requests, output, items>>
  BY DEF BatchFails, OtherCall, Shutdown, vars, sessionVars, callVars
<1>2. TypeOK'
  <2>1. CASE BatchFails
    BY <1>0, <2>1 DEF BatchFails, TypeOK, sessionVars
  <2>2. CASE \E v \in Vaults : OtherCall(v)
    BY <1>0, <2>2 DEF OtherCall, TypeOK, callVars
  <2>3. CASE Shutdown
    BY <1>0, <2>3, BatchAssumption DEF Shutdown, TypeOK, callVars
  <2>4. CASE UNCHANGED vars
    BY <1>0, <2>4 DEF TypeOK, vars, sessionVars, callVars
  <2> QED BY <2>1, <2>2, <2>3, <2>4
<1>3. pc' = pc \/ (pc = "asking" /\ pc' = "thrown")
  BY DEF BatchFails, OtherCall, Shutdown, vars, sessionVars, callVars
<1>4. Asked'
  BY <1>0, <1>1, <1>3, SameLookups DEF Asked
<1>5. Matched'
  BY <1>0, <1>1, <1>3, SameResult DEF Matched
<1>6. Stored' /\ ThrowsForAReason'
  <2>1. CASE BatchFails
    BY <1>0, <2>1 DEF BatchFails, Stored, ThrowsForAReason, sessionVars
  <2>2. CASE \E v \in Vaults : OtherCall(v)
    BY <1>0, <2>2 DEF OtherCall, Stored, ThrowsForAReason, callVars
  <2>3. CASE Shutdown
    BY <1>0, <2>3 DEF Shutdown, Stored, ThrowsForAReason, callVars
  <2>4. CASE UNCHANGED vars
    BY <1>0, <2>4 DEF Stored, ThrowsForAReason, vars, sessionVars, callVars
  <2> QED BY <2>1, <2>2, <2>3, <2>4
<1> QED BY <1>2, <1>4, <1>5, <1>6 DEF IInv

(* Every step keeps the invariant.                                          *)
LEMMA NextKeeps ==
    ASSUME IInv, [Next]_vars
    PROVE  IInv'
<1>1. ASSUME NEW in \in Inputs, Call(in) PROVE IInv'
  BY <1>1, CallKeeps
<1>2. ASSUME NEW i \in DOMAIN vaultIds, VaultReply(i) \/ VaultFails(i) PROVE IInv'
  BY <1>2, SettleKeeps
<1>3. CASE Send
  BY <1>3, SendKeeps
<1>4. ASSUME NEW ans \in [DOMAIN requests -> Item], BatchReply(ans) PROVE IInv'
  BY <1>4, BatchReplyKeeps
<1>5. CASE BatchFails \/ (\E v \in Vaults : OtherCall(v)) \/ Shutdown \/ UNCHANGED vars
  BY <1>5, OthersKeep
<1> QED BY <1>1, <1>2, <1>3, <1>4, <1>5 DEF Next, Step

(* The invariant holds in every state of a call.                            *)
LEMMA BatchInvariance == Spec => []IInv
<1>1. Init => IInv
  BY BatchInitInv
<1>2. IInv /\ [Next]_vars => IInv'
  BY NextKeeps
<1> QED BY <1>1, <1>2, PTL DEF Spec

-----------------------------------------------------------------------------
(* Theorems.                                                                *)

(* Every variable keeps its type; a batch that is done has one entry for    *)
(* each vault of the argument.                                              *)
THEOREM BatchTypeCorrect == Spec => []TypeOK
<1>1. IInv => TypeOK
  BY DEF IInv
<1> QED BY <1>1, BatchInvariance, PTL

(* The batch throws only when its HTTP request has failed or a shutdown has *)
(* cleared the map under it, whichever lookups and items fail.              *)
THEOREM AlwaysThrowsForAReason == Spec => []ThrowsForAReason
<1>1. IInv => ThrowsForAReason
  BY DEF IInv
<1> QED BY <1>1, BatchInvariance, PTL

(* When the lookups of each vault agree, those that failed are the vaults   *)
(* with an error, so that the loop's counter is the number of the vault.    *)
LEMMA CounterIsNumber ==
    ASSUME TypeOK, AllSettled, LookupsAgree, NEW i \in DOMAIN vaultIds
    PROVE  /\ vaultIds[i] \in VaultErrors <=> lookups[i] = "rejected"
           /\ lookups[i] # "rejected" => lookups[i] = "fulfilled"
           /\ ResolvedIdx(i) = Count(i)
<1>1. \A j \in DOMAIN vaultIds : lookups[j] \in {"fulfilled", "rejected"}
  BY Positions DEF TypeOK, AllSettled
<1>2. \A j \in DOMAIN vaultIds : vaultIds[j] \in VaultErrors <=> lookups[j] = "rejected"
  BY Positions DEF LookupsAgree, VaultErrors
<1>3. \A j \in 1..(i - 1) : j \in DOMAIN vaultIds
  BY Positions
<1>4. {j \in 1..(i - 1) : vaultIds[j] \notin VaultErrors} = FulfilledBefore(i)
  BY <1>1, <1>2, <1>3 DEF FulfilledBefore
<1> QED BY <1>1, <1>2, <1>4 DEF ResolvedIdx, Count

(* Nothing shifts to another vault, as long as the lookups of one vault     *)
(* agree: a balance is the entry's own, and an error has its cause in the   *)
(* lookup, or in the answer for the same vault.                             *)
THEOREM EntriesAreAlwaysOwn == Spec => []EntriesAreOwn
<1>1. ASSUME IInv PROVE EntriesAreOwn
  <2> SUFFICES ASSUME pc = "done", LookupsAgree, NEW i \in DOMAIN output
               PROVE  IF output[i].error
                      THEN \/ lookups[i] = "rejected"
                           \/ \E k \in DOMAIN items :
                                  requests[k] = vaultIds[i] /\ items[k] # "result"
                      ELSE output[i].balance = vaultIds[i]
    BY DEF EntriesAreOwn
  <2> DEFINE v == vaultIds[i]
             k == ResolvedIdx(i) + 1
  <2>1. /\ TypeOK /\ AllSettled /\ requests = Resolved /\ DOMAIN items = DOMAIN requests
        /\ output = Assembled(requests, items)
    BY <1>1 DEF IInv, Asked, Matched
  <2>2. i \in DOMAIN vaultIds
    BY <2>1 DEF Assembled
  <2>3. output[i] = IF v \in VaultErrors \/ k \notin DOMAIN items \/ items[k] # "result"
                    THEN FailedEntry(v)
                    ELSE [vaultAccountId |-> v, balance |-> requests[k], error |-> FALSE]
    BY <2>1, <2>2 DEF Assembled
  <2>4. CASE lookups[i] = "rejected"
    <3>1. output[i] = FailedEntry(v)
      BY <2>1, <2>2, <2>3, <2>4, CounterIsNumber
    <3> QED BY <2>4, <3>1 DEF FailedEntry
  <2>5. CASE lookups[i] # "rejected"
    <3>1. lookups[i] = "fulfilled" /\ v \notin VaultErrors /\ k = Count(i) + 1
      BY <2>1, <2>2, <2>5, CounterIsNumber
    <3>2. k \in DOMAIN items /\ requests[k] = v
      BY <2>1, <2>2, <3>1, ResolvedAt
    <3> HIDE DEF k, v
    <3>3. CASE items[k] # "result"
      BY <2>3, <3>2, <3>3 DEF FailedEntry, v
    <3>4. CASE items[k] = "result"
      BY <2>3, <3>1, <3>2, <3>4 DEF v
    <3> QED BY <3>3, <3>4
  <2> QED BY <2>4, <2>5
<1> QED BY <1>1, BatchInvariance, PTL

-----------------------------------------------------------------------------
(* The tokens of one vault.                                                 *)

(* Window i has given its contracts, or it is known why not.                *)
DealtWith(i) == \A l \in LogsIn(top, i) : l.contract \in contracts \/ Hidden(l, i)

(* What the scan has asked for, and not heard of.                           *)
Scanning ==
    /\ phase = "windows" =>
        /\ waiting \subseteq Batch(top, first)
        /\ \A i \in Indices \ waiting : i < first + BatchSize => DealtWith(i)
    /\ phase = "explorer" =>
        /\ waiting \subseteq {first}
        /\ \A i \in Indices \ waiting : i < first + 1 => DealtWith(i)
    /\ phase \notin {"windows", "explorer"} => waiting = {}

(* The list is made of what a complete scan has found.                      *)
Listed ==
    phase = "reading" /\ given = {} =>
        /\ contractList = contracts \ Excluded
        /\ \A i \in Indices : DealtWith(i)

(* A phase comes before the next, and the branch ends in the last one.      *)
InOrder ==
    /\ readPc \in {"idle", "resolving"} =>
        phase = "off" /\ \A b \in Branches : branch[b] = "off"
    /\ phase \in {"off", "height"} => first = 0
    /\ phase # "reading" => src20 = {}
    /\ branch["src20"] = "done" => phase = "reading"

ReadIInv == ReadTypeOK /\ Scanning /\ Listed /\ InOrder /\ top <= latest

-----------------------------------------------------------------------------
(* Windows.                                                                 *)

(* The types of the numbers that windows are computed from.                 *)
LEMMA Numbers ==
    /\ WindowSize \in Nat \ {0} /\ MaxWindows \in Nat \ {0} /\ BatchSize \in Nat \ {0}
    /\ MaxBlock \in Nat /\ Indices \subseteq Nat
    /\ \A i \in Indices : i < MaxWindows
    /\ \A i \in Nat : i < MaxWindows => i \in Indices
BY TokenAssumption DEF Indices

(* The smaller and the larger of two.                                       *)
LEMMA SmallerOf ==
    ASSUME NEW a \in Int, NEW b \in Int
    PROVE  /\ Min({a, b}) = IF a <= b THEN a ELSE b
           /\ Max({a, b}) = IF a <= b THEN b ELSE a
BY DEF Min, Max

(* A quotient, rounded down.                                                *)
LEMMA Quotient ==
    ASSUME NEW a \in Nat, NEW w \in Nat \ {0}
    PROVE  a \div w \in Nat /\ (a \div w) * w <= a /\ a < (a \div w) * w + w
OBVIOUS

(* Multiples of the window size are ordered as their factors.               *)
LEMMA Multiples ==
    ASSUME NEW i \in Nat, NEW j \in Nat
    PROVE  /\ i * WindowSize \in Nat /\ j * WindowSize \in Nat
           /\ i <= j => i * WindowSize <= j * WindowSize
           /\ (i + 1) * WindowSize = i * WindowSize + WindowSize
<1>1. WindowSize \in Nat \ {0}
  BY Numbers
<1>2. i * WindowSize \in Nat /\ j * WindowSize \in Nat
  BY <1>1
<1>3. ASSUME i <= j PROVE i * WindowSize <= j * WindowSize
  <2>1. (j - i) * WindowSize >= 0
    BY <1>1, <1>3
  <2>2. (j - i) * WindowSize = j * WindowSize - i * WindowSize
    BY <1>1
  <2> QED BY <1>2, <2>1, <2>2
<1>4. (i + 1) * WindowSize = i * WindowSize + WindowSize
  BY <1>1
<1> QED BY <1>2, <1>3, <1>4

(* A window is asked for exactly if it lies above genesis.                  *)
LEMMA AskedFor ==
    ASSUME NEW h \in Nat, NEW i \in Indices
    PROVE  i < WindowCount(h) <=> i * WindowSize < h
<1> DEFINE q == (h + WindowSize - 1) \div WindowSize
<1>1. WindowSize \in Nat \ {0} /\ MaxWindows \in Nat /\ i \in Nat /\ i < MaxWindows
  BY Numbers
<1>2. h + WindowSize - 1 \in Nat
  BY <1>1
<1>3. q \in Nat /\ q * WindowSize <= h + WindowSize - 1 /\ h - 1 < q * WindowSize
  BY <1>1, <1>2, Quotient
<1>4. WindowCount(h) = IF MaxWindows <= q THEN MaxWindows ELSE q
  BY <1>1, <1>3, SmallerOf DEF WindowCount
<1> HIDE DEF q
<1>5. i * WindowSize \in Nat /\ q * WindowSize \in Nat
  BY <1>1, <1>3, Multiples
<1>6. ASSUME i < q PROVE i * WindowSize < h
  <2>1. i + 1 \in Nat /\ i + 1 <= q
    BY <1>1, <1>3, <1>6
  <2>2. i * WindowSize + WindowSize <= q * WindowSize
    BY <1>1, <1>3, <2>1, Multiples
  <2> QED BY <1>1, <1>3, <1>5, <2>2
<1>7. ASSUME ~(i < q) PROVE ~(i * WindowSize < h)
  <2>1. q * WindowSize <= i * WindowSize
    BY <1>1, <1>3, <1>7, Multiples
  <2> QED BY <1>3, <1>5, <2>1
<1>8. i < WindowCount(h) <=> i < q
  BY <1>1, <1>3, <1>4
<1> QED BY <1>6, <1>7, <1>8

(* A window that shows a log lies above genesis.                            *)
LEMMA LogsAreAboveGenesis ==
    ASSUME logs \in Activity, NEW h \in Nat, NEW i \in Indices,
           LogsIn(h, i) # {}
    PROVE  i * WindowSize < h
<1>1. PICK l \in logs : l.block \in Lo(h, i)..Hi(h, i)
  BY DEF LogsIn
<1>2. l.block \in 1..MaxBlock
  BY TokenAssumption DEF Log
<1>3. i \in Nat /\ i * WindowSize \in Nat /\ MaxBlock \in Nat
  BY Numbers, Multiples
<1>4. l.block <= h - i * WindowSize
  <2>1. l.block <= Hi(h, i)
    BY <1>1
  <2> QED BY <2>1 DEF Hi
<1> QED BY <1>2, <1>3, <1>4

(* Every block within the depth of a scan is in one of its windows.         *)
LEMMA WindowOfBlock ==
    ASSUME NEW h \in Nat, NEW b \in Nat, b <= h,
           h - Min({h, MaxWindows * WindowSize}) < b
    PROVE  \E i \in Indices : b \in Lo(h, i)..Hi(h, i)
<1> DEFINE i == (h - b) \div WindowSize
<1>1. WindowSize \in Nat \ {0} /\ MaxWindows \in Nat \ {0} /\ h - b \in Nat
  BY Numbers
<1>2. i \in Nat /\ i * WindowSize <= h - b /\ h - b < i * WindowSize + WindowSize
  BY <1>1, Quotient
<1> HIDE DEF i
<1>3. MaxWindows * WindowSize \in Nat
  BY <1>1, Multiples
<1>4. h - b < MaxWindows * WindowSize
  BY <1>1, <1>3, SmallerOf
<1>5. i < MaxWindows
  <2> SUFFICES ASSUME ~(i < MaxWindows) PROVE FALSE
    OBVIOUS
  <2>1. MaxWindows * WindowSize <= i * WindowSize
    BY <1>1, <1>2, Multiples
  <2>2. i * WindowSize \in Nat
    BY <1>2, Multiples
  <2> QED BY <1>1, <1>2, <1>3, <1>4, <2>1, <2>2
<1>6. /\ i * WindowSize \in Nat /\ (i + 1) * WindowSize = i * WindowSize + WindowSize
  BY <1>2, Multiples
<1>7. b <= Hi(h, i)
  BY <1>1, <1>2, <1>6 DEF Hi
<1>8. Lo(h, i) <= b /\ Lo(h, i) \in Int
  <2> DEFINE x == h + 1 - (i + 1) * WindowSize
  <2>1. x \in Int /\ x <= b
    BY <1>1, <1>2, <1>6
  <2> HIDE DEF x
  <2>2. Max({0, x}) = IF 0 <= x THEN x ELSE 0
    <3>1. 0 \in Int
      OBVIOUS
    <3> QED BY <2>1, <3>1, SmallerOf, Zenon
  <2>3. Lo(h, i) = Max({0, x})
    BY Zenon DEF Lo, x
  <2> QED BY <2>1, <2>2, <2>3
<1>9. Hi(h, i) \in Int
  BY <1>6 DEF Hi
<1>10. i \in Indices
  BY <1>2, <1>5, Numbers
<1> QED BY <1>7, <1>8, <1>9, <1>10

(* A batch is no larger than its size.                                      *)
LEMMA BatchFits ==
    ASSUME NEW h \in Nat, NEW b \in Nat
    PROVE  Batch(h, b) \subseteq Indices /\ Cardinality(Batch(h, b)) <= BatchSize
<1>1. BatchSize \in Nat \ {0} /\ Indices \subseteq Nat
  BY Numbers
<1>2. Batch(h, b) \subseteq b..(b + BatchSize - 1)
  <2> SUFFICES ASSUME NEW i \in Batch(h, b) PROVE i \in b..(b + BatchSize - 1)
    OBVIOUS
  <2>1. i \in Nat /\ b <= i /\ i < b + BatchSize
    BY <1>1 DEF Batch
  <2> QED BY <1>1, <2>1
<1>3. /\ IsFiniteSet(b..(b + BatchSize - 1))
      /\ Cardinality(b..(b + BatchSize - 1)) = BatchSize
  BY <1>1, FS_Interval
<1>4. Cardinality(Batch(h, b)) <= BatchSize
  BY <1>2, <1>3, FS_Subset
<1> QED BY <1>4 DEF Batch

-----------------------------------------------------------------------------
(* Steps.                                                                   *)

(* A read that has not begun has asked for nothing.                         *)
LEMMA ReadInitInv ==
    ASSUME ReadInit
    PROVE  ReadIInv
<1> USE DEF ReadInit
<1>1. /\ MaxBlock \in Nat /\ MaxWindows \in Nat \ {0} /\ BatchSize \in Nat \ {0}
  BY Numbers
<1>2. Cardinality({}) = 0
  BY FS_EmptySet
<1>3. ReadTypeOK
  BY <1>1, <1>2 DEF ReadTypeOK, Phases
<1>4. Scanning /\ Listed /\ InOrder
  BY DEF Scanning, Listed, InOrder, Branches
<1> QED BY <1>1, <1>3, <1>4 DEF ReadIInv

(* A step that leaves the scan alone: what it does to the rest is typed and *)
(* in order.                                                                *)
LEMMA Elsewhere ==
    ASSUME ReadIInv,
           UNCHANGED <<type, given, apiKey, logs, latest, phase, scanVars, listVars>>,
           readPc' \in {"idle", "resolving", "running", "done", "thrown"},
           erc20' \subseteq given,
           branch' \in [Branches -> {"off", "running", "done", "failed"}],
           branch'["src20"] = "done" => phase = "reading",
           readPc' \in {"idle", "resolving"} =>
               phase = "off" /\ \A b \in Branches : branch'[b] = "off"
    PROVE  ReadIInv'
<1> USE DEF scanVars, listVars
<1>1. ReadTypeOK'
  BY DEF ReadIInv, ReadTypeOK
<1>2. \A i : DealtWith(i)' = DealtWith(i)
  BY DEF DealtWith, Hidden, LogsIn, Lo, Hi
<1>3. \A h, b : Batch(h, b)' = Batch(h, b)
  BY DEF Batch, WindowCount
<1>4. Excluded' = Excluded
  BY DEF Excluded
<1>5. Scanning'
  BY <1>2, <1>3 DEF ReadIInv, Scanning
<1>6. Listed'
  BY <1>2, <1>4 DEF ReadIInv, Listed
<1>7. InOrder'
  BY DEF ReadIInv, InOrder
<1>8. (top <= latest)'
  BY DEF ReadIInv
<1> QED BY <1>1, <1>5, <1>6, <1>7, <1>8 DEF ReadIInv

(* Steps that the scan does not notice.                                     *)
LEMMA OtherStepsInv ==
    ASSUME ReadIInv,
           \/ ReadCall \/ ReadVaultFails \/ SUsdcSettles \/ (\E c \in given : Erc20Reply(c))
           \/ Erc20Settles \/ HeightFails \/ (\E c \in contractList : Src20Reply(c))
           \/ Src20Settles \/ Return \/ UNCHANGED readVars
    PROVE  ReadIInv'
<1> USE DEF requestVars, chainVars
<1>0. /\ branch \in [Branches -> {"off", "running", "done", "failed"}]
      /\ readPc \in {"idle", "resolving", "running", "done", "thrown"}
      /\ erc20 \subseteq given /\ {"sUSDC", "erc20", "src20"} = Branches
      /\ branch["src20"] = "done" => phase = "reading"
      /\ readPc \in {"idle", "resolving"} => phase = "off" /\ \A b \in Branches : branch[b] = "off"
  BY DEF ReadIInv, ReadTypeOK, InOrder, Branches
<1>1. CASE ReadCall \/ ReadVaultFails \/ Return
  BY <1>0, <1>1, Elsewhere DEF ReadCall, ReadVaultFails, Return
<1>2. CASE SUsdcSettles
  BY <1>0, <1>2, Elsewhere DEF SUsdcSettles, Running, Ends, Fails
<1>3. CASE \E c \in given : Erc20Reply(c)
  BY <1>0, <1>3, Elsewhere DEF Erc20Reply, Running
<1>4. CASE Erc20Settles
  BY <1>0, <1>4, Elsewhere DEF Erc20Settles, Running, Ends, Fails
<1>5. CASE HeightFails
  BY <1>0, <1>5, Elsewhere DEF HeightFails, Running, Fails
<1>6. CASE Src20Settles
  BY <1>0, <1>6, Elsewhere DEF Src20Settles, Running, Ends
<1>7. CASE UNCHANGED readVars
  BY <1>0, <1>7, Elsewhere DEF readVars
<1>8. CASE \E c \in contractList : Src20Reply(c)
  <2>1. PICK c \in contractList : Src20Reply(c)
    BY <1>8
  <2>2. /\ UNCHANGED <<type, given, apiKey, logs, latest, readPc, branch, erc20, phase, top, first,
                       waiting, skipped, cut, contracts, contractList>>
        /\ src20' = src20 \cup {c} /\ phase = "reading"
    BY <2>1 DEF Src20Reply, scanVars
  <2>3. ReadTypeOK'
    BY <2>2 DEF ReadIInv, ReadTypeOK
  <2>4. \A i : DealtWith(i)' = DealtWith(i)
    BY <2>2 DEF DealtWith, Hidden, LogsIn, Lo, Hi
  <2>5. Scanning'
    BY <2>2, <2>4 DEF ReadIInv, Scanning
  <2>6. Listed'
    BY <2>2, <2>4 DEF ReadIInv, Listed, Excluded
  <2>7. InOrder'
    BY <2>2 DEF ReadIInv, InOrder
  <2>8. (top <= latest)'
    BY <2>2 DEF ReadIInv
  <2> QED BY <2>3, <2>5, <2>6, <2>7, <2>8 DEF ReadIInv
<1> QED BY <1>1, <1>2, <1>3, <1>4, <1>5, <1>6, <1>7, <1>8

(* A new block is above every window of the scan.                           *)
LEMMA GrowInv ==
    ASSUME ReadIInv, Grow
    PROVE  ReadIInv'
<1>1. /\ latest < MaxBlock /\ latest' = latest + 1
      /\ UNCHANGED <<type, given, apiKey, logs, readPc, branch, erc20, phase, top, first,
                     waiting, skipped, cut, contracts, contractList, src20>>
  BY DEF Grow, requestVars, scanVars, listVars
<1>2. /\ MaxBlock \in Nat /\ latest \in Nat /\ top \in Nat /\ top <= latest
      /\ \A l \in logs : l.block \in Int
  BY TokenAssumption, Numbers DEF Log, ReadIInv, ReadTypeOK
<1>3. \A i \in Indices : LogsIn(top, i)' = LogsIn(top, i)
  <2> SUFFICES ASSUME NEW i \in Indices PROVE LogsIn(top, i)' = LogsIn(top, i)
    OBVIOUS
  <2>1. i * WindowSize \in Nat
    BY Numbers, Multiples
  <2>2. Hi(top, i) \in Int /\ Hi(top, i) <= latest /\ Hi(top, i) <= latest'
    BY <1>1, <1>2, <2>1 DEF Hi
  <2>3. Hi(top, i)' = Hi(top, i) /\ Lo(top, i)' = Lo(top, i)
    BY <1>1 DEF Hi, Lo
  <2>4. \A l \in logs : l.block \in Lo(top, i)..Hi(top, i) => l.block <= latest /\ l.block <= latest'
    BY <1>1, <1>2, <2>2
  <2> QED BY <1>1, <2>3, <2>4 DEF LogsIn
<1>4. \A i \in Indices : DealtWith(i)' = DealtWith(i)
  BY <1>1, <1>3 DEF DealtWith, Hidden
<1>5. ReadTypeOK'
  <2>1. latest' \in 0..MaxBlock
    BY <1>1, <1>2
  <2> QED BY <1>1, <2>1 DEF ReadIInv, ReadTypeOK
<1>6. Scanning'
  BY <1>1, <1>4 DEF ReadIInv, Scanning, Batch, WindowCount
<1>7. Listed'
  BY <1>1, <1>4 DEF ReadIInv, Listed, Excluded
<1>8. InOrder'
  BY <1>1 DEF ReadIInv, InOrder
<1>9. (top <= latest)'
  BY <1>1, <1>2
<1> QED BY <1>5, <1>6, <1>7, <1>8, <1>9 DEF ReadIInv

(* The branches begin, and the scan with its own.                           *)
LEMMA VaultReplyInv ==
    ASSUME ReadIInv, ReadVaultReply
    PROVE  ReadIInv'
<1>1. /\ UNCHANGED <<type, given, apiKey, logs, latest, erc20, top, first, waiting, skipped, cut,
                     contracts, src20>>
      /\ readPc = "resolving" /\ readPc' = "running"
      /\ branch' = [b \in Branches |-> IF Started(b) THEN "running" ELSE "off"]
      /\ phase' \in {"off", "height", "reading"}
      /\ phase' = "reading" => given # {}
      /\ contractList' = contractList \/ contractList' = given \ Excluded
  BY DEF ReadVaultReply, requestVars, chainVars, scanVars
<1>2. phase = "off" /\ first = 0 /\ src20 = {} /\ waiting = {}
  BY <1>1 DEF ReadIInv, InOrder, Scanning
<1>3. branch' \in [Branches -> {"off", "running", "done", "failed"}] /\ branch'["src20"] # "done"
  BY <1>1 DEF Branches
<1>4. contractList' \subseteq Contracts
  BY TokenAssumption, <1>1 DEF ReadIInv, ReadTypeOK
<1>5. phase' \in Phases
  BY <1>1 DEF Phases
<1>6. ReadTypeOK'
  BY <1>1, <1>2, <1>3, <1>4, <1>5 DEF ReadIInv, ReadTypeOK
<1>7. Scanning' /\ Listed'
  BY <1>1, <1>2 DEF Scanning, Listed
<1>8. InOrder'
  BY <1>1, <1>2, <1>3 DEF InOrder
<1> QED BY <1>1, <1>6, <1>7, <1>8 DEF ReadIInv

(* A window that is not asked for has nothing to give.                      *)
LEMMA BeyondTheLast ==
    ASSUME logs \in Activity, top \in Nat, NEW i \in Indices, top <= i * WindowSize
    PROVE  DealtWith(i)
<1>1. i * WindowSize \in Nat
  BY Numbers, Multiples
<1>2. LogsIn(top, i) = {}
  BY <1>1, LogsAreAboveGenesis
<1> QED BY <1>2 DEF DealtWith

(* After a batch is asked for, the windows before its end are dealt with or *)
(* waited for, if those before its beginning were.                          *)
LEMMA BatchAsked ==
    ASSUME logs' \in Activity, top' \in Nat, NEW b \in Nat,
           waiting' = Batch(top', b), \A i \in Indices : i < b => DealtWith(i)'
    PROVE  \A i \in Indices \ waiting' : i < b + BatchSize => DealtWith(i)'
<1> SUFFICES ASSUME NEW i \in Indices, i \notin waiting', i < b + BatchSize, b <= i
             PROVE  DealtWith(i)'
  BY Numbers
<1>1. ~(i < WindowCount(top'))
  BY DEF Batch
<1>2. ~(i * WindowSize < top') /\ i * WindowSize \in Nat
  BY <1>1, AskedFor, Numbers, Multiples
<1>3. LogsIn(top, i)' = {}
  <2> SUFFICES ASSUME NEW l \in logs', l.block \in Lo(top', i)..Hi(top', i) PROVE FALSE
    BY DEF LogsIn, Lo, Hi
  <2>1. l.block \in 1..MaxBlock /\ MaxBlock \in Nat
    BY TokenAssumption, Numbers DEF Log
  <2>2. l.block <= top' - i * WindowSize
    <3>1. l.block <= Hi(top', i)
      OBVIOUS
    <3> QED BY <3>1 DEF Hi
  <2> QED BY <1>2, <2>1, <2>2
<1> QED BY <1>3 DEF DealtWith

(* The scan begins with its first batch of windows.                         *)
LEMMA HeightReplyInv ==
    ASSUME ReadIInv, HeightReply
    PROVE  ReadIInv'
<1>1. /\ UNCHANGED <<type, given, apiKey, logs, latest, readPc, branch, erc20, first, skipped, cut,
                     contracts, contractList, src20>>
      /\ readPc = "running" /\ phase = "height" /\ phase' = "windows"
      /\ top' = latest /\ waiting' = Batch(latest, 0)
  BY DEF HeightReply, Running, requestVars, chainVars, listVars
<1>2. latest \in 0..MaxBlock /\ logs \in Activity /\ first = 0 /\ MaxBlock \in Nat
  BY <1>1, Numbers DEF ReadIInv, ReadTypeOK, InOrder
<1>3. Batch(latest, 0) \subseteq Indices /\ Cardinality(Batch(latest, 0)) <= BatchSize
  BY <1>2, BatchFits
<1>4. ReadTypeOK'
  BY <1>1, <1>2, <1>3 DEF ReadIInv, ReadTypeOK, Phases
<1>5. Scanning'
  <2>1. \A i \in Indices : ~(i < 0)
    BY Numbers
  <2>2. \A i \in Indices \ waiting' : i < 0 + BatchSize => DealtWith(i)'
    BY <1>1, <1>2, <2>1, BatchAsked
  <2>3. Batch(top, first)' = Batch(latest, 0)
    BY <1>1, <1>2 DEF Batch, WindowCount
  <2> QED BY <1>1, <1>2, <2>2, <2>3 DEF Scanning
<1>6. Listed' /\ InOrder'
  BY <1>1 DEF ReadIInv, Listed, InOrder
<1>7. (top <= latest)'
  BY <1>1, <1>2
<1> QED BY <1>4, <1>5, <1>6, <1>7 DEF ReadIInv

(* A window's answer or its failure.                                        *)
LEMMA WindowSettlesInv ==
    ASSUME ReadIInv, NEW n \in waiting, WindowReply(n) \/ WindowFails(n)
    PROVE  ReadIInv'
<1>1. /\ UNCHANGED <<type, given, apiKey, logs, latest, readPc, branch, erc20, phase, top, first,
                     contractList, src20>>
      /\ waiting' = waiting \ {n}
  BY DEF WindowReply, WindowFails, requestVars, chainVars, listVars
<1>2. phase \in {"windows", "explorer"}
  BY DEF ReadIInv, Scanning
<1>3. n \in Indices /\ waiting \subseteq Indices /\ skipped \subseteq Indices /\ logs \in Activity
  BY DEF ReadIInv, ReadTypeOK
<1>4. /\ contracts \subseteq contracts' /\ skipped \subseteq skipped' /\ cut \subseteq cut'
      /\ contracts' \subseteq Contracts /\ skipped' \subseteq Indices
      /\ cut' \subseteq Indices \X Ways
      /\ DealtWith(n)'
  <2>0. /\ contracts \subseteq Contracts /\ cut \subseteq Indices \X Ways
        /\ LogsIn(top, n)' = LogsIn(top, n)
        /\ \A l \in LogsIn(top, n) : l.contract \in Contracts /\ l.ways \subseteq Ways
    BY TokenAssumption, <1>1, <1>3 DEF ReadIInv, ReadTypeOK, Log, LogsIn, Lo, Hi
  <2>1. CASE WindowFails(n)
    <3>1. contracts' = contracts /\ skipped' = skipped \cup {n} /\ cut' = cut
      BY <2>1 DEF WindowFails
    <3> QED BY <1>3, <2>0, <3>1 DEF DealtWith, Hidden
  <2>2. CASE WindowReply(n)
    <3>1. PICK sent \in Answers(n, "sent"), received \in Answers(n, "received") :
             contracts' = contracts \cup {l.contract : l \in sent \cup received}
      BY <2>2 DEF WindowReply
    <3>2. /\ skipped' = skipped
          /\ cut' = cut \cup {<<n, way>> : way \in {w \in Ways : IsCut(n, w)}}
      BY <2>2 DEF WindowReply
    <3>3. ASSUME NEW w, NEW rows \in Answers(n, w)
          PROVE  /\ rows \subseteq LogsIn(top, n)
                 /\ ~IsCut(n, w) => rows = {l \in LogsIn(top, n) : w \in l.ways}
      BY <3>3 DEF Answers, Matching, kSubset
    <3>4. sent \subseteq LogsIn(top, n) /\ received \subseteq LogsIn(top, n)
      BY <3>1, <3>3
    <3>5. contracts' \subseteq Contracts /\ cut' \subseteq Indices \X Ways
      BY <1>3, <2>0, <3>1, <3>2, <3>4
    <3>6. ASSUME NEW l \in LogsIn(top, n), l.contract \notin contracts',
                 NEW w \in l.ways
          PROVE  <<n, w>> \in cut'
      <4>1. w \in {"sent", "received"}
        BY <2>0, <3>6 DEF Ways
      <4>2. l \notin sent /\ l \notin received
        BY <3>1, <3>6
      <4>3. IsCut(n, w)
        BY <3>1, <3>3, <3>6, <4>1, <4>2
      <4> QED BY <3>2, <4>1, <4>3 DEF Ways
    <3>7. DealtWith(n)'
      BY <2>0, <3>6 DEF DealtWith, Hidden
    <3> QED BY <1>3, <3>1, <3>2, <3>5, <3>7
  <2> QED BY <2>1, <2>2
<1>5. IsFiniteSet(waiting) /\ Cardinality(waiting') <= BatchSize
  <2>1. /\ IsFiniteSet(0..(MaxWindows - 1)) /\ BatchSize \in Nat
    BY Numbers, FS_Interval
  <2>2. IsFiniteSet(waiting)
    BY <1>3, <2>1, FS_Subset DEF Indices
  <2>3. /\ Cardinality(waiting') <= Cardinality(waiting)
        /\ Cardinality(waiting) \in Nat /\ Cardinality(waiting') \in Nat
    BY <1>1, <2>2, FS_Subset, FS_CardinalityType
  <2>4. Cardinality(waiting) <= BatchSize
    BY DEF ReadIInv, ReadTypeOK
  <2> QED BY <2>1, <2>2, <2>3, <2>4
<1>6. ReadTypeOK'
  BY <1>1, <1>3, <1>4, <1>5 DEF ReadIInv, ReadTypeOK
<1>7. \A i : LogsIn(top, i)' = LogsIn(top, i)
  BY <1>1 DEF LogsIn, Lo, Hi
<1>8. (\A i : DealtWith(i) => DealtWith(i)') /\ DealtWith(n)'
  BY <1>4, <1>7 DEF DealtWith, Hidden
<1>9. Scanning'
  <2>1. \A i : i \notin waiting' => i = n \/ i \notin waiting
    BY <1>1
  <2>2. Batch(top, first)' = Batch(top, first)
    BY <1>1 DEF Batch, WindowCount
  <2> QED BY <1>1, <1>2, <1>8, <2>1, <2>2 DEF ReadIInv, Scanning
<1>10. Listed' /\ InOrder'
  BY <1>1, <1>2 DEF ReadIInv, Listed, InOrder
<1> QED BY <1>1, <1>6, <1>9, <1>10 DEF ReadIInv

(* A batch whose windows are all dealt with is followed by the next.        *)
LEMMA NextBatchInv ==
    ASSUME ReadIInv, NextBatch
    PROVE  ReadIInv'
<1>1. /\ UNCHANGED <<type, given, apiKey, logs, latest, readPc, branch, erc20, phase, top, skipped, cut,
                     contracts, contractList, src20>>
      /\ phase = "windows" /\ waiting = {} /\ first + BatchSize < WindowCount(top)
      /\ first' = first + BatchSize /\ waiting' = Batch(top, first + BatchSize)
  BY DEF NextBatch, requestVars, chainVars, listVars
<1>2. /\ top \in 0..MaxBlock /\ logs \in Activity /\ first \in Nat /\ MaxBlock \in Nat
      /\ BatchSize \in Nat \ {0} /\ MaxWindows \in Nat \ {0} /\ top \in Nat
  BY Numbers DEF ReadIInv, ReadTypeOK
<1>3. /\ Batch(top, first + BatchSize) \subseteq Indices
      /\ Cardinality(Batch(top, first + BatchSize)) <= BatchSize
  BY <1>2, BatchFits
<1>4. first + BatchSize \in 0..(MaxWindows + BatchSize)
  <2> DEFINE q == (top + WindowSize - 1) \div WindowSize
  <2>1. WindowSize \in Nat \ {0} /\ top + WindowSize - 1 \in Nat
    BY <1>2, Numbers
  <2>2. q \in Nat
    BY <2>1, Quotient
  <2> HIDE DEF q
  <2>3. WindowCount(top) = IF MaxWindows <= q THEN MaxWindows ELSE q
    BY <1>2, <2>2, SmallerOf DEF WindowCount, q
  <2> QED BY <1>1, <1>2, <2>2, <2>3
<1>5. ReadTypeOK'
  BY <1>1, <1>3, <1>4 DEF ReadIInv, ReadTypeOK
<1>6. \A i : DealtWith(i)' = DealtWith(i)
  BY <1>1 DEF DealtWith, Hidden, LogsIn, Lo, Hi
<1>7. Scanning'
  <2>1. \A i \in Indices : i < first + BatchSize => DealtWith(i)'
    BY <1>1, <1>6 DEF ReadIInv, Scanning
  <2>2. \A i \in Indices \ waiting' : i < first' + BatchSize => DealtWith(i)'
    BY <1>1, <1>2, <2>1, BatchAsked
  <2>3. Batch(top, first)' = Batch(top, first + BatchSize)
    BY <1>1 DEF Batch, WindowCount
  <2> QED BY <1>1, <2>2, <2>3 DEF Scanning
<1>8. Listed' /\ InOrder'
  BY <1>1 DEF ReadIInv, Listed, InOrder
<1> QED BY <1>1, <1>5, <1>7, <1>8 DEF ReadIInv

(* No batch is left: every window is dealt with.                            *)
LEMMA DiscoveredInv ==
    ASSUME ReadIInv, Discovered
    PROVE  ReadIInv'
<1>1. /\ UNCHANGED <<type, given, apiKey, logs, latest, readPc, branch, erc20, top, first, waiting,
                     skipped, cut, contracts, src20>>
      /\ phase = "windows" /\ waiting = {} /\ first + BatchSize >= WindowCount(top)
      /\ \/ phase' = "explorerHeight" /\ contractList' = contractList
         \/ phase' = "reading" /\ contractList' = contracts \ Excluded
  BY DEF Discovered, requestVars, chainVars, scanVars
<1>2. /\ top \in Nat /\ logs \in Activity /\ first \in Nat /\ BatchSize \in Nat
      /\ contracts \subseteq Contracts /\ src20 = {}
  BY <1>1, Numbers DEF ReadIInv, ReadTypeOK, InOrder
<1>3. \A i : DealtWith(i)' = DealtWith(i)
  BY <1>1 DEF DealtWith, Hidden, LogsIn, Lo, Hi
<1>4. \A i \in Indices : DealtWith(i)
  <2> SUFFICES ASSUME NEW i \in Indices PROVE DealtWith(i)
    OBVIOUS
  <2>1. i \in Nat /\ i * WindowSize \in Nat
    BY Numbers, Multiples
  <2>2. CASE i < first + BatchSize
    BY <1>1, <2>2 DEF ReadIInv, Scanning
  <2>3. CASE ~(i < first + BatchSize)
    <3>1. WindowCount(top) \in Int
      <4>1. WindowSize \in Nat \ {0} /\ MaxWindows \in Nat /\ top + WindowSize - 1 \in Nat
        BY <1>2, Numbers
      <4>2. (top + WindowSize - 1) \div WindowSize \in Nat
        BY <4>1, Quotient
      <4> QED BY <4>1, <4>2, SmallerOf DEF WindowCount
    <3>2. ~(i < WindowCount(top))
      BY <1>1, <1>2, <2>1, <2>3, <3>1
    <3>3. ~(i * WindowSize < top)
      BY <1>2, <3>2, AskedFor
    <3> QED BY <1>2, <2>1, <3>3, BeyondTheLast
  <2> QED BY <2>2, <2>3
<1>5. ReadTypeOK'
  BY <1>1, <1>2 DEF ReadIInv, ReadTypeOK, Phases
<1>6. Scanning'
  BY <1>1 DEF Scanning
<1>7. Listed'
  BY <1>1, <1>3, <1>4 DEF Listed, Excluded
<1>8. InOrder'
  BY <1>1 DEF ReadIInv, InOrder
<1> QED BY <1>1, <1>5, <1>6, <1>7, <1>8 DEF ReadIInv

(* The explorer's scan begins: its first window is dealt with if there is   *)
(* no block to ask for.                                                     *)
LEMMA ExplorerHeightReplyInv ==
    ASSUME ReadIInv, ExplorerHeightReply
    PROVE  ReadIInv'
<1>1. /\ UNCHANGED <<type, given, apiKey, logs, latest, readPc, branch, erc20, cut, contracts,
                     contractList, src20>>
      /\ readPc = "running" /\ phase = "explorerHeight" /\ phase' = "explorer"
      /\ top' = latest /\ first' = 0 /\ skipped' = {}
      /\ waiting' = {i \in {0} : latest > 0}
  BY DEF ExplorerHeightReply, Running, requestVars, chainVars, listVars
<1>2. /\ latest \in 0..MaxBlock /\ logs \in Activity /\ MaxBlock \in Nat
      /\ MaxWindows \in Nat \ {0} /\ BatchSize \in Nat \ {0} /\ WindowSize \in Nat \ {0}
      /\ 0 \in Indices /\ Indices \subseteq Nat
  BY Numbers DEF ReadIInv, ReadTypeOK
<1>3. waiting' \subseteq {0} /\ Cardinality(waiting') <= BatchSize
  <2>1. waiting' = {} \/ waiting' = {0}
    BY <1>1
  <2>2. Cardinality({}) = 0 /\ Cardinality({0}) = 1
    BY FS_EmptySet, FS_Singleton
  <2> QED BY <1>2, <2>1, <2>2
<1>4. ReadTypeOK'
  BY <1>1, <1>2, <1>3 DEF ReadIInv, ReadTypeOK, Phases
<1>5. Scanning'
  <2> SUFFICES ASSUME NEW i \in Indices, i \notin waiting', i < 0 + 1 PROVE DealtWith(i)'
    BY <1>1, <1>3 DEF Scanning
  <2>1. i = 0 /\ i * WindowSize = 0
    BY <1>2
  <2>2. latest = 0
    BY <1>1, <1>2, <2>1
  <2>3. (top <= i * WindowSize)' /\ top' \in Nat
    BY <1>1, <2>1, <2>2
  <2>4. LogsIn(top, i)' = {}
    <3> SUFFICES ASSUME NEW l \in logs, l.block <= 0 PROVE FALSE
      BY <1>1, <2>2 DEF LogsIn
    <3> QED BY TokenAssumption, <1>2 DEF Log
  <2> QED BY <2>4 DEF DealtWith
<1>6. Listed' /\ InOrder'
  BY <1>1 DEF ReadIInv, Listed, InOrder
<1>7. (top <= latest)'
  BY <1>1, <1>2
<1> QED BY <1>4, <1>5, <1>6, <1>7 DEF ReadIInv

(* The explorer's scan takes one window after another.                      *)
LEMMA ExplorerNextInv ==
    ASSUME ReadIInv, ExplorerNext
    PROVE  ReadIInv'
<1>1. /\ UNCHANGED <<type, given, apiKey, logs, latest, readPc, branch, erc20, phase, top, skipped, cut,
                     contracts, contractList, src20>>
      /\ phase = "explorer" /\ waiting = {} /\ first + 1 < MaxWindows
      /\ first' = first + 1 /\ waiting' = {first + 1}
  BY DEF ExplorerNext, requestVars, chainVars, listVars
<1>2. /\ first \in Nat /\ BatchSize \in Nat \ {0} /\ MaxWindows \in Nat \ {0}
      /\ Indices \subseteq Nat
  BY Numbers DEF ReadIInv, ReadTypeOK
<1>3. first + 1 \in Indices /\ first + 1 \in 0..(MaxWindows + BatchSize)
  BY <1>1, <1>2, Numbers
<1>4. Cardinality(waiting') = 1
  BY <1>1, FS_Singleton
<1>5. ReadTypeOK'
  BY <1>1, <1>2, <1>3, <1>4 DEF ReadIInv, ReadTypeOK
<1>6. \A i : DealtWith(i)' = DealtWith(i)
  BY <1>1 DEF DealtWith, Hidden, LogsIn, Lo, Hi
<1>7. Scanning'
  <2>1. \A i \in Indices \ waiting' : i < first' + 1 => DealtWith(i)'
    <3> SUFFICES ASSUME NEW i \in Indices, i # first + 1, i < (first + 1) + 1 PROVE DealtWith(i)
      BY <1>1, <1>6
    <3>1. i < first + 1
      BY <1>2
    <3> QED BY <1>1, <3>1 DEF ReadIInv, Scanning
  <2> QED BY <1>1, <2>1 DEF Scanning
<1>8. Listed' /\ InOrder'
  BY <1>1 DEF ReadIInv, Listed, InOrder
<1> QED BY <1>1, <1>5, <1>7, <1>8 DEF ReadIInv

(* It ends when no window is left.                                          *)
LEMMA ExplorerDoneInv ==
    ASSUME ReadIInv, ExplorerDone
    PROVE  ReadIInv'
<1>1. /\ UNCHANGED <<type, given, apiKey, logs, latest, readPc, branch, erc20, top, first, waiting,
                     skipped, cut, contracts, src20>>
      /\ phase = "explorer" /\ waiting = {}
      /\ first + 1 >= MaxWindows \/ Hi(top, first + 1) <= 0
      /\ phase' = "reading" /\ contractList' = contracts \ Excluded
  BY DEF ExplorerDone, requestVars, chainVars, scanVars
<1>2. /\ top \in Nat /\ logs \in Activity /\ first \in Nat
      /\ contracts \subseteq Contracts /\ src20 = {}
  BY <1>1, Numbers DEF ReadIInv, ReadTypeOK, InOrder
<1>3. \A i : DealtWith(i)' = DealtWith(i)
  BY <1>1 DEF DealtWith, Hidden, LogsIn, Lo, Hi
<1>4. \A i \in Indices : DealtWith(i)
  <2> SUFFICES ASSUME NEW i \in Indices, ~(i < first + 1) PROVE DealtWith(i)
    BY <1>1 DEF ReadIInv, Scanning
  <2>1. i \in Nat /\ i < MaxWindows /\ MaxWindows \in Nat /\ first + 1 \in Nat /\ first + 1 <= i
    BY <1>2, Numbers
  <2>2. Hi(top, first + 1) <= 0
    BY <1>1, <2>1
  <2>3. /\ (first + 1) * WindowSize \in Nat /\ i * WindowSize \in Nat
        /\ (first + 1) * WindowSize <= i * WindowSize
    BY <2>1, Multiples
  <2>4. top <= i * WindowSize
    BY <1>2, <2>2, <2>3 DEF Hi
  <2> QED BY <1>2, <2>4, BeyondTheLast
<1>5. ReadTypeOK'
  BY <1>1, <1>2 DEF ReadIInv, ReadTypeOK, Phases
<1>6. Scanning'
  BY <1>1 DEF Scanning
<1>7. Listed'
  BY <1>1, <1>3, <1>4 DEF Listed, Excluded
<1>8. InOrder'
  BY <1>1 DEF ReadIInv, InOrder
<1> QED BY <1>1, <1>5, <1>6, <1>7, <1>8 DEF ReadIInv

(* Every step preserves the invariant.                                      *)
LEMMA ReadStepInv ==
    ASSUME ReadIInv, [ReadNext]_readVars
    PROVE  ReadIInv'
<1>1. CASE Grow
  BY <1>1, GrowInv
<1>2. CASE ReadVaultReply
  BY <1>2, VaultReplyInv
<1>3. CASE HeightReply
  BY <1>3, HeightReplyInv
<1>4. CASE \E i \in waiting : WindowReply(i) \/ WindowFails(i)
  BY <1>4, WindowSettlesInv
<1>5. CASE NextBatch
  BY <1>5, NextBatchInv
<1>6. CASE Discovered
  BY <1>6, DiscoveredInv
<1>7. CASE ExplorerHeightReply
  BY <1>7, ExplorerHeightReplyInv
<1>8. CASE ExplorerNext
  BY <1>8, ExplorerNextInv
<1>9. CASE ExplorerDone
  BY <1>9, ExplorerDoneInv
<1>10. CASE \/ ReadCall \/ ReadVaultFails \/ SUsdcSettles \/ (\E c \in given : Erc20Reply(c))
            \/ Erc20Settles \/ HeightFails \/ (\E c \in contractList : Src20Reply(c))
            \/ Src20Settles \/ Return \/ UNCHANGED readVars
  BY <1>10, OtherStepsInv
<1> QED BY <1>1, <1>2, <1>3, <1>4, <1>5, <1>6, <1>7, <1>8, <1>9, <1>10, Zenon
        DEF ReadNext, ReadStep, Src20Step

(* The invariant of a read of tokens.                                       *)
LEMMA ReadInvariance == ReadSpec => []ReadIInv
<1>1. ReadInit => ReadIInv
  BY ReadInitInv
<1>2. ReadIInv /\ [ReadNext]_readVars => ReadIInv'
  BY ReadStepInv
<1> QED BY <1>1, <1>2, PTL DEF ReadSpec

-----------------------------------------------------------------------------
(* Results.                                                                 *)

(* Every variable keeps its type: a batch never asks for more windows than  *)
(* its size, and what is read is on the list.                               *)
THEOREM ReadTypeCorrect == ReadSpec => []ReadTypeOK
<1>1. ReadIInv => ReadTypeOK
  BY DEF ReadIInv
<1> QED BY <1>1, ReadInvariance, PTL

(* For a token that getTokenBalances leaves out, every log of the address   *)
(* within the depth of the scan is in a window whose requests failed, or    *)
(* which had more rows of the log's kind than the explorer gives.           *)
THEOREM MissingIsAlwaysExplained == ReadSpec => []MissingIsExplained
<1>1. ASSUME ReadIInv PROVE MissingIsExplained
  <2> SUFFICES ASSUME branch["src20"] = "done", given = {},
                      NEW c \in Contracts, c \notin contractList, c \notin Excluded,
                      NEW l \in Seen(c)
               PROVE  \E i \in Indices : l \in LogsIn(top, i) /\ Hidden(l, i)
    BY DEF MissingIsExplained
  <2>1. /\ contractList = contracts \ Excluded
        /\ \A i \in Indices : DealtWith(i)
    BY <1>1 DEF ReadIInv, InOrder, Listed
  <2>3. l \in logs /\ l.contract = c /\ l.block \in (Horizon + 1)..top
    BY DEF Seen
  <2>4. /\ top \in Nat /\ latest \in Nat /\ top <= latest /\ l.block \in Nat
    BY TokenAssumption, <1>1, <2>3, Numbers DEF Log, ReadIInv, ReadTypeOK
  <2>5. l.block <= top /\ top - Min({top, MaxWindows * WindowSize}) < l.block
    <3>1. MaxWindows * WindowSize \in Nat
      BY Numbers, Multiples
    <3>2. Horizon \in Int
      BY <2>4, <3>1, SmallerOf DEF Horizon
    <3>3. l.block <= top /\ Horizon < l.block
      BY <2>3, <2>4, <3>2
    <3> QED BY <3>3 DEF Horizon
  <2>6. PICK i \in Indices : l.block \in Lo(top, i)..Hi(top, i)
    BY <2>4, <2>5, WindowOfBlock
  <2>7. l \in LogsIn(top, i)
    <3>1. l.block <= latest
      BY <2>4, <2>5
    <3> QED BY <2>3, <2>6, <3>1 DEF LogsIn
  <2>8. l.contract \notin contracts
    BY <2>1, <2>3
  <2> QED BY <2>1, <2>7, <2>8 DEF DealtWith
<1> QED BY <1>1, ReadInvariance, PTL

-----------------------------------------------------------------------------
(* The end of a read of tokens.                                             *)

(* The steps that the SRC-20 branch has ahead of it, at the most: two for   *)
(* each window not asked for yet, its request and its answer, in the one    *)
(* scan and the other, and one for each contract to be read.                *)
Windows == MaxWindows + BatchSize
Size == Cardinality(Contracts)

Src20Left ==
    IF branch["src20"] # "running" THEN 0 ELSE
    CASE phase = "reading" -> 1 + Cardinality(contractList \ src20)
      [] phase = "explorer" -> 2 + Size + 2 * (Windows - first) + Cardinality(waiting)
      [] phase = "explorerHeight" -> 4 + Size + 2 * Windows
      [] phase = "windows" ->
             5 + Size + 2 * Windows + 2 * (Windows - first) + Cardinality(waiting)
      [] OTHER -> 6 + Size + 4 * Windows + BatchSize

SUsdcLeft == IF branch["sUSDC"] = "running" THEN 1 ELSE 0
Erc20Left == IF branch["erc20"] = "running" THEN 1 + Cardinality(given \ erc20) ELSE 0

(* Those of the call.                                                       *)
LongestRead == 11 + 2 * Size + 4 * Windows + BatchSize
ReadLeft ==
    CASE readPc = "idle" -> LongestRead
      [] readPc = "resolving" -> LongestRead - 1
      [] readPc = "running" -> 1 + SUsdcLeft + Erc20Left + Src20Left
      [] OTHER -> 0

(* The sizes of what is still to be asked for.                              *)
Sizes ==
    /\ first \in 0..Windows
    /\ IsFiniteSet(waiting) /\ Cardinality(waiting) \in 0..BatchSize
    /\ IsFiniteSet(given \ erc20) /\ Cardinality(given \ erc20) \in 0..Size
    /\ IsFiniteSet(contractList \ src20) /\ Cardinality(contractList \ src20) \in 0..Size

LEMMA ConstantSizes ==
    ASSUME IsFiniteSet(Contracts)
    PROVE  Size \in Nat /\ Windows \in Nat /\ BatchSize \in Nat \ {0}
BY FS_CardinalityType, Numbers DEF Size, Windows

LEMMA ReadSizes ==
    ASSUME IsFiniteSet(Contracts), ReadTypeOK
    PROVE  Sizes
<1>1. first \in 0..Windows
  BY DEF Windows, ReadTypeOK
<1>2. \A S \in SUBSET Contracts : IsFiniteSet(S) /\ Cardinality(S) \in 0..Size
  <2> SUFFICES ASSUME NEW S \in SUBSET Contracts
               PROVE  IsFiniteSet(S) /\ Cardinality(S) \in 0..Size
    OBVIOUS
  <2>1. IsFiniteSet(S) /\ Cardinality(S) <= Cardinality(Contracts)
    BY FS_Subset
  <2>2. Cardinality(S) \in Nat
    BY <2>1, FS_CardinalityType
  <2> QED BY <2>1, <2>2, ConstantSizes DEF Size
<1>3. given \ erc20 \in SUBSET Contracts /\ contractList \ src20 \in SUBSET Contracts
  BY TokenAssumption DEF ReadTypeOK
<1>4. IsFiniteSet(waiting)
  <2>1. IsFiniteSet(0..(MaxWindows - 1))
    BY Numbers, FS_Interval
  <2> QED BY <2>1, FS_Subset DEF ReadTypeOK, Indices
<1>5. Cardinality(waiting) \in 0..BatchSize
  BY <1>4, Numbers, FS_CardinalityType DEF ReadTypeOK
<1> QED BY <1>1, <1>2, <1>3, <1>4, <1>5 DEF Sizes

LEMMA ReadSizesNext ==
    ASSUME IsFiniteSet(Contracts)
    PROVE  ReadTypeOK' => Sizes'
<1>1. ReadTypeOK => Sizes
  BY ReadSizes
<1> QED BY <1>1, PTL

(* What is left is a number, and no more than at the beginning.             *)
LEMMA ReadLeftBounded ==
    ASSUME IsFiniteSet(Contracts), ReadTypeOK
    PROVE  /\ Src20Left \in 0..(6 + Size + 4 * Windows + BatchSize)
           /\ SUsdcLeft \in 0..1 /\ Erc20Left \in 0..(1 + Size)
           /\ ReadLeft \in 0..LongestRead
           /\ readPc \in {"idle", "resolving", "running", "done", "thrown"}
<1>1. Sizes /\ Size \in Nat /\ Windows \in Nat /\ BatchSize \in Nat \ {0}
  BY ReadSizes, ConstantSizes
<1>2. Src20Left \in 0..(6 + Size + 4 * Windows + BatchSize)
  BY <1>1 DEF Sizes, Src20Left
<1>3. SUsdcLeft \in 0..1 /\ Erc20Left \in 0..(1 + Size)
  BY <1>1 DEF Sizes, SUsdcLeft, Erc20Left
<1>4. ReadLeft \in 0..LongestRead
  BY <1>1, <1>2, <1>3 DEF ReadLeft, LongestRead
<1> QED BY <1>2, <1>3, <1>4 DEF ReadTypeOK

ReadLeftIsBounded ==
    /\ Src20Left \in 0..(6 + Size + 4 * Windows + BatchSize)
    /\ SUsdcLeft \in 0..1 /\ Erc20Left \in 0..(1 + Size)
    /\ ReadLeft \in 0..LongestRead

LEMMA ReadLeftBoundedNext ==
    ASSUME IsFiniteSet(Contracts)
    PROVE  ReadTypeOK' => ReadLeftIsBounded'
<1>1. ReadTypeOK => ReadLeftIsBounded
  BY ReadLeftBounded DEF ReadLeftIsBounded
<1> QED BY <1>1, PTL

(* One contract or window less.                                             *)
LEMMA OneLess ==
    ASSUME NEW S, IsFiniteSet(S), NEW x \in S
    PROVE  Cardinality(S \ {x}) = Cardinality(S) - 1 /\ Cardinality(S) \in Nat
BY FS_RemoveElement, FS_CardinalityType

(* The steps of the SRC-20 branch while it runs.                            *)
LEMMA Src20StepLeavesFewer ==
    ASSUME IsFiniteSet(Contracts), ReadIInv, ReadIInv', Src20Step
    PROVE  \/ readPc' = "thrown"
           \/ /\ readPc' = readPc /\ Src20Left' < Src20Left
              /\ UNCHANGED <<SUsdcLeft, Erc20Left>>
<1>1. Sizes /\ Sizes' /\ Size \in Nat /\ Windows \in Nat /\ BatchSize \in Nat \ {0}
  BY ReadSizes, ReadSizesNext, ConstantSizes DEF ReadIInv
<1>2. Running("src20") /\ branch \in [Branches -> {"off", "running", "done", "failed"}]
  BY DEF Src20Step, HeightReply, HeightFails, WindowReply, WindowFails, NextBatch, Discovered,
         ExplorerHeightReply, ExplorerNext, ExplorerDone, Src20Reply, Src20Settles,
         ReadIInv, ReadTypeOK
<1> USE DEF Sizes, requestVars, chainVars, scanVars, listVars
<1>3. ASSUME UNCHANGED <<readPc, branch, given, erc20>>, Src20Left' < Src20Left
      PROVE  /\ readPc' = readPc /\ Src20Left' < Src20Left
             /\ UNCHANGED <<SUsdcLeft, Erc20Left>>
  BY <1>3 DEF SUsdcLeft, Erc20Left
<1>4. CASE HeightReply
  <2>1. Src20Left = 6 + Size + 4 * Windows + BatchSize
    BY <1>2, <1>4 DEF HeightReply, Running, Src20Left
  <2>2. Src20Left' = 5 + Size + 2 * Windows + 2 * (Windows - first') + Cardinality(waiting')
    BY <1>2, <1>4 DEF HeightReply, Running, Src20Left
  <2>3. Src20Left' < Src20Left
    BY <1>1, <2>1, <2>2
  <2> QED BY <1>3, <1>4, <2>3 DEF HeightReply
<1>5. CASE HeightFails \/ Src20Settles
  <2>1. /\ branch'["src20"] # "running" /\ branch["src20"] = "running"
        /\ \A b \in Branches \ {"src20"} : branch'[b] = branch[b]
        /\ UNCHANGED <<given, erc20>>
        /\ readPc' = "thrown" \/ readPc' = readPc
    BY <1>2, <1>5 DEF HeightFails, Src20Settles, Fails, Ends, Running, Branches
  <2>2. Src20Left' = 0
    BY <2>1 DEF Src20Left
  <2>3. Src20Left > 0
    BY <1>1, <2>1 DEF Src20Left
  <2>4. UNCHANGED <<SUsdcLeft, Erc20Left>>
    BY <2>1 DEF SUsdcLeft, Erc20Left, Branches
  <2> QED BY <2>1, <2>2, <2>3, <2>4
<1>6. ASSUME NEW i \in waiting, WindowReply(i) \/ WindowFails(i)
      PROVE  UNCHANGED <<readPc, branch, given, erc20>> /\ Src20Left' < Src20Left
  <2>1. /\ waiting' = waiting \ {i}
        /\ UNCHANGED <<readPc, branch, given, erc20, phase, first>>
    BY <1>6 DEF WindowReply, WindowFails
  <2>2. Cardinality(waiting') = Cardinality(waiting) - 1
    BY <1>1, <2>1, OneLess
  <2>3. phase \in {"windows", "explorer"}
    BY DEF ReadIInv, Scanning
  <2>4. Src20Left' < Src20Left
    BY <1>1, <1>2, <2>1, <2>2, <2>3 DEF Src20Left, Running
  <2> QED BY <2>1, <2>4
<1>7. CASE NextBatch
  <2>1. /\ phase = "windows" /\ phase' = "windows" /\ first' = first + BatchSize
        /\ branch["src20"] = "running" /\ branch' = branch /\ Cardinality(waiting) = 0
    BY <1>2, <1>7, FS_EmptySet DEF NextBatch, Running
  <2>2. /\ Src20Left = 5 + Size + 2 * Windows + 2 * (Windows - first) + 0
        /\ Src20Left' = 5 + Size + 2 * Windows + 2 * (Windows - first') + Cardinality(waiting')
    BY <2>1 DEF Src20Left
  <2>3. Src20Left' < Src20Left
    BY <1>1, <2>1, <2>2
  <2> QED BY <1>3, <1>7, <2>3 DEF NextBatch
<1>8. CASE Discovered
  <2>1. /\ phase = "windows" /\ phase' \in {"explorerHeight", "reading"}
        /\ branch["src20"] = "running" /\ branch' = branch
    BY <1>2, <1>8 DEF Discovered, Running
  <2>2. Src20Left = 5 + Size + 2 * Windows + 2 * (Windows - first) + Cardinality(waiting)
    BY <2>1 DEF Src20Left
  <2>3. Src20Left' \in {4 + Size + 2 * Windows, 1 + Cardinality((contractList \ src20)')}
    BY <2>1 DEF Src20Left
  <2>4. Src20Left' < Src20Left
    BY <1>1, <2>2, <2>3
  <2> QED BY <1>3, <1>8, <2>4 DEF Discovered
<1>9. CASE ExplorerHeightReply
  <2>1. /\ phase = "explorerHeight" /\ phase' = "explorer" /\ first' = 0
        /\ branch["src20"] = "running" /\ branch' = branch
        /\ waiting' = {} \/ waiting' = {0}
    BY <1>2, <1>9 DEF ExplorerHeightReply, Running
  <2>2. Cardinality(waiting') \in 0..1
    <3>1. CASE waiting' = {}
      BY <3>1, FS_EmptySet
    <3>2. CASE waiting' = {0}
      BY <3>2, FS_Singleton
    <3> QED BY <2>1, <3>1, <3>2
  <2>3. /\ Src20Left = 4 + Size + 2 * Windows
        /\ Src20Left' = 2 + Size + 2 * (Windows - first') + Cardinality(waiting')
    BY <2>1 DEF Src20Left
  <2>4. Src20Left' < Src20Left
    BY <1>1, <2>1, <2>2, <2>3
  <2> QED BY <1>3, <1>9, <2>4 DEF ExplorerHeightReply
<1>10. CASE ExplorerNext
  <2>1. /\ phase = "explorer" /\ phase' = "explorer" /\ first' = first + 1
        /\ branch["src20"] = "running" /\ branch' = branch
        /\ waiting = {} /\ waiting' = {first + 1}
    BY <1>2, <1>10 DEF ExplorerNext, Running
  <2>2. Cardinality(waiting) = 0 /\ Cardinality(waiting') = 1
    BY <2>1, FS_EmptySet, FS_Singleton
  <2>3. /\ Src20Left = 2 + Size + 2 * (Windows - first) + 0
        /\ Src20Left' = 2 + Size + 2 * (Windows - first') + 1
    BY <2>1, <2>2 DEF Src20Left
  <2>4. Src20Left' < Src20Left
    BY <1>1, <2>1, <2>3
  <2> QED BY <1>3, <1>10, <2>4 DEF ExplorerNext
<1>11. CASE ExplorerDone
  <2>1. /\ phase = "explorer" /\ phase' = "reading"
        /\ branch["src20"] = "running" /\ branch' = branch
    BY <1>2, <1>11 DEF ExplorerDone, Running
  <2>2. /\ Src20Left = 2 + Size + 2 * (Windows - first) + Cardinality(waiting)
        /\ Src20Left' = 1 + Cardinality((contractList \ src20)')
    BY <2>1 DEF Src20Left
  <2>3. Src20Left' < Src20Left
    BY <1>1, <2>2
  <2> QED BY <1>3, <1>11, <2>3 DEF ExplorerDone
<1>12. ASSUME NEW c \in contractList, Src20Reply(c)
       PROVE  UNCHANGED <<readPc, branch, given, erc20>> /\ Src20Left' < Src20Left
  <2>1. /\ c \in contractList \ src20
        /\ (contractList \ src20)' = (contractList \ src20) \ {c}
        /\ phase = "reading" /\ UNCHANGED <<readPc, branch, given, erc20, phase>>
    BY <1>12 DEF Src20Reply
  <2>2. Cardinality((contractList \ src20)') = Cardinality(contractList \ src20) - 1
    BY <1>1, <2>1, OneLess
  <2>3. Src20Left' < Src20Left
    BY <1>1, <1>2, <2>1, <2>2 DEF Src20Left, Running
  <2> QED BY <2>1, <2>3
<1> QED BY <1>3, <1>4, <1>5, <1>6, <1>7, <1>8, <1>9, <1>10, <1>11, <1>12 DEF Src20Step

LEMMA SumLess ==
    ASSUME NEW a \in Int, NEW b \in Int, NEW c \in Int, NEW d \in Int, d < b
    PROVE  1 + a + d + c < 1 + a + b + c
OBVIOUS

LEMMA LongSum ==
    ASSUME NEW a \in Int, NEW b \in Int, NEW c \in Int,
           NEW k \in Int, NEW n \in Int, NEW m \in Int,
           a <= 1, b <= 1 + k, c <= 6 + k + 4 * n + m
    PROVE  1 + a + b + c < 10 + 2 * k + 4 * n + m
OBVIOUS

(* Each step of the call leaves it fewer.                                   *)
LEMMA ReadStepLeavesFewer ==
    ASSUME IsFiniteSet(Contracts), ReadIInv, ReadIInv', ReadStep
    PROVE  ReadLeft' < ReadLeft
<1>1. Size \in Nat /\ Windows \in Nat /\ BatchSize \in Nat \ {0}
  BY ConstantSizes
<1>2. ReadLeftIsBounded /\ ReadLeftIsBounded' /\ Sizes
  BY ReadLeftBounded, ReadLeftBoundedNext, ReadSizes DEF ReadIInv, ReadLeftIsBounded
<1>3. readPc = "running" => ReadLeft = 1 + SUsdcLeft + Erc20Left + Src20Left
  BY DEF ReadLeft
<1>4. readPc' = "running" => ReadLeft' = 1 + SUsdcLeft' + Erc20Left' + Src20Left'
  BY DEF ReadLeft
<1>5. readPc' \in {"done", "thrown"} => ReadLeft' = 0
  BY DEF ReadLeft
<1>6. readPc = "resolving" => ReadLeft = LongestRead - 1
  BY DEF ReadLeft
<1>0. /\ SUsdcLeft \in Int /\ Erc20Left \in Int /\ Src20Left \in Int
      /\ SUsdcLeft' \in Int /\ Erc20Left' \in Int /\ Src20Left' \in Int
  BY <1>1, <1>2 DEF ReadLeftIsBounded
<1>7. ASSUME readPc \in {"resolving", "running"}, readPc' \in {"done", "thrown"}
      PROVE  ReadLeft' < ReadLeft
  BY <1>1, <1>2, <1>3, <1>5, <1>6, <1>7 DEF ReadLeftIsBounded, LongestRead
<1>8. branch \in [Branches -> {"off", "running", "done", "failed"}]
  BY DEF ReadIInv, ReadTypeOK
<1>9. CASE ReadVaultFails \/ Return
  BY <1>7, <1>9 DEF ReadVaultFails, Return
<1>10. CASE ReadVaultReply
  <2>1. readPc = "resolving" /\ readPc' = "running"
    BY <1>10 DEF ReadVaultReply
  <2>2. /\ LongestRead = 11 + 2 * Size + 4 * Windows + BatchSize
        /\ Src20Left' \in Int /\ Src20Left' <= 6 + Size + 4 * Windows + BatchSize
        /\ SUsdcLeft' \in Int /\ SUsdcLeft' <= 1
        /\ Erc20Left' \in Int /\ Erc20Left' <= 1 + Size
    BY <1>1, <1>2 DEF ReadLeftIsBounded, LongestRead
  <2>3. /\ ReadLeft = 10 + 2 * Size + 4 * Windows + BatchSize
        /\ ReadLeft' = 1 + SUsdcLeft' + Erc20Left' + Src20Left'
    BY <1>1, <1>4, <1>6, <2>1, <2>2
  <2>4. Size \in Int /\ Windows \in Int /\ BatchSize \in Int
    BY <1>1
  <2>5. 1 + SUsdcLeft' + Erc20Left' + Src20Left' < 10 + 2 * Size + 4 * Windows + BatchSize
    BY <2>2, <2>4, LongSum, Zenon
  <2> QED BY <2>3, <2>5
<1>11. CASE SUsdcSettles
  <2>1. /\ readPc = "running"
        /\ readPc' \in {"thrown", "running"}
        /\ SUsdcLeft = 1 /\ SUsdcLeft' = 0
    BY <1>8, <1>11 DEF SUsdcSettles, Running, Ends, Fails, SUsdcLeft, Branches
  <2>2. UNCHANGED <<Erc20Left, Src20Left>>
    BY <1>8, <1>11
       DEF SUsdcSettles, Ends, Fails, Erc20Left, Src20Left, requestVars, scanVars, listVars, Branches
  <2> QED BY <1>0, <1>3, <1>4, <1>7, <2>1, <2>2
<1>12. ASSUME NEW c \in given, Erc20Reply(c) PROVE ReadLeft' < ReadLeft
  <2>1. /\ readPc = "running" /\ readPc' = "running" /\ c \in given \ erc20
        /\ branch["erc20"] = "running" /\ branch' = branch
        /\ (given \ erc20)' = (given \ erc20) \ {c}
    BY <1>12 DEF Erc20Reply, Running, requestVars
  <2>2. Cardinality((given \ erc20)') = Cardinality(given \ erc20) - 1
    BY <1>2, <2>1, OneLess DEF Sizes
  <2>3. Erc20Left' < Erc20Left
    BY <1>2, <2>1, <2>2 DEF Erc20Left, Sizes
  <2>4. UNCHANGED <<SUsdcLeft, Src20Left>>
    BY <1>12 DEF Erc20Reply, SUsdcLeft, Src20Left, scanVars, listVars
  <2>5. ReadLeft = 1 + SUsdcLeft + Erc20Left + Src20Left
    BY <1>3, <2>1
  <2>6. ReadLeft' = 1 + SUsdcLeft + Erc20Left' + Src20Left
    BY <1>4, <2>1, <2>4
  <2> QED BY <1>0, <2>3, <2>5, <2>6, SumLess
<1>13. CASE Erc20Settles
  <2>1. /\ readPc = "running"
        /\ readPc' \in {"thrown", "running"}
        /\ branch["erc20"] = "running" /\ branch'["erc20"] # "running"
    BY <1>8, <1>13 DEF Erc20Settles, Running, Ends, Fails, Branches
  <2>2. Erc20Left > 0 /\ Erc20Left' = 0
    BY <1>2, <2>1 DEF Erc20Left, Sizes
  <2>3. UNCHANGED <<SUsdcLeft, Src20Left>>
    BY <1>8, <1>13
       DEF Erc20Settles, Ends, Fails, SUsdcLeft, Src20Left, scanVars, listVars, Branches
  <2> QED BY <1>0, <1>3, <1>4, <1>7, <2>1, <2>2, <2>3
<1>14. CASE Src20Step
  <2>1. readPc = "running"
    BY <1>14
       DEF Src20Step, HeightReply, HeightFails, WindowReply, WindowFails, NextBatch,
           Discovered, ExplorerHeightReply, ExplorerNext, ExplorerDone, Src20Reply,
           Src20Settles, Running
  <2>2. \/ readPc' = "thrown"
        \/ /\ readPc' = readPc /\ Src20Left' < Src20Left
           /\ UNCHANGED <<SUsdcLeft, Erc20Left>>
    BY <1>14, Src20StepLeavesFewer
  <2> QED BY <1>0, <1>3, <1>4, <1>7, <2>1, <2>2
<1> QED BY <1>9, <1>10, <1>11, <1>12, <1>13, <1>14 DEF ReadStep

(* A read takes at most LongestRead steps, however the chain grows, and one *)
(* of all types does not throw once the vault is known.                     *)
ReadRunsOut ==
    /\ ReadStep => ReadLeft' < ReadLeft
    /\ ReadLeft' <= ReadLeft
    /\ readPc = "running" /\ type = "all" => readPc' # "thrown" /\ type' = type

LEMMA WhenReadSteps == ReadStep => readPc \in {"resolving", "running"}
BY DEF ReadStep, ReadVaultFails, ReadVaultReply, SUsdcSettles, Erc20Reply, Erc20Settles, Return,
       Src20Step, HeightReply, HeightFails, WindowReply, WindowFails, NextBatch, Discovered,
       ExplorerHeightReply, ExplorerNext, ExplorerDone, Src20Reply, Src20Settles, Running

LEMMA AllTypesDoNotThrow ==
    ASSUME ReadNext, readPc = "running", type = "all"
    PROVE  readPc' # "thrown" /\ type' = type
BY DEF ReadNext, ReadCall, Grow,
       ReadStep, ReadVaultFails, ReadVaultReply, SUsdcSettles, Erc20Reply, Erc20Settles, Return,
       Src20Step, HeightReply, HeightFails, WindowReply, WindowFails, NextBatch, Discovered,
       ExplorerHeightReply, ExplorerNext, ExplorerDone, Src20Reply, Src20Settles, Fails,
       requestVars

(* What EveryReadSettles rests on.                                          *)
THEOREM ReadStepsRunOut ==
    ASSUME IsFiniteSet(Contracts)
    PROVE  ReadSpec => [](ReadLeft \in 0..LongestRead) /\ [][ReadRunsOut]_readVars
<1>1. ReadIInv => ReadLeft \in 0..LongestRead
  BY ReadLeftBounded DEF ReadIInv
<1>2. ReadIInv /\ ReadIInv' /\ [ReadNext]_readVars => [ReadRunsOut]_readVars
  <2> SUFFICES ASSUME ReadIInv, ReadIInv', ReadNext
               PROVE  (ReadStep => ReadLeft' < ReadLeft) /\ ReadLeft' <= ReadLeft
    BY AllTypesDoNotThrow DEF ReadRunsOut
  <2>1. ReadLeft \in Int /\ ReadLeft' \in Int /\ LongestRead \in Nat
    BY ReadLeftBounded, ReadLeftBoundedNext, ConstantSizes
       DEF ReadIInv, ReadLeftIsBounded, LongestRead
  <2>2. CASE ReadStep
    BY <2>1, <2>2, ReadStepLeavesFewer
  <2>3. CASE ReadCall
    <3>1. ReadLeft = LongestRead /\ ReadLeft' = LongestRead - 1
      BY <2>3 DEF ReadCall, ReadLeft
    <3>2. ~ReadStep
      BY <2>3, WhenReadSteps DEF ReadCall
    <3> QED BY <2>1, <3>1, <3>2
  <2>4. CASE Grow /\ ~ReadStep
    <3>1. ReadLeft' = ReadLeft
      BY <2>4 DEF Grow, ReadLeft, SUsdcLeft, Erc20Left, Src20Left, requestVars, scanVars, listVars
    <3> QED BY <2>1, <2>4, <3>1
  <2> QED BY <2>2, <2>3, <2>4 DEF ReadNext
<1> QED BY <1>1, <1>2, ReadInvariance, PTL DEF ReadSpec

-----------------------------------------------------------------------------
(* Both together.                                                           *)

(* Each part goes its own way: what holds of a batch or of a token read     *)
(* holds where either may take place.                                       *)
LEMMA PartsAreIndependent == BalancesSpec => Spec /\ ReadSpec
<1>1. BalancesInit => Init /\ ReadInit
  BY DEF BalancesInit
<1>2. [BalancesNext]_<<part, vars, readVars>> => [Next]_vars /\ [ReadNext]_readVars
  BY DEF BalancesNext, ReadBatch, ReadTokens
<1> QED BY <1>1, <1>2, PTL DEF BalancesSpec, Spec, ReadSpec

(* The variables of batchGetSUsdcBalances and of getTokenBalances keep      *)
(* their types.                                                             *)
THEOREM BalancesTypeCorrect == BalancesSpec => []BalancesTypeOK
<1>1. TypeOK /\ ReadTypeOK => BalancesTypeOK
  BY DEF BalancesTypeOK
<1> QED BY <1>1, PartsAreIndependent, BatchTypeCorrect, ReadTypeCorrect, PTL
=============================================================================
