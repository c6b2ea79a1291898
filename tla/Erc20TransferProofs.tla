------------------------ MODULE Erc20TransferProofs ------------------------
(***************************************************************************)
(* The safety of Erc20Transfer for any number of calls, transfers, gas     *)
(* prices, retries and evictions, and that it implements TransferPromise.  *)
(*                                                                         *)
(* None of the properties is inductive.  Known says which locals a call    *)
(* has at which point, and that what the node has taken was sent by a call *)
(* whose transaction is fixed by then.  Confirmations says when an answer  *)
(* on its way, or a success, may stand for a transaction.  Ledger is what  *)
(* the node's rules amount to: nonces are mined without gaps, a taken      *)
(* transaction keeps its nonce busy unless the node drops it, and so do    *)
(* the nonces below every nonce that was read.                             *)
(*                                                                         *)
(* The last two parts are about the end of a call, by counting the         *)
(* attempts and answers it has left, and about the mining of what is       *)
(* confirmed.                                                              *)
(***************************************************************************)
EXTENDS Erc20Transfer, FiniteSetTheorems, TLAPS

(* A call whose transaction has left it, once at least, or may have.        *)
Late == {"sending", "backoff", "done", "failed"}
Sent(c) == pc[c] \in Late /\ nonce[c] # None /\ gasPrice[c] # None

Known ==
    /\ \A c \in Calls : pc[c] = "idle" <=> transfer[c] = None
    /\ \A c \in Calls : pc[c] \in {"signing", "sending", "backoff", "done"} =>
                            nonce[c] # None /\ gasPrice[c] # None
    /\ \A c \in wire : Sent(c)
    /\ \A t \in accepted : \E c \in Calls : Sent(c) /\ t = TxOf(c)
    /\ pool \cup blocks \subseteq accepted

(* The node has told the call, or is about to, that it took its transaction.*)
Confirmed(c) == answer[c] = "hash" \/ pc[c] = "done"

Confirmations ==
    /\ \A c \in Calls : answer[c] = "hash" => pc[c] = "sending"
    /\ \A c \in txLog : pc[c] = "done"
    /\ \A c \in Calls : Confirmed(c) => TxOf(c) \in accepted
    /\ evictions = 0 =>
           \A c, d \in Calls :
               Confirmed(c) /\ Confirmed(d) /\ TxOf(c) = TxOf(d) => c = d

(* A nonce that a block or the pool has.                                    *)
Busy(n) == \E t \in pool \cup blocks : t.nonce = n

Ledger ==
    /\ IsFiniteSet(blocks)
    /\ MinedNonces = 0..(NextNonce - 1)
    /\ evictions = 0 =>
           /\ \A t \in accepted : ~Takes(t)
           /\ \A c \in Calls : nonce[c] # None => \A m \in 0..(nonce[c] - 1) : Busy(m)

IInv == TypeOK /\ Known /\ Confirmations /\ Ledger

-----------------------------------------------------------------------------
(* Lemmas about numbers and sets.                                           *)

(* A set of natural numbers has a least element.                            *)
LEMMA LeastNatural ==
    ASSUME NEW T \in SUBSET Nat, T # {}
    PROVE  \E n \in T : \A m \in T : n <= m
<1>1. \E x \in T : \A y \in T : <<y, x>> \notin OpToRel(<, Nat)
  BY NatLessThanWellFounded, WFMin, Zenon
<1>2. \A y \in Nat, x \in Nat : y < x => <<y, x>> \in OpToRel(<, Nat)
  BY DEF OpToRel
<1>3. \E x \in T : \A y \in T : ~(y < x)
  BY <1>1, <1>2, Zenon
<1> QED BY <1>3

(* A function has at most as many values as arguments.                      *)
LEMMA ImageSize ==
    ASSUME NEW S, IsFiniteSet(S), NEW f, f = [x \in S |-> f[x]],
           NEW T, T \subseteq {f[x] : x \in S}
    PROVE  IsFiniteSet(T) /\ Cardinality(T) <= Cardinality(S)
<1> DEFINE image == {f[x] : x \in S}
<1>1. f \in Surjection(S, image)
  BY DEF Surjection
<1>2. IsFiniteSet(image) /\ Cardinality(image) <= Cardinality(S)
  BY <1>1, FS_Surjection
<1>3. IsFiniteSet(T) /\ Cardinality(T) <= Cardinality(image)
  BY <1>2, FS_Subset
<1>4. Cardinality(S) \in Nat /\ Cardinality(image) \in Nat /\ Cardinality(T) \in Nat
  BY <1>2, <1>3, FS_CardinalityType
<1> QED BY <1>2, <1>3, <1>4

(* Finitely many transactions are known to the node, at most one of a call. *)
LEMMA FiniteLedger ==
    ASSUME TypeOK, Known
    PROVE  IsFiniteSet(pool \cup blocks)
<1> DEFINE f == [c \in Calls |-> TxOf(c)]
<1>1. pool \cup blocks \subseteq {f[c] : c \in Calls}
  BY DEF Known
<1>2. f = [c \in Calls |-> f[c]]
  OBVIOUS
<1> QED BY <1>1, <1>2, ImageSize, TransferAssumption

(* eth_getTransactionCount gives the first nonce that is not busy.          *)
LEMMA PendingNonceIsFirstFree ==
    ASSUME TypeOK, Known
    PROVE  /\ PendingNonce \in Nat
           /\ \A m \in 0..(PendingNonce - 1) : Busy(m)
<1> DEFINE txs == pool \cup blocks
<1> DEFINE nonces == MinedNonces \cup {t.nonce : t \in pool}
<1> DEFINE size == Cardinality(txs)
<1> DEFINE P(n) == n \notin nonces /\ \A m \in 0..(n - 1) : m \in nonces
<1>1. IsFiniteSet(txs) /\ size \in Nat
  BY FiniteLedger, FS_CardinalityType
<1>2. nonces = {t.nonce : t \in txs} /\ nonces \subseteq Nat
  BY DEF MinedNonces, TypeOK, Tx
<1>3. IsFiniteSet(nonces) /\ Cardinality(nonces) <= size
  <2> DEFINE f == [t \in txs |-> t.nonce]
  <2>1. nonces \subseteq {f[t] : t \in txs}
    BY <1>2
  <2>2. f = [t \in txs |-> f[t]]
    OBVIOUS
  <2> HIDE DEF f, nonces, txs
  <2> QED BY <1>1, <2>1, <2>2, ImageSize
<1>4. PICK n \in 0..size : n \notin nonces
  <2> SUFFICES ASSUME 0..size \subseteq nonces PROVE FALSE
    OBVIOUS
  <2>1. Cardinality(0..size) = size + 1
    BY <1>1, FS_Interval
  <2>2. Cardinality(0..size) <= Cardinality(nonces)
    BY <1>3, FS_Subset
  <2>3. Cardinality(nonces) \in Nat
    BY <1>3, FS_CardinalityType
  <2> QED BY <1>1, <1>3, <2>1, <2>2, <2>3
<1>5. \E k \in 0..size : P(k)
  <2> DEFINE free == {k \in Nat : k \notin nonces}
  <2>1. PICK k \in free : \A m \in free : k <= m
    <3>1. free # {} /\ free \in SUBSET Nat
      BY <1>1, <1>4
    <3> HIDE DEF free
    <3> QED BY <3>1, LeastNatural
  <2>2. k <= n /\ k \in Nat /\ n \in Nat /\ n <= size
    BY <1>1, <1>4, <2>1
  <2>3. \A m \in 0..(k - 1) : m \in nonces
    BY <2>1, <2>2
  <2> QED BY <1>1, <2>1, <2>2, <2>3
<1>6. PendingNonce = CHOOSE k \in 0..size : P(k)
  <2>1. blocks \cup pool = txs
    OBVIOUS
  <2> QED BY <2>1, Zenon DEF PendingNonce
<1>7. PendingNonce \in 0..size /\ P(PendingNonce)
  <2> HIDE DEF P, size
  <2> QED BY <1>5, <1>6, Zenon
<1> QED BY <1>1, <1>2, <1>7 DEF Busy

-----------------------------------------------------------------------------
(* The steps of a call that neither read anything nor change the ledger.    *)
LocalStep(c) ==
    \/ Prepared(c) \/ Estimated(c) \/ RejectBeforeSend(c)
    \/ SignReply(c) \/ AccountSigns(c) \/ Resend(c)
    \/ NodeRefuses(c) \/ NodeUnavailable(c) \/ HashReply(c)
    \/ ErrorReply(c) \/ UnavailableReply(c) \/ TransportFails(c)
    \/ LibraryRetries(c) \/ ShieldedFails(c)

(* What such a step may do: it keeps to its call, sends nothing before the  *)
(* transaction is fixed, and confirms nothing that was not confirmed.       *)
LEMMA LocalStepFacts ==
    ASSUME TypeOK, Known, Confirmations, NEW c \in Calls, LocalStep(c)
    PROVE  /\ UNCHANGED <<inputVars, nodeVars>>
           /\ \A d \in Calls \ {c} : pc'[d] = pc[d] /\ answer'[d] = answer[d]
           /\ pc[c] # "idle" /\ pc'[c] \in Points \ {"idle"}
           /\ pc[c] \in Late => pc'[c] \in Late
           /\ pc'[c] \in {"signing", "sending", "backoff", "done"} =>
                  nonce[c] # None /\ gasPrice[c] # None
           /\ wire' \subseteq wire \cup {c}
           /\ c \in wire' => pc'[c] \in Late /\ nonce[c] # None /\ gasPrice[c] # None
           /\ answer'[c] = "hash" => answer[c] = "hash" /\ pc'[c] = "sending"
           /\ pc'[c] = "done" => answer[c] = "hash" \/ pc[c] = "done"
           /\ txLog' \subseteq txLog \cup {c}
           /\ c \in txLog' => pc'[c] = "done"
           /\ TypeOK'
<1> USE TransferAssumption
    DEF TypeOK, Known, Confirmations, Points, Late, Sent, Goto, Sends, Answer,
        progressVars, inputVars, nodeVars
<1>1. CASE Prepared(c) \/ Estimated(c) \/ RejectBeforeSend(c)
  BY <1>1 DEF Prepared, Estimated, RejectBeforeSend
<1>2. CASE SignReply(c) \/ AccountSigns(c) \/ Resend(c)
  BY <1>2 DEF SignReply, AccountSigns, Resend
<1>3. CASE NodeRefuses(c) \/ NodeUnavailable(c)
  BY <1>3 DEF NodeRefuses, NodeUnavailable
<1>4. CASE HashReply(c)
  BY <1>4 DEF HashReply
<1>5. CASE ErrorReply(c)
  BY <1>5 DEF ErrorReply
<1>6. CASE UnavailableReply(c) \/ TransportFails(c)
  BY <1>6 DEF UnavailableReply, TransportFails
<1>7. CASE LibraryRetries(c)
  BY <1>7 DEF LibraryRetries
<1>8. CASE ShieldedFails(c)
  BY <1>8 DEF ShieldedFails
<1> QED BY <1>1, <1>2, <1>3, <1>4, <1>5, <1>6, <1>7, <1>8 DEF LocalStep

(* The steps of the node, and those that read an answer or a request, keep  *)
(* the types.                                                               *)
LEMMA OtherTypes ==
    ASSUME TypeOK, Known,
           \/ \E c \in Calls, p \in Transfers : Start(c, p)
           \/ \E c \in Calls : NonceReply(c) \/ NodeAccepts(c)
           \/ \E c \in Calls, g \in GasPrices : GasPriceReply(c, g)
           \/ \E t \in pool : Mine(t) \/ Evict(t)
           \/ UNCHANGED vars
    PROVE  TypeOK'
<1> USE TransferAssumption
    DEF TypeOK, Points, Goto, Answer, vars, progressVars, inputVars, nodeVars
<1>1. CASE \E c \in Calls, p \in Transfers : Start(c, p)
  BY <1>1 DEF Start
<1>2. ASSUME NEW c \in Calls, NonceReply(c) PROVE TypeOK'
  BY <1>2, PendingNonceIsFirstFree DEF NonceReply
<1>3. ASSUME NEW c \in Calls, NodeAccepts(c) PROVE TypeOK'
  <2>1. TxOf(c) \in Tx
    BY <1>3 DEF NodeAccepts, Known, Sent, Late, TxOf, Tx
  <2> QED BY <1>3, <2>1 DEF NodeAccepts
<1>4. CASE \E c \in Calls, g \in GasPrices : GasPriceReply(c, g)
  BY <1>4 DEF GasPriceReply
<1>5. CASE \E t \in pool : Mine(t) \/ Evict(t)
  BY <1>5 DEF Mine, Evict
<1>6. CASE UNCHANGED vars
  BY <1>6
<1> QED BY <1>1, <1>2, <1>3, <1>4, <1>5, <1>6

(* A transaction that was sent does not change any more.                    *)
LEMMA SentStays ==
    ASSUME TypeOK, Known, Confirmations, [Next]_vars, NEW c \in Calls, Sent(c)
    PROVE  Sent(c)' /\ TxOf(c)' = TxOf(c)
<1> USE DEF Sent, Late, TxOf, IsShielded
<1>1. ASSUME NEW d \in Calls, NEW p \in Transfers, Start(d, p)
      PROVE  Sent(c)' /\ TxOf(c)' = TxOf(c)
  BY <1>1 DEF Start, Goto, TypeOK
<1>2. ASSUME NEW d \in Calls, LocalStep(d)
      PROVE  Sent(c)' /\ TxOf(c)' = TxOf(c)
  BY <1>2, LocalStepFacts DEF inputVars
<1>3. ASSUME NEW d \in Calls, NonceReply(d) \/ NodeAccepts(d)
      PROVE  Sent(c)' /\ TxOf(c)' = TxOf(c)
  BY <1>3 DEF NonceReply, NodeAccepts, Answer, TypeOK, progressVars, inputVars
<1>4. ASSUME NEW d \in Calls, NEW g \in GasPrices, GasPriceReply(d, g)
      PROVE  Sent(c)' /\ TxOf(c)' = TxOf(c)
  BY <1>4 DEF GasPriceReply, TypeOK, progressVars
<1>5. ASSUME NEW t \in pool, Mine(t) \/ Evict(t)
      PROVE  Sent(c)' /\ TxOf(c)' = TxOf(c)
  BY <1>5 DEF Mine, Evict, progressVars, inputVars
<1>6. CASE UNCHANGED vars
  BY <1>6 DEF vars, progressVars, inputVars
<1> QED BY <1>1, <1>2, <1>3, <1>4, <1>5, <1>6 DEF Next, Step, LocalStep

(* Every step keeps Known.                                                  *)
LEMMA KnownStep ==
    ASSUME TypeOK, Known, Confirmations, [Next]_vars
    PROVE  TypeOK' /\ Known'
<1>1. TypeOK'
  BY OtherTypes, LocalStepFacts DEF Next, Step, LocalStep
<1>2. ASSUME accepted' = accepted
      PROVE  \A t \in accepted' : \E c \in Calls : Sent(c)' /\ t = TxOf(c)'
  BY <1>2, SentStays DEF Known
<1>3. ASSUME NEW c \in Calls, NEW p \in Transfers, Start(c, p) PROVE Known'
  BY <1>2, <1>3, TransferAssumption
     DEF Start, Goto, TypeOK, Known, nodeVars, Sent, Late
<1>4. ASSUME NEW c \in Calls, LocalStep(c) PROVE Known'
  <2>1. \A d \in Calls : pc'[d] = "idle" <=> transfer'[d] = None
    BY <1>4, LocalStepFacts DEF Known, inputVars
  <2>2. \A d \in Calls : pc'[d] \in {"signing", "sending", "backoff", "done"} =>
                             nonce'[d] # None /\ gasPrice'[d] # None
    BY <1>4, LocalStepFacts DEF Known, inputVars
  <2>3. \A d \in wire' : Sent(d)'
    BY <1>1, <1>4, LocalStepFacts DEF Known, inputVars, Sent, TypeOK
  <2> QED BY <1>2, <1>4, <2>1, <2>2, <2>3, LocalStepFacts DEF Known, nodeVars
<1>5. ASSUME NEW c \in Calls, NonceReply(c) PROVE Known'
  BY <1>2, <1>5, PendingNonceIsFirstFree, TransferAssumption
     DEF NonceReply, Known, TypeOK, Sent, Late, progressVars, nodeVars
<1>6. ASSUME NEW c \in Calls, NEW g \in GasPrices, GasPriceReply(c, g) PROVE Known'
  BY <1>2, <1>6, TransferAssumption
     DEF GasPriceReply, Known, TypeOK, Sent, Late, progressVars, nodeVars
<1>7. ASSUME NEW c \in Calls, NodeAccepts(c) PROVE Known'
  <2>1. Sent(c) /\ Sent(c)' /\ TxOf(c)' = TxOf(c)
    BY <1>7, SentStays DEF NodeAccepts, Known
  <2>2. \A t \in accepted' : \E d \in Calls : Sent(d)' /\ t = TxOf(d)'
    BY <1>7, <2>1, SentStays DEF NodeAccepts, Known
  <2> QED BY <1>7, <2>2 DEF NodeAccepts, Answer, Known, TypeOK, Sent, inputVars
<1>8. ASSUME NEW t \in pool, Mine(t) \/ Evict(t) PROVE Known'
  <2>1. UNCHANGED <<progressVars, inputVars, wire, accepted>>
        /\ pool' \cup blocks' \subseteq pool \cup blocks
    BY <1>8 DEF Mine, Evict
  <2> QED BY <1>2, <2>1 DEF Known, Sent, progressVars, inputVars
<1>9. CASE UNCHANGED vars
  BY <1>1, <1>2, <1>9 DEF Known, Sent, vars, progressVars, inputVars, nodeVars
<1> QED BY <1>1, <1>3, <1>4, <1>5, <1>6, <1>7, <1>8, <1>9 DEF Next, Step, LocalStep

(* The node refuses what it has taken, as long as it drops nothing, so that *)
(* no second call has a confirmation of the same transaction.               *)
LEMMA ConfirmationsStep ==
    ASSUME IInv, [Next]_vars
    PROVE  Confirmations'
<1> USE DEF IInv
<1>1. \A c \in Calls : Confirmed(c) => Sent(c) /\ Sent(c)' /\ TxOf(c)' = TxOf(c)
  <2> SUFFICES ASSUME NEW c \in Calls, Confirmed(c) PROVE Sent(c)
    BY SentStays
  <2> QED BY DEF Confirmed, Confirmations, Known, Sent, Late
<1>2. TypeOK' /\ Known'
  BY KnownStep
<1>3. ASSUME accepted \subseteq accepted',
             \A c \in Calls : Confirmed(c)' => Confirmed(c),
             \A c \in Calls : answer'[c] = "hash" => pc'[c] = "sending",
             \A c \in txLog' : pc'[c] = "done",
             evictions' = 0 => evictions = 0
      PROVE  Confirmations'
  BY <1>1, <1>3 DEF Confirmations
<1>4. ASSUME NEW c \in Calls, NEW p \in Transfers, Start(c, p) PROVE Confirmations'
  BY <1>3, <1>4 DEF Start, Goto, Confirmed, Confirmations, TypeOK, nodeVars
<1>5. ASSUME NEW c \in Calls, LocalStep(c) PROVE Confirmations'
  <2>1. /\ UNCHANGED <<inputVars, nodeVars>>
        /\ \A d \in Calls \ {c} : pc'[d] = pc[d] /\ answer'[d] = answer[d]
        /\ answer'[c] = "hash" => answer[c] = "hash" /\ pc'[c] = "sending"
        /\ pc'[c] = "done" => answer[c] = "hash" \/ pc[c] = "done"
        /\ txLog' \subseteq txLog \cup {c}
        /\ c \in txLog' => pc'[c] = "done"
    BY <1>5, LocalStepFacts
  <2>2. \A d \in Calls : Confirmed(d)' => Confirmed(d)
    BY <2>1 DEF Confirmed
  <2>3. \A d \in Calls : answer'[d] = "hash" => pc'[d] = "sending"
    BY <2>1 DEF Confirmations
  <2>4. \A d \in txLog' : pc'[d] = "done"
    BY <2>1 DEF Confirmations, TypeOK
  <2> QED BY <1>3, <2>1, <2>2, <2>3, <2>4 DEF nodeVars
<1>6. ASSUME NEW c \in Calls, NonceReply(c) \/ \E g \in GasPrices : GasPriceReply(c, g)
      PROVE  Confirmations'
  BY <1>3, <1>6
     DEF NonceReply, GasPriceReply, Confirmed, Confirmations, progressVars, nodeVars
<1>7. ASSUME NEW c \in Calls, NodeAccepts(c) PROVE Confirmations'
  <2>1. /\ Takes(TxOf(c)) /\ Sent(c) /\ TxOf(c)' = TxOf(c)
        /\ UNCHANGED <<pc, evictions, txLog>>
        /\ accepted' = accepted \cup {TxOf(c)}
        /\ answer' = IF pc[c] = "sending" THEN [answer EXCEPT ![c] = "hash"] ELSE answer
    BY <1>7, SentStays DEF NodeAccepts, Answer, Known
  <2>2. \A d \in Calls : Confirmed(d)' => Confirmed(d) \/ d = c
    BY <2>1 DEF Confirmed, TypeOK
  <2>3. \A d \in Calls : Confirmed(d)' => TxOf(d)' = TxOf(d) /\ TxOf(d)' \in accepted'
    BY <1>1, <2>1, <2>2 DEF Confirmations
  <2>4. evictions = 0 => TxOf(c) \notin accepted
    BY <2>1 DEF Ledger
  <2>5. ASSUME evictions' = 0, NEW d \in Calls, NEW e \in Calls,
               Confirmed(d)', Confirmed(e)', TxOf(d)' = TxOf(e)'
        PROVE  d = e
    <3>1. Confirmed(d) \/ d = c
      BY <2>2, <2>5
    <3>2. Confirmed(e) \/ e = c
      BY <2>2, <2>5
    <3>3. TxOf(d) = TxOf(e)
      BY <2>3, <2>5
    <3>4. evictions = 0
      BY <2>1, <2>5
    <3> QED BY <2>4, <3>1, <3>2, <3>3, <3>4 DEF Confirmations
  <2>6. \A d \in Calls : answer'[d] = "hash" => pc'[d] = "sending"
    BY <2>1 DEF Confirmations, TypeOK
  <2> QED BY <2>1, <2>3, <2>5, <2>6 DEF Confirmations
<1>8. ASSUME NEW t \in pool, Mine(t) \/ Evict(t) PROVE Confirmations'
  <2>1. UNCHANGED <<progressVars, txLog, accepted>> /\ (evictions' = 0 => evictions = 0)
    BY <1>8 DEF Mine, Evict, TypeOK
  <2> QED BY <1>3, <2>1 DEF Confirmed, Confirmations, progressVars
<1>9. CASE UNCHANGED vars
  BY <1>3, <1>9 DEF Confirmed, Confirmations, vars, progressVars, nodeVars
<1> QED BY <1>4, <1>5, <1>6, <1>7, <1>8, <1>9 DEF Next, Step, LocalStep

(* What the node does, and the nonces that are read, keep Ledger.           *)
LEMMA LedgerStep ==
    ASSUME IInv, [Next]_vars
    PROVE  Ledger'
<1> USE DEF IInv
<1>1. ASSUME UNCHANGED nodeVars, UNCHANGED nonce PROVE Ledger'
  BY <1>1 DEF Ledger, nodeVars, Takes, Rivals, NextNonce, MinedNonces, Busy
<1>2. ASSUME NEW c \in Calls, NonceReply(c) PROVE Ledger'
  <2>1. \A d \in Calls : nonce'[d] = nonce[d] \/ nonce'[d] = PendingNonce
    BY <1>2 DEF NonceReply, TypeOK
  <2>2. \A m \in 0..(PendingNonce - 1) : Busy(m)
    BY PendingNonceIsFirstFree
  <2>3. UNCHANGED nodeVars
    BY <1>2 DEF NonceReply
  <2>4. evictions = 0 => \A d \in Calls : nonce'[d] # None =>
                             \A m \in 0..(nonce'[d] - 1) : Busy(m)
    BY <2>1, <2>2 DEF Ledger
  <2> QED BY <2>3, <2>4
          DEF Ledger, nodeVars, Takes, Rivals, NextNonce, MinedNonces, Busy
<1>3. ASSUME NEW c \in Calls, NodeAccepts(c) PROVE Ledger'
  <2> DEFINE t == TxOf(c)
  <2>1. /\ Takes(t) /\ Sent(c)
        /\ pool' = (pool \ Rivals(t)) \cup {t} /\ accepted' = accepted \cup {t}
        /\ UNCHANGED <<nonce, blocks, evictions>>
    BY <1>3 DEF NodeAccepts, Answer, Known, inputVars
  <2>2. \A u \in accepted : u \in Tx
    BY DEF TypeOK
  <2>3. t \in Tx
    BY <2>1 DEF TypeOK, Known, Sent, Late, TxOf, Tx
  <2>4. ASSUME NEW m, Busy(m) PROVE Busy(m)'
    BY <2>1, <2>4 DEF Busy, Rivals
  <2>5. ASSUME NEW u \in accepted', evictions = 0 PROVE ~Takes(u)'
    <3>1. CASE u.nonce \in MinedNonces
      BY <2>1, <3>1 DEF Takes, MinedNonces
    <3>2. CASE u = t
      <4>1. t.gasPrice \in Nat
        BY <2>3, TransferAssumption DEF Tx
      <4>2. t \in pool' /\ t.nonce = t.nonce /\ ~(t.gasPrice > t.gasPrice)
        BY <2>1, <4>1
      <4> HIDE DEF t
      <4> QED BY <3>2, <4>2 DEF Takes, Rivals
    <3>3. CASE u \in accepted /\ u.nonce \notin MinedNonces
      <4>1. PICK w \in pool : w.nonce = u.nonce /\ ~(u.gasPrice > w.gasPrice)
        BY <2>5, <3>3 DEF Ledger, Takes, Rivals
      <4>2. CASE w \in pool'
        BY <4>1, <4>2 DEF Takes, Rivals
      <4>3. CASE w \notin pool'
        <5>1. t.gasPrice > w.gasPrice /\ t.nonce = w.nonce /\ t \in pool'
          BY <2>1, <4>1, <4>3 DEF Takes, Rivals
        <5>2. t.gasPrice \in Nat /\ w.gasPrice \in Nat /\ u.gasPrice \in Nat
          BY <2>2, <2>3, <3>3, <4>1, TransferAssumption DEF TypeOK, Tx
        <5> QED BY <4>1, <5>1, <5>2 DEF Takes, Rivals
      <4> QED BY <4>2, <4>3
    <3> QED BY <2>1, <3>1, <3>2, <3>3
  <2> QED BY <2>1, <2>4, <2>5 DEF Ledger, NextNonce, MinedNonces
<1>4. ASSUME NEW t \in pool, Mine(t) PROVE Ledger'
  <2>1. /\ t.nonce = NextNonce
        /\ pool' = pool \ {t} /\ blocks' = blocks \cup {t}
        /\ UNCHANGED <<nonce, accepted, evictions>>
    BY <1>4 DEF Mine, inputVars
  <2>2. NextNonce \in Nat /\ IsFiniteSet(blocks)
    BY FS_CardinalityType DEF Ledger, NextNonce
  <2>3. t \notin blocks
    BY <2>1, <2>2 DEF Ledger, MinedNonces
  <2>4. IsFiniteSet(blocks') /\ NextNonce' = NextNonce + 1
    BY <2>1, <2>2, <2>3, FS_AddElement DEF NextNonce
  <2>5. MinedNonces' = MinedNonces \cup {NextNonce}
    BY <2>1 DEF MinedNonces
  <2>6. MinedNonces' = 0..(NextNonce' - 1)
    BY <2>2, <2>4, <2>5 DEF Ledger
  <2>7. ASSUME NEW m, Busy(m) PROVE Busy(m)'
    BY <2>1, <2>7 DEF Busy
  <2>8. ASSUME NEW u \in accepted', evictions = 0 PROVE ~Takes(u)'
    <3>1. CASE u.nonce \in MinedNonces
      BY <2>5, <3>1 DEF Takes
    <3>2. CASE u.nonce \notin MinedNonces
      <4>1. PICK w \in pool : w.nonce = u.nonce /\ ~(u.gasPrice > w.gasPrice)
        BY <2>1, <2>8, <3>2 DEF Ledger, Takes, Rivals
      <4>2. CASE w = t
        BY <2>1, <2>5, <4>1, <4>2 DEF Takes
      <4>3. CASE w # t
        BY <2>1, <4>1, <4>3 DEF Takes, Rivals
      <4> QED BY <4>2, <4>3
    <3> QED BY <3>1, <3>2
  <2> QED BY <2>1, <2>4, <2>6, <2>7, <2>8 DEF Ledger
<1>5. ASSUME NEW t \in pool, Evict(t) PROVE Ledger'
  BY <1>5 DEF Evict, TypeOK, Ledger, NextNonce, MinedNonces
<1> QED BY <1>1, <1>2, <1>3, <1>4, <1>5, LocalStepFacts
        DEF Next, Step, LocalStep, Start, GasPriceReply, vars, inputVars

(* The initial state satisfies the invariant.                               *)
LEMMA InitialState == Init => IInv
<1> SUFFICES ASSUME Init PROVE IInv
  OBVIOUS
<1>1. TypeOK
  BY TransferAssumption DEF Init, TypeOK, Points
<1>2. Known
  BY TransferAssumption DEF Init, Known
<1>3. Confirmations
  BY DEF Init, Confirmations, Confirmed
<1>4. IsFiniteSet(blocks) /\ NextNonce = 0
  BY FS_EmptySet DEF Init, NextNonce
<1>5. MinedNonces = {} /\ 0..(0 - 1) = {}
  BY DEF Init, MinedNonces
<1>6. Ledger
  BY <1>4, <1>5 DEF Init, Ledger
<1> QED BY <1>1, <1>2, <1>3, <1>6 DEF IInv

(* The invariant holds in every reachable state.                            *)
LEMMA InvariantAlways == Spec => []IInv
<1>1. IInv /\ [Next]_vars => IInv'
  BY KnownStep, ConfirmationsStep, LedgerStep DEF IInv
<1> QED BY <1>1, InitialState, PTL DEF Spec

-----------------------------------------------------------------------------
(* The properties.                                                          *)

(* Every variable of the calls and of the node keeps its type.              *)
THEOREM TransferTypeCorrect == Spec => []TypeOK
<1>1. IInv => TypeOK
  BY DEF IInv
<1> QED BY <1>1, InvariantAlways, PTL

(* A hash that createErc20Transaction or createShieldedTransaction returned *)
(* or logged stands for a transaction that the node has taken.              *)
THEOREM SuccessIsAccepted == Spec => []SuccessMeansAccepted
<1>1. IInv => SuccessMeansAccepted
  BY DEF IInv, Confirmations, Confirmed, SuccessMeansAccepted, TypeOK
<1> QED BY <1>1, InvariantAlways, PTL

(* As long as the node drops nothing, two successful calls have two         *)
(* transactions, even if they read the same nonce.                          *)
THEOREM NoSharedSuccess == Spec => []SuccessesAreDistinct
<1>1. IInv => SuccessesAreDistinct
  <2> SUFFICES ASSUME IInv, ~(evictions > 0), NEW c \in Calls, NEW d \in Calls,
                      pc[c] = "done", pc[d] = "done", TxOf(c) = TxOf(d)
               PROVE  c = d
    BY DEF SuccessesAreDistinct
  <2>1. evictions = 0
    BY TransferAssumption DEF IInv, TypeOK
  <2> QED BY <2>1 DEF IInv, Confirmations, Confirmed
<1> QED BY <1>1, InvariantAlways, PTL

LEMMA NoGap == IInv => NoNonceGap
<1> SUFFICES ASSUME IInv, evictions = 0, NEW t \in pool, NEW n \in NextNonce..t.nonce
             PROVE  \E u \in pool : u.nonce = n
  BY DEF NoNonceGap
<1>1. PICK c \in Calls : Sent(c) /\ t = TxOf(c)
  BY DEF IInv, Known
<1>2. t.nonce = nonce[c] /\ nonce[c] \in Nat
  BY <1>1 DEF IInv, TypeOK, Sent, TxOf
<1>3. NextNonce \in Nat
  BY FS_CardinalityType DEF IInv, Ledger, NextNonce
<1>4. n \notin MinedNonces
  BY <1>3 DEF IInv, Ledger
<1>5. CASE n = t.nonce
  BY <1>5
<1>6. CASE n # t.nonce
  <2>1. n \in 0..(nonce[c] - 1) /\ nonce[c] # None
    BY <1>1, <1>2, <1>3, <1>6, TransferAssumption DEF Sent
  <2>2. Busy(n)
    BY <2>1 DEF IInv, Ledger
  <2> QED BY <1>4, <2>2 DEF Busy, MinedNonces
<1> QED BY <1>5, <1>6

(* As long as the node drops nothing, every pending transaction can be      *)
(* mined: the nonces below it are mined or pending.                         *)
THEOREM NoncesHaveNoGap == Spec => []NoNonceGap
BY NoGap, InvariantAlways, PTL

-----------------------------------------------------------------------------
(* Erc20Transfer implements TransferPromise.                                *)

(* The calls with a transfer are finitely many, and one more if there is    *)
(* one more.                                                                *)
LEMMA CallsAreCounted ==
    ASSUME NEW p \in Transfers, NEW points
    PROVE  /\ IsFiniteSet(CallsWith(p, points))
           /\ Cardinality(CallsWith(p, points)) \in Nat
<1>1. CallsWith(p, points) \subseteq Calls
  BY DEF CallsWith
<1> QED BY <1>1, TransferAssumption, FS_Subset, FS_CardinalityType

(* A pending transaction whose turn it is was requested, and by another     *)
(* call than each one already mined: what is mined never exceeds what was   *)
(* requested.                                                               *)
LEMMA MinedWasRequested ==
    ASSUME IInv, NEW t \in pool, t \notin blocks
    PROVE  /\ t.transfer \in Transfers
           /\ Count(blocks, t.transfer)
                  < Cardinality(CallsWith(t.transfer, Points))
<1> DEFINE p == t.transfer
<1> DEFINE mined == {u \in blocks : u.transfer = p}
<1> DEFINE owners == CallsWith(p, Points)
<1> DEFINE f == [c \in owners |-> TxOf(c)]
<1>1. p \in Transfers
  BY DEF IInv, TypeOK, Tx
<1>2. IsFiniteSet(owners) /\ Cardinality(owners) \in Nat
  BY <1>1, CallsAreCounted
<1>3. mined \cup {t} \subseteq {f[c] : c \in owners}
  <2> SUFFICES ASSUME NEW u \in mined \cup {t} PROVE \E c \in owners : u = f[c]
    OBVIOUS
  <2>1. u \in accepted /\ u.transfer = p
    BY DEF IInv, Known
  <2>2. PICK c \in Calls : u = TxOf(c)
    BY <2>1 DEF IInv, Known
  <2>3. c \in owners
    BY <2>1, <2>2 DEF CallsWith, TxOf, IInv, TypeOK
  <2> QED BY <2>2, <2>3
<1>4. IsFiniteSet(mined \cup {t}) /\ Cardinality(mined \cup {t}) <= Cardinality(owners)
  <2>1. f = [c \in owners |-> f[c]]
    OBVIOUS
  <2> HIDE DEF f, owners, mined
  <2> QED BY <1>2, <1>3, <2>1, ImageSize
<1>5. IsFiniteSet(mined) /\ Cardinality(mined) \in Nat
  BY FS_Subset, FS_CardinalityType DEF IInv, Ledger
<1>6. Cardinality(mined \cup {t}) = Cardinality(mined) + 1
  BY <1>5, FS_AddElement
<1> QED BY <1>1, <1>2, <1>4, <1>5, <1>6 DEF Count

(* A step that starts no call, confirms none and mines nothing leaves the   *)
(* promise's three counts alone.                                            *)
LEMMA UncountedStep ==
    ASSUME UNCHANGED <<transfer, blocks>>,
           \A c \in Calls : pc[c] \in Points /\ pc'[c] \in Points,
           \A c \in Calls : pc'[c] = "done" <=> pc[c] = "done"
    PROVE  UNCHANGED Promise!vars
<1>1. \A p \in Transfers : CallsWith(p, Points)' = CallsWith(p, Points)
  BY DEF CallsWith
<1>2. \A p \in Transfers : CallsWith(p, {"done"})' = CallsWith(p, {"done"})
  BY DEF CallsWith
<1>3. \A p \in Transfers : Count(blocks, p)' = Count(blocks, p)
  BY DEF Count
<1> QED BY <1>1, <1>2, <1>3, Zenon DEF Promise!vars

(* The first state of the transfers is the first state of the promise.      *)
LEMMA PromiseInit == Init => Promise!Init
<1> SUFFICES ASSUME Init PROVE Promise!Init
  OBVIOUS
<1>1. \A p \in Transfers : CallsWith(p, Points) = {} /\ CallsWith(p, {"done"}) = {}
  BY TransferAssumption DEF Init, CallsWith
<1>2. \A p \in Transfers : Count(blocks, p) = 0
  BY FS_EmptySet DEF Init, Count
<1> QED BY <1>1, <1>2, FS_EmptySet DEF Promise!Init

(* A call starts: one more transfer is requested.                           *)
LEMMA StartRequests ==
    ASSUME IInv, NEW c \in Calls, NEW p \in Transfers, Start(c, p)
    PROVE  Promise!Request(p)
<1>1. /\ pc[c] = "idle" /\ transfer[c] = None /\ UNCHANGED blocks
      /\ pc' = [pc EXCEPT ![c] = "preparing"] /\ transfer' = [transfer EXCEPT ![c] = p]
  BY DEF Start, Goto, IInv, Known, nodeVars
<1>2. pc \in [Calls -> Points] /\ transfer \in [Calls -> Transfers \cup {None}]
  BY DEF IInv, TypeOK
<1>3. CallsWith(p, Points)' = CallsWith(p, Points) \cup {c}
  BY <1>1, <1>2 DEF CallsWith, Points
<1>4. c \notin CallsWith(p, Points)
  BY <1>1, TransferAssumption DEF CallsWith
<1>5. Cardinality(CallsWith(p, Points)') = Cardinality(CallsWith(p, Points)) + 1
  BY <1>3, <1>4, CallsAreCounted, FS_AddElement
<1>6. \A q \in Transfers \ {p} : CallsWith(q, Points)' = CallsWith(q, Points)
  BY <1>1, <1>2, TransferAssumption DEF CallsWith, Points
<1>7. \A q \in Transfers : CallsWith(q, {"done"})' = CallsWith(q, {"done"})
  BY <1>1, <1>2 DEF CallsWith
<1>8. \A q \in Transfers : Count(blocks, q)' = Count(blocks, q)
  BY <1>1 DEF Count
<1> QED BY <1>5, <1>6, <1>7, <1>8 DEF Promise!Request

(* A hash reaches its caller: the transfer is confirmed once more, and no   *)
(* oftener than it was requested.                                           *)
LEMMA HashReplyConfirms ==
    ASSUME IInv, NEW c \in Calls, HashReply(c)
    PROVE  \E p \in Transfers : Promise!Confirm(p)
<1>1. /\ pc[c] = "sending" /\ pc' = [pc EXCEPT ![c] = "done"]
      /\ UNCHANGED <<transfer, blocks>>
  BY DEF HashReply, Goto, nodeVars, inputVars
<1>2. pc \in [Calls -> Points] /\ transfer \in [Calls -> Transfers \cup {None}]
  BY DEF IInv, TypeOK
<1>3. PICK p \in Transfers : transfer[c] = p
  BY <1>1, <1>2 DEF IInv, Known
<1>4. CallsWith(p, {"done"})' = CallsWith(p, {"done"}) \cup {c}
  BY <1>1, <1>2, <1>3 DEF CallsWith
<1>5. c \notin CallsWith(p, {"done"})
  BY <1>1 DEF CallsWith
<1>6. Cardinality(CallsWith(p, {"done"})') = Cardinality(CallsWith(p, {"done"})) + 1
  BY <1>4, <1>5, CallsAreCounted, FS_AddElement
<1>7. CallsWith(p, {"done"}) \cup {c} \subseteq CallsWith(p, Points)
  BY <1>1, <1>2, <1>3 DEF CallsWith, Points
<1>8. Cardinality(CallsWith(p, {"done"})) < Cardinality(CallsWith(p, Points))
  <2>1. Cardinality(CallsWith(p, {"done"}) \cup {c}) <= Cardinality(CallsWith(p, Points))
    BY <1>7, CallsAreCounted, FS_Subset
  <2>2. Cardinality(CallsWith(p, {"done"})) \in Nat
        /\ Cardinality(CallsWith(p, Points)) \in Nat
    BY CallsAreCounted
  <2> QED BY <1>4, <1>6, <2>1, <2>2
<1>9. \A q \in Transfers \ {p} : CallsWith(q, {"done"})' = CallsWith(q, {"done"})
  BY <1>1, <1>2, <1>3 DEF CallsWith
<1>10. \A q \in Transfers : CallsWith(q, Points)' = CallsWith(q, Points)
  BY <1>1, <1>2 DEF CallsWith, Points
<1>11. \A q \in Transfers : Count(blocks, q)' = Count(blocks, q)
  BY <1>1 DEF Count
<1> QED BY <1>6, <1>8, <1>9, <1>10, <1>11 DEF Promise!Confirm

(* A transaction is mined: its transfer is executed once more.              *)
LEMMA MineExecutes ==
    ASSUME IInv, NEW t \in pool, Mine(t)
    PROVE  t.transfer \in Transfers /\ Promise!Execute(t.transfer)
<1> DEFINE p == t.transfer
<1>1. /\ t.nonce = NextNonce /\ blocks' = blocks \cup {t}
      /\ UNCHANGED <<pc, transfer>>
  BY DEF Mine, progressVars, inputVars
<1>2. t \notin blocks /\ IsFiniteSet(blocks)
  <2>1. NextNonce \in Nat
    BY FS_CardinalityType DEF IInv, Ledger, NextNonce
  <2> QED BY <1>1, <2>1 DEF IInv, Ledger, MinedNonces
<1>3. p \in Transfers /\ Count(blocks, p) < Cardinality(CallsWith(p, Points))
  BY <1>2, MinedWasRequested
<1>4. Count(blocks, p)' = Count(blocks, p) + 1
  <2> DEFINE mined == {u \in blocks : u.transfer = p}
  <2>1. {u \in blocks' : u.transfer = p} = mined \cup {t}
    BY <1>1
  <2>2. IsFiniteSet(mined) /\ t \notin mined
    BY <1>2, FS_Subset
  <2> QED BY <2>1, <2>2, FS_AddElement DEF Count
<1>5. \A q \in Transfers \ {p} : Count(blocks, q)' = Count(blocks, q)
  <2> TAKE q \in Transfers \ {p}
  <2>1. {u \in blocks' : u.transfer = q} = {u \in blocks : u.transfer = q}
    BY <1>1
  <2> QED BY <2>1 DEF Count
<1>6. \A q \in Transfers, points \in {Points, {"done"}} :
          CallsWith(q, points)' = CallsWith(q, points)
  BY <1>1 DEF CallsWith
<1> QED BY <1>3, <1>4, <1>5, <1>6 DEF Promise!Execute

(* Every step of the transfers is a step of the promise, or none.           *)
LEMMA PromiseStep ==
    ASSUME IInv, [Next]_vars
    PROVE  [Promise!Next]_(Promise!vars)
<1>1. \A c \in Calls : pc[c] \in Points /\ pc'[c] \in Points
  BY KnownStep DEF IInv, TypeOK
<1>2. ASSUME NEW c \in Calls, NEW p \in Transfers, Start(c, p) PROVE Promise!Next
  BY <1>2, StartRequests DEF Promise!Next
<1>3. ASSUME NEW c \in Calls, HashReply(c) PROVE Promise!Next
  BY <1>3, HashReplyConfirms DEF Promise!Next
<1>4. ASSUME NEW t \in pool, Mine(t) PROVE Promise!Next
  BY <1>4, MineExecutes DEF Promise!Next
<1>5. ASSUME NEW c \in Calls, LocalStep(c), ~HashReply(c)
      PROVE  UNCHANGED Promise!vars
  <2>1. /\ UNCHANGED <<transfer, blocks>>
        /\ \A d \in Calls \ {c} : pc'[d] = pc[d]
    BY <1>5, LocalStepFacts DEF IInv, inputVars, nodeVars
  <2>2. pc'[c] = "done" <=> pc[c] = "done"
    BY <1>5 DEF LocalStep, Prepared, Estimated, RejectBeforeSend, SignReply, AccountSigns,
                Resend, NodeRefuses, NodeUnavailable, ErrorReply, UnavailableReply,
                TransportFails, LibraryRetries, ShieldedFails, Goto, Sends, Answer,
                IInv, TypeOK
  <2> QED BY <1>1, <2>1, <2>2, UncountedStep
<1>6. ASSUME NEW c \in Calls,
             NonceReply(c) \/ NodeAccepts(c) \/ \E g \in GasPrices : GasPriceReply(c, g)
      PROVE  UNCHANGED Promise!vars
  <2>1. UNCHANGED <<pc, transfer, blocks>>
    BY <1>6 DEF NonceReply, NodeAccepts, GasPriceReply, Answer, progressVars, inputVars, nodeVars
  <2> QED BY <1>1, <2>1, UncountedStep
<1>7. ASSUME (\E t \in pool : Evict(t)) \/ UNCHANGED vars
      PROVE  UNCHANGED Promise!vars
  <2>1. UNCHANGED <<pc, transfer, blocks>>
    BY <1>7 DEF Evict, vars, progressVars, inputVars, nodeVars
  <2> QED BY <1>1, <2>1, UncountedStep
<1> QED BY <1>2, <1>3, <1>4, <1>5, <1>6, <1>7 DEF Next, Step, LocalStep

(* Whatever happens to requests, answers and the pool, each requested       *)
(* transfer is executed at most once, and only what was requested is        *)
(* executed or confirmed.                                                   *)
THEOREM TransfersKeepThePromise == Spec => AtMostOnce
<1>1. IInv /\ [Next]_vars => [Promise!Next]_(Promise!vars)
  BY PromiseStep
<1> QED BY <1>1, PromiseInit, InvariantAlways, PTL DEF Spec, AtMostOnce, Promise!Spec

-----------------------------------------------------------------------------
(* The end of a transfer.                                                   *)

(* The steps that a call has ahead of it, at the most: those up to its      *)
(* transaction's first attempt, four for each attempt after it, and the one *)
(* with which the node handles what is on its way.                          *)
One(condition) == IF condition THEN 1 ELSE 0

Left(c) ==
    One(c \in wire) +
    CASE pc[c] = "idle" -> 4 * MaxRetries + 9
      [] pc[c] = "preparing" -> 4 * (MaxRetries - attempt[c]) + 8
      [] pc[c] = "pricing" -> 4 * (MaxRetries - attempt[c]) + 5
                                  + One(nonce[c] = None) + One(gasPrice[c] = None)
      [] pc[c] = "signing" -> 4 * (MaxRetries - attempt[c]) + 4
      [] pc[c] = "sending" -> 4 * (MaxRetries - attempt[c]) + 2
      [] pc[c] = "backoff" -> 4 * (MaxRetries - attempt[c]) + 4
      [] OTHER -> 0

LeftIsBounded == \A c \in Calls : Left(c) \in 0..(4 * MaxRetries + 9)

(* Each step of a call takes some from it, and no step gives it any.        *)
LeftRunsOut == \A c \in Calls : (Step(c) => Left(c)' < Left(c)) /\ Left(c)' <= Left(c)

LEMMA LeftBounded ==
    ASSUME IInv, NEW c \in Calls
    PROVE  Left(c) \in 0..(4 * MaxRetries + 9)
<1>1. pc[c] \in Points /\ attempt[c] \in 0..MaxRetries /\ MaxRetries \in Nat
  BY TransferAssumption DEF IInv, TypeOK
<1>2. c \in wire => pc[c] \in Late
  BY DEF IInv, Known, Sent
<1> QED BY <1>1, <1>2 DEF Left, One, Points, Late

LEMMA LeftBoundedNext == IInv' => LeftIsBounded'
<1>1. IInv => LeftIsBounded
  BY LeftBounded DEF LeftIsBounded
<1> QED BY <1>1, PTL

(* Each step of a call leaves it fewer.                                     *)
LEMMA StepLeavesFewer ==
    ASSUME IInv, NEW c \in Calls, Step(c)
    PROVE  Left(c)' < Left(c)
<1>1. /\ pc \in [Calls -> Points] /\ attempt \in [Calls -> 0..MaxRetries]
      /\ nonce \in [Calls -> Nat \cup {None}] /\ gasPrice \in [Calls -> GasPrices \cup {None}]
      /\ MaxRetries \in Nat /\ None \notin Nat /\ GasPrices \subseteq Nat
      /\ PendingNonce \in Nat
  BY TransferAssumption, PendingNonceIsFirstFree DEF IInv, TypeOK
<1>2. c \in wire => pc[c] \in Late
  BY DEF IInv, Known, Sent
<1> USE DEF Left, One, Goto, Sends, Answer, progressVars, inputVars, Late
<1>3. CASE Prepared(c) \/ Estimated(c)
  BY <1>1, <1>2, <1>3 DEF Prepared, Estimated
<1>4. CASE NonceReply(c)
  BY <1>1, <1>2, <1>4 DEF NonceReply
<1>5. ASSUME NEW g \in GasPrices, GasPriceReply(c, g) PROVE Left(c)' < Left(c)
  BY <1>1, <1>2, <1>5 DEF GasPriceReply
<1>6. CASE SignReply(c) \/ AccountSigns(c) \/ Resend(c)
  BY <1>1, <1>2, <1>6 DEF SignReply, AccountSigns, Resend
<1>7. CASE RejectBeforeSend(c)
  BY <1>1, <1>2, <1>7 DEF RejectBeforeSend
<1>8. CASE NodeAccepts(c) \/ NodeRefuses(c) \/ NodeUnavailable(c)
  BY <1>1, <1>2, <1>8 DEF NodeAccepts, NodeRefuses, NodeUnavailable
<1>9. CASE HashReply(c) \/ UnavailableReply(c) \/ ShieldedFails(c)
  BY <1>1, <1>9 DEF HashReply, UnavailableReply, ShieldedFails
<1>10. CASE ErrorReply(c)
  BY <1>1, <1>10 DEF ErrorReply
<1>11. CASE TransportFails(c)
  BY <1>1, <1>11 DEF TransportFails
<1>12. CASE LibraryRetries(c)
  BY <1>1, <1>12 DEF LibraryRetries
<1> QED BY <1>3, <1>4, <1>5, <1>6, <1>7, <1>8, <1>9, <1>10, <1>11, <1>12 DEF Step

(* The other calls and the node take none away and add none.                *)
LEMMA OthersLeaveAsMany ==
    ASSUME IInv, NEW c \in Calls, Next, ~Step(c)
    PROVE  Left(c)' <= Left(c)
<1>1. Left(c) \in Nat
  BY LeftBounded, TransferAssumption
<1>2. ASSUME UNCHANGED <<pc[c], attempt[c], nonce[c], gasPrice[c], c \in wire>>
      PROVE  Left(c)' <= Left(c)
  BY <1>1, <1>2 DEF Left
<1>3. ASSUME NEW d \in Calls \ {c}, LocalStep(d) PROVE Left(c)' <= Left(c)
  BY <1>2, <1>3
     DEF LocalStep, Prepared, Estimated, RejectBeforeSend, SignReply, AccountSigns, Resend,
         NodeRefuses, NodeUnavailable, HashReply, ErrorReply, UnavailableReply,
         TransportFails, LibraryRetries, ShieldedFails, Goto, Sends, Answer, inputVars,
         IInv, TypeOK
<1>4. ASSUME NEW d \in Calls \ {c},
             NonceReply(d) \/ NodeAccepts(d) \/ \E g \in GasPrices : GasPriceReply(d, g)
      PROVE  Left(c)' <= Left(c)
  BY <1>2, <1>4
     DEF NonceReply, NodeAccepts, GasPriceReply, Answer, progressVars, inputVars, IInv, TypeOK
<1>5. ASSUME NEW d \in Calls, NEW p \in Transfers, Start(d, p) PROVE Left(c)' <= Left(c)
  <2>1. CASE d # c
    BY <1>2, <1>5, <2>1 DEF Start, Goto, IInv, TypeOK
  <2>2. CASE d = c
    <3>1. /\ pc[c] = "idle" /\ pc'[c] = "preparing" /\ attempt' = attempt /\ wire' = wire
          /\ attempt[c] \in 0..MaxRetries /\ MaxRetries \in Nat
      BY <1>5, <2>2, TransferAssumption DEF Start, Goto, IInv, TypeOK
    <3> QED BY <3>1 DEF Left, One
  <2> QED BY <2>1, <2>2
<1>6. ASSUME NEW t \in pool, Mine(t) \/ Evict(t) PROVE Left(c)' <= Left(c)
  BY <1>2, <1>6 DEF Mine, Evict, progressVars, inputVars
<1> QED BY <1>3, <1>4, <1>5, <1>6 DEF Next, Step, LocalStep

(* A transfer takes at most 4 * MaxRetries + 9 steps, whatever the others,  *)
(* the node and the network do: each of its steps leaves it fewer, and no   *)
(* other step gives it any.                                                 *)
THEOREM TransferStepsRunOut == Spec => []LeftIsBounded /\ [][LeftRunsOut]_vars
<1>1. IInv => LeftIsBounded
  BY LeftBounded DEF LeftIsBounded
<1>2. IInv /\ IInv' /\ [Next]_vars => [LeftRunsOut]_vars
  <2> SUFFICES ASSUME IInv, IInv', Next, NEW c \in Calls
               PROVE  (Step(c) => Left(c)' < Left(c)) /\ Left(c)' <= Left(c)
    BY DEF LeftRunsOut
  <2>1. Left(c) \in Int /\ Left(c)' \in Int
    BY LeftBounded, LeftBoundedNext, TransferAssumption DEF LeftIsBounded
  <2> QED BY <2>1, StepLeavesFewer, OthersLeaveAsMany
<1> QED BY <1>1, <1>2, InvariantAlways, PTL DEF Spec

-----------------------------------------------------------------------------
(* The way of a confirmed nonce into a block.                               *)

(* As long as the node drops nothing and a confirmed nonce is not mined,    *)
(* the pool has a transaction that can be mined next, and its nonce is not  *)
(* above the confirmed one.                                                 *)
ConfirmedCanBeMined ==
    \A c \in Calls :
        pc[c] = "done" /\ evictions = 0 /\ nonce[c] \notin MinedNonces =>
            NextNonce <= nonce[c] /\ \E t \in pool : t.nonce = NextNonce

(* A step of the miner brings it nearer by one, no other step takes it      *)
(* away, and a confirmed nonce stays as it is.                              *)
MiningGoesOn ==
    /\ NextNonce \in Nat
    /\ IF \E t \in pool : Mine(t) THEN NextNonce' = NextNonce + 1 ELSE NextNonce' = NextNonce
    /\ \A c \in Calls : pc[c] = "done" => pc'[c] = "done" /\ nonce'[c] = nonce[c]

LEMMA NextNonceType == IInv => NextNonce \in Nat
BY FS_CardinalityType DEF IInv, Ledger, NextNonce

LEMMA ConfirmedNonceMinable == IInv => ConfirmedCanBeMined
<1> SUFFICES ASSUME IInv, evictions = 0, NEW c \in Calls, pc[c] = "done",
                    nonce[c] \notin MinedNonces
             PROVE  NextNonce <= nonce[c] /\ \E t \in pool : t.nonce = NextNonce
  BY DEF ConfirmedCanBeMined
<1>1. NextNonce \in Nat /\ nonce[c] \in Nat
  BY NextNonceType DEF IInv, TypeOK, Known
<1>2. NextNonce <= nonce[c]
  BY <1>1 DEF IInv, Ledger
<1>3. TxOf(c) \in accepted /\ TxOf(c).nonce = nonce[c]
  BY DEF IInv, Confirmations, Confirmed, TxOf
<1>4. PICK u \in pool : u.nonce = nonce[c]
  BY <1>3 DEF IInv, Ledger, Takes, Rivals
<1>5. NextNonce \in NextNonce..u.nonce
  BY <1>1, <1>2, <1>4
<1> QED BY <1>2, <1>5, NoGap DEF NoNonceGap

LEMMA MinerStep ==
    ASSUME IInv, NEW t \in pool, Mine(t)
    PROVE  NextNonce' = NextNonce + 1
<1>1. IsFiniteSet(blocks) /\ t \notin blocks
  BY NextNonceType DEF IInv, Ledger, MinedNonces, Mine
<1> QED BY <1>1, FS_AddElement DEF Mine, NextNonce

LEMMA OnlyTheMinerMines ==
    ASSUME IInv, Next, ~ \E t \in pool : Mine(t)
    PROVE  NextNonce' = NextNonce
<1>1. blocks' = blocks
  BY LocalStepFacts
     DEF IInv, Next, Step, LocalStep, Start, NonceReply, GasPriceReply, NodeAccepts, Answer,
         Evict, nodeVars
<1> QED BY <1>1 DEF NextNonce

(* What ConfirmedNonceIsUsed rests on: until a confirmed nonce is mined the *)
(* miner has something to do, and there is a bound on what it has to do.    *)
THEOREM ConfirmedNonceComesNearer == Spec => []ConfirmedCanBeMined /\ [][MiningGoesOn]_vars
<1>1. IInv /\ [Next]_vars => [MiningGoesOn]_vars
  <2> SUFFICES ASSUME IInv, Next PROVE MiningGoesOn
    OBVIOUS
  <2>1. ASSUME NEW c \in Calls, pc[c] = "done"
        PROVE  pc'[c] = "done" /\ nonce'[c] = nonce[c]
    <3>1. Sent(c)' /\ TxOf(c)' = TxOf(c)
      BY <2>1, SentStays DEF IInv, Known, Sent, Late
    <3>2. nonce'[c] = nonce[c]
      BY <3>1 DEF TxOf
    <3>3. pc'[c] = "done"
      BY <2>1
         DEF Next, Step, Start, Prepared, NonceReply, GasPriceReply, Estimated, SignReply,
             AccountSigns, RejectBeforeSend, NodeAccepts, NodeRefuses, NodeUnavailable,
             HashReply, ErrorReply, UnavailableReply, Resend, TransportFails,
             LibraryRetries, ShieldedFails, Mine, Evict, Goto, Sends, Answer, progressVars,
             IInv, TypeOK
    <3> QED BY <3>2, <3>3
  <2> QED BY <2>1, NextNonceType, MinerStep, OnlyTheMinerMines DEF MiningGoesOn
<1> QED BY <1>1, ConfirmedNonceMinable, InvariantAlways, PTL DEF Spec
=============================================================================
