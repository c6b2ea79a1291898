-------------------------- MODULE RawSigningProofs --------------------------
(***************************************************************************)
(* The safety of RawSigning for every polling interval, limit and latency. *)
(*                                                                         *)
(* PollingEndsInTime is not inductive: how late the next answer can come   *)
(* depends on where the call is suspended.  Clock adds a bound on elapsed  *)
(* for each such point.  OutcomeIsTrue needs to relate the answer on its   *)
(* way to the transaction, which may have moved on (Snapshot), and         *)
(* NoDecisionMissed the time of the decision to that answer (Decision).    *)
(*                                                                         *)
(* The last part is about the end of a poll: Left counts the steps that    *)
(* the time limit leaves it.                                               *)
(***************************************************************************)
EXTENDS RawSigning, TLAPS

Clock ==
    /\ delay <= MaxBackoffMs
    /\ first => elapsed = 0 \/ pc = "done"
    /\ pc = "creating" => first
    /\ pc = "sleeping" => ~first /\ elapsed <= MaxPollMs
    /\ pc \in {"fetching", "answering"} => elapsed <= MaxPollMs + MaxBackoffMs
    /\ PollingEndsInTime

Snapshot ==
    /\ tx.noSigner => tx.status = "FAILED" /\ ~tx.signed
    /\ seen.signed => tx.signed
    /\ seen.status \in Final => tx = seen
    /\ seen.status = "BROADCASTING" => tx.status \in Success \cup {"FAILED"}

Decision ==
    /\ outcome # "none" <=> pc = "done"
    /\ pc = "creating" => tx = Pending
    /\ tx.status = "PENDING" => settledAt = NotSettled
    /\ pc = "answering" /\ seen.status = "PENDING" => settledAt >= elapsed

IInv == TypeOK /\ Clock /\ Snapshot /\ Decision /\ OutcomeIsTrue /\ NoDecisionMissed

(* The backoff keeps to its cap.                                            *)
LEMMA BackoffCapped ==
    ASSUME NEW d \in Nat
    PROVE  Backoff(d) \in Nat /\ Backoff(d) <= MaxBackoffMs
BY SigningAssumption DEF Backoff

(* The state before rawSign satisfies the inductive invariant.              *)
LEMMA InitIInv == Init => IInv
BY SigningAssumption
   DEF Init, IInv, TypeOK, Clock, Snapshot, Decision, OutcomeIsTrue, NoDecisionMissed,
       PollingEndsInTime, Pending, Transaction, Statuses, Success, Failure, Final,
       Outcomes, NotSettled

(* The steps that keep the clock and the transaction.                       *)
LEMMA RequestSteps ==
    ASSUME IInv, Created \/ RequestFails \/ Handled
    PROVE  IInv'
<1> USE SigningAssumption
    DEF IInv, TypeOK, Clock, Snapshot, Decision, OutcomeIsTrue, NoDecisionMissed,
        PollingEndsInTime, Transaction, Statuses, Success, Failure, Final,
        Outcomes, NotSettled, Pending, fireblocksVars
<1>1. CASE Created
      BY <1>1 DEF Created
<1>2. CASE RequestFails
      BY <1>2 DEF RequestFails, Ends
<1>3. CASE Handled
      BY <1>3 DEF Handled
<1>4. QED BY <1>1, <1>2, <1>3

(* The steps that handle an answer.                                         *)
LEMMA AnswerSteps ==
    ASSUME IInv, NEW l \in Latencies, Succeed(l) \/ Fail(l) \/ TimeOut(l) \/ Sleep(l)
    PROVE  IInv'
<1> USE SigningAssumption
    DEF IInv, TypeOK, Clock, Snapshot, Decision, OutcomeIsTrue, NoDecisionMissed,
        PollingEndsInTime, Transaction, Statuses, Success, Failure, Final,
        Outcomes, NotSettled, fireblocksVars, Arrives, Ends
<1>0. l \in Nat /\ l <= MaxLatency
      OBVIOUS
<1>1. CASE Succeed(l)
      BY <1>0, <1>1 DEF Succeed
<1>2. CASE Fail(l)
      BY <1>0, <1>2 DEF Fail
<1>3. CASE TimeOut(l)
      BY <1>0, <1>3 DEF TimeOut, Undecided
<1>4. CASE Sleep(l)
  <2>1. delay' \in Nat /\ delay' <= MaxBackoffMs
        BY <1>4, BackoffCapped DEF Sleep
  <2>2. elapsed' \in Nat /\ elapsed' <= MaxPollMs
        BY <1>0, <1>4 DEF Sleep
  <2>3. /\ pc' = "sleeping" /\ first' = FALSE /\ pc = "answering"
        /\ UNCHANGED <<tx, seen, outcome, settledAt>>
        BY <1>4 DEF Sleep
  <2>4. TypeOK'
        BY <2>1, <2>2, <2>3
  <2>5. Clock'
        BY <2>1, <2>2, <2>3
  <2>6. Snapshot' /\ Decision' /\ OutcomeIsTrue' /\ NoDecisionMissed'
        BY <2>3
  <2>7. QED BY <2>4, <2>5, <2>6
<1>5. QED BY <1>1, <1>2, <1>3, <1>4

(* The timer, and the moves of Fireblocks.                                  *)
LEMMA OtherSteps ==
    ASSUME IInv, Wake \/ (\E t \in Transaction : Progress(t)) \/ UNCHANGED vars
    PROVE  IInv'
<1> USE SigningAssumption
    DEF IInv, TypeOK, Clock, Snapshot, Decision, OutcomeIsTrue, NoDecisionMissed,
        PollingEndsInTime, Transaction, Statuses, Success, Failure, Final,
        Outcomes, NotSettled, callVars, fireblocksVars
<1>1. CASE Wake
      BY <1>1 DEF Wake
<1>2. CASE \E t \in Transaction : Progress(t)
      BY <1>2 DEF Progress
<1>3. CASE UNCHANGED vars
      BY <1>3 DEF vars
<1>4. QED BY <1>1, <1>2, <1>3

(* The inductive invariant holds in every state.                            *)
LEMMA InvariantAlways == Spec => []IInv
<1>1. IInv /\ [Next]_vars => IInv'
      BY RequestSteps, AnswerSteps, OtherSteps DEF Next, Step
<1>2. QED BY InitIInv, <1>1, PTL DEF Spec

(* rawSign's variables keep their types.                                    *)
THEOREM SigningTypeCorrect == Spec => []TypeOK
BY InvariantAlways, PTL DEF IInv

(* getTxStatus ends at most one delay and one answer after its limit.       *)
THEOREM PollingAlwaysEndsInTime == Spec => []PollingEndsInTime
BY InvariantAlways, PTL DEF IInv, Clock

(* A call times out only on a transaction undecided until the limit.        *)
THEOREM NoDecisionEverMissed == Spec => []NoDecisionMissed
BY InvariantAlways, PTL DEF IInv

(* The outcome of rawSign is true of the transaction.                       *)
THEOREM OutcomeAlwaysTrue == Spec => []OutcomeIsTrue
BY InvariantAlways, PTL DEF IInv

-----------------------------------------------------------------------------
(* The end of a call.                                                       *)

(* The steps that a call has still to take, at the most: three for each     *)
(* millisecond that it may still wait.                                      *)
Left ==
    CASE pc = "done" -> 0
      [] OTHER -> 3 * (MaxPollMs + MaxBackoffMs + MaxLatency - elapsed)
                  + (CASE pc = "creating" -> 4
                       [] pc = "fetching" -> 3
                       [] pc = "answering" -> 2
                       [] OTHER -> 1)

(* A delay is never shorter than the first.                                 *)
Delayed == delay >= 1

LEMMA DelayedAlways == PollingInterval > 0 /\ Spec => []Delayed
<1> SUFFICES ASSUME PollingInterval > 0 PROVE Spec => []Delayed
  OBVIOUS
<1>1. Init => Delayed
  BY SigningAssumption DEF Init, Delayed
<1>2. IInv /\ Delayed /\ [Next]_vars => Delayed'
  <2> SUFFICES ASSUME IInv, Delayed, [Next]_vars PROVE Delayed'
    OBVIOUS
  <2>1. delay \in Nat /\ Backoff(delay) >= 1
    BY SigningAssumption DEF IInv, TypeOK, Delayed, Backoff
  <2>2. delay' \in {delay, Backoff(delay)}
    BY DEF Next, Step, vars, callVars, Created, RequestFails, Handled, Succeed, Fail, TimeOut,
           Sleep, Wake, Progress
  <2> QED BY <2>1, <2>2 DEF Delayed
<1> QED BY <1>1, <1>2, InvariantAlways, PTL DEF Spec

(* A call of rawSign cannot go round without end: where the polling         *)
(* interval is not zero (it is 1000 or 3000) each of its steps leaves fewer *)
(* than before, however fast Fireblocks answers and whatever it decides.    *)
THEOREM SigningStepsRunOut ==
    PollingInterval > 0 /\ Spec =>
        /\ [](Left \in Nat)
        /\ [][(Step => Left' < Left) /\ Left' <= Left]_vars
<1> SUFFICES ASSUME PollingInterval > 0
             PROVE  Spec => /\ [](Left \in Nat)
                            /\ [][(Step => Left' < Left) /\ Left' <= Left]_vars
  OBVIOUS
<1>1. IInv => /\ elapsed \in Nat /\ elapsed <= MaxPollMs + MaxBackoffMs + MaxLatency
              /\ delay \in Nat /\ Left \in Nat /\ (pc # "done" => Left > 0)
  <2> SUFFICES ASSUME IInv
               PROVE  /\ elapsed \in Nat /\ elapsed <= MaxPollMs + MaxBackoffMs + MaxLatency
                      /\ delay \in Nat /\ Left \in Nat /\ (pc # "done" => Left > 0)
    OBVIOUS
  <2>1. /\ elapsed \in Nat /\ elapsed <= MaxPollMs + MaxBackoffMs + MaxLatency
        /\ delay \in Nat
    BY DEF IInv, TypeOK, Clock, PollingEndsInTime
  <2> QED BY <2>1, SigningAssumption DEF Left
<1>2. (IInv => /\ elapsed \in Nat /\ elapsed <= MaxPollMs + MaxBackoffMs + MaxLatency
               /\ delay \in Nat /\ Left \in Nat /\ (pc # "done" => Left > 0))'
  BY <1>1, PTL
<1>3. IInv /\ IInv' /\ Delayed /\ [Next]_vars => [(Step => Left' < Left) /\ Left' <= Left]_vars
  <2> SUFFICES ASSUME IInv, IInv', Delayed, Next PROVE (Step => Left' < Left) /\ Left' <= Left
    OBVIOUS
  <2>0. /\ elapsed \in Nat /\ elapsed' \in Nat /\ delay \in Nat /\ delay >= 1
        /\ Left \in Nat /\ Left' \in Nat /\ (pc # "done" => Left > 0)
        /\ MaxPollMs \in Nat /\ MaxBackoffMs \in Nat /\ MaxLatency \in Nat
    BY <1>1, <1>2, SigningAssumption DEF Delayed
  <2>1. ASSUME pc # "done", pc' = "done" PROVE Left' < Left
    BY <2>0, <2>1 DEF Left
  <2>2. ASSUME Created \/ Handled PROVE Left' < Left
    <3>1. /\ \/ pc = "creating" /\ pc' = "fetching"
             \/ pc = "fetching" /\ pc' = "answering"
          /\ elapsed' = elapsed
      BY <2>2 DEF Created, Handled
    <3> QED BY <2>0, <3>1 DEF Left
  <2>3. ASSUME RequestFails PROVE Left' < Left
    BY <2>1, <2>3 DEF RequestFails, Ends
  <2>4. ASSUME NEW l \in Latencies, Succeed(l) \/ Fail(l) \/ TimeOut(l) PROVE Left' < Left
    BY <2>1, <2>4 DEF Succeed, Fail, TimeOut, Arrives, Ends
  <2>5. ASSUME NEW l \in Latencies, Sleep(l) PROVE Left' < Left
    <3>1. /\ pc = "answering" /\ pc' = "sleeping" /\ l \in Nat /\ elapsed' = elapsed + l
      BY <2>5, SigningAssumption DEF Sleep, Arrives
    <3> QED BY <2>0, <3>1 DEF Left
  <2>6. ASSUME Wake PROVE Left' < Left
    <3>1. pc = "sleeping" /\ pc' = "fetching" /\ elapsed' = elapsed + delay
      BY <2>6 DEF Wake
    <3> QED BY <2>0, <3>1 DEF Left
  <2>7. ASSUME NEW t \in Transaction, Progress(t) PROVE Left' = Left
    BY <2>7 DEF Progress, callVars, Left
  <2>8. Step => Left' < Left
    BY <2>2, <2>3, <2>4, <2>5, <2>6 DEF Step
  <2>9. Left' <= Left
    BY <2>0, <2>7, <2>8 DEF Next
  <2> QED BY <2>8, <2>9
<1> QED BY <1>1, <1>3, InvariantAlways, DelayedAlways, PTL DEF Spec
=============================================================================
