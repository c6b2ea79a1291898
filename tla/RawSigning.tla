----------------------------- MODULE RawSigning -----------------------------
(***************************************************************************)
(* One FireblocksSigner.rawSign call: it creates a RAW transaction, polls  *)
(* it in getTxStatus with growing delays until a final status or a time    *)
(* limit, and takes the signature.  Fireblocks is external: its approvers  *)
(* and its co-signer move the transaction at any time.                     *)
(*                                                                         *)
(* Times are milliseconds.  A timer that fires late counts as latency of   *)
(* the request that follows it.                                            *)
(***************************************************************************)
EXTENDS Naturals

CONSTANTS
    PollingInterval,    \* getTxStatus's third argument
    MaxPollMs,          \* POLLING_CONSTANTS.MAX_POLL_MS
    MaxBackoffMs,       \* POLLING_CONSTANTS.MAX_BACKOFF_MS
    Latencies,          \* how long Fireblocks takes to answer getTransaction
    MaxLatency          \* a bound on Latencies

ASSUME SigningAssumption ==
    /\ MaxPollMs \in Nat /\ MaxBackoffMs \in Nat /\ MaxLatency \in Nat
    /\ PollingInterval \in 0..MaxBackoffMs
    /\ Latencies \subseteq 0..MaxLatency

VARIABLES
    pc,             \* where the call is suspended
    tx,             \* the transaction as Fireblocks has it
    seen,           \* txResponse.data, what the latest answer told
    first,          \* the first answer of getTransaction is still to come
    delay,          \* currentDelay
    elapsed,        \* Date.now() - startTime
    outcome,        \* how rawSign has ended
    settledAt       \* elapsed when tx took a lasting status (history)

callVars == <<pc, seen, first, delay, elapsed, outcome>>
fireblocksVars == <<tx, settledAt>>
vars == <<callVars, fireblocksVars>>

(* PENDING stands for every status that may still change except             *)
(* BROADCASTING, REFUSED for BLOCKED, CANCELLED and REJECTED.               *)
Success == {"BROADCASTING", "COMPLETED"}
Failure == {"REFUSED", "FAILED"}
Final == {"COMPLETED"} \cup Failure
Statuses == {"PENDING"} \cup Success \cup Failure

Transaction ==
    [status : Statuses,
     signed : BOOLEAN,      \* signedMessages[0] is there
     noSigner : BOOLEAN]    \* subStatus SIGNING_ERROR and signedBy empty

Pending == [status |-> "PENDING", signed |-> FALSE, noSigner |-> FALSE]

Outcomes ==
    {"none",
     "signed",          \* the signature is returned
     "empty",           \* RAW_SIGN_EMPTY_RESPONSE
     "unapproved",      \* FIREBLOCKS_API_USER_PENDING_MPC_APPROVAL
     "refused",         \* RAW_SIGN_FAILED: failed with status
     "timedOut",        \* RAW_SIGN_FAILED: timed out
     "requestFailed"}   \* RAW_SIGN_FAILED: a request to Fireblocks failed

NotSettled == MaxPollMs + MaxBackoffMs + MaxLatency + 1

TypeOK ==
    /\ pc \in {"creating", "fetching", "answering", "sleeping", "done"}
    /\ tx \in Transaction
    /\ seen \in Transaction
    /\ first \in BOOLEAN
    /\ delay \in Nat
    /\ elapsed \in Nat
    /\ outcome \in Outcomes
    /\ settledAt \in Nat

-----------------------------------------------------------------------------
Init ==
    /\ pc = "creating"
    /\ tx = Pending
    /\ seen = Pending
    /\ first = TRUE
    /\ delay = PollingInterval
    /\ elapsed = 0
    /\ outcome = "none"
    /\ settledAt = NotSettled

Ends(result) == pc' = "done" /\ outcome' = result

(* createTransaction answers with an id; getTxStatus takes its startTime.   *)
Created ==
    /\ pc = "creating"
    /\ pc' = "fetching"
    /\ UNCHANGED <<seen, first, delay, elapsed, outcome, fireblocksVars>>

(* createTransaction or getTransaction fails.  What the Fireblocks SDK      *)
(* throws is no SdkApiError: withRetry does not try again.                  *)
RequestFails ==
    /\ pc \in {"creating", "fetching", "answering"}
    /\ Ends("requestFailed")
    /\ UNCHANGED <<seen, first, delay, elapsed, fireblocksVars>>

(* Fireblocks reads the transaction for its answer.                         *)
Handled ==
    /\ pc = "fetching"
    /\ pc' = "answering"
    /\ seen' = tx
    /\ UNCHANGED <<first, delay, elapsed, outcome, fireblocksVars>>

(* The answer arrives after l milliseconds.                                 *)
Arrives(l) ==
    /\ pc = "answering"
    /\ elapsed' = elapsed + l
    /\ UNCHANGED <<seen, fireblocksVars>>

(* Mutant: the status alone decides that there is a signature.              *)
SucceedUnchecked(l) ==
    /\ Arrives(l)
    /\ seen.status \in Success
    /\ Ends("signed")
    /\ UNCHANGED <<first, delay>>

(* COMPLETED or BROADCASTING ends the loop; rawSign takes the signature.    *)
Succeed(l) ==
    /\ Arrives(l)
    /\ seen.status \in Success
    /\ Ends(IF seen.signed THEN "signed" ELSE "empty")
    /\ UNCHANGED <<first, delay>>

(* Inside the loop a failure status throws.                                 *)
Fail(l) ==
    /\ Arrives(l)
    /\ ~first
    /\ seen.status \in Failure
    /\ Ends(IF seen.status = "FAILED" /\ seen.noSigner THEN "unapproved" ELSE "refused")
    /\ UNCHANGED <<first, delay>>

(* What keeps the loop going: a pending status, or any failure status that  *)
(* the first answer, before the loop, has told.                             *)
Undecided == seen.status = "PENDING" \/ (first /\ seen.status \in Failure)

(* Mutant: the time limit is compared with the time of the next poll.       *)
TimeOutEarly(l) ==
    /\ Arrives(l)
    /\ Undecided
    /\ elapsed' + delay > MaxPollMs
    /\ Ends("timedOut")
    /\ UNCHANGED <<first, delay>>

TimeOut(l) ==
    /\ Arrives(l)
    /\ Undecided
    /\ elapsed' > MaxPollMs
    /\ Ends("timedOut")
    /\ UNCHANGED <<first, delay>>

(* Math.min(Math.round(1.5 * delay), MAX_BACKOFF_MS).                       *)
BackoffUncapped(d) == (3 * d + 1) \div 2
Backoff(d) ==
    LET longer == (3 * d + 1) \div 2 IN
    IF longer <= MaxBackoffMs THEN longer ELSE MaxBackoffMs

(* The first sleep takes the polling interval, each later one is longer.    *)
Sleep(l) ==
    /\ Arrives(l)
    /\ Undecided
    /\ elapsed' <= MaxPollMs
    /\ pc' = "sleeping"
    /\ first' = FALSE
    /\ delay' = IF first THEN delay ELSE Backoff(delay)
    /\ UNCHANGED outcome

(* Mutant: startTime - Date.now() in place of Date.now() - startTime.       *)
WakeBackwards ==
    /\ pc = "sleeping"
    /\ pc' = "fetching"
    /\ elapsed' = elapsed - delay
    /\ UNCHANGED <<seen, first, delay, outcome, fireblocksVars>>

(* Mutant: each poll takes a new startTime.                                 *)
WakeRestarted ==
    /\ pc = "sleeping"
    /\ pc' = "fetching"
    /\ elapsed' = 0
    /\ UNCHANGED <<seen, first, delay, outcome, fireblocksVars>>

(* The timer fires and the transaction is fetched again.                    *)
Wake ==
    /\ pc = "sleeping"
    /\ pc' = "fetching"
    /\ elapsed' = elapsed + delay
    /\ UNCHANGED <<seen, first, delay, outcome, fireblocksVars>>

(* Fireblocks moves the transaction on.                                     *)
Progress(t) ==
    /\ pc \notin {"creating", "done"}
    /\ tx.status \notin Final
    /\ t.status # "PENDING"
    /\ tx.status = "BROADCASTING" => t.status \in {"COMPLETED", "FAILED"}
    /\ tx.signed => t.signed
    /\ t.noSigner => t.status = "FAILED" /\ ~t.signed
    /\ t.status = "REFUSED" => ~t.signed
    /\ tx' = t
    /\ settledAt' = IF settledAt = NotSettled THEN elapsed ELSE settledAt
    /\ UNCHANGED callVars

-----------------------------------------------------------------------------
Step ==
    \/ Created
    \/ RequestFails
    \/ Handled
    \/ \E l \in Latencies : Succeed(l)
    \/ \E l \in Latencies : Fail(l)
    \/ \E l \in Latencies : TimeOut(l)
    \/ \E l \in Latencies : Sleep(l)
    \/ Wake

Next == Step \/ \E t \in Transaction : Progress(t)

Spec == Init /\ [][Next]_vars

(* Timers fire and requests end; nothing makes Fireblocks decide.           *)
FairSpec == Spec /\ WF_vars(Step)

-----------------------------------------------------------------------------
(* Properties.                                                              *)

(* getTxStatus is over in bounded time, one delay and one answer after the  *)
(* limit at the latest, for whatever delays the backoff has come to.        *)
PollingEndsInTime == elapsed <= MaxPollMs + MaxBackoffMs + MaxLatency

(* No decision of Fireblocks is missed: a call that gives up on time does   *)
(* so on a transaction that was undecided until the limit, up to the        *)
(* latency of one answer.  A failure that the first answer told, which the  *)
(* loop sleeps over, is among the decisions.                                *)
NoDecisionMissed ==
    outcome = "timedOut" /\ MaxLatency <= MaxPollMs => settledAt + MaxLatency > MaxPollMs

(* What rawSign tells its caller is the truth about the transaction when it *)
(* ends, although the answer it read may be older than the transaction's    *)
(* status: a signature exists, or the transaction will never give one.      *)
OutcomeIsTrue ==
    /\ outcome = "signed" => tx.signed
    /\ outcome = "unapproved" => tx.status = "FAILED" /\ tx.noSigner /\ ~tx.signed
    /\ outcome = "refused" => tx.status \in Failure
    /\ outcome = "empty" => tx.status \notin {"PENDING", "REFUSED"}

(* Every rawSign settles, whether or not anybody approves the transaction.  *)
EverySigningSettles == <>(pc = "done")
=============================================================================
