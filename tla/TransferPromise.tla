-------------------------- MODULE TransferPromise --------------------------
(***************************************************************************)
(* What a caller of createErc20Transaction may rely on, whatever happens   *)
(* to requests, answers and the node's pool: a requested transfer is       *)
(* executed on chain at most once, and no transfer is executed or          *)
(* confirmed that nobody requested.  A failure promises nothing: it is not *)
(* a step of this specification, the transfer may still be executed.       *)
(***************************************************************************)
EXTENDS Naturals

CONSTANT Transfers      \* contents of a transfer: token, recipient, amount

VARIABLES
    requested,          \* how often each transfer has been asked for
    executed,           \* how often it has been executed on chain
    confirmed           \* how often a caller was told a transaction hash

vars == <<requested, executed, confirmed>>

Init ==
    /\ requested = [p \in Transfers |-> 0]
    /\ executed = [p \in Transfers |-> 0]
    /\ confirmed = [p \in Transfers |-> 0]

Request(p) ==
    /\ requested' = [requested EXCEPT ![p] = @ + 1]
    /\ UNCHANGED <<executed, confirmed>>

Execute(p) ==
    /\ executed[p] < requested[p]
    /\ executed' = [executed EXCEPT ![p] = @ + 1]
    /\ UNCHANGED <<requested, confirmed>>

Confirm(p) ==
    /\ confirmed[p] < requested[p]
    /\ confirmed' = [confirmed EXCEPT ![p] = @ + 1]
    /\ UNCHANGED <<requested, executed>>

Next == \E p \in Transfers : Request(p) \/ Execute(p) \/ Confirm(p)

Spec == Init /\ [][Next]_vars
=============================================================================
