---------------------------- MODULE BatchBalances ----------------------------
(***************************************************************************)
(* MainSDK.batchGetSUsdcBalances: all vaults are looked up in parallel, one *)
(* JSON-RPC batch asks for the balances of those that could be, and its     *)
(* answers are matched with the vaults by counting.  Meanwhile other calls  *)
(* put entries into the session's map and a shutdown may clear it.          *)
(*                                                                         *)
(* A balance is represented by the vault it belongs to.  The address that   *)
(* ensureVaultData finds is a function of the vault, so that of the map     *)
(* only its keys matter here.                                              *)
(***************************************************************************)
EXTENDS Naturals, Sequences, FiniteSets

CONSTANTS
    Vaults,         \* Fireblocks vault account ids
    Inputs,         \* values of vaultIds: sequences of vaults
    MaxShutdowns,   \* a bound on the number of shutdown() calls
    Zero            \* the balance of an entry with an error

ASSUME BatchAssumption ==
    /\ Inputs \subseteq Seq(Vaults)
    /\ MaxShutdowns \in Nat
    /\ Zero \notin Vaults

VARIABLES
    vaultData,      \* the vaults that have an entry in the session's map
    pc,             \* where the call is suspended, or how it has ended
    vaultIds,       \* its argument
    lookups,        \* what the ensureVaultData of each position came to
    requests,       \* the vaults whose balances the batch asks for
    output,         \* its result
    items,          \* the node's answers (history)
    shutdowns,      \* number of shutdowns
    overlapped,     \* a shutdown ran since the call began (history)
    httpFailed      \* the batch request itself failed (history)

sessionVars == <<vaultData, shutdowns, overlapped>>
callVars == <<pc, vaultIds, lookups, requests, output, items, httpFailed>>
vars == <<sessionVars, callVars>>

Entry == [vaultAccountId : Vaults, balance : Vaults \cup {Zero}, error : BOOLEAN]

(* A member of the batch's answer: a result, an error, or left out.         *)
Item == {"result", "error", "missing"}

TypeOK ==
    /\ vaultData \subseteq Vaults
    /\ pc \in {"idle", "resolving", "asking", "done", "thrown"}
    /\ vaultIds \in Inputs \cup {<<>>}
    /\ lookups \in [DOMAIN vaultIds -> {"pending", "fulfilled", "rejected"}]
    /\ requests \in Seq(Vaults) /\ Len(requests) <= Len(vaultIds)
    /\ output \in Seq(Entry)
    /\ pc = "done" => Len(output) = Len(vaultIds)
    /\ items \in Seq(Item) /\ Len(items) <= Len(requests)
    /\ shutdowns \in 0..MaxShutdowns
    /\ overlapped \in BOOLEAN
    /\ httpFailed \in BOOLEAN

-----------------------------------------------------------------------------
(* vaultErrors is a map by vault id: a vault whose lookup was rejected at   *)
(* one position counts as failed at all of them.                            *)
VaultErrors == {vaultIds[i] : i \in {j \in DOMAIN vaultIds : lookups[j] = "rejected"}}

(* resolvedVaultIds: one for each lookup that was fulfilled, in order.      *)
FulfilledBefore(i) == {j \in 1..(i - 1) : lookups[j] = "fulfilled"}
Resolved ==
    LET n == Cardinality(FulfilledBefore(Len(vaultIds) + 1)) IN
    [k \in 1..n |->
       vaultIds[CHOOSE i \in DOMAIN vaultIds :
                  /\ lookups[i] = "fulfilled"
                  /\ Cardinality(FulfilledBefore(i)) = k - 1]]

(* Mutant: the answer is looked up by the position in vaultIds.             *)
ResolvedIdxByPosition(i) == i - 1

(* resolvedIdx at position i: the positions before it without a vault error.*)
ResolvedIdx(i) == Cardinality({j \in 1..(i - 1) : vaultIds[j] \notin VaultErrors})

FailedEntry(v) == [vaultAccountId |-> v, balance |-> Zero, error |-> TRUE]

(* Mutant: failed lookups have no entry in the result.                      *)
AssembledResolvedOnly(sent, answers) ==
    [k \in DOMAIN answers |->
       IF answers[k] # "result" THEN FailedEntry(sent[k])
       ELSE [vaultAccountId |-> sent[k], balance |-> sent[k], error |-> FALSE]]

(* The loop over vaultIds that builds the result from the batch's answers.  *)
Assembled(sent, answers) ==
    [i \in DOMAIN vaultIds |->
       LET v == vaultIds[i]
           k == ResolvedIdx(i) + 1 IN
       IF v \in VaultErrors \/ k \notin DOMAIN answers \/ answers[k] # "result"
       THEN FailedEntry(v)
       ELSE [vaultAccountId |-> v, balance |-> sent[k], error |-> FALSE]]

-----------------------------------------------------------------------------
Init ==
    /\ vaultData = {}
    /\ pc = "idle"
    /\ vaultIds = <<>> /\ lookups = <<>> /\ requests = <<>>
    /\ output = <<>> /\ items = <<>>
    /\ shutdowns = 0
    /\ overlapped = FALSE /\ httpFailed = FALSE

(* The call starts all lookups: a cached entry fulfils its own at once.     *)
Call(in) ==
    /\ pc = "idle"
    /\ pc' = "resolving"
    /\ vaultIds' = in
    /\ lookups' = [i \in DOMAIN in |->
                     IF in[i] \in vaultData THEN "fulfilled" ELSE "pending"]
    /\ UNCHANGED <<sessionVars, requests, output, items, httpFailed>>

Settle(i, outcome) ==
    /\ pc = "resolving"
    /\ lookups[i] = "pending"
    /\ lookups' = [lookups EXCEPT ![i] = outcome]
    /\ UNCHANGED <<pc, vaultIds, requests, output, items, shutdowns, overlapped, httpFailed>>

(* Mutant: the entry is not put into the map.                               *)
VaultReplyUncached(i) ==
    /\ Settle(i, "fulfilled")
    /\ UNCHANGED vaultData

(* getPublicKeyByVaultID answers, and the entry goes into the map.          *)
VaultReply(i) ==
    /\ Settle(i, "fulfilled")
    /\ vaultData' = vaultData \cup {vaultIds[i]}

VaultFails(i) ==
    /\ Settle(i, "rejected")
    /\ UNCHANGED vaultData

AllSettled == \A i \in DOMAIN lookups : lookups[i] # "pending"

(* Promise.allSettled goes on: the entries are read from the map again, and *)
(* one that is gone is a TypeError.  Without a resolved vault nothing is    *)
(* asked.                                                                   *)
Send ==
    /\ pc = "resolving" /\ AllSettled
    /\ requests' = Resolved
    /\ \/ /\ \E k \in DOMAIN Resolved : Resolved[k] \notin vaultData
          /\ pc' = "thrown"
          /\ UNCHANGED output
       \/ /\ \A k \in DOMAIN Resolved : Resolved[k] \in vaultData
          /\ IF Resolved = <<>>
             THEN pc' = "done" /\ output' = Assembled(<<>>, <<>>)
             ELSE pc' = "asking" /\ UNCHANGED output
    /\ UNCHANGED <<sessionVars, vaultIds, lookups, items, httpFailed>>

(* jsonRpcBatch answers; its items have the ids of the requests.            *)
BatchReply(answers) ==
    /\ pc = "asking"
    /\ pc' = "done"
    /\ items' = answers
    /\ output' = Assembled(requests, answers)
    /\ UNCHANGED <<sessionVars, vaultIds, lookups, requests, httpFailed>>

(* The HTTP request fails, or its answer is no array: jsonRpcBatch throws   *)
(* and nothing catches it.                                                  *)
BatchFails ==
    /\ pc = "asking"
    /\ pc' = "thrown"
    /\ httpFailed' = TRUE
    /\ UNCHANGED <<sessionVars, vaultIds, lookups, requests, output, items>>

(* Another call has its entry stored.                                       *)
OtherCall(v) ==
    /\ vaultData' = vaultData \cup {v}
    /\ UNCHANGED <<shutdowns, overlapped, callVars>>

Shutdown ==
    /\ shutdowns < MaxShutdowns
    /\ shutdowns' = shutdowns + 1
    /\ vaultData' = {}
    /\ overlapped' = (pc # "idle")
    /\ UNCHANGED callVars

-----------------------------------------------------------------------------
Step ==
    \/ \E i \in DOMAIN vaultIds : VaultReply(i) \/ VaultFails(i)
    \/ Send
    \/ \E answers \in [DOMAIN requests -> Item] : BatchReply(answers)
    \/ BatchFails

Next ==
    \/ \E in \in Inputs : Call(in)
    \/ Step
    \/ \E v \in Vaults : OtherCall(v)
    \/ Shutdown

Spec == Init /\ [][Next]_vars

-----------------------------------------------------------------------------
(* Properties.                                                              *)

(* The lookups of a vault that is named twice may differ in their outcome.  *)
LookupsAgree ==
    \A i, j \in DOMAIN lookups : vaultIds[i] = vaultIds[j] => lookups[i] = lookups[j]

(* Nothing shifts to another vault, whichever lookups and items fail, as    *)
(* long as the lookups of one vault agree: a balance is that of the entry's *)
(* own vault, and an entry has an error only if its lookup failed or the    *)
(* answer to a request for its own vault did.                               *)
EntriesAreOwn ==
    pc = "done" /\ LookupsAgree =>
        \A i \in DOMAIN output :
            IF output[i].error
            THEN \/ lookups[i] = "rejected"
                 \/ \E k \in DOMAIN items :
                        requests[k] = vaultIds[i] /\ items[k] # "result"
            ELSE output[i].balance = vaultIds[i]

(* Partial failures never fail the whole batch: it throws only when its     *)
(* HTTP request fails, or when a shutdown has cleared the map under it.     *)
ThrowsForAReason == pc = "thrown" => httpFailed \/ overlapped

=============================================================================
