--------------------------- MODULE Erc20Transfer ---------------------------
(***************************************************************************)
(* Concurrent transfers that spend from one vault, by                      *)
(* createErc20Transaction or by createShieldedTransaction, the requests    *)
(* they make, and the node: its transaction pool and the blocks it mines.  *)
(* The node is external; it is modelled by what the code relies on, the    *)
(* answers of eth_getTransactionCount("pending") and                       *)
(* eth_sendRawTransaction.  A shielded transfer leaves the nonce and the   *)
(* sending to the viem library, with its http transport as it is; the      *)
(* public one makes its requests through withRetry.                        *)
(*                                                                         *)
(* A signed public transaction is its nonce, its gas price and its         *)
(* transfer: with deterministic signing these fix its bytes and its hash.  *)
(* A shielded one has an encryption nonce besides, which the library draws *)
(* for each call.  The gas limit is left out.                              *)
(***************************************************************************)
EXTENDS Naturals, FiniteSets

CONSTANTS
    Calls,          \* calls of either function, in any process
    Transfers,      \* contents of a transfer: token, recipient, amount
    Shielded,       \* those of SRC-20 tokens
    GasPrices,      \* answers of eth_gasPrice
    MaxRetries,     \* withRetry's maxRetries, and the library's retryCount
    MaxEvictions,   \* a bound on transactions the node drops from its pool
    None            \* not known yet

ASSUME TransferAssumption ==
    /\ IsFiniteSet(Calls)
    /\ Shielded \subseteq Transfers
    /\ GasPrices \subseteq Nat
    /\ MaxRetries \in Nat
    /\ MaxEvictions \in Nat
    /\ None \notin Nat /\ None \notin Transfers /\ None \notin Calls

VARIABLES
    pc,             \* call -> where it is suspended
    transfer,       \* call -> what it was asked to transfer
    nonce,          \* call -> the answer to eth_getTransactionCount
    gasPrice,       \* call -> the answer to eth_gasPrice
    attempt,        \* call -> the attempt of eth_sendRawTransaction
    answer,         \* call -> the node's answer, on its way
    wire,           \* calls whose transaction is on its way to the node
    pool,           \* the node's pending transactions
    blocks,         \* mined transactions, at most one for each nonce
    accepted,       \* every transaction the node took (history)
    evictions,      \* number of transactions dropped from the pool
    txLog           \* lines of tx-log.ndjson: calls whose hash is logged

progressVars == <<pc, attempt, answer>>
inputVars == <<transfer, nonce, gasPrice>>
nodeVars == <<pool, blocks, accepted, evictions>>
vars == <<progressVars, inputVars, wire, nodeVars, txLog>>

Points ==
    {"idle",
     "preparing",   \* resolves the vault's address, the token's decimals, keys
     "pricing",     \* awaits nonce, gas price and the gas estimate
     "signing",     \* awaits the Fireblocks signature
     "sending",     \* awaits the answer of eth_sendRawTransaction
     "backoff",     \* sleeps before the next attempt
     "done", "failed"}

Tx == [nonce : Nat, gasPrice : GasPrices, transfer : Transfers,
       encryptionNonce : Calls \cup {None}]

IsShielded(c) == transfer[c] \in Shielded

TxOf(c) == [nonce |-> nonce[c], gasPrice |-> gasPrice[c], transfer |-> transfer[c],
            encryptionNonce |-> IF IsShielded(c) THEN c ELSE None]

TypeOK ==
    /\ pc \in [Calls -> Points]
    /\ transfer \in [Calls -> Transfers \cup {None}]
    /\ nonce \in [Calls -> Nat \cup {None}]
    /\ gasPrice \in [Calls -> GasPrices \cup {None}]
    /\ attempt \in [Calls -> 0..MaxRetries]
    /\ answer \in [Calls -> {"none", "hash", "error", "unavailable"}]
    /\ wire \subseteq Calls
    /\ pool \subseteq Tx
    /\ blocks \subseteq Tx
    /\ accepted \subseteq Tx
    /\ evictions \in 0..MaxEvictions
    /\ txLog \subseteq Calls

-----------------------------------------------------------------------------
(* The node.                                                                *)

MinedNonces == {t.nonce : t \in blocks}
NextNonce == Cardinality(blocks)

(* eth_getTransactionCount with the tag "pending": the first nonce that     *)
(* neither a block nor the pool has.                                        *)
PendingNonce ==
    CHOOSE n \in 0..Cardinality(blocks \cup pool) :
        /\ n \notin MinedNonces \cup {t.nonce : t \in pool}
        /\ \A m \in 0..(n - 1) : m \in MinedNonces \cup {t.nonce : t \in pool}

(* The pool takes a transaction whose nonce is free, or one that outbids    *)
(* the pending transaction of its nonce; a known transaction is refused.    *)
Rivals(t) == {u \in pool : u.nonce = t.nonce}
Takes(t) ==
    /\ t.nonce \notin MinedNonces
    /\ \A u \in Rivals(t) : t.gasPrice > u.gasPrice

-----------------------------------------------------------------------------
Init ==
    /\ pc = [c \in Calls |-> "idle"]
    /\ transfer = [c \in Calls |-> None]
    /\ nonce = [c \in Calls |-> None]
    /\ gasPrice = [c \in Calls |-> None]
    /\ attempt = [c \in Calls |-> 0]
    /\ answer = [c \in Calls |-> "none"]
    /\ wire = {}
    /\ pool = {}
    /\ blocks = {}
    /\ accepted = {}
    /\ evictions = 0
    /\ txLog = {}

Goto(c, from, to) ==
    /\ pc[c] = from
    /\ pc' = [pc EXCEPT ![c] = to]

Start(c, p) ==
    /\ Goto(c, "idle", "preparing")
    /\ transfer' = [transfer EXCEPT ![c] = p]
    /\ UNCHANGED <<attempt, answer, nonce, gasPrice, wire, nodeVars, txLog>>

(* A public transfer: ensureVaultData and getTokenInfo have answered, and   *)
(* the two requests of Promise.all leave.  A shielded one: the encryption   *)
(* key is there, the client made, and the gas price is asked for.           *)
Prepared(c) ==
    /\ Goto(c, "preparing", "pricing")
    /\ UNCHANGED <<attempt, answer, inputVars, wire, nodeVars, txLog>>

(* Mutant: the calls in flight reserve nonces, and a failed call keeps its. *)
NonceReplyReserving(c) ==
    /\ pc[c] = "pricing"
    /\ nonce[c] = None
    /\ nonce' = [nonce EXCEPT ![c] =
         PendingNonce + Cardinality({d \in Calls \ {c} : pc[d] = "signing"})]
    /\ UNCHANGED <<progressVars, transfer, gasPrice, wire, nodeVars, txLog>>

(* The node answers eth_getTransactionCount, which createErc20Transaction   *)
(* asks for together with the gas price, and the library after it.          *)
NonceReply(c) ==
    /\ pc[c] = "pricing"
    /\ IsShielded(c) => gasPrice[c] # None
    /\ nonce[c] = None
    /\ nonce' = [nonce EXCEPT ![c] = PendingNonce]
    /\ UNCHANGED <<progressVars, transfer, gasPrice, wire, nodeVars, txLog>>

GasPriceReply(c, g) ==
    /\ pc[c] = "pricing"
    /\ gasPrice[c] = None
    /\ gasPrice' = [gasPrice EXCEPT ![c] = g]
    /\ UNCHANGED <<progressVars, transfer, nonce, wire, nodeVars, txLog>>

(* Both have answered, and so has eth_estimateGas, whose failure gives a    *)
(* default, unless the limit is given: the transaction is built and its     *)
(* hash sent to Fireblocks.                                                 *)
Estimated(c) ==
    /\ nonce[c] # None
    /\ gasPrice[c] # None
    /\ Goto(c, "pricing", "signing")
    /\ UNCHANGED <<attempt, answer, inputVars, wire, nodeVars, txLog>>

Sends(c) ==
    /\ Goto(c, "signing", "sending")
    /\ wire' = wire \cup {c}
    /\ UNCHANGED <<attempt, answer, inputVars, nodeVars, txLog>>

(* A complete signature arrives and the signed transaction is sent.         *)
SignReply(c) == ~IsShielded(c) /\ Sends(c)

(* The library gets it from the account of buildFireblocksAccount.          *)
AccountSigns(c) == IsShielded(c) /\ Sends(c)

(* A request before the broadcast fails, or the signature is incomplete.    *)
RejectBeforeSend(c) ==
    /\ pc[c] \in {"preparing", "pricing", "signing"}
    /\ pc' = [pc EXCEPT ![c] = "failed"]
    /\ UNCHANGED <<attempt, answer, inputVars, wire, nodeVars, txLog>>

(* The node handles a transaction.  Its answer finds the call waiting,      *)
(* unless the call has given the request up.                                *)
Answer(c, a) ==
    /\ wire' = wire \ {c}
    /\ answer' = IF pc[c] = "sending" THEN [answer EXCEPT ![c] = a] ELSE answer
    /\ UNCHANGED <<pc, attempt, inputVars, blocks, evictions, txLog>>

NodeAccepts(c) ==
    /\ c \in wire
    /\ Takes(TxOf(c))
    /\ pool' = (pool \ Rivals(TxOf(c))) \cup {TxOf(c)}
    /\ accepted' = accepted \cup {TxOf(c)}
    /\ Answer(c, "hash")

(* A JSON-RPC error: the pool refuses the transaction (nonce too low,       *)
(* already known, replacement underpriced), or the node is out of order.    *)
NodeRefuses(c) ==
    /\ c \in wire
    /\ Answer(c, "error")
    /\ UNCHANGED <<pool, accepted>>

(* HTTP 429 or 5xx: the node, or what stands before it, is overloaded.      *)
NodeUnavailable(c) ==
    /\ c \in wire
    /\ Answer(c, "unavailable")
    /\ UNCHANGED <<pool, accepted>>

(* The hash reaches the call, which logs it and returns it.  logTx swallows *)
(* the failure of a write.                                                  *)
HashReply(c) ==
    /\ answer[c] = "hash"
    /\ Goto(c, "sending", "done")
    /\ txLog' \in {txLog, txLog \cup {c}}
    /\ answer' = [answer EXCEPT ![c] = "none"]
    /\ UNCHANGED <<attempt, inputVars, wire, nodeVars>>

(* Mutant: broadcastTransaction does not look at result.err.                *)
ErrorReplyIgnored(c) ==
    /\ answer[c] = "error"
    /\ Goto(c, "sending", "done")
    /\ answer' = [answer EXCEPT ![c] = "none"]
    /\ UNCHANGED <<attempt, inputVars, wire, nodeVars, txLog>>

(* Mutant: withRetry makes one attempt too many.                            *)
ErrorReplyOffByOne(c) ==
    /\ answer[c] = "error"
    /\ \/ /\ attempt[c] <= MaxRetries
          /\ Goto(c, "sending", "backoff")
          /\ attempt' = [attempt EXCEPT ![c] = @ + 1]
       \/ /\ attempt[c] > MaxRetries
          /\ Goto(c, "sending", "failed")
          /\ UNCHANGED attempt
    /\ answer' = [answer EXCEPT ![c] = "none"]
    /\ UNCHANGED <<inputVars, wire, nodeVars, txLog>>

(* Mutant: withRetry does not count its attempts.                           *)
ErrorReplyUncounted(c) ==
    /\ answer[c] = "error"
    /\ Goto(c, "sending", "backoff")
    /\ answer' = [answer EXCEPT ![c] = "none"]
    /\ UNCHANGED <<attempt, inputVars, wire, nodeVars, txLog>>

(* jsonRpc turns the error into an SdkApiError with status 502: withRetry   *)
(* sleeps and tries again until its last attempt, then BROADCAST_FAILED.    *)
ErrorReply(c) ==
    /\ ~IsShielded(c) /\ answer[c] = "error"
    /\ \/ /\ attempt[c] < MaxRetries
          /\ Goto(c, "sending", "backoff")
          /\ attempt' = [attempt EXCEPT ![c] = @ + 1]
       \/ /\ attempt[c] = MaxRetries
          /\ Goto(c, "sending", "failed")
          /\ UNCHANGED attempt
    /\ answer' = [answer EXCEPT ![c] = "none"]
    /\ UNCHANGED <<inputVars, wire, nodeVars, txLog>>

(* The attempt after the sleep sends the same signed transaction.           *)
Resend(c) ==
    /\ Goto(c, "backoff", "sending")
    /\ wire' = wire \cup {c}
    /\ UNCHANGED <<attempt, answer, inputVars, nodeVars, txLog>>

(* Mutant: a transport failure starts the transfer again with a new nonce.  *)
TransportFailsRestarted(c) ==
    /\ Goto(c, "sending", "pricing")
    /\ nonce' = [nonce EXCEPT ![c] = None]
    /\ wire' = wire \ {c}
    /\ answer' = [answer EXCEPT ![c] = "none"]
    /\ UNCHANGED <<attempt, transfer, gasPrice, nodeVars, txLog>>

(* axios rejects on an HTTP error status.  The rejection is an AxiosError   *)
(* and no SdkApiError, so isRetriableError refuses it and the call fails.   *)
UnavailableReply(c) ==
    /\ ~IsShielded(c) /\ answer[c] = "unavailable"
    /\ Goto(c, "sending", "failed")
    /\ answer' = [answer EXCEPT ![c] = "none"]
    /\ UNCHANGED <<attempt, inputVars, wire, nodeVars, txLog>>

(* The request fails without an answer or times out: again an AxiosError,   *)
(* and the call fails at once, whether the transaction is lost, still on    *)
(* its way, or taken and only its answer lost.                              *)
TransportFails(c) ==
    /\ ~IsShielded(c)
    /\ Goto(c, "sending", "failed")
    /\ wire' \in {wire, wire \ {c}}
    /\ answer' = [answer EXCEPT ![c] = "none"]
    /\ UNCHANGED <<attempt, inputVars, nodeVars, txLog>>

(* The library's transport tries again when the node is overloaded, does    *)
(* not answer in time, or reports an internal error, with the same signed   *)
(* transaction.                                                             *)
LibraryRetries(c) ==
    /\ IsShielded(c)
    /\ attempt[c] < MaxRetries
    /\ Goto(c, "sending", "backoff")
    /\ attempt' = [attempt EXCEPT ![c] = @ + 1]
    /\ answer' = [answer EXCEPT ![c] = "none"]
    /\ wire' \in {wire, wire \ {c}}
    /\ UNCHANGED <<inputVars, nodeVars, txLog>>

(* An error that the library gives up on, or one of the node, such as its   *)
(* answer to a transaction that an earlier attempt has brought there:       *)
(* nothing in submitShieldedTransfer or above it catches it.                *)
ShieldedFails(c) ==
    /\ IsShielded(c)
    /\ answer[c] = "error" \/ attempt[c] = MaxRetries
    /\ Goto(c, "sending", "failed")
    /\ answer' = [answer EXCEPT ![c] = "none"]
    /\ UNCHANGED <<attempt, inputVars, wire, nodeVars, txLog>>

(* A block takes the pending transaction with the account's next nonce.     *)
Mine(t) ==
    /\ t.nonce = NextNonce
    /\ pool' = pool \ {t}
    /\ blocks' = blocks \cup {t}
    /\ UNCHANGED <<progressVars, inputVars, wire, accepted, evictions, txLog>>

(* The node drops a pending transaction.                                    *)
Evict(t) ==
    /\ evictions < MaxEvictions
    /\ evictions' = evictions + 1
    /\ pool' = pool \ {t}
    /\ UNCHANGED <<progressVars, inputVars, wire, blocks, accepted, txLog>>

-----------------------------------------------------------------------------
Step(c) ==
    \/ Prepared(c)
    \/ NonceReply(c)
    \/ \E g \in GasPrices : GasPriceReply(c, g)
    \/ Estimated(c)
    \/ SignReply(c)
    \/ AccountSigns(c)
    \/ RejectBeforeSend(c)
    \/ NodeAccepts(c)
    \/ NodeRefuses(c)
    \/ NodeUnavailable(c)
    \/ HashReply(c)
    \/ ErrorReply(c)
    \/ UnavailableReply(c)
    \/ Resend(c)
    \/ TransportFails(c)
    \/ LibraryRetries(c)
    \/ ShieldedFails(c)

Next ==
    \/ \E c \in Calls, p \in Transfers : Start(c, p)
    \/ \E c \in Calls : Step(c)
    \/ \E t \in pool : Mine(t)
    \/ \E t \in pool : Evict(t)

Spec == Init /\ [][Next]_vars

(* Requests end, timers fire, and the node goes on making blocks.           *)
FairSpec ==
    /\ Spec
    /\ \A c \in Calls : WF_vars(Step(c))
    /\ WF_vars(\E t \in pool : Mine(t))

-----------------------------------------------------------------------------
(* Properties.                                                              *)

(* A returned hash, and a line of tx-log.ndjson, stands for a transaction   *)
(* that the node has taken: no error path of broadcastTransaction, of its   *)
(* retries or of the check of result.err ends in a success.                 *)
SuccessMeansAccepted ==
    \A c \in Calls : pc[c] = "done" \/ c \in txLog => TxOf(c) \in accepted

(* Two successful calls never stand for one and the same transaction, not   *)
(* even calls with equal transfers that read the same nonce and gas price,  *)
(* unless the node dropped that transaction in between.                     *)
SuccessesAreDistinct ==
    \A c, d \in Calls :
        pc[c] = "done" /\ pc[d] = "done" /\ TxOf(c) = TxOf(d) => c = d \/ evictions > 0

(* The nonces that public and shielded transfers read leave no gap: as long *)
(* as the node drops nothing, every pending transaction can be mined.       *)
NoNonceGap ==
    evictions = 0 =>
        \A t \in pool : \A n \in NextNonce..t.nonce : \E u \in pool : u.nonce = n

(* Whatever was confirmed to a caller is settled by the chain in the end:   *)
(* its nonce is used by a mined transaction, or the node dropped something. *)
ConfirmedNonceIsUsed ==
    \A c \in Calls :
        pc[c] = "done" ~> evictions > 0 \/ nonce[c] \in MinedNonces

(* Every transfer settles, retries included.                                *)
EveryTransferSettles ==
    \A c \in Calls : pc[c] # "idle" ~> pc[c] \in {"done", "failed"}

(* Each requested transfer is executed at most once, and only what was      *)
(* requested is executed or confirmed, although calls are resent, rejected, *)
(* replaced, evicted and answered late.                                     *)
Count(S, p) == Cardinality({t \in S : t.transfer = p})
CallsWith(p, points) == {c \in Calls : transfer[c] = p /\ pc[c] \in points}

Promise == INSTANCE TransferPromise WITH
    requested <- [p \in Transfers |-> Cardinality(CallsWith(p, Points))],
    executed <- [p \in Transfers |-> Count(blocks, p)],
    confirmed <- [p \in Transfers |-> Cardinality(CallsWith(p, {"done"}))]

AtMostOnce == Promise!Spec

-----------------------------------------------------------------------------
(* What the documentation promises and the code does not keep.              *)

(* README.md:317: reading the nonce with the tag "pending" ensures that     *)
(* concurrent users of a vault "don't create nonce conflicts".              *)
NoNonceConflict ==
    \A c, d \in Calls :
        {pc[c], pc[d]} \subseteq {"sending", "backoff", "done"} /\ nonce[c] = nonce[d]
            => c = d
=============================================================================
