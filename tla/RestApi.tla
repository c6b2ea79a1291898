------------------------------- MODULE RestApi -------------------------------
(***************************************************************************)
(* One request to the REST API, from its arrival to its answer: validation  *)
(* (router.ts, schemas.ts, middleware.ts), the handler (controller.ts), the *)
(* awaits of the SDK behind it, each of which may fail, and the mapping of  *)
(* what they throw to a status (handleError).  Requests share nothing in    *)
(* this layer; how their SDK calls interleave is the matter of the other    *)
(* modules.                                                                *)
(*                                                                         *)
(* A transfer is followed in detail: who receives it, in which units, and   *)
(* whether the node has taken it.  An error is what handleError tells       *)
(* apart: an SdkApiError with its status, or another one with or without    *)
(* the words that make it the client's fault.                              *)
(***************************************************************************)
EXTENDS Naturals, Sequences

CONSTANTS
    Requests,           \* the requests that may arrive
    Address,            \* vault id -> address
    Decimals,           \* token contract -> its decimals
    SUSDC,              \* SUSDC_CONTRACT_ADDRESS
    SUsdcDecimals,      \* SUSDC_DECIMALS
    DefaultDecimals,    \* DEFAULT_TOKEN_DECIMALS
    MaxDecimals,        \* the most decimals a request may ask for
    Huge,               \* a vault id whose digits are too many for a number
    Junk,               \* an amount such as "1abc", which only starts like a number
    None                \* undefined

Routes ==
    {"contracts", "validate-key", "address", "public-key", "token-balances", "register-key",
     "key-status", "transactions", "transaction", "transfer", "metrics"}

(* What the body of a transfer may hold, whether it is accepted or not.     *)
TransferFields(q) ==
    /\ q.type \in {"SUSDC", "ERC20", "SRC20"}
    /\ q.destinationVaultId \in DOMAIN Address \cup {Huge, None}
    /\ q.amount \in Nat \cup {Junk}
    /\ q.contractAddress \in DOMAIN Decimals \cup {None}
    /\ q.decimals \in Nat \cup {None}

(* Where a transfer may go: to a vault, or to an address that a request     *)
(* names.                                                                   *)
Recipients ==
    {Address[v] : v \in DOMAIN Address}
    \cup {q.recipient : q \in {r \in Requests : r.route = "transfer"}}

(* A request to one of the routes, with the parameters that its handler     *)
(* looks at.                                                                *)
IsRequest(q) ==
    /\ q.route \in Routes
    /\ q.route \in {"register-key", "transfer"} => q.vault \in DOMAIN Address \cup {Huge}
    /\ q.route = "validate-key" => q.body \in {"none", "empty", "key"}
    /\ q.route = "transfer" => TransferFields(q)

ASSUME RestAssumption ==
    /\ \A q \in Requests : IsRequest(q)
    /\ SUSDC \in DOMAIN Decimals
    /\ \A c \in DOMAIN Decimals : Decimals[c] \in Nat
    /\ {SUsdcDecimals, DefaultDecimals, MaxDecimals} \subseteq Nat
    /\ Decimals[SUSDC] = SUsdcDecimals
    /\ Huge \notin DOMAIN Address \cup {None}
    /\ Junk \notin Nat
    /\ None \notin Nat \cup DOMAIN Address \cup DOMAIN Decimals
    /\ None \notin {Address[v] : v \in DOMAIN Address}

VARIABLES
    req,        \* the request
    pc,         \* "arrived", "handling", "failed", "escaped" or "answered"
    todo,       \* the awaits that the handler has still ahead of it
    error,      \* what the handler's catch has caught
    to,         \* the recipient of a transfer
    decimals,   \* resolvedDecimals
    units,      \* the amount of a transfer in the token's smallest units
    taken,      \* what the node has accepted for this request
    unread,     \* the read of the token's decimals has failed (history)
    answers     \* the statuses that were sent

vars == <<req, pc, todo, error, to, decimals, units, taken, unread, answers>>
locals == <<to, decimals, units>>

Errors == [sdk : BOOLEAN, status : {0, 400, 500, 502, 503}, words : BOOLEAN]
Sdk(status) == [sdk |-> TRUE, status |-> status, words |-> FALSE]
Plain(words) == [sdk |-> FALSE, status |-> 0, words |-> words]
NoError == Plain(FALSE)

Amounts == Nat \cup {None}

TypeOK ==
    /\ req \in Requests
    /\ pc \in {"arrived", "handling", "failed", "escaped", "answered"}
    /\ pc \in {"failed", "answered"} \/ error = NoError
    /\ error \in Errors
    /\ to \in Recipients \cup {None}
    /\ decimals \in Amounts /\ units \in Amounts
    /\ \A m \in taken : m.units \in Nat /\ m.to # None
    /\ unread \in BOOLEAN
    /\ answers \in Seq(200..503) /\ Len(answers) <= 1
    /\ pc = "answered" <=> answers # <<>>

-----------------------------------------------------------------------------
(* Validation.                                                              *)

(* amount passes if parseFloat makes a positive number of it.  Amounts are  *)
(* counted in tenths of a token.                                            *)
PositiveNumber(amount) == amount # Junk => amount > 0

(* transferBody: one destination, and a contract unless it is sUSDC.        *)
TransferBody(q) ==
    /\ PositiveNumber(q.amount)
    /\ q.decimals # None => q.decimals <= MaxDecimals
    /\ (q.recipient = None) # (q.destinationVaultId = None)
    /\ q.type # "SUSDC" => q.contractAddress # None

(* What the schemas of a route demand.  wellFormed stands for the patterns  *)
(* of ids, hashes and addresses.  Two routes have no schema.                *)
Valid(q) ==
    q.route \notin {"validate-key", "metrics"} =>
        q.wellFormed /\ (q.route = "transfer" => TransferBody(q))

-----------------------------------------------------------------------------
(* The awaits of each route, in their order.                                *)

Erc20Plan(q) ==
    <<"vault">>
    \o (IF q.decimals = None THEN <<"decimals">> ELSE <<>>)
    \o <<"amount", "nonce", "signing", "broadcast">>

(* Mutant: the destination's address is asked for after the transfer.       *)
TransferPlanReordered(q) ==
    (IF q.type = "ERC20" THEN Erc20Plan(q)
     ELSE <<"vault", "key", "client", "amount", "gasPrice", "shieldedTransfer">>)
    \o (IF q.destinationVaultId = None THEN <<>> ELSE <<"destination">>)

TransferPlan(q) ==
    (IF q.destinationVaultId = None THEN <<>> ELSE <<"destination">>)
    \o IF q.type = "ERC20" THEN Erc20Plan(q)
       ELSE <<"vault", "key", "client", "amount", "gasPrice", "shieldedTransfer">>

(* With type "all", or with given contracts, failures after the vault's     *)
(* become fields or zeros of the result.                                    *)
BalancesPlan(q) ==
    CASE q.type = "all" \/ q.contracts -> <<"vault">>
      [] q.type = "erc20" -> <<"vault", "explorer">>
      [] OTHER -> <<"vault", "height">>

Plan(q) ==
    CASE q.route \in {"address", "public-key"} -> <<"vault">>
      [] q.route = "token-balances" -> BalancesPlan(q)
      [] q.route = "register-key" ->
            <<"vault", "key", "client", "gasPrice", "registration">>
      [] q.route = "key-status" -> <<"vault", "directory">>
      [] q.route = "transactions" -> <<"vault", "logs">>
      [] q.route = "transaction" -> <<"transaction">>
      [] q.route = "contracts" -> <<>>
      [] q.route = "validate-key" -> <<>>
      [] q.route = "metrics" -> <<"metrics">>
      [] q.route = "transfer" -> TransferPlan(q)

(* The awaits after which something may have changed on the chain.          *)
Submissions == {"broadcast", "shieldedTransfer", "registration"}

-----------------------------------------------------------------------------
(* Failures.                                                                *)

(* getPublicKeyByVaultID refuses an id that is no number; Fireblocks fails; *)
(* formatAddress throws an SdkApiError without a status.                    *)
LookupErrors(vault) == IF vault = Huge THEN {Sdk(400)} ELSE {Sdk(500), Sdk(0)}

SigningErrors == {Sdk(500), Sdk(502), Sdk(503)}

(* jsonRpc: an error of the node is an SdkApiError, one of HTTP is not.     *)
RpcErrors == {Sdk(502), Plain(FALSE)}

(* Errors of viem and of the explorer quote what the other side says.       *)
ForeignErrors == {Plain(TRUE), Plain(FALSE)}

(* What a submission throws: the node's refusal, or the loss of its answer. *)
SubmissionErrors ==
    IF taken = {} THEN ForeignErrors \cup SigningErrors ELSE {Plain(FALSE)}

(* What an await of the SDK may throw to the code that called it.           *)
Throws(call) ==
    CASE call = "vault" -> LookupErrors(req.vault)
      [] call = "destination" -> LookupErrors(req.destinationVaultId)
      [] call \in {"key", "signing"} -> SigningErrors
      [] call \in {"nonce", "gasPrice", "height", "logs", "transaction"} -> RpcErrors
      [] call \in {"client", "directory", "explorer"} -> ForeignErrors
      [] call \in {"shieldedTransfer", "registration"} -> SubmissionErrors
      [] call = "broadcast" -> {Sdk(500)}
      [] call = "metrics" -> {Plain(FALSE)}

(* createErc20Transaction makes an SdkApiError of whatever it catches; the  *)
(* lookup of the destination is outside of it.                              *)
Wrapped(call, e) ==
    IF req.route = "transfer" /\ req.type = "ERC20" /\ call # "destination" /\ ~e.sdk
    THEN Sdk(500) ELSE e

(* Mutant: an error that is no SdkApiError counts as the client's.          *)
StatusOfPlain(e) ==
    IF e.sdk THEN (IF e.status = 0 THEN 500 ELSE e.status) ELSE 400

(* handleError.                                                             *)
StatusOf(e) ==
    CASE e.sdk -> IF e.status = 0 THEN 500 ELSE e.status
      [] ~e.sdk /\ e.words -> 400
      [] OTHER -> 500

-----------------------------------------------------------------------------
Init ==
    /\ req \in Requests
    /\ pc = "arrived"
    /\ todo = <<>>
    /\ error = NoError
    /\ to = None /\ decimals = None /\ units = None
    /\ taken = {}
    /\ unread = FALSE
    /\ answers = <<>>

Answer(status) ==
    /\ answers' = Append(answers, status)
    /\ pc' = "answered"

(* validate: a ZodError is answered by the middleware itself.               *)
Invalid ==
    /\ pc = "arrived" /\ ~Valid(req)
    /\ Answer(400)
    /\ UNCHANGED <<req, todo, error, locals, taken, unread>>

(* The handler starts.  A transfer takes its contract's or its own decimals *)
(* unless they are to be read.                                              *)
Handle ==
    /\ pc = "arrived" /\ Valid(req)
    /\ pc' = "handling"
    /\ todo' = Plan(req)
    /\ IF req.route # "transfer"
       THEN UNCHANGED <<to, decimals>>
       ELSE /\ to' = req.recipient
            /\ decimals' = CASE req.type = "SUSDC" -> SUsdcDecimals
                             [] req.decimals # None -> req.decimals
                             [] req.type = "SRC20" -> DefaultDecimals
                             [] OTHER -> None
    /\ UNCHANGED <<req, error, units, taken, unread, answers>>

-----------------------------------------------------------------------------
(* The awaits.                                                              *)

At(call) == pc = "handling" /\ todo # <<>> /\ Head(todo) = call
GoOn == todo' = Tail(todo) /\ UNCHANGED <<req, pc, error, answers>>

(* An answer the handler uses for nothing that is modelled.                 *)
Reply ==
    /\ pc = "handling" /\ todo # <<>>
    /\ Head(todo) \notin Submissions \cup {"destination", "decimals", "amount", "transaction"}
    /\ Head(todo) = "vault" => req.vault # Huge
    /\ GoOn
    /\ UNCHANGED <<locals, taken, unread>>

DestinationReply ==
    /\ At("destination") /\ req.destinationVaultId # Huge
    /\ to' = Address[req.destinationVaultId]
    /\ GoOn
    /\ UNCHANGED <<decimals, units, taken, unread>>

(* getTokenInfo: its failure is swallowed, and gives the default.           *)
DecimalsReply ==
    /\ At("decimals")
    /\ \/ decimals' = Decimals[req.contractAddress] /\ UNCHANGED unread
       \/ decimals' = DefaultDecimals /\ unread' = TRUE
    /\ GoOn
    /\ UNCHANGED <<to, units, taken>>

(* parseUnits of viem: rounds to the decimals the token has.                *)
ParseUnits(amount, d) == (amount * 10^d + 5) \div 10

ParseAmount ==
    /\ At("amount") /\ req.amount # Junk
    /\ units' = ParseUnits(req.amount, decimals)
    /\ GoOn
    /\ UNCHANGED <<to, decimals, taken, unread>>

Failed(e) ==
    /\ pc' = "failed"
    /\ error' = e
    /\ UNCHANGED <<req, todo, locals, taken, unread, answers>>

AmountRefused ==
    /\ At("amount") /\ req.amount = Junk
    /\ Failed(Wrapped("amount", Plain(FALSE)))

(* The handler's try catches what an await throws; /metrics has none.       *)
Fails ==
    /\ pc = "handling" /\ todo # <<>>
    /\ Head(todo) \notin {"decimals", "amount"}
    /\ \E e \in Throws(Head(todo)) :
         IF Head(todo) = "metrics"
         THEN pc' = "escaped" /\ UNCHANGED <<req, todo, error, locals, taken, unread, answers>>
         ELSE Failed(Wrapped(Head(todo), e))

(* What is submitted.                                                       *)
Contract == IF req.type = "SUSDC" THEN SUSDC ELSE req.contractAddress
Submitted ==
    IF req.route = "transfer"
    THEN [contract |-> Contract, to |-> to, units |-> units]
    ELSE [contract |-> None, to |-> Address[req.vault], units |-> 0]

(* The node takes it.  Its answer is a step of its own.                     *)
NodeAccepts ==
    /\ pc = "handling" /\ todo # <<>> /\ Head(todo) \in Submissions
    /\ taken = {}
    /\ taken' = {Submitted}
    /\ UNCHANGED <<req, pc, todo, error, locals, unread, answers>>

HashReply ==
    /\ pc = "handling" /\ todo # <<>> /\ Head(todo) \in Submissions
    /\ taken # {}
    /\ GoOn
    /\ UNCHANGED <<locals, taken, unread>>

-----------------------------------------------------------------------------
(* Answers.                                                                 *)

(* Mutant: the handler goes on after its 404.                               *)
TransactionReplyUnreturned ==
    /\ At("transaction")
    /\ \/ answers' = Append(answers, 404) /\ UNCHANGED pc
       \/ UNCHANGED <<answers, pc>>
    /\ todo' = <<>>
    /\ UNCHANGED <<req, error, locals, taken, unread>>

(* getTransaction: the node knows the hash, or it does not.                 *)
TransactionReply ==
    /\ At("transaction")
    /\ \/ Answer(404)
       \/ UNCHANGED <<answers, pc>>
    /\ todo' = <<>>
    /\ UNCHANGED <<req, error, locals, taken, unread>>

(* validateApiKey: the explorer takes the key, refuses it, or fails.        *)
KeyStatuses == {200, 401, 502}

(* validateExplorerApiKey: without a body its first line throws, outside of *)
(* try.                                                                     *)
ValidateKey ==
    /\ pc = "handling" /\ req.route = "validate-key"
    /\ CASE req.body = "none" -> pc' = "escaped" /\ UNCHANGED answers
         [] req.body = "empty" -> Answer(400)
         [] req.body = "key" -> \E status \in KeyStatuses : Answer(status)
    /\ UNCHANGED <<req, todo, error, locals, taken, unread>>

Succeed ==
    /\ pc = "handling" /\ todo = <<>> /\ req.route # "validate-key"
    /\ Answer(200)
    /\ UNCHANGED <<req, todo, error, locals, taken, unread>>

HandleError ==
    /\ pc = "failed"
    /\ Answer(StatusOf(error))
    /\ UNCHANGED <<req, todo, error, locals, taken, unread>>

(* The error handler of the express application.                            *)
ErrorHandler ==
    /\ pc = "escaped"
    /\ Answer(500)
    /\ UNCHANGED <<req, todo, error, locals, taken, unread>>

-----------------------------------------------------------------------------
Next ==
    \/ Invalid
    \/ Handle
    \/ Reply
    \/ DestinationReply
    \/ DecimalsReply
    \/ ParseAmount
    \/ AmountRefused
    \/ NodeAccepts
    \/ HashReply
    \/ Fails
    \/ TransactionReply
    \/ ValidateKey
    \/ Succeed
    \/ HandleError
    \/ ErrorHandler

(* Every await settles, and continuations run.                              *)
Spec == Init /\ [][Next]_vars /\ WF_vars(Next)
-----------------------------------------------------------------------------
(* Properties.                                                              *)

Answered(statuses) == pc = "answered" /\ answers[Len(answers)] \in statuses

(* The decimals that amount is meant in: the token's, unless the request    *)
(* names others, or leaves those of an SRC-20 token to the default.         *)
Denomination ==
    CASE req.type = "SUSDC" -> Decimals[SUSDC]
      [] req.decimals # None -> req.decimals
      [] req.type = "SRC20" -> DefaultDecimals
      [] OTHER -> Decimals[Contract]

(* m moves the amount that was asked for, up to half a smallest unit.       *)
Worth(m, d) ==
    /\ 10 * m.units <= req.amount * 10^d + 5
    /\ req.amount * 10^d <= 10 * m.units + 5

Recipient == IF req.destinationVaultId = None THEN req.recipient
             ELSE Address[req.destinationVaultId]

(* A transfer answered by 200 has been accepted by the node, with the       *)
(* contract, the recipient and the amount of the request, whichever of the  *)
(* three ways through the SDK it took and however its recipient was named.  *)
(* Left out is a read of the token's decimals that failed.                  *)
SuccessMovesWhatWasAsked ==
    Answered({200}) /\ req.route = "transfer" /\ ~unread =>
        \E m \in taken :
            m.contract = Contract /\ m.to = Recipient /\ Worth(m, Denomination)

(* An answer that blames the client means that nothing was submitted:       *)
(* whatever fails after a submission is reported as the server's failure,   *)
(* so that a client may correct a request and send it again.                *)
ClientErrorMovesNothing == Answered(400..499) => taken = {}

(* Every request gets one answer, and no second one, whatever fails.        *)
EveryRequestAnswered == <>[](Len(answers) = 1)

(* What router.ts and MainSDK.ts say of amount: it counts whole tokens.     *)
(* The code counts in units of DEFAULT_TOKEN_DECIMALS when it cannot read   *)
(* the token's decimals.                                                    *)
AmountInWholeTokenUnits ==
    Answered({200}) /\ req.route = "transfer" =>
        \A m \in taken : Worth(m, Decimals[m.contract])
=============================================================================
