--------------------------- MODULE RestApiProofs ---------------------------
(***************************************************************************)
(* What RestApi promises of every request, for any vaults, tokens,         *)
(* decimals and amounts.                                                   *)
(*                                                                         *)
(* A handler is a sequence of awaits.  Everything rests on their order: an *)
(* await that submits is the last one, and the recipient, the decimals and *)
(* the amount are settled before it.  OnCourse says for each of them that  *)
(* it is right once its await is behind the handler, and what may have     *)
(* been submitted at which point; Blamed carries the latter over to the    *)
(* error that is being reported.                                           *)
(*                                                                         *)
(* The last part shows that every step brings a request nearer to its      *)
(* answer, by the rank of the await it is at.                              *)
(***************************************************************************)
EXTENDS RestApi, Integers, TLAPS

Awaits ==
    {"destination", "vault", "key", "explorer", "height", "directory", "logs", "transaction",
     "metrics", "client", "decimals", "amount", "nonce", "gasPrice", "signing"} \cup Submissions

(* The order in which all plans have their awaits.                          *)
Rank(call) ==
    CASE call = "destination" -> 0
      [] call = "vault" -> 1
      [] call \in {"client", "decimals"} -> 3
      [] call = "amount" -> 4
      [] call \in {"nonce", "gasPrice"} -> 5
      [] call = "signing" -> 6
      [] call \in Submissions -> 7
      [] OTHER -> 2

Among(s) == {s[j] : j \in DOMAIN s}
Ordered(s) == \A j, k \in DOMAIN s : j < k => Rank(s[j]) < Rank(s[k])
Ahead == Among(todo)

-----------------------------------------------------------------------------
(* The invariant.                                                           *)

(* TypeOK, except that amounts of units are integers.                       *)
Kinds ==
    /\ req \in Requests
    /\ pc \in {"arrived", "handling", "failed", "escaped", "answered"}
    /\ pc \in {"failed", "answered"} \/ error = NoError
    /\ error \in Errors
    /\ to \in Recipients \cup {None}
    /\ decimals \in Amounts /\ units \in Int \cup {None}
    /\ \A m \in taken : m.units \in Int /\ m.to # None
    /\ unread \in BOOLEAN
    /\ answers \in Seq(200..503) /\ Len(answers) <= 1
    /\ pc = "answered" <=> answers # <<>>

(* What the awaits ahead say of the request.                                *)
Planned(calls) ==
    /\ "destination" \in calls => req.route = "transfer" /\ req.destinationVaultId # None
    /\ "decimals" \in calls =>
           req.route = "transfer" /\ req.type = "ERC20" /\ req.decimals = None
    /\ "amount" \in calls => req.route = "transfer"
    /\ "transaction" \in calls => req.route = "transaction"
    /\ calls \cap Submissions # {} => req.route \in {"transfer", "register-key"}

(* Once an await is behind a transfer, what it settles is right.            *)
Settled(calls) ==
    /\ "destination" \notin calls => to = Recipient /\ req.destinationVaultId # Huge
    /\ "decimals" \notin calls => decimals \in Nat /\ (unread \/ decimals = Denomination)
    /\ "decimals" \in calls => "amount" \in calls
    /\ "amount" \notin calls => req.amount # Junk /\ units = ParseUnits(req.amount, decimals)
    /\ taken = {} => calls \cap Submissions # {}

OnCourse ==
    /\ pc = "arrived" => taken = {}
    /\ taken # {} => req.route \in {"transfer", "register-key"}
    /\ pc = "handling" =>
        /\ Valid(req)
        /\ todo \in Seq(Awaits) /\ Ordered(todo)
        /\ Planned(Ahead)
        /\ req.route = "transfer" => Settled(Ahead)
        /\ req.route = "register-key" /\ "vault" \notin Ahead => req.vault # Huge
        /\ taken # {} => Ahead \subseteq Submissions /\ taken = {Submitted}

(* An error that is reported after a submission is not the client's.        *)
Blamed == pc = "failed" /\ taken # {} => StatusOf(error) \notin 400..499

IInv ==
    /\ Kinds
    /\ OnCourse
    /\ Blamed
    /\ SuccessMovesWhatWasAsked
    /\ ClientErrorMovesNothing

-----------------------------------------------------------------------------
(* Sequences of awaits.                                                     *)

(* The first await ranks below all others, and the others keep their order. *)
LEMMA FirstAwait ==
    ASSUME NEW s \in Seq(Awaits), s # <<>>, Ordered(s)
    PROVE  /\ Head(s) \in Awaits /\ Tail(s) \in Seq(Awaits) /\ Ordered(Tail(s))
           /\ Among(s) = Among(Tail(s)) \cup {Head(s)}
           /\ \A c \in Among(Tail(s)) : Rank(Head(s)) < Rank(c)
<1> DEFINE t == Tail(s)
<1>1. /\ Len(s) \in Nat \ {0} /\ DOMAIN s = 1..Len(s) /\ Head(s) = s[1] /\ s[1] \in Awaits
      /\ t \in Seq(Awaits) /\ Len(t) = Len(s) - 1 /\ DOMAIN t = 1..Len(t)
      /\ \A j \in 1..Len(t) : t[j] = s[j + 1]
  OBVIOUS
<1> HIDE DEF t
<1>2. Ordered(t)
  BY <1>1 DEF Ordered
<1>3. \A c \in Among(t) : Rank(Head(s)) < Rank(c)
  BY <1>1 DEF Ordered, Among
<1>4. Among(s) = Among(t) \cup {Head(s)}
  <2>1. \A j \in DOMAIN s : j = 1 \/ (j - 1 \in DOMAIN t /\ s[j] = t[j - 1])
    BY <1>1
  <2>2. \A j \in DOMAIN t : j + 1 \in DOMAIN s /\ t[j] = s[j + 1]
    BY <1>1
  <2>3. ASSUME NEW c \in Among(s) PROVE c \in Among(t) \cup {Head(s)}
    BY <1>1, <2>1 DEF Among
  <2>4. Among(t) \subseteq Among(s)
    BY <2>2 DEF Among
  <2>5. Head(s) \in Among(s)
    BY <1>1 DEF Among
  <2> QED BY <2>3, <2>4, <2>5
<1> QED BY <1>1, <1>2, <1>3, <1>4 DEF t

(* Two ordered sequences, the second of which ranks above the first, make   *)
(* an ordered one.                                                          *)
LEMMA OrderedConcat ==
    ASSUME NEW s \in Seq(Awaits), NEW t \in Seq(Awaits), Ordered(s), Ordered(t),
           \A c \in Among(s), d \in Among(t) : Rank(c) < Rank(d)
    PROVE  /\ s \o t \in Seq(Awaits) /\ Ordered(s \o t)
           /\ Among(s \o t) = Among(s) \cup Among(t)
<1> DEFINE u == s \o t
<1>1. /\ Len(s) \in Nat /\ DOMAIN s = 1..Len(s)
      /\ Len(t) \in Nat /\ DOMAIN t = 1..Len(t)
      /\ u \in Seq(Awaits) /\ DOMAIN u = 1..(Len(s) + Len(t))
      /\ \A j \in DOMAIN u : u[j] = IF j <= Len(s) THEN s[j] ELSE t[j - Len(s)]
  OBVIOUS
<1> HIDE DEF u
<1>2. \A j \in DOMAIN u : \/ j <= Len(s) /\ j \in DOMAIN s /\ u[j] = s[j]
                          \/ j > Len(s) /\ j - Len(s) \in DOMAIN t /\ u[j] = t[j - Len(s)]
  BY <1>1
<1>3. Among(u) = Among(s) \cup Among(t)
  <2>1. \A j \in DOMAIN s : j \in DOMAIN u /\ u[j] = s[j]
    BY <1>1
  <2>2. \A j \in DOMAIN t : j + Len(s) \in DOMAIN u /\ u[j + Len(s)] = t[j]
    BY <1>1
  <2> QED BY <1>2, <2>1, <2>2 DEF Among
<1>4. Ordered(u)
  <2> SUFFICES ASSUME NEW j \in DOMAIN u, NEW k \in DOMAIN u, j < k
               PROVE  Rank(u[j]) < Rank(u[k])
    BY DEF Ordered
  <2>1. CASE k <= Len(s)
    BY <1>1, <1>2, <2>1 DEF Ordered
  <2>2. CASE j <= Len(s) /\ k > Len(s)
    <3>1. u[j] \in Among(s) /\ u[k] \in Among(t)
      BY <1>1, <1>2, <2>2 DEF Among
    <3> QED BY <3>1
  <2>3. CASE j > Len(s)
    <3>1. /\ j - Len(s) \in DOMAIN t /\ k - Len(s) \in DOMAIN t /\ j - Len(s) < k - Len(s)
          /\ u[j] = t[j - Len(s)] /\ u[k] = t[k - Len(s)]
      BY <1>1, <1>2, <2>3
    <3> QED BY <3>1 DEF Ordered
  <2> QED BY <1>1, <2>1, <2>2, <2>3
<1> QED BY <1>1, <1>3, <1>4 DEF u

(* Sequences of none and of one.                                            *)
LEMMA OrderedShort ==
    /\ <<>> \in Seq(Awaits) /\ Ordered(<<>>) /\ Among(<<>>) = {}
    /\ \A c \in Awaits : <<c>> \in Seq(Awaits) /\ Ordered(<<c>>) /\ Among(<<c>>) = {c}
<1>1. <<>> \in Seq(Awaits) /\ DOMAIN <<>> = {}
  OBVIOUS
<1>2. ASSUME NEW c \in Awaits
      PROVE  <<c>> \in Seq(Awaits) /\ DOMAIN <<c>> = {1} /\ <<c>>[1] = c
  OBVIOUS
<1> QED BY <1>1, <1>2 DEF Ordered, Among

(* The plans without a choice.                                              *)
LEMMA FixedPlans ==
    /\ LET p == <<"amount", "nonce", "signing", "broadcast">> IN
       /\ p \in Seq(Awaits) /\ Ordered(p)
       /\ Among(p) = {"amount", "nonce", "signing", "broadcast"}
    /\ LET p == <<"vault", "key", "client", "amount", "gasPrice", "shieldedTransfer">> IN
       /\ p \in Seq(Awaits) /\ Ordered(p)
       /\ Among(p) = {"vault", "key", "client", "amount", "gasPrice", "shieldedTransfer"}
    /\ LET p == <<"vault", "key", "client", "gasPrice", "registration">> IN
       /\ p \in Seq(Awaits) /\ Ordered(p)
       /\ Among(p) = {"vault", "key", "client", "gasPrice", "registration"}
    /\ \A c \in {"explorer", "height", "directory", "logs"} :
       /\ <<"vault", c>> \in Seq(Awaits) /\ Ordered(<<"vault", c>>)
       /\ Among(<<"vault", c>>) = {"vault", c}
<1>1. /\ \A j \in 1..4 : j \in {1, 2, 3, 4}
      /\ \A j \in 1..5 : j \in {1, 2, 3, 4, 5}
      /\ \A j \in 1..6 : j \in {1, 2, 3, 4, 5, 6}
      /\ \A j \in 1..2 : j \in {1, 2}
  OBVIOUS
<1>2. LET p == <<"amount", "nonce", "signing", "broadcast">> IN
       /\ p \in Seq(Awaits) /\ Ordered(p)
       /\ Among(p) = {"amount", "nonce", "signing", "broadcast"}
  BY <1>1 DEF Awaits, Submissions, Ordered, Among, Rank
<1>3. LET p == <<"vault", "key", "client", "amount", "gasPrice", "shieldedTransfer">> IN
       /\ p \in Seq(Awaits) /\ Ordered(p)
       /\ Among(p) = {"vault", "key", "client", "amount", "gasPrice", "shieldedTransfer"}
  BY <1>1 DEF Awaits, Submissions, Ordered, Among, Rank
<1>4. LET p == <<"vault", "key", "client", "gasPrice", "registration">> IN
       /\ p \in Seq(Awaits) /\ Ordered(p)
       /\ Among(p) = {"vault", "key", "client", "gasPrice", "registration"}
  BY <1>1 DEF Awaits, Submissions, Ordered, Among, Rank
<1>5. ASSUME NEW c \in {"explorer", "height", "directory", "logs"}
      PROVE  /\ <<"vault", c>> \in Seq(Awaits) /\ Ordered(<<"vault", c>>)
             /\ Among(<<"vault", c>>) = {"vault", c}
  BY <1>1 DEF Awaits, Submissions, Ordered, Among, Rank
<1> QED BY <1>2, <1>3, <1>4, <1>5

-----------------------------------------------------------------------------
(* Plans.                                                                   *)

(* The awaits of createErc20Transaction.                                    *)
LEMMA Erc20PlanOrdered ==
    ASSUME NEW q
    PROVE  /\ Erc20Plan(q) \in Seq(Awaits) /\ Ordered(Erc20Plan(q))
           /\ Among(Erc20Plan(q)) =
                  {"vault", "amount", "nonce", "signing", "broadcast"}
                  \cup (IF q.decimals = None THEN {"decimals"} ELSE {})
<1> DEFINE a == <<"vault">>
           b == IF q.decimals = None THEN <<"decimals">> ELSE <<>>
           c == <<"amount", "nonce", "signing", "broadcast">>
           B == IF q.decimals = None THEN {"decimals"} ELSE {}
<1>1. a \in Seq(Awaits) /\ Ordered(a) /\ Among(a) = {"vault"}
  BY OrderedShort DEF Awaits
<1>2. b \in Seq(Awaits) /\ Ordered(b) /\ Among(b) = B
  BY OrderedShort DEF Awaits
<1>3. /\ c \in Seq(Awaits) /\ Ordered(c)
      /\ Among(c) = {"amount", "nonce", "signing", "broadcast"}
  BY FixedPlans
<1>4. Erc20Plan(q) = (a \o b) \o c
  BY DEF Erc20Plan
<1> HIDE DEF a, b, c
<1>5. a \o b \in Seq(Awaits) /\ Ordered(a \o b) /\ Among(a \o b) = {"vault"} \cup B
  <2>1. \A x \in Among(a), y \in Among(b) : Rank(x) < Rank(y)
    BY <1>1, <1>2 DEF Rank, Submissions
  <2> QED BY <1>1, <1>2, <2>1, OrderedConcat
<1>6. /\ (a \o b) \o c \in Seq(Awaits) /\ Ordered((a \o b) \o c)
      /\ Among((a \o b) \o c) = Among(a \o b) \cup Among(c)
  <2>1. \A x \in Among(a \o b), y \in Among(c) : Rank(x) < Rank(y)
    BY <1>3, <1>5 DEF Rank, Submissions
  <2> HIDE DEF B
  <2> QED BY <1>3, <1>5, <2>1, OrderedConcat
<1> QED BY <1>3, <1>4, <1>5, <1>6

(* The awaits of a transfer.                                                *)
LEMMA TransferPlanOrdered ==
    ASSUME NEW q
    PROVE  /\ TransferPlan(q) \in Seq(Awaits) /\ Ordered(TransferPlan(q))
           /\ Among(TransferPlan(q)) =
                  (IF q.destinationVaultId = None THEN {} ELSE {"destination"})
                  \cup (IF q.type # "ERC20"
                        THEN {"vault", "key", "client", "amount", "gasPrice", "shieldedTransfer"}
                        ELSE {"vault", "amount", "nonce", "signing", "broadcast"}
                             \cup (IF q.decimals = None THEN {"decimals"} ELSE {}))
<1> DEFINE a == IF q.destinationVaultId = None THEN <<>> ELSE <<"destination">>
           A == IF q.destinationVaultId = None THEN {} ELSE {"destination"}
           b == IF q.type = "ERC20" THEN Erc20Plan(q)
                ELSE <<"vault", "key", "client", "amount", "gasPrice", "shieldedTransfer">>
           B == IF q.type # "ERC20"
                THEN {"vault", "key", "client", "amount", "gasPrice", "shieldedTransfer"}
                ELSE {"vault", "amount", "nonce", "signing", "broadcast"}
                     \cup (IF q.decimals = None THEN {"decimals"} ELSE {})
<1>1. a \in Seq(Awaits) /\ Ordered(a) /\ Among(a) = A
  BY OrderedShort DEF Awaits
<1>2. b \in Seq(Awaits) /\ Ordered(b) /\ Among(b) = B
  BY FixedPlans, Erc20PlanOrdered
<1>3. TransferPlan(q) = a \o b
  BY DEF TransferPlan
<1>4. \A x \in A, y \in B : Rank(x) < Rank(y)
  BY DEF Rank, Submissions
<1> HIDE DEF a, b, A, B
<1>5. a \o b \in Seq(Awaits) /\ Ordered(a \o b) /\ Among(a \o b) = A \cup B
  BY <1>1, <1>2, <1>4, OrderedConcat
<1> QED BY <1>3, <1>5 DEF A, B

(* The awaits of every route: in order, a submission only for those that    *)
(* transfer or register, and for a transfer all that it has to settle.      *)
LEMMA PlanOrdered ==
    ASSUME NEW q, IsRequest(q)
    PROVE  /\ Plan(q) \in Seq(Awaits) /\ Ordered(Plan(q))
           /\ q.route = "transfer" => Plan(q) = TransferPlan(q)
           /\ q.route # "transfer" => "destination" \notin Among(Plan(q))
           /\ q.route # "transfer" => "decimals" \notin Among(Plan(q))
           /\ q.route # "transfer" => "amount" \notin Among(Plan(q))
           /\ "transaction" \in Among(Plan(q)) => q.route = "transaction"
           /\ Among(Plan(q)) \cap Submissions # {} => q.route \in {"transfer", "register-key"}
           /\ q.route = "register-key" => "vault" \in Among(Plan(q))
<1> DEFINE Good(p) == p \in Seq(Awaits) /\ Ordered(p)
<1>1. CASE q.route \in {"address", "public-key"}
  <2>1. Plan(q) = <<"vault">>
    BY <1>1 DEF Plan
  <2>2. Good(<<"vault">>) /\ Among(<<"vault">>) = {"vault"}
    BY OrderedShort DEF Awaits
  <2> QED BY <1>1, <2>1, <2>2 DEF Submissions
<1>2. CASE q.route = "token-balances"
  <2>1. Plan(q) \in {<<"vault">>, <<"vault", "explorer">>, <<"vault", "height">>}
    BY <1>2 DEF Plan, BalancesPlan
  <2>2. Good(Plan(q)) /\ Among(Plan(q)) \subseteq {"vault", "explorer", "height"}
    <3>1. Good(<<"vault">>) /\ Among(<<"vault">>) = {"vault"}
      BY OrderedShort DEF Awaits
    <3>2. \A c \in {"explorer", "height"} :
            Good(<<"vault", c>>) /\ Among(<<"vault", c>>) = {"vault", c}
      BY FixedPlans
    <3> QED BY <2>1, <3>1, <3>2
  <2> QED BY <1>2, <2>2 DEF Submissions
<1>3. CASE q.route = "register-key"
  <2>1. Plan(q) = <<"vault", "key", "client", "gasPrice", "registration">>
    BY <1>3 DEF Plan
  <2> QED BY <1>3, <2>1, FixedPlans DEF Submissions
<1>4. CASE q.route \in {"key-status", "transactions"}
  <2>1. Plan(q) \in {<<"vault", "directory">>, <<"vault", "logs">>}
    BY <1>4 DEF Plan
  <2>2. Good(Plan(q)) /\ Among(Plan(q)) \subseteq {"vault", "directory", "logs"}
    BY <2>1, FixedPlans
  <2> QED BY <1>4, <2>2 DEF Submissions
<1>5. CASE q.route \in {"transaction", "metrics"}
  <2>1. Plan(q) = <<q.route>>
    BY <1>5 DEF Plan
  <2>2. Good(Plan(q)) /\ Among(Plan(q)) = {q.route}
    BY <1>5, <2>1, OrderedShort DEF Awaits
  <2> QED BY <1>5, <2>2 DEF Submissions
<1>6. CASE q.route \in {"contracts", "validate-key"}
  <2>1. Plan(q) = <<>>
    BY <1>6 DEF Plan
  <2> QED BY <1>6, <2>1, OrderedShort
<1>7. CASE q.route = "transfer"
  <2>1. Plan(q) = TransferPlan(q)
    BY <1>7 DEF Plan
  <2>2. "transaction" \notin Among(TransferPlan(q))
    BY TransferPlanOrdered
  <2> QED BY <1>7, <2>1, <2>2, TransferPlanOrdered
<1> QED BY <1>1, <1>2, <1>3, <1>4, <1>5, <1>6, <1>7 DEF IsRequest, Routes

-----------------------------------------------------------------------------
(* Numbers.                                                                 *)

(* A power of ten is an integer, and parseUnits rounds to the nearest unit. *)
LEMMA Rounding ==
    ASSUME NEW amount \in Nat, NEW d \in Nat
    PROVE  /\ ParseUnits(amount, d) \in Int
           /\ 10 * ParseUnits(amount, d) <= amount * 10^d + 5
           /\ amount * 10^d <= 10 * ParseUnits(amount, d) + 5
<1> DEFINE x == amount * 10^d
<1>1. 10^d \in Int
  OBVIOUS
<1>2. x \in Int
  BY <1>1
<1>3. ParseUnits(amount, d) = (x + 5) \div 10
  BY DEF ParseUnits
<1> HIDE DEF x
<1>4. (x + 5) \div 10 \in Int /\ 10 * ((x + 5) \div 10) <= x + 5 /\ x <= 10 * ((x + 5) \div 10) + 5
  BY <1>2
<1> QED BY <1>3, <1>4 DEF x

(* handleError knows four statuses.                                         *)
LEMMA StatusKinds ==
    ASSUME NEW e \in Errors
    PROVE  StatusOf(e) \in {400, 500, 502, 503}
BY DEF Errors, StatusOf

(* Recipients and destinations that validation lets through have addresses. *)
LEMMA ValidTransfer ==
    ASSUME req \in Requests, Valid(req), req.route = "transfer"
    PROVE  /\ TransferFields(req) /\ TransferBody(req) /\ req.recipient \in Recipients
           /\ req.destinationVaultId # Huge => Recipient \in Recipients /\ Recipient # None
BY RestAssumption DEF Valid, TransferBody, IsRequest, TransferFields, Recipient, Recipients

-----------------------------------------------------------------------------
(* Steps.                                                                   *)

(* The invariant holds when the request arrives.                            *)
LEMMA InitInvariant == Init => IInv
<1> SUFFICES ASSUME Init PROVE IInv
  OBVIOUS
<1>1. <<>> \in Seq(200..503) /\ Len(<<>>) = 0
  OBVIOUS
<1>2. Kinds
  <2>1. NoError \in Errors
    BY DEF Errors, NoError, Plain
  <2>2. unread \in BOOLEAN
    BY DEF Init
  <2>3. answers \in Seq(200..503) /\ Len(answers) <= 1 /\ answers = <<>>
    BY <1>1 DEF Init
  <2> QED BY <2>1, <2>2, <2>3 DEF Init, Kinds, Amounts
<1> QED BY <1>2 DEF Init, IInv, OnCourse, Blamed, SuccessMovesWhatWasAsked,
                    ClientErrorMovesNothing, Answered

(* The answer is the first one, and the last.                               *)
LEMMA OneAnswer ==
    ASSUME Kinds, pc # "answered", NEW status \in 200..503, Answer(status)
    PROVE  /\ answers' \in Seq(200..503) /\ Len(answers') = 1 /\ answers' # <<>>
           /\ answers'[Len(answers')] = status /\ pc' = "answered"
<1>1. answers = <<>>
  BY DEF Kinds
<1>2. answers' = <<status>>
  BY <1>1 DEF Answer
<1> QED BY <1>2 DEF Answer

(* An answer keeps the invariant if it blames nobody for what was submitted *)
(* and promises nothing of a transfer.                                      *)
LEMMA AnswerKeeps ==
    ASSUME IInv, pc # "answered", NEW status \in 200..503, Answer(status),
           status \in 400..499 => taken = {},
           status = 200 => req.route # "transfer",
           UNCHANGED <<req, error, locals, taken, unread>>
    PROVE  IInv'
<1>1. Kinds /\ OnCourse
  BY DEF IInv
<1>2. /\ answers' \in Seq(200..503) /\ Len(answers') = 1 /\ answers' # <<>>
      /\ answers'[Len(answers')] = status /\ pc' = "answered"
  BY <1>1, OneAnswer
<1>3. Kinds'
  BY <1>1, <1>2 DEF Kinds, locals
<1>4. OnCourse' /\ Blamed'
  BY <1>1, <1>2 DEF OnCourse, Blamed
<1>5. SuccessMovesWhatWasAsked' /\ ClientErrorMovesNothing'
  BY <1>2 DEF SuccessMovesWhatWasAsked, ClientErrorMovesNothing, Answered
<1> QED BY <1>3, <1>4, <1>5 DEF IInv

(* The answers that are no success of a handler.                            *)
LEMMA FailuresKeep ==
    ASSUME IInv, Invalid \/ ValidateKey \/ HandleError \/ ErrorHandler
    PROVE  IInv'
<1>0. Kinds /\ OnCourse /\ Blamed
  BY DEF IInv
<1>1. CASE Invalid
  <2>1. 400 \in 200..503 /\ 400 # 200
    OBVIOUS
  <2> QED BY <1>0, <1>1, <2>1, AnswerKeeps DEF Invalid, OnCourse
<1>2. CASE ValidateKey
  <2>1. /\ pc = "handling" /\ req.route = "validate-key" /\ taken = {}
        /\ UNCHANGED <<req, todo, error, locals, taken, unread>>
    BY <1>0, <1>2 DEF ValidateKey, OnCourse
  <2>2. CASE pc' = "escaped" /\ UNCHANGED answers
    BY <1>0, <2>1, <2>2
       DEF IInv, Kinds, OnCourse, Blamed, SuccessMovesWhatWasAsked, ClientErrorMovesNothing,
           Answered, locals
  <2>3. CASE \E status \in {400} \cup KeyStatuses : Answer(status)
    <3>1. \A status \in {400} \cup KeyStatuses : status \in 200..503
      BY DEF KeyStatuses
    <3> QED BY <2>1, <2>3, <3>1, AnswerKeeps
  <2>4. req.body \in {"none", "empty", "key"}
    BY <1>0, <2>1, RestAssumption DEF Kinds, IsRequest
  <2> QED BY <1>2, <2>2, <2>3, <2>4 DEF ValidateKey
<1>3. CASE HandleError
  <2>1. StatusOf(error) \in {400, 500, 502, 503} /\ pc = "failed"
    BY <1>0, <1>3, StatusKinds DEF Kinds, HandleError
  <2>2. StatusOf(error) \in 200..503 /\ StatusOf(error) # 200
    BY <2>1
  <2> QED BY <1>0, <1>3, <2>1, <2>2, AnswerKeeps DEF HandleError, Blamed
<1>4. CASE ErrorHandler
  <2>1. 500 \in 200..503 /\ 500 \notin 400..499 /\ 500 # 200
    OBVIOUS
  <2> QED BY <1>4, <2>1, AnswerKeeps DEF ErrorHandler
<1> QED BY <1>1, <1>2, <1>3, <1>4

(* A handler that is through has, of a transfer, submitted what was asked.  *)
LEMMA SucceedKeeps ==
    ASSUME IInv, Succeed
    PROVE  IInv'
<1>0. Kinds /\ OnCourse
  BY DEF IInv
<1>1. /\ pc = "handling" /\ todo = <<>> /\ Answer(200)
      /\ UNCHANGED <<req, todo, error, locals, taken, unread>>
  BY DEF Succeed
<1>2. CASE req.route # "transfer"
  <2>1. 200 \in 200..503 /\ 200 \notin 400..499
    OBVIOUS
  <2> QED BY <1>1, <1>2, <2>1, AnswerKeeps
<1>3. CASE req.route = "transfer"
  <2>1. /\ answers' \in Seq(200..503) /\ Len(answers') = 1 /\ answers' # <<>>
        /\ answers'[Len(answers')] = 200 /\ pc' = "answered"
    BY <1>0, <1>1, OneAnswer
  <2>2. Ahead = {}
    BY <1>1, OrderedShort DEF Ahead
  <2>3. /\ Valid(req) /\ taken = {Submitted} /\ to = Recipient
        /\ decimals \in Nat /\ (unread \/ decimals = Denomination)
        /\ req.amount # Junk /\ units = ParseUnits(req.amount, decimals)
    BY <1>0, <1>1, <1>3, <2>2 DEF OnCourse, Settled
  <2>4. req.amount \in Nat
    BY <1>0, <1>3, <2>3, ValidTransfer DEF Kinds, TransferFields
  <2>5. SuccessMovesWhatWasAsked'
    <3>1. /\ Submitted \in taken' /\ Submitted.contract = Contract /\ Submitted.to = Recipient
          /\ Submitted.units = ParseUnits(req.amount, decimals)
      BY <1>1, <1>3, <2>3 DEF Submitted
    <3>2. Worth(Submitted, decimals)
      BY <2>3, <2>4, <3>1, Rounding DEF Worth
    <3>3. ~unread => Worth(Submitted, Denomination)
      BY <2>3, <3>2
    <3>4. /\ req' = req /\ unread' = unread
          /\ Contract' = Contract /\ Recipient' = Recipient /\ Denomination' = Denomination
          /\ \A m, d : Worth(m, d)' = Worth(m, d)
      BY <1>1 DEF Contract, Recipient, Denomination, Worth
    <3> HIDE DEF Worth
    <3> QED BY <3>1, <3>3, <3>4 DEF SuccessMovesWhatWasAsked, Worth
  <2>6. Kinds'
    BY <1>0, <1>1, <2>1 DEF Kinds, locals
  <2>7. OnCourse' /\ Blamed' /\ ClientErrorMovesNothing'
    <3>1. 200 \notin 400..499
      OBVIOUS
    <3> QED BY <1>0, <1>1, <2>1, <3>1 DEF OnCourse, Blamed, ClientErrorMovesNothing, Answered
  <2> QED BY <2>5, <2>6, <2>7 DEF IInv
<1> QED BY <1>2, <1>3

(* An await that is answered: the others are still ahead, in their order.   *)
LEMMA OneAwaitLess ==
    ASSUME IInv, pc = "handling", todo # <<>>, todo' = Tail(todo)
    PROVE  /\ todo' \in Seq(Awaits) /\ Ordered(todo')
           /\ Head(todo) \in Awaits /\ Ahead = Ahead' \cup {Head(todo)}
           /\ Head(todo) \notin Ahead'
           /\ \A c \in Ahead' : c \in Awaits /\ Rank(Head(todo)) < Rank(c)
<1>1. todo \in Seq(Awaits) /\ Ordered(todo)
  BY DEF IInv, OnCourse
<1>2. /\ Head(todo) \in Awaits /\ todo' \in Seq(Awaits) /\ Ordered(todo')
      /\ Among(todo) = Among(todo') \cup {Head(todo)}
      /\ \A c \in Among(todo') : Rank(Head(todo)) < Rank(c)
  BY <1>1, FirstAwait
<1>3. Among(todo') \subseteq Awaits
  <2>1. \A j \in DOMAIN todo' : todo'[j] \in Awaits
    BY <1>2
  <2> QED BY <2>1 DEF Among
<1>4. Ahead' = Among(todo') /\ Ahead = Among(todo)
  BY DEF Ahead, Among
<1>5. Rank(Head(todo)) \in Int
  BY <1>2 DEF Rank, Awaits
<1>6. Head(todo) \notin Among(todo')
  BY <1>2, <1>5
<1> QED BY <1>2, <1>3, <1>4, <1>6

(* What a submission has ahead of it: nothing.                              *)
LEMMA SubmissionIsLast ==
    ASSUME IInv, pc = "handling", todo # <<>>, Head(todo) \in Submissions
    PROVE  Ahead = {Head(todo)} /\ Among(Tail(todo)) = {}
<1>1. todo \in Seq(Awaits) /\ Ordered(todo)
  BY DEF IInv, OnCourse
<1>2. /\ Tail(todo) \in Seq(Awaits)
      /\ Among(todo) = Among(Tail(todo)) \cup {Head(todo)}
      /\ \A c \in Among(Tail(todo)) : Rank(Head(todo)) < Rank(c)
  BY <1>1, FirstAwait
<1>3. Among(Tail(todo)) \subseteq Awaits
  <2>1. \A j \in DOMAIN Tail(todo) : Tail(todo)[j] \in Awaits
    BY <1>2
  <2> QED BY <2>1 DEF Among
<1>4. Rank(Head(todo)) = 7
  BY DEF Rank, Submissions
<1>5. \A c \in Awaits : Rank(c) \in 0..7
  BY DEF Rank, Awaits, Submissions
<1>6. Among(Tail(todo)) = {}
  BY <1>2, <1>3, <1>4, <1>5
<1> QED BY <1>2, <1>6 DEF Ahead, Among

(* Before a submission, nothing has been submitted.                         *)
LEMMA NothingTakenYet ==
    ASSUME IInv, pc = "handling", todo # <<>>, Head(todo) \notin Submissions
    PROVE  taken = {}
<1>1. todo \in Seq(Awaits) /\ Ordered(todo)
  BY DEF IInv, OnCourse
<1>2. Head(todo) \in Ahead
  BY <1>1, FirstAwait DEF Ahead, Among
<1> QED BY <1>2 DEF IInv, OnCourse

(* The handler goes on: what is settled stays so, and what the await        *)
(* settles has to be shown.                                                 *)
LEMMA AwaitKeeps ==
    ASSUME IInv, pc = "handling", todo # <<>>, GoOn, taken' = taken, Kinds',
           req.route = "transfer" => Settled(Ahead)',
           req.route = "register-key" /\ Head(todo) = "vault" => req.vault # Huge,
           taken # {} => UNCHANGED locals
    PROVE  IInv'
<1>0. OnCourse /\ SuccessMovesWhatWasAsked /\ ClientErrorMovesNothing
  BY DEF IInv
<1>1. todo' = Tail(todo) /\ UNCHANGED <<req, pc, error, answers>>
  BY DEF GoOn
<1>2. /\ todo' \in Seq(Awaits) /\ Ordered(todo')
      /\ Ahead = Ahead' \cup {Head(todo)}
  BY <1>1, OneAwaitLess
<1>3. OnCourse'
  <2>1. Valid(req)' /\ Ordered(todo)'
    BY <1>0, <1>1, <1>2 DEF OnCourse, Ordered, Valid, TransferBody, PositiveNumber
  <2>2. Planned(Ahead)'
    BY <1>0, <1>1, <1>2 DEF OnCourse, Planned
  <2>3. taken # {} => Ahead' \subseteq Submissions /\ taken = {Submitted'}
    <3>1. taken # {} => Submitted' = Submitted
      BY <1>1 DEF Submitted, Contract, locals
    <3> QED BY <1>0, <1>2, <3>1 DEF OnCourse
  <2> QED BY <1>0, <1>1, <1>2, <2>1, <2>2, <2>3 DEF OnCourse
<1> QED BY <1>1, <1>3 DEF IInv, Blamed, SuccessMovesWhatWasAsked, ClientErrorMovesNothing, Answered

(* An answer of no consequence.                                             *)
LEMMA ReplyKeeps ==
    ASSUME IInv, Reply
    PROVE  IInv'
<1>0. Kinds /\ OnCourse
  BY DEF IInv
<1>1. /\ pc = "handling" /\ todo # <<>>
      /\ Head(todo) \notin Submissions \cup {"destination", "decimals", "amount", "transaction"}
      /\ Head(todo) = "vault" => req.vault # Huge
      /\ GoOn /\ UNCHANGED <<locals, taken, unread>>
  BY DEF Reply
<1>2. Ahead = Ahead' \cup {Head(todo)} /\ UNCHANGED <<req, pc, error, answers>>
  BY <1>1, OneAwaitLess DEF GoOn
<1>3. req.route = "transfer" => Settled(Ahead)'
  BY <1>0, <1>1, <1>2
     DEF OnCourse, Settled, locals, Recipient, Denomination, Contract, ParseUnits
<1>4. Kinds'
  BY <1>0, <1>1, <1>2 DEF Kinds, locals
<1> QED BY <1>1, <1>3, <1>4, AwaitKeeps

(* The destination's address is the recipient.                              *)
LEMMA DestinationReplyKeeps ==
    ASSUME IInv, DestinationReply
    PROVE  IInv'
<1>0. Kinds /\ OnCourse
  BY DEF IInv
<1>1. /\ pc = "handling" /\ todo # <<>> /\ Head(todo) = "destination"
      /\ req.destinationVaultId # Huge /\ to' = Address[req.destinationVaultId]
      /\ GoOn /\ UNCHANGED <<decimals, units, taken, unread>>
  BY DEF DestinationReply, At
<1>2. Ahead = Ahead' \cup {Head(todo)} /\ UNCHANGED <<req, pc, error, answers>>
  BY <1>1, OneAwaitLess DEF GoOn
<1>3. req.route = "transfer" /\ req.destinationVaultId # None /\ to' = Recipient
  BY <1>0, <1>1, <1>2 DEF OnCourse, Planned, Recipient
<1>4. Settled(Ahead)'
  BY <1>0, <1>1, <1>2, <1>3
     DEF OnCourse, Settled, Submissions, Recipient, Denomination, Contract, ParseUnits
<1>5. to' \in Recipients
  BY <1>0, <1>1, <1>3, ValidTransfer DEF Kinds, OnCourse
<1>6. Kinds'
  BY <1>0, <1>1, <1>2, <1>5 DEF Kinds
<1>7. taken = {}
  BY <1>1, NothingTakenYet DEF Submissions
<1> QED BY <1>1, <1>4, <1>6, <1>7, AwaitKeeps

(* The token's decimals, or the default.                                    *)
LEMMA DecimalsReplyKeeps ==
    ASSUME IInv, DecimalsReply
    PROVE  IInv'
<1>0. Kinds /\ OnCourse
  BY DEF IInv
<1>1. /\ pc = "handling" /\ todo # <<>> /\ Head(todo) = "decimals"
      /\ \/ decimals' = Decimals[req.contractAddress] /\ unread' = unread
         \/ decimals' = DefaultDecimals /\ unread' = TRUE
      /\ GoOn /\ UNCHANGED <<to, units, taken>>
  BY DEF DecimalsReply, At
<1>2. /\ Ahead = Ahead' \cup {Head(todo)} /\ Head(todo) \notin Ahead'
      /\ UNCHANGED <<req, pc, error, answers>>
  BY <1>1, OneAwaitLess DEF GoOn
<1>3. /\ req.route = "transfer" /\ req.type = "ERC20" /\ req.decimals = None
      /\ TransferFields(req) /\ TransferBody(req)
  BY <1>0, <1>1, <1>2, ValidTransfer DEF OnCourse, Planned, Kinds
<1>4. /\ Decimals[req.contractAddress] = Denomination
      /\ decimals' \in Nat /\ unread' \in BOOLEAN
      /\ unread' \/ decimals' = Denomination
  <2>1. req.contractAddress \in DOMAIN Decimals
    BY <1>3 DEF TransferFields, TransferBody
  <2>2. Decimals[req.contractAddress] = Denomination
    BY <1>3 DEF Denomination, Contract
  <2>3. unread' \in BOOLEAN
    BY <1>0, <1>1 DEF Kinds
  <2> QED BY <1>1, <2>1, <2>2, <2>3, RestAssumption
<1>5. Settled(Ahead)'
  <2>1. "amount" \in Ahead'
    BY <1>0, <1>1, <1>2, <1>3 DEF OnCourse, Settled
  <2>2. Denomination' = Denomination /\ Recipient' = Recipient
    BY <1>2 DEF Denomination, Contract, Recipient
  <2>3. /\ "destination" \notin Ahead' => to' = Recipient /\ req.destinationVaultId # Huge
        /\ taken' = {} => Ahead' \cap Submissions # {}
    BY <1>0, <1>1, <1>2, <1>3 DEF OnCourse, Settled, Submissions
  <2> QED BY <1>1, <1>2, <1>4, <2>1, <2>2, <2>3 DEF Settled
<1>6. Kinds'
  BY <1>0, <1>1, <1>2, <1>4 DEF Kinds, Amounts
<1>7. taken = {}
  BY <1>1, NothingTakenYet DEF Submissions
<1> QED BY <1>1, <1>5, <1>6, <1>7, AwaitKeeps

(* The amount, in the decimals that are known by then.                      *)
LEMMA ParseAmountKeeps ==
    ASSUME IInv, ParseAmount
    PROVE  IInv'
<1>0. Kinds /\ OnCourse
  BY DEF IInv
<1>1. /\ pc = "handling" /\ todo # <<>> /\ Head(todo) = "amount" /\ req.amount # Junk
      /\ units' = ParseUnits(req.amount, decimals)
      /\ GoOn /\ UNCHANGED <<to, decimals, taken, unread>>
  BY DEF ParseAmount, At
<1>2. /\ Ahead = Ahead' \cup {Head(todo)}
      /\ \A c \in Ahead' : Rank(Head(todo)) < Rank(c)
      /\ UNCHANGED <<req, pc, error, answers>>
  BY <1>1, OneAwaitLess DEF GoOn
<1>3. "decimals" \notin Ahead' /\ "decimals" \notin Ahead
  BY <1>1, <1>2 DEF Rank, Submissions
<1>4. taken = {}
  BY <1>1, NothingTakenYet DEF Submissions
<1>5. Settled(Ahead)' \/ req.route # "transfer"
  BY <1>0, <1>1, <1>2, <1>3
     DEF OnCourse, Settled, Submissions, Recipient, Denomination, Contract, ParseUnits
<1>6. Kinds'
  <2>1. req.route = "transfer"
    BY <1>0, <1>1, <1>2 DEF OnCourse, Planned
  <2>2. units' \in Int
    BY <1>0, <1>1, <1>3, <2>1, ValidTransfer, Rounding
       DEF OnCourse, Settled, Kinds, TransferFields
  <2> QED BY <1>0, <1>1, <1>2, <2>2 DEF Kinds
<1> QED BY <1>1, <1>4, <1>5, <1>6, AwaitKeeps

(* The handler of a valid request starts with its whole plan ahead.         *)
LEMMA HandleKeeps ==
    ASSUME IInv, Handle
    PROVE  IInv'
<1>0. Kinds /\ OnCourse
  BY DEF IInv
<1>1. /\ pc = "arrived" /\ Valid(req) /\ pc' = "handling" /\ todo' = Plan(req) /\ taken = {}
      /\ UNCHANGED <<req, error, units, taken, unread, answers>>
  BY <1>0 DEF Handle, OnCourse
<1>2. IsRequest(req)
  BY <1>0, RestAssumption DEF Kinds
<1>3. Ahead' = Among(Plan(req))
  BY <1>1 DEF Ahead, Among
<1>4. CASE req.route = "transfer"
  <2>1. /\ to' = req.recipient
        /\ decimals' = CASE req.type = "SUSDC" -> SUsdcDecimals
                         [] req.decimals # None -> req.decimals
                         [] req.type = "SRC20" -> DefaultDecimals
                         [] OTHER -> None
    BY <1>4 DEF Handle
  <2>2. TransferFields(req) /\ req.recipient \in Recipients
    BY <1>0, <1>1, <1>4, ValidTransfer DEF Kinds
  <2>3. /\ Plan(req) \in Seq(Awaits) /\ Ordered(Plan(req))
        /\ Ahead' =
              (IF req.destinationVaultId = None THEN {} ELSE {"destination"})
              \cup (IF req.type # "ERC20"
                    THEN {"vault", "key", "client", "amount", "gasPrice", "shieldedTransfer"}
                    ELSE {"vault", "amount", "nonce", "signing", "broadcast"}
                         \cup (IF req.decimals = None THEN {"decimals"} ELSE {}))
    BY <1>2, <1>3, <1>4, PlanOrdered, TransferPlanOrdered
  <2>4. decimals' \in Amounts
    BY <2>1, <2>2, RestAssumption DEF TransferFields, Amounts
  <2>5. "decimals" \notin Ahead' => decimals' \in Nat /\ decimals' = Denomination
    <3>1. req.type = "SUSDC" \/ req.decimals # None \/ req.type = "SRC20" \/ "decimals" \in Ahead'
      BY <2>2, <2>3 DEF TransferFields
    <3> QED BY <2>1, <2>2, <3>1, RestAssumption DEF TransferFields, Denomination
  <2>6. Planned(Ahead')
    BY <1>4, <2>3 DEF Planned, Submissions
  <2>7. Settled(Ahead)'
    <3>1. "destination" \notin Ahead' => to' = Recipient /\ req.destinationVaultId # Huge
      BY <2>1, <2>3, RestAssumption DEF Recipient
    <3>2. /\ "amount" \in Ahead'
          /\ Ahead' \cap Submissions # {}
      BY <2>3 DEF Submissions
    <3>3. Denomination' = Denomination /\ Recipient' = Recipient /\ req' = req
      BY <1>1 DEF Denomination, Contract, Recipient
    <3> QED BY <2>5, <3>1, <3>2, <3>3 DEF Settled
  <2>8. Kinds'
    BY <1>0, <1>1, <2>1, <2>2, <2>4 DEF Kinds
  <2>9. OnCourse'
    <3>1. Valid(req)' /\ Ordered(todo)' /\ todo' \in Seq(Awaits) /\ Planned(Ahead)'
      BY <1>1, <2>3, <2>6
         DEF Valid, TransferBody, PositiveNumber, Ordered, Planned
    <3> QED BY <1>1, <1>4, <2>7, <3>1 DEF OnCourse
  <2> QED BY <1>1, <2>8, <2>9
             DEF IInv, Blamed, SuccessMovesWhatWasAsked, ClientErrorMovesNothing, Answered
<1>5. CASE req.route # "transfer"
  <2>1. UNCHANGED <<to, decimals>>
    BY <1>5 DEF Handle
  <2>2. /\ Plan(req) \in Seq(Awaits) /\ Ordered(Plan(req))
        /\ Planned(Ahead')
        /\ req.route = "register-key" => "vault" \in Ahead'
    BY <1>2, <1>3, <1>5, PlanOrdered DEF Planned
  <2>3. Kinds'
    BY <1>0, <1>1, <2>1 DEF Kinds
  <2>4. OnCourse'
    <3>1. Valid(req)' /\ Ordered(todo)' /\ todo' \in Seq(Awaits) /\ Planned(Ahead)'
      BY <1>1, <2>2 DEF Valid, TransferBody, PositiveNumber, Ordered, Planned
    <3> QED BY <1>1, <1>5, <2>2, <3>1 DEF OnCourse
  <2> QED BY <1>1, <2>3, <2>4
             DEF IInv, Blamed, SuccessMovesWhatWasAsked, ClientErrorMovesNothing, Answered
<1> QED BY <1>4, <1>5

(* The node takes what the handler has settled.                             *)
LEMMA NodeAcceptsKeeps ==
    ASSUME IInv, NodeAccepts
    PROVE  IInv'
<1>0. Kinds /\ OnCourse
  BY DEF IInv
<1>1. /\ pc = "handling" /\ todo # <<>> /\ Head(todo) \in Submissions /\ taken = {}
      /\ taken' = {Submitted}
      /\ UNCHANGED <<req, pc, todo, error, to, decimals, units, unread, answers>>
  BY DEF NodeAccepts, locals
<1>2. Ahead = {Head(todo)} /\ Ahead' = Ahead
  BY <1>1, SubmissionIsLast DEF Ahead, Among
<1>3. Submitted' = Submitted
  BY <1>1 DEF Submitted, Contract
<1>4. req.route \in {"transfer", "register-key"} /\ Ahead \subseteq Submissions
  BY <1>0, <1>1, <1>2 DEF OnCourse, Planned
<1>5. Submitted.units \in Int /\ Submitted.to # None
  <2>1. CASE req.route = "transfer"
    <3>1. /\ Valid(req) /\ Settled(Ahead)
          /\ {"destination", "decimals", "amount"} \cap Ahead = {}
      BY <1>0, <1>1, <1>2, <2>1 DEF OnCourse, Submissions
    <3>2. TransferFields(req) /\ TransferBody(req)
      BY <1>0, <2>1, <3>1, ValidTransfer DEF Kinds
    <3>3. req.amount \in Nat /\ decimals \in Nat /\ units = ParseUnits(req.amount, decimals)
      BY <3>1, <3>2 DEF Settled, TransferFields
    <3>4. to = Recipient
      BY <3>1 DEF Settled
    <3>5. to # None
      BY <1>0, <2>1, <3>1, <3>4, ValidTransfer, RestAssumption DEF Kinds, Settled
    <3> QED BY <2>1, <3>3, <3>5, Rounding DEF Submitted
  <2>2. CASE req.route = "register-key"
    <3>1. req.vault \in DOMAIN Address
      BY <1>0, <1>1, <1>2, <2>2, RestAssumption DEF Kinds, OnCourse, IsRequest, Submissions
    <3> QED BY <2>2, <3>1, RestAssumption DEF Submitted
  <2> QED BY <1>4, <2>1, <2>2
<1>6. Kinds'
  BY <1>0, <1>1, <1>5 DEF Kinds
<1>7. OnCourse'
  <2>1. /\ Valid(req)' /\ todo' \in Seq(Awaits) /\ Ordered(todo)' /\ Planned(Ahead)'
        /\ req.route = "transfer" => Settled(Ahead)'
    BY <1>0, <1>1, <1>2
       DEF OnCourse, Valid, TransferBody, PositiveNumber, Ordered, Planned, Settled, Recipient,
           Denomination, Contract, ParseUnits
  <2> QED BY <1>0, <1>1, <1>2, <1>3, <1>4, <2>1 DEF OnCourse
<1> QED BY <1>1, <1>6, <1>7
           DEF IInv, Blamed, SuccessMovesWhatWasAsked, ClientErrorMovesNothing, Answered

(* The hash comes back: nothing is left to do.                              *)
LEMMA HashReplyKeeps ==
    ASSUME IInv, HashReply
    PROVE  IInv'
<1>0. Kinds /\ OnCourse
  BY DEF IInv
<1>1. /\ pc = "handling" /\ todo # <<>> /\ Head(todo) \in Submissions /\ taken # {}
      /\ GoOn /\ UNCHANGED <<locals, taken, unread>>
  BY DEF HashReply
<1>2. /\ Ahead = Ahead' \cup {Head(todo)} /\ UNCHANGED <<req, pc, error, answers>>
  BY <1>1, OneAwaitLess DEF GoOn
<1>3. req.route = "transfer" => Settled(Ahead)'
  BY <1>0, <1>1, <1>2
     DEF OnCourse, Settled, locals, Recipient, Denomination, Contract, ParseUnits, Submissions
<1>4. Kinds'
  BY <1>0, <1>1, <1>2 DEF Kinds, locals
<1>5. Head(todo) # "vault"
  BY <1>1 DEF Submissions
<1> QED BY <1>1, <1>3, <1>4, <1>5, AwaitKeeps

(* The transaction is known, or it is not; either way nothing was submitted.*)
LEMMA TransactionReplyKeeps ==
    ASSUME IInv, TransactionReply
    PROVE  IInv'
<1>0. Kinds /\ OnCourse
  BY DEF IInv
<1>1. /\ pc = "handling" /\ todo # <<>> /\ Head(todo) = "transaction" /\ todo' = <<>>
      /\ Answer(404) \/ UNCHANGED <<answers, pc>>
      /\ UNCHANGED <<req, error, locals, taken, unread>>
  BY DEF TransactionReply, At
<1>2. taken = {}
  BY <1>1, NothingTakenYet DEF Submissions
<1>3. req.route = "transaction"
  <2>1. todo \in Seq(Awaits) /\ Ordered(todo)
    BY <1>0, <1>1 DEF OnCourse
  <2>2. Head(todo) \in Ahead
    BY <1>1, <2>1, FirstAwait DEF Ahead, Among
  <2> QED BY <1>0, <1>1, <2>2 DEF OnCourse, Planned
<1>4. CASE Answer(404)
  <2>1. 404 \in 200..503 /\ 404 # 200
    OBVIOUS
  <2> QED BY <1>1, <1>2, <1>4, <2>1, AnswerKeeps
<1>5. CASE UNCHANGED <<answers, pc>>
  <2>1. Ahead' = {} /\ Ordered(todo)' /\ todo' \in Seq(Awaits)
    BY <1>1, OrderedShort DEF Ahead, Among, Ordered
  <2>2. Kinds'
    BY <1>0, <1>1, <1>5 DEF Kinds, locals
  <2>3. OnCourse'
    <3>1. Valid(req)' /\ Planned(Ahead)'
      BY <1>0, <1>1, <2>1 DEF OnCourse, Planned, Valid, TransferBody, PositiveNumber
    <3> QED BY <1>1, <1>2, <1>3, <1>5, <2>1, <3>1 DEF OnCourse
  <2> QED BY <1>1, <1>5, <2>2, <2>3
             DEF IInv, Blamed, SuccessMovesWhatWasAsked, ClientErrorMovesNothing, Answered
<1> QED BY <1>1, <1>4, <1>5

(* What is thrown, and what createErc20Transaction makes of it, is an error *)
(* that handleError knows.                                                  *)
LEMMA ErrorKinds ==
    ASSUME NEW call \in Awaits \ {"decimals", "amount"}, NEW e \in Throws(call)
    PROVE  /\ Wrapped(call, e) \in Errors
           /\ taken # {} /\ call \in Submissions => StatusOf(Wrapped(call, e)) = 500
<1> DEFINE E == {Sdk(0), Sdk(400), Sdk(500), Sdk(502), Sdk(503), Plain(TRUE), Plain(FALSE)}
<1>1. E \subseteq Errors
  BY DEF Errors, Sdk, Plain
<1>2. e \in E
  <2>1. CASE call \in {"vault", "destination"}
    BY <2>1 DEF Throws, LookupErrors
  <2>2. CASE call \in {"key", "signing"}
    BY <2>2 DEF Throws, SigningErrors
  <2>3. CASE call \in {"nonce", "gasPrice", "height", "logs", "transaction"}
    BY <2>3 DEF Throws, RpcErrors
  <2>4. CASE call \in {"client", "directory", "explorer"}
    BY <2>4 DEF Throws, ForeignErrors
  <2>5. CASE call \in {"shieldedTransfer", "registration"}
    BY <2>5 DEF Throws, SubmissionErrors, ForeignErrors, SigningErrors
  <2>6. CASE call \in {"broadcast", "metrics"}
    BY <2>6 DEF Throws
  <2> QED BY <2>1, <2>2, <2>3, <2>4, <2>5, <2>6 DEF Awaits, Submissions
<1>3. Wrapped(call, e) \in E
  <2>1. Wrapped(call, e) = Sdk(500) \/ Wrapped(call, e) = e
    BY DEF Wrapped
  <2>2. Sdk(500) \in E
    OBVIOUS
  <2> HIDE DEF E
  <2> QED BY <1>2, <2>1, <2>2
<1>4. ASSUME taken # {}, call \in Submissions PROVE StatusOf(Wrapped(call, e)) = 500
  <2>1. e \in {Sdk(500), Plain(FALSE)}
    BY <1>4 DEF Throws, SubmissionErrors, Submissions
  <2>2. Wrapped(call, e) \in {Sdk(500), Plain(FALSE)}
    BY <2>1 DEF Wrapped
  <2>3. StatusOf(Sdk(500)) = 500 /\ StatusOf(Plain(FALSE)) = 500
    BY DEF StatusOf, Sdk, Plain
  <2> QED BY <2>2, <2>3
<1> QED BY <1>1, <1>3, <1>4

(* A failure ends the handler. After a submission it is the server's.       *)
LEMMA FailsKeeps ==
    ASSUME IInv, Fails \/ AmountRefused
    PROVE  IInv'
<1>0. Kinds /\ OnCourse
  BY DEF IInv
<1>1. /\ pc = "handling" /\ todo # <<>>
      /\ UNCHANGED <<req, todo, to, decimals, units, taken, unread, answers>>
  BY DEF Fails, AmountRefused, Failed, At, locals
<1>2. Head(todo) \in Awaits
  <2>1. todo \in Seq(Awaits) /\ Ordered(todo)
    BY <1>0, <1>1 DEF OnCourse
  <2> QED BY <1>1, <2>1, FirstAwait
<1>3. \/ pc' = "escaped" /\ error' = error
      \/ /\ pc' = "failed" /\ error' \in Errors
         /\ taken # {} => StatusOf(error') = 500
  <2>1. CASE AmountRefused
    <3>1. Head(todo) = "amount" /\ pc' = "failed" /\ error' = Wrapped("amount", Plain(FALSE))
      BY <2>1 DEF AmountRefused, At, Failed
    <3>2. error' \in Errors
      BY <3>1 DEF Wrapped, Plain, Sdk, Errors
    <3>3. taken = {}
      BY <1>1, <3>1, NothingTakenYet DEF Submissions
    <3> QED BY <3>1, <3>2, <3>3
  <2>2. CASE Fails
    <3>1. /\ Head(todo) \notin {"decimals", "amount"}
          /\ \/ pc' = "escaped" /\ error' = error
             \/ \E e \in Throws(Head(todo)) :
                    pc' = "failed" /\ error' = Wrapped(Head(todo), e)
      BY <2>2 DEF Fails, Failed
    <3>2. taken # {} => Head(todo) \in Submissions
      BY <1>1, NothingTakenYet
    <3> QED BY <1>2, <3>1, <3>2, ErrorKinds
  <2> QED BY <2>1, <2>2
<1>4. Kinds'
  BY <1>0, <1>1, <1>3 DEF Kinds
<1>5. OnCourse'
  BY <1>0, <1>1, <1>3 DEF OnCourse
<1>6. Blamed'
  <2>1. 500 \notin 400..499
    OBVIOUS
  <2>2. ASSUME pc' = "failed", taken # {} PROVE StatusOf(error') = 500
    BY <1>3, <2>2
  <2>3. StatusOf(error)' = StatusOf(error')
    BY DEF StatusOf
  <2> QED BY <1>1, <2>1, <2>2, <2>3 DEF Blamed
<1> QED BY <1>1, <1>3, <1>4, <1>5, <1>6
           DEF IInv, SuccessMovesWhatWasAsked, ClientErrorMovesNothing, Answered

(* A step that changes nothing keeps the invariant.                         *)
LEMMA StutterKeeps ==
    ASSUME IInv, UNCHANGED vars
    PROVE  IInv'
<1>1. Kinds'
  BY DEF IInv, Kinds, vars
<1>2. OnCourse'
  BY DEF IInv, OnCourse, vars, Valid, TransferBody, PositiveNumber, Ordered, Ahead, Among,
         Planned, Settled, Recipient, Denomination, Contract, ParseUnits, Submitted
<1>3. Blamed' /\ SuccessMovesWhatWasAsked' /\ ClientErrorMovesNothing'
  BY DEF IInv, Blamed, SuccessMovesWhatWasAsked, ClientErrorMovesNothing, Answered, vars,
         StatusOf, Contract, Recipient, Worth, Denomination
<1> QED BY <1>1, <1>2, <1>3 DEF IInv

(* Every step keeps the invariant.                                          *)
LEMMA NextKeeps ==
    ASSUME IInv, [Next]_vars
    PROVE  IInv'
BY FailuresKeep, HandleKeeps, ReplyKeeps, DestinationReplyKeeps, DecimalsReplyKeeps,
   ParseAmountKeeps, NodeAcceptsKeeps, HashReplyKeeps, FailsKeeps, TransactionReplyKeeps,
   SucceedKeeps, StutterKeeps
   DEF Next

(* The invariant holds in every state of a request.                         *)
LEMMA InvariantHolds == Spec => []IInv
<1>1. Init => IInv
  BY InitInvariant
<1>2. IInv /\ [Next]_vars => IInv'
  BY NextKeeps
<1> QED BY <1>1, <1>2, PTL DEF Spec

-----------------------------------------------------------------------------
(* Theorems.                                                                *)

(* A transfer answered by 200 has been accepted by the node with the        *)
(* contract, the recipient and, to half a smallest unit, the amount of the  *)
(* request, whichever way through the SDK it took; unless the read of the   *)
(* token's decimals failed.                                                 *)
THEOREM SuccessAlwaysMovesWhatWasAsked == Spec => []SuccessMovesWhatWasAsked
<1>1. IInv => SuccessMovesWhatWasAsked
  BY DEF IInv
<1> QED BY <1>1, InvariantHolds, PTL

(* Whatever fails, an answer that blames the client means that nothing was  *)
(* submitted, so that the request may be corrected and sent again.          *)
THEOREM ClientErrorNeverMovesAnything == Spec => []ClientErrorMovesNothing
<1>1. IInv => ClientErrorMovesNothing
  BY DEF IInv
<1> QED BY <1>1, InvariantHolds, PTL

-----------------------------------------------------------------------------
(* TypeOK says one thing more than the invariant, that units are no         *)
(* negative numbers.  It needs a fact of arithmetic that the provers lack,  *)
(* which is why the theorem has it as a hypothesis.                         *)
NaturalUnits == units \in Amounts /\ \A m \in taken : m.units \in Nat

(* An amount in units is not negative.                                      *)
LEMMA UnitsAreNatural ==
    ASSUME \A d \in Nat : 10^d \in Nat, NEW amount \in Nat, NEW d \in Nat
    PROVE  ParseUnits(amount, d) \in Nat
<1> DEFINE x == amount * 10^d
<1>1. 10^d \in Nat
  OBVIOUS
<1>2. \A y \in Nat : amount * y \in Nat
  OBVIOUS
<1>3. x \in Nat
  BY <1>1, <1>2
<1>4. ParseUnits(amount, d) = (x + 5) \div 10
  BY DEF ParseUnits
<1> HIDE DEF x
<1> QED BY <1>3, <1>4

(* No step makes a negative number of units.                                *)
LEMMA NaturalUnitsKept ==
    ASSUME \A d \in Nat : 10^d \in Nat, IInv, NaturalUnits, [Next]_vars
    PROVE  NaturalUnits'
<1>0. Kinds /\ OnCourse
  BY DEF IInv
<1>1. CASE ParseAmount
  <2>1. /\ pc = "handling" /\ todo # <<>> /\ Head(todo) = "amount" /\ req.amount # Junk
        /\ units' = ParseUnits(req.amount, decimals) /\ UNCHANGED taken
        /\ GoOn
    BY <1>1 DEF ParseAmount, At
  <2>2. /\ Ahead = Ahead' \cup {Head(todo)}
        /\ \A c \in Ahead' : Rank(Head(todo)) < Rank(c)
    BY <2>1, OneAwaitLess DEF GoOn
  <2>3. "amount" \in Ahead /\ "decimals" \notin Ahead
    BY <2>1, <2>2 DEF Rank, Submissions
  <2>4. req.route = "transfer" /\ decimals \in Nat
    BY <1>0, <2>1, <2>3 DEF OnCourse, Planned, Settled
  <2>5. req.amount \in Nat
    BY <1>0, <2>1, <2>4, ValidTransfer DEF Kinds, OnCourse, TransferFields
  <2> QED BY <2>1, <2>4, <2>5, UnitsAreNatural DEF NaturalUnits, Amounts
<1>2. CASE NodeAccepts
  <2>1. /\ pc = "handling" /\ todo # <<>> /\ Head(todo) \in Submissions
        /\ taken' = {Submitted} /\ UNCHANGED units
    BY <1>2 DEF NodeAccepts, locals
  <2>2. Ahead = {Head(todo)}
    BY <2>1, SubmissionIsLast
  <2>3. ASSUME req.route = "transfer" PROVE units \in Nat
    <3>1. /\ Valid(req) /\ decimals \in Nat
          /\ req.amount # Junk /\ units = ParseUnits(req.amount, decimals)
      BY <1>0, <2>1, <2>2, <2>3 DEF OnCourse, Settled, Submissions
    <3>2. req.amount \in Nat
      BY <1>0, <2>3, <3>1, ValidTransfer DEF Kinds, TransferFields
    <3> QED BY <3>1, <3>2, UnitsAreNatural
  <2>4. Submitted.units \in Nat
    BY <2>3 DEF Submitted
  <2> QED BY <2>1, <2>4 DEF NaturalUnits
<1>3. CASE UNCHANGED <<units, taken>>
  BY <1>3 DEF NaturalUnits
<1> QED BY <1>1, <1>2, <1>3
        DEF Next, Invalid, Handle, Reply, DestinationReply, DecimalsReply, AmountRefused,
            HashReply, Fails, Failed, TransactionReply, ValidateKey, Succeed, HandleError,
            ErrorHandler, locals, vars

(* Every variable keeps its type, every request has at most one answer, and *)
(* it has one exactly when the handler is through.                          *)
THEOREM RestTypeCorrect ==
    ASSUME \A d \in Nat : 10^d \in Nat
    PROVE  Spec => []TypeOK
<1>1. Init => NaturalUnits
  BY DEF Init, NaturalUnits, Amounts
<1>2. IInv /\ NaturalUnits /\ [Next]_vars => NaturalUnits'
  BY NaturalUnitsKept
<1>3. IInv /\ NaturalUnits => TypeOK
  BY DEF IInv, Kinds, NaturalUnits, TypeOK
<1> QED BY <1>1, <1>2, <1>3, InvariantHolds, PTL DEF Spec

-----------------------------------------------------------------------------
(* The end of a request.                                                    *)

(* The steps that a request still has ahead of it, at the most.  The plans  *)
(* have their awaits in the order of their ranks.                           *)
Left ==
    CASE pc = "answered" -> 0
      [] pc \in {"failed", "escaped"} -> 1
      [] pc = "arrived" -> 20
      [] OTHER -> IF todo = <<>> THEN 2
                  ELSE 2 * (9 - Rank(Head(todo))) + (IF taken = {} THEN 1 ELSE 0)

LEMMA LowerRankMore ==
    ASSUME NEW r \in 0..7, NEW s \in 0..7, r < s,
           NEW x \in {2 * (9 - r), 2 * (9 - r) + 1},
           NEW y \in {2 * (9 - s), 2 * (9 - s) + 1}
    PROVE  y < x
OBVIOUS

(* Each await leaves at least two steps fewer.                              *)
LEMMA AwaitLeavesFewer ==
    ASSUME IInv, pc = "handling", pc' = "handling", todo # <<>>, todo' = Tail(todo),
           taken # {} => taken' # {}
    PROVE  Left' < Left
<1>1. /\ todo \in Seq(Awaits) /\ Ordered(todo)
      /\ \A c \in Awaits : Rank(c) \in 0..7
  BY DEF IInv, OnCourse, Rank, Awaits, Submissions
<1>2. /\ Head(todo) \in Awaits /\ todo' \in Seq(Awaits)
      /\ \A c \in Among(todo') : Rank(Head(todo)) < Rank(c)
  BY <1>1, FirstAwait
<1>3. CASE todo' = <<>>
  BY <1>1, <1>2, <1>3 DEF Left
<1>4. CASE todo' # <<>>
  <2>1. Ordered(todo')
    BY <1>1, FirstAwait
  <2>2. Head(todo') \in Awaits /\ Head(todo') \in Among(todo')
    BY <1>2, <1>4, <2>1, FirstAwait
  <2>3. Rank(Head(todo)) \in 0..7 /\ Rank(Head(todo')) \in 0..7
    BY <1>1, <1>2, <2>2
  <2>4. Rank(Head(todo)) < Rank(Head(todo'))
    BY <1>2, <2>2
  <2>5. /\ Left \in {2 * (9 - Rank(Head(todo))), 2 * (9 - Rank(Head(todo))) + 1}
        /\ Left' \in {2 * (9 - Rank(Head(todo'))), 2 * (9 - Rank(Head(todo'))) + 1}
    BY <1>4, <2>3 DEF Left
  <2> QED BY <2>3, <2>4, <2>5, LowerRankMore
<1> QED BY <1>3, <1>4

LEMMA LeftBounded ==
    IInv => /\ Left \in 0..20
            /\ pc \in {"arrived", "handling", "failed", "escaped", "answered"}
            /\ pc # "answered" => Left > 0
            /\ pc = "handling" => Left >= 2 /\ Left < 20
<1> SUFFICES ASSUME IInv
             PROVE  /\ Left \in 0..20
                    /\ pc \in {"arrived", "handling", "failed", "escaped", "answered"}
                    /\ pc # "answered" => Left > 0
                    /\ pc = "handling" => Left >= 2 /\ Left < 20
  OBVIOUS
<1>1. pc \in {"arrived", "handling", "failed", "escaped", "answered"}
  BY DEF IInv, Kinds
<1>2. pc = "handling" /\ todo # <<>> => Rank(Head(todo)) \in 0..7
  <2> SUFFICES ASSUME pc = "handling", todo # <<>> PROVE Rank(Head(todo)) \in 0..7
    OBVIOUS
  <2>1. Head(todo) \in Awaits
    BY DEF IInv, OnCourse
  <2> QED BY <2>1 DEF Rank, Awaits, Submissions
<1> QED BY <1>1, <1>2 DEF Left

LEMMA LeftBoundedNext ==
    (IInv => /\ Left \in 0..20
             /\ pc \in {"arrived", "handling", "failed", "escaped", "answered"}
             /\ pc # "answered" => Left > 0
             /\ pc = "handling" => Left >= 2 /\ Left < 20)'
BY LeftBounded, PTL

(* Every step brings a request nearer to its answer: none is repeated, and  *)
(* it has at most 20 of them, whatever fails.                               *)
THEOREM RequestStepsRunOut == Spec => [](Left \in 0..20) /\ [][Left' < Left]_vars
<1>1. IInv => Left \in 0..20
  BY LeftBounded
<1>2. IInv /\ IInv' /\ [Next]_vars => [Left' < Left]_vars
  <2> SUFFICES ASSUME IInv, IInv', Next PROVE Left' < Left
    OBVIOUS
  <2>0. /\ Left \in 0..20 /\ Left' \in 0..20
        /\ pc \in {"arrived", "handling", "failed", "escaped", "answered"}
        /\ pc # "answered" => Left > 0
        /\ pc = "handling" => Left >= 2 /\ Left < 20
        /\ pc' = "handling" => Left' < 20
    BY LeftBounded, LeftBoundedNext
  <2>1. ASSUME pc # "answered", pc' = "answered" PROVE Left' < Left
    BY <2>0, <2>1 DEF Left
  <2>2. ASSUME pc = "handling", pc' \in {"failed", "escaped"} PROVE Left' < Left
    BY <2>0, <2>2 DEF Left
  <2>3. CASE Invalid \/ Succeed \/ HandleError \/ ErrorHandler
    BY <2>1, <2>3 DEF Invalid, Succeed, HandleError, ErrorHandler, Answer
  <2>4. CASE Handle
    BY <2>0, <2>4 DEF Handle, Left
  <2>5. CASE Reply \/ DestinationReply \/ DecimalsReply \/ ParseAmount \/ HashReply
    <3>1. /\ pc = "handling" /\ pc' = pc /\ todo # <<>> /\ todo' = Tail(todo)
          /\ taken' = taken
      BY <2>5 DEF Reply, DestinationReply, DecimalsReply, ParseAmount, HashReply, At, GoOn
    <3> QED BY <3>1, AwaitLeavesFewer
  <2>6. CASE AmountRefused \/ Fails
    BY <2>2, <2>6 DEF AmountRefused, Fails, Failed, At
  <2>7. CASE NodeAccepts
    <3>1. /\ pc = "handling" /\ pc' = pc /\ todo # <<>> /\ todo' = todo
          /\ taken = {} /\ taken' # {}
      BY <2>7 DEF NodeAccepts
    <3>2. Rank(Head(todo)) = 7 /\ Rank(Head(todo))' = 7
      BY <2>7, <3>1 DEF NodeAccepts, Rank, Submissions
    <3> QED BY <3>1, <3>2 DEF Left
  <2>8. CASE TransactionReply
    <3>1. /\ pc = "handling" /\ todo # <<>> /\ Head(todo) = "transaction" /\ todo' = <<>>
          /\ pc' = "answered" \/ pc' = pc
      BY <2>8 DEF TransactionReply, At, Answer
    <3>2. Rank(Head(todo)) = 2
      BY <3>1 DEF Rank, Submissions
    <3> QED BY <2>1, <3>1, <3>2 DEF Left
  <2>9. CASE ValidateKey
    <3>1. pc = "handling" /\ pc' \in {"escaped", "answered"}
      <4>1. req.body \in {"none", "empty", "key"}
        BY <2>9, RestAssumption DEF ValidateKey, IInv, Kinds, IsRequest
      <4> QED BY <2>9, <4>1 DEF ValidateKey, Answer
    <3> QED BY <2>1, <2>2, <3>1
  <2> QED BY <2>3, <2>4, <2>5, <2>6, <2>7, <2>8, <2>9 DEF Next
<1> QED BY <1>1, <1>2, InvariantHolds, PTL DEF Spec
=============================================================================
