------------------------------ MODULE Balances ------------------------------
(***************************************************************************)
(* The two ways to read the balances of vaults: a batch over many of them, *)
(* or the tokens of one.  The requests share no state that either model    *)
(* keeps, and a behaviour is one or the other.                             *)
(***************************************************************************)
EXTENDS BatchBalances, TokenBalances

VARIABLE part       \* "batch" or "tokens"

(* The part that does not take place stays in one of its initial states.    *)
SomeTokenRead ==
    /\ type = "erc20" /\ given = {} /\ apiKey = FALSE /\ logs = {} /\ latest = 0

BalancesInit ==
    /\ part \in {"batch", "tokens"}
    /\ Init /\ ReadInit
    /\ part = "batch" => SomeTokenRead

ReadBatch == part = "batch" /\ Next /\ UNCHANGED <<part, readVars>>
ReadTokens == part = "tokens" /\ ReadNext /\ UNCHANGED <<part, vars>>
BalancesNext == ReadBatch \/ ReadTokens

(* Every request of a token read is answered or fails, and continuations    *)
(* run.                                                                     *)
BalancesSpec ==
    /\ BalancesInit /\ [][BalancesNext]_<<part, vars, readVars>>
    /\ WF_readVars(part = "tokens" /\ ReadStep)

-----------------------------------------------------------------------------
(* The types of both.                                                       *)
BalancesTypeOK == TypeOK /\ ReadTypeOK
=============================================================================
