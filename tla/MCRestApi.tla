----------------------------- MODULE MCRestApi -----------------------------
(* Requests for RestApi: each route, and transfers of each type to each     *)
(* kind of destination, some of them refused.                               *)
EXTENDS RestApi

CONSTANTS a0, a1, usdc, few, many

SomeAddress == [v \in {"0", "1"} |-> IF v = "0" THEN a0 ELSE a1]
SomeDecimals == [c \in {usdc, few, many} |-> CASE c = usdc -> 2 [] c = few -> 1 [] c = many -> 3]

Routed(route, wellFormed, vault) ==
    [route |-> route, wellFormed |-> wellFormed, vault |-> vault]

VaultRequests ==
    {Routed(r, w, v) : r \in {"address", "public-key", "register-key", "key-status", "transactions"},
                       w \in BOOLEAN, v \in {"0", Huge}}

OtherRequests ==
    {Routed(r, w, "0") : r \in {"transaction", "contracts", "metrics"}, w \in BOOLEAN}

KeyRequests == {[route |-> "validate-key", body |-> b] : b \in {"none", "empty", "key"}}

BalanceRequests ==
    {[route |-> "token-balances", wellFormed |-> TRUE, vault |-> "0",
      type |-> t, contracts |-> c] : t \in {"erc20", "src20", "all"}, c \in BOOLEAN}

Transfer(type, recipient, destination, amount, contract, d) ==
    [route |-> "transfer", wellFormed |-> TRUE, vault |-> "0", type |-> type,
     recipient |-> recipient, destinationVaultId |-> destination,
     amount |-> amount, contractAddress |-> contract, decimals |-> d]

(* 1.5 tokens, a tenth of one, none, and no number.                         *)
TransferRequests ==
    {Transfer(t, r, d, n, c, dec) :
        t \in {"SUSDC", "ERC20", "SRC20"}, r \in {None, a1}, d \in {None, "1", Huge},
        n \in {0, 1, 15, Junk}, c \in {None, few, many}, dec \in {None, 0, 1, 4}}

SomeRequests ==
    VaultRequests \cup OtherRequests \cup KeyRequests \cup BalanceRequests
    \cup TransferRequests

(* Transfers that leave the decimals of their ERC-20 token to the SDK.      *)
UndenominatedTransfers == {Transfer("ERC20", a1, None, 15, c, None) : c \in {few, many}}
=============================================================================
