--------------------------- MODULE MCSdkLifecycle ---------------------------
(* Environments for SdkLifecycle: good ones with and without the check, and *)
(* one for each reason why there is no SDK.                                 *)
EXTENDS SdkLifecycle, TLC

Env(c, n, m, s) == [credentials |-> c, network |-> n, maker |-> m, skip |-> s]

SomeEnvironments ==
    {Env("good", "testnet", "service", s) : s \in BOOLEAN}
    \cup {Env(c, "testnet", "service", FALSE) : c \in {"unset", "unreadable", "malformed"}}
    \cup {Env("good", "testnet", "constructor", s) : s \in BOOLEAN}
    \cup {Env("good", "mainnet", m, FALSE) : m \in {"create", "constructor"}}

(* The calls differ in nothing but their names.                             *)
CallSymmetry == Permutations(Calls)
=============================================================================
