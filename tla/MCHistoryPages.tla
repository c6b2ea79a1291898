--------------------------- MODULE MCHistoryPages ---------------------------
(* Blocks for HistoryPages: without a log, with a transfer of sUSDC         *)
(* received before the vault's key was registered and one received after    *)
(* it, and with two ERC-20 logs of one transaction and an SRC-20 transfer   *)
(* sent by another.                                                         *)
EXTENDS HistoryPages

Erc20(i, t, d) ==
    [tx |-> t, logIndex |-> i, topic |-> "erc20", dir |-> d, mine |-> FALSE]
Shielded(i, t, topic, d, m) ==
    [tx |-> t, logIndex |-> i, topic |-> topic, dir |-> d, mine |-> m]

SomePatterns ==
    {{},
     {Shielded(1, 1, "susdc", "received", FALSE)},
     {Shielded(1, 1, "susdc", "received", FALSE), Shielded(2, 1, "susdc", "received", TRUE)},
     {Erc20(1, 1, "received"), Erc20(2, 1, "sent"),
      Shielded(3, 2, "src20", "sent", TRUE), Shielded(4, 2, "src20", "sent", FALSE)}}

(* Every path with a pinned range, and all but one without any range; and   *)
(* dates within what the chain comes to.  Type "all", of which the first    *)
(* page counts, has room for two kinds of entries on it.                    *)
Query(p, l, r, c) == [path |-> p, limit |-> l, range |-> r, cut |-> c]
SomeQueries ==
    {Query(p, 2, "open", 0) : p \in AllPaths \ {"src20"}}
    \cup {Query("erc20", 1, "open", 0)}
    \cup {Query(p, 1, "pinned", 0) : p \in AllPaths \ {"all", "allKeyed"}}
    \cup {Query(p, 1, "before", 3) : p \in {"erc20", "explorer", "viewingKey"}}
    \cup {Query("all", 2, "pinned", 0), Query("all", 2, "before", 3)}
    \cup {Query("src20", 2, "after", 2)}
=============================================================================
