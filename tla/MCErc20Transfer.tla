-------------------------- MODULE MCErc20Transfer --------------------------
(* Small instances of Erc20Transfer for TLC.                                *)
EXTENDS Erc20Transfer, TLC

CallSymmetry == Permutations(Calls)
TransferSymmetry == Permutations(Transfers)
Symmetry == CallSymmetry \cup TransferSymmetry
=============================================================================
