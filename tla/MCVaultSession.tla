--------------------------- MODULE MCVaultSession ---------------------------
(* Small instances of VaultSession for TLC: which operations compete, and   *)
(* the symmetry of the identities that no operation tells apart.            *)
EXTENDS VaultSession, TLC

DerivingOps == {"getSeismicAddress", "deriveEncryptionKey", "deriveViewingKey"}
SettlingOps == {"deriveViewingKey", "getTransactionHistory"}

CallSymmetry == Permutations(Calls)
EntrySymmetry == Permutations(Entries)
VaultSymmetry == Permutations(Vaults)
Symmetry == CallSymmetry \cup EntrySymmetry \cup VaultSymmetry
=============================================================================
