---------------------------- MODULE MCRawSigning ----------------------------
(* RawSigning with the constants of the code: FireblocksSigner.getTxStatus  *)
(* polls at 3000, POLLING_CONSTANTS gives 300000 and 30000.                 *)
EXTENDS RawSigning

SomeLatencies == {0, 4000}
=============================================================================
