----------------------------- MODULE MCWalFile -----------------------------
(* TLC instance of WalFile.                                                *)
EXTENDS WalFile
=============================================================================
