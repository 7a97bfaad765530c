-------------------------- MODULE MC_Krb5Handles --------------------------
(* Small instances of Krb5Handles for TLC.                                 *)
EXTENDS Krb5Handles, TLC
=============================================================================
