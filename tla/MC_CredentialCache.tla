------------------------ MODULE MC_CredentialCache ------------------------
(* Small instances of CredentialCache for TLC.                             *)
EXTENDS CredentialCache, TLC

CONSTANTS i1, i2, i3, k1, k2, v1, v2

MCInstances == {i1, i2, i3}
MCKeys == {k1, k2}
MCValues == {v1, v2}

(* An idempotent generator: one credential per key.                        *)
MCGenIdempotent == (k1 :> {v1}) @@ (k2 :> {v2})

(* A generator that breaks the caller obligation: a fresh random key.      *)
MCGenRacy == [k \in MCKeys |-> MCValues]

MCSymmetry == Permutations(MCInstances)
=============================================================================
