-------------------------- MODULE CredentialStore --------------------------
(***************************************************************************)
(* What the credential cache promises its callers                          *)
(* (doc comment of get_or_insert, credential_cache.rs lines 70-78): a      *)
(* write-once map of credentials.  Every call either returns the           *)
(* credential stored for its key, or stores a freshly generated one and    *)
(* returns it, or fails.  A failed call may still have stored a fresh      *)
(* credential for an absent key (the patch was applied but its answer was  *)
(* lost).  A stored credential never changes.                              *)
(*                                                                         *)
(* There are no views, generators or patches here: one atomic step per    *)
(* call.  CredentialCache implements it, with cred the Secret's data and   *)
(* answer[i] the bytes instance i's last call returned.                    *)
(***************************************************************************)
CONSTANTS Instances, Keys, Values, Gen, NONE

VARIABLES
    cred,    \* cred[k]: the credential stored for k, NONE if there is none
    answer   \* answer[i]: what i's last call returned, NONE for an error

Init ==
    /\ cred \in {d \in [Keys -> Values \cup {NONE}] :
                    \A k \in Keys : d[k] \in {NONE} \cup Gen[k]}
    /\ answer = [i \in Instances |-> NONE]

(* A call for a stored key returns the stored credential.                 *)
Lookup(i, k) ==
    /\ cred[k] # NONE
    /\ answer' = [answer EXCEPT ![i] = cred[k]]
    /\ UNCHANGED cred

(* A call for an absent key stores a generated credential and returns it.  *)
Insert(i, k) ==
    /\ cred[k] = NONE
    /\ \E v \in Gen[k] :
          /\ cred' = [cred EXCEPT ![k] = v]
          /\ answer' = [answer EXCEPT ![i] = v]

(* A call fails; it may have stored a credential for an absent key.       *)
Fail(i) ==
    /\ answer' = [answer EXCEPT ![i] = NONE]
    /\ \/ UNCHANGED cred
       \/ \E k \in Keys :
             /\ cred[k] = NONE
             /\ \E v \in Gen[k] : cred' = [cred EXCEPT ![k] = v]

Next ==
    \E i \in Instances :
       \/ \E k \in Keys : Lookup(i, k) \/ Insert(i, k)
       \/ Fail(i)

Spec == Init /\ [][Next]_<<cred, answer>>

=============================================================================
