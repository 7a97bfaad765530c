-------------------------- MODULE CredentialCache --------------------------
(***************************************************************************)
(* The lock-free credential cache of krb5-provision-keytab                 *)
(* (rust/krb5-provision-keytab/src/credential_cache.rs).                   *)
(*                                                                         *)
(* Several CredentialCache values (one per provisioning process, e.g. one  *)
(* per pod that mounts a Kerberos volume) sit in front of the SAME         *)
(* backing Secret.  Each keeps its own copy `current_state` of the         *)
(* Secret's data, loaded by `new` and replaced by the response of every    *)
(* merge patch it sends.  `get_or_insert` takes `&mut self`, so the calls  *)
(* on one instance are sequential; the calls of different instances        *)
(* interleave at their two awaits: the generator `mk_value` and the patch. *)
(*                                                                         *)
(* Data is abstracted: a credential is a model value of Values, the        *)
(* Secret's data map is a total function Keys -> Values \cup {NONE}.       *)
(***************************************************************************)
EXTENDS Naturals, FiniteSets

CONSTANTS
    Instances,  \* the CredentialCache values sharing one backing Secret
    Keys,       \* credential names passed to get_or_insert
    Values,     \* credential bytes a generator may return
    Gen,        \* Gen[k]: the values a call of mk_value for key k may return
    NONE,       \* "no entry" in a data map, "no key" for an idle instance
    MaxCalls    \* bound on the get_or_insert calls of one instance

ASSUME ConstantsAssumption ==
    /\ NONE \notin Values
    /\ NONE \notin Keys
    /\ Gen \in [Keys -> SUBSET Values]
    /\ MaxCalls \in Nat

(* The caller obligation of get_or_insert (doc comment, lines 72-75): all  *)
(* calls of the generator for one key return the same value.               *)
IdempotentGenerator == \A k \in Keys : \A v, w \in Gen[k] : v = w

VARIABLES
    store,    \* data of the backing Secret on the API server
    state,    \* state[i]: data of instance i's current_state
    pc,       \* where instance i is: "init", "idle", "gen", "patch", "dead"
    key,      \* key of instance i's running get_or_insert call
    val,      \* value returned by instance i's generator, awaiting the patch
    calls,    \* number of get_or_insert calls instance i has started
    result,   \* outcome of instance i's last call
    inserted, \* inserted[i][k]: calls of i that saved k and returned it
    ret       \* ret[i]: bytes returned by i's last call, NONE for an error

vars == <<store, state, pc, key, val, calls, result, inserted, ret>>

Data == [Keys -> Values \cup {NONE}]

Outcomes == {"none", "hit", "saved", "genfail", "savefail", "notfound", "loadfail"}

TypeOK ==
    /\ store \in Data
    /\ state \in [Instances -> Data]
    /\ pc \in [Instances -> {"init", "idle", "gen", "patch", "dead"}]
    /\ key \in [Instances -> Keys \cup {NONE}]
    /\ val \in [Instances -> Values \cup {NONE}]
    /\ calls \in [Instances -> 0..MaxCalls]
    /\ result \in [Instances -> Outcomes]
    /\ inserted \in [Instances -> [Keys -> Nat]]
    /\ ret \in [Instances -> Values \cup {NONE}]
    /\ \A i \in Instances : (key[i] # NONE) <=> (pc[i] \in {"gen", "patch"})
    /\ \A i \in Instances : (val[i] # NONE) <=> (pc[i] = "patch")

(* The Secret may already hold credentials of earlier runs, which were     *)
(* produced by the same generator.                                         *)
Init ==
    /\ store \in {d \in Data : \A k \in Keys : d[k] \in {NONE} \cup Gen[k]}
    /\ state = [i \in Instances |-> [k \in Keys |-> NONE]]
    /\ pc = [i \in Instances |-> "init"]
    /\ key = [i \in Instances |-> NONE]
    /\ val = [i \in Instances |-> NONE]
    /\ calls = [i \in Instances |-> 0]
    /\ result = [i \in Instances |-> "none"]
    /\ inserted = [i \in Instances |-> [k \in Keys |-> 0]]
    /\ ret = [i \in Instances |-> NONE]

(* get_if_present: the key's bytes in a data map, or NONE.                 *)
GetIfPresent(d, k) == d[k]

(* Patch::Merge of {k: v} into the Secret's data: every other key is kept. *)
MergePatch(d, k, v) == [d EXCEPT ![k] = v]

-----------------------------------------------------------------------------
(* CredentialCache::new: GET the Secret; the error GetInitialCache ends    *)
(* the instance.                                                           *)
New(i) ==
    /\ pc[i] = "init"
    /\ \/ /\ state' = [state EXCEPT ![i] = store]
          /\ pc' = [pc EXCEPT ![i] = "idle"]
          /\ UNCHANGED result
       \/ /\ pc' = [pc EXCEPT ![i] = "dead"]
          /\ result' = [result EXCEPT ![i] = "loadfail"]
          /\ UNCHANGED state
    /\ UNCHANGED <<store, key, val, calls, inserted, ret>>

(* get_or_insert, hit path (lines 90-94): the key is in current_state; the *)
(* whole call returns its bytes without any request.                       *)
GetOrInsertHit(i, k) ==
    /\ pc[i] = "idle"
    /\ calls[i] < MaxCalls
    /\ GetIfPresent(state[i], k) # NONE
    /\ calls' = [calls EXCEPT ![i] = @ + 1]
    /\ result' = [result EXCEPT ![i] = "hit"]
    /\ ret' = [ret EXCEPT ![i] = GetIfPresent(state[i], k)]
    /\ UNCHANGED <<store, state, pc, key, val, inserted>>

(* get_or_insert, miss path (lines 95-102): call mk_value and await it.    *)
GetOrInsertMiss(i, k) ==
    /\ pc[i] = "idle"
    /\ calls[i] < MaxCalls
    /\ GetIfPresent(state[i], k) = NONE
    /\ calls' = [calls EXCEPT ![i] = @ + 1]
    /\ pc' = [pc EXCEPT ![i] = "gen"]
    /\ key' = [key EXCEPT ![i] = k]
    /\ UNCHANGED <<store, state, val, result, inserted, ret>>

(* The generator's future resolves to Ok(value) (line 103).                *)
GenerateOk(i) ==
    /\ pc[i] = "gen"
    /\ \E v \in Gen[key[i]] : val' = [val EXCEPT ![i] = v]
    /\ pc' = [pc EXCEPT ![i] = "patch"]
    /\ UNCHANGED <<store, state, key, calls, result, inserted, ret>>

(* Mutant: the failure path leaves the call's key behind.                 *)
GenerateFailKeepKey(i) ==
    /\ pc[i] = "gen"
    /\ pc' = [pc EXCEPT ![i] = "idle"]
    /\ result' = [result EXCEPT ![i] = "genfail"]
    /\ ret' = [ret EXCEPT ![i] = NONE]
    /\ UNCHANGED <<store, state, key, val, calls, inserted>>

(* The generator fails, or the task is cancelled while it runs (lines      *)
(* 132-137): nothing is saved, current_state is untouched.                 *)
GenerateFail(i) ==
    /\ pc[i] = "gen"
    /\ pc' = [pc EXCEPT ![i] = "idle"]
    /\ key' = [key EXCEPT ![i] = NONE]
    /\ result' = [result EXCEPT ![i] = "genfail"]
    /\ ret' = [ret EXCEPT ![i] = NONE]
    /\ UNCHANGED <<store, state, val, calls, inserted>>

(* Mutant: the patch response is looked up but never stored in            *)
(* current_state.                                                          *)
SaveOkNoReload(i) ==
    LET k == key[i]
        d == MergePatch(store, k, val[i])
    IN  /\ pc[i] = "patch"
        /\ store' = d
        /\ result' = [result EXCEPT ![i] = "saved"]
        /\ inserted' = [inserted EXCEPT ![i][k] = @ + 1]
        /\ ret' = [ret EXCEPT ![i] = GetIfPresent(d, k)]
        /\ pc' = [pc EXCEPT ![i] = "idle"]
        /\ key' = [key EXCEPT ![i] = NONE]
        /\ val' = [val EXCEPT ![i] = NONE]
        /\ UNCHANGED <<state, calls>>

(* The patch succeeds (lines 105-130): the server merges {k: v}, the       *)
(* response replaces current_state, and k is looked up again in it.        *)
SaveOk(i) ==
    LET k == key[i]
        d == MergePatch(store, k, val[i])
    IN  /\ pc[i] = "patch"
        /\ store' = d
        /\ state' = [state EXCEPT ![i] = d]
        /\ IF GetIfPresent(d, k) # NONE
              THEN /\ result' = [result EXCEPT ![i] = "saved"]
                   /\ inserted' = [inserted EXCEPT ![i][k] = @ + 1]
              ELSE /\ result' = [result EXCEPT ![i] = "notfound"]
                   /\ UNCHANGED inserted
        /\ ret' = [ret EXCEPT ![i] = GetIfPresent(d, k)]
        /\ pc' = [pc EXCEPT ![i] = "idle"]
        /\ key' = [key EXCEPT ![i] = NONE]
        /\ val' = [val EXCEPT ![i] = NONE]
        /\ UNCHANGED calls

(* Mutant: current_state takes the new value before the patch is sent,    *)
(* and keeps it when the patch fails.                                      *)
SaveFailOptimistic(i) ==
    /\ pc[i] = "patch"
    /\ UNCHANGED store
    /\ state' = [state EXCEPT ![i] = MergePatch(state[i], key[i], val[i])]
    /\ pc' = [pc EXCEPT ![i] = "idle"]
    /\ key' = [key EXCEPT ![i] = NONE]
    /\ val' = [val EXCEPT ![i] = NONE]
    /\ result' = [result EXCEPT ![i] = "savefail"]
    /\ ret' = [ret EXCEPT ![i] = NONE]
    /\ UNCHANGED <<calls, inserted>>

(* The patch fails (SaveToCache, lines 120-124).  The `?` returns before   *)
(* current_state is assigned.  A request that timed out, or whose future   *)
(* was dropped, may still have been applied by the server.                 *)
SaveFail(i) ==
    /\ pc[i] = "patch"
    /\ \/ UNCHANGED store
       \/ store' = MergePatch(store, key[i], val[i])
    /\ pc' = [pc EXCEPT ![i] = "idle"]
    /\ key' = [key EXCEPT ![i] = NONE]
    /\ val' = [val EXCEPT ![i] = NONE]
    /\ result' = [result EXCEPT ![i] = "savefail"]
    /\ ret' = [ret EXCEPT ![i] = NONE]
    /\ UNCHANGED <<state, calls, inserted>>

(* Every instance has made its calls or failed to load: the process ends.  *)
Terminated ==
    /\ \A i \in Instances : pc[i] = "dead" \/ (pc[i] = "idle" /\ calls[i] = MaxCalls)
    /\ UNCHANGED vars

Next ==
    \/ \E i \in Instances :
          \/ New(i)
          \/ \E k \in Keys : GetOrInsertHit(i, k) \/ GetOrInsertMiss(i, k)
          \/ GenerateOk(i)
          \/ GenerateFail(i)
          \/ SaveOk(i)
          \/ SaveFail(i)
    \/ Terminated

Spec == Init /\ [][Next]_vars

-----------------------------------------------------------------------------
(***************************************************************************)
(* Properties                                                              *)
(***************************************************************************)

(* Every credential an instance holds in current_state, loaded by new or   *)
(* taken from a patch response long ago, is still the one in the Secret:  *)
(* a stale view is missing keys at worst, it never contradicts the Secret. *)
LocalViewConsistent ==
    \A i \in Instances, k \in Keys :
        state[i][k] # NONE => state[i][k] = store[k]

(* An instance calls the generator for a key at most until one of its     *)
(* calls has saved it: a credential it saved is served from its            *)
(* current_state afterwards, it is never generated and saved again.        *)
SavedOncePerInstance == \A i \in Instances, k \in Keys : inserted[i][k] <= 1

(* The cache as its callers see it: the Secret is a write-once credential *)
(* store, and every get_or_insert call returns the credential stored for  *)
(* its key at that moment, stores a generated one for an absent key and   *)
(* returns it, or fails.  Under an idempotent generator this holds even   *)
(* though instances answer hits from stale copies and save concurrently.  *)
Abstract == INSTANCE CredentialStore WITH cred <- store, answer <- ret

ImplementsCredentialStore == Abstract!Spec
=============================================================================
