----------------------- MODULE CredentialCacheProofs -----------------------
(***************************************************************************)
(* Proofs about CredentialCache for every set of instances, keys, values,  *)
(* every generator and every bound on the calls.                           *)
(***************************************************************************)
EXTENDS CredentialCache, TLAPS

(* Every credential in the Secret came from the generator of its key.     *)
StoreFromGen == \A k \in Keys : store[k] # NONE => store[k] \in Gen[k]

(* A value waiting for its patch came from the generator of its key.      *)
PendingFromGen ==
    \A i \in Instances : pc[i] = "patch" => val[i] \in Gen[key[i]]

(* The inductive invariant behind LocalViewConsistent.                     *)
IInv ==
    /\ TypeOK
    /\ StoreFromGen
    /\ PendingFromGen
    /\ LocalViewConsistent

-----------------------------------------------------------------------------
(* The initial states are typed.                                          *)
LEMMA InitTypeOK == Init => TypeOK
BY ConstantsAssumption DEF Init, TypeOK, Outcomes, Data

(* A step keeps the types.                                                 *)
LEMMA TypeStep == TypeOK /\ [Next]_vars => TypeOK'
<1> USE ConstantsAssumption
<1> SUFFICES ASSUME TypeOK, [Next]_vars PROVE TypeOK'
  OBVIOUS
<1>1. ASSUME NEW i \in Instances, New(i) PROVE TypeOK'
  <2>1. pc[i] = "init" /\ UNCHANGED <<store, key, val, calls, inserted, ret>>
    BY <1>1 DEF New
  <2>2. CASE /\ state' = [state EXCEPT ![i] = store]
             /\ pc' = [pc EXCEPT ![i] = "idle"]
             /\ UNCHANGED result
    BY <2>1, <2>2 DEF TypeOK
  <2>3. CASE /\ pc' = [pc EXCEPT ![i] = "dead"]
             /\ result' = [result EXCEPT ![i] = "loadfail"]
             /\ UNCHANGED state
    BY <2>1, <2>3 DEF TypeOK, Outcomes
  <2>4. QED
    BY <1>1, <2>2, <2>3 DEF New
<1>2. ASSUME NEW i \in Instances, NEW k \in Keys, GetOrInsertHit(i, k)
      PROVE TypeOK'
  BY <1>2 DEF GetOrInsertHit, GetIfPresent, TypeOK, Outcomes, Data
<1>3. ASSUME NEW i \in Instances, NEW k \in Keys, GetOrInsertMiss(i, k)
      PROVE TypeOK'
  BY <1>3 DEF GetOrInsertMiss, TypeOK, Outcomes
<1>4. ASSUME NEW i \in Instances, GenerateOk(i) PROVE TypeOK'
  BY <1>4 DEF GenerateOk, TypeOK, Outcomes
<1>5. ASSUME NEW i \in Instances, GenerateFail(i) PROVE TypeOK'
  BY <1>5 DEF GenerateFail, TypeOK, Outcomes
<1>6. ASSUME NEW i \in Instances, SaveOk(i) PROVE TypeOK'
  <2> DEFINE d == MergePatch(store, key[i], val[i])
  <2>1. pc[i] = "patch" /\ key[i] \in Keys /\ val[i] \in Values
    BY <1>6 DEF SaveOk, TypeOK
  <2>2. d \in Data
    BY <2>1 DEF MergePatch, TypeOK, Data
  <2>3. d[key[i]] # NONE
    BY <2>1 DEF MergePatch, TypeOK, Data
  <2>4. /\ store' = d
        /\ state' = [state EXCEPT ![i] = d]
        /\ result' = [result EXCEPT ![i] = "saved"]
        /\ inserted' = [inserted EXCEPT ![i][key[i]] = @ + 1]
        /\ pc' = [pc EXCEPT ![i] = "idle"]
        /\ key' = [key EXCEPT ![i] = NONE]
        /\ val' = [val EXCEPT ![i] = NONE]
        /\ calls' = calls
        /\ ret' = [ret EXCEPT ![i] = d[key[i]]]
    BY <1>6, <2>3 DEF SaveOk, GetIfPresent
  <2>5. QED
    BY <2>1, <2>2, <2>4 DEF TypeOK, Outcomes, Data
<1>7. ASSUME NEW i \in Instances, SaveFail(i) PROVE TypeOK'
  BY <1>7 DEF SaveFail, MergePatch, TypeOK, Outcomes, Data
<1>8. CASE Terminated
  BY <1>8 DEF Terminated, vars, TypeOK
<1>9. CASE UNCHANGED vars
  BY <1>9 DEF vars, TypeOK
<1>10. QED
  BY <1>1, <1>2, <1>3, <1>4, <1>5, <1>6, <1>7, <1>8, <1>9 DEF Next

(* The model's variables keep their types, and an instance has a key      *)
(* exactly while a call is running and a value exactly while it saves.    *)
THEOREM TypeCorrect == Spec => []TypeOK
BY InitTypeOK, TypeStep, PTL DEF Spec

-----------------------------------------------------------------------------
(* With an idempotent generator, two values that came from the generator   *)
(* of the same key are equal.                                              *)
LEMMA GenUnique ==
  ASSUME IdempotentGenerator,
         NEW k \in Keys, NEW v \in Gen[k], NEW w \in Gen[k]
  PROVE  v = w
BY DEF IdempotentGenerator

(* IInv holds initially.                                                   *)
LEMMA InitIInv == Init => IInv
BY InitTypeOK DEF Init, IInv, StoreFromGen, PendingFromGen,
                  LocalViewConsistent

(* A merge patch of a generated value keeps every credential of the store *)
(* generated, and changes no credential the store already held.           *)
LEMMA MergeKeepsStore ==
  ASSUME IdempotentGenerator, TypeOK, StoreFromGen,
         NEW k \in Keys, NEW v \in Gen[k]
  PROVE  LET d == MergePatch(store, k, v)
         IN  /\ \A kk \in Keys : d[kk] # NONE => d[kk] \in Gen[kk]
             /\ \A kk \in Keys : store[kk] # NONE => d[kk] = store[kk]
<1>1. \A kk \in Keys : store[kk] # NONE => store[kk] \in Gen[kk]
  BY DEF StoreFromGen
<1>2. store[k] # NONE => store[k] = v
  BY <1>1, GenUnique
<1>3. QED
  BY <1>1, <1>2, ConstantsAssumption DEF MergePatch, TypeOK, Data

(* Each step keeps IInv, when the generator is idempotent.                 *)
LEMMA NextIInv ==
  ASSUME IdempotentGenerator
  PROVE  IInv /\ [Next]_vars => IInv'
<1> SUFFICES ASSUME IInv, [Next]_vars PROVE IInv'
  OBVIOUS
<1> USE ConstantsAssumption
<1>0. TypeOK /\ TypeOK'
  BY TypeStep DEF IInv
<1>1. ASSUME NEW i \in Instances, New(i) PROVE IInv'
  <2>1. /\ pc[i] = "init"
        /\ UNCHANGED <<store, key, val>>
        /\ pc' = [pc EXCEPT ![i] = "idle"] \/ pc' = [pc EXCEPT ![i] = "dead"]
        /\ state' = state \/ state' = [state EXCEPT ![i] = store]
    BY <1>1, <1>0 DEF New, TypeOK
  <2>2. StoreFromGen'
    BY <2>1 DEF IInv, StoreFromGen
  <2>3. PendingFromGen'
    BY <2>1, <1>0 DEF IInv, PendingFromGen, TypeOK
  <2>4. LocalViewConsistent'
    <3> SUFFICES ASSUME NEW j \in Instances, NEW kk \in Keys, state'[j][kk] # NONE
                 PROVE  state'[j][kk] = store'[kk]
      BY DEF LocalViewConsistent
    <3>1. CASE state'[j] = state[j]
      BY <2>1, <3>1 DEF IInv, LocalViewConsistent
    <3>2. CASE state'[j] = store
      BY <2>1, <3>2
    <3>3. state'[j] = state[j] \/ state'[j] = store
      BY <2>1, <1>0 DEF TypeOK
    <3>4. QED
      BY <3>1, <3>2, <3>3
  <2>5. QED
    BY <1>0, <2>2, <2>3, <2>4 DEF IInv
<1>2. ASSUME NEW i \in Instances, NEW k \in Keys, GetOrInsertHit(i, k)
      PROVE IInv'
  BY <1>2, <1>0 DEF GetOrInsertHit, IInv, StoreFromGen, PendingFromGen,
                    LocalViewConsistent
<1>3. ASSUME NEW i \in Instances, NEW k \in Keys, GetOrInsertMiss(i, k)
      PROVE IInv'
  BY <1>3, <1>0 DEF GetOrInsertMiss, IInv, StoreFromGen, PendingFromGen,
                    LocalViewConsistent, TypeOK
<1>4. ASSUME NEW i \in Instances, GenerateOk(i) PROVE IInv'
  BY <1>4, <1>0 DEF GenerateOk, IInv, StoreFromGen, PendingFromGen,
                    LocalViewConsistent, TypeOK
<1>5. ASSUME NEW i \in Instances, GenerateFail(i) PROVE IInv'
  BY <1>5, <1>0 DEF GenerateFail, IInv, StoreFromGen, PendingFromGen,
                    LocalViewConsistent, TypeOK
<1>6. ASSUME NEW i \in Instances, SaveOk(i) PROVE IInv'
  <2> DEFINE k == key[i]
             d == MergePatch(store, k, val[i])
  <2>1. pc[i] = "patch" /\ k \in Keys /\ val[i] \in Gen[k]
    BY <1>6, <1>0 DEF SaveOk, TypeOK, IInv, PendingFromGen
  <2>2. /\ \A kk \in Keys : d[kk] # NONE => d[kk] \in Gen[kk]
        /\ \A kk \in Keys : store[kk] # NONE => d[kk] = store[kk]
    BY <2>1, <1>0, MergeKeepsStore DEF IInv
  <2>3. /\ store' = d
        /\ state' = [state EXCEPT ![i] = d]
        /\ pc' = [pc EXCEPT ![i] = "idle"]
        /\ key' = [key EXCEPT ![i] = NONE]
        /\ val' = [val EXCEPT ![i] = NONE]
    BY <1>6 DEF SaveOk
  <2>4. StoreFromGen'
    BY <2>2, <2>3 DEF StoreFromGen
  <2>5. PendingFromGen'
    BY <2>3, <1>0 DEF PendingFromGen, IInv, TypeOK
  <2>6. LocalViewConsistent'
    <3> SUFFICES ASSUME NEW j \in Instances, NEW kk \in Keys, state'[j][kk] # NONE
                 PROVE  state'[j][kk] = store'[kk]
      BY DEF LocalViewConsistent
    <3>1. CASE j = i
      BY <2>3, <3>1, <1>0 DEF TypeOK
    <3>2. CASE j # i
      <4>1. state[j][kk] # NONE /\ state[j][kk] = store[kk]
        BY <2>3, <3>2 DEF IInv, LocalViewConsistent
      <4>2. QED
        BY <4>1, <2>2, <2>3, <3>2
    <3>3. QED
      BY <3>1, <3>2
  <2>7. QED
    BY <1>0, <2>4, <2>5, <2>6 DEF IInv
<1>7. ASSUME NEW i \in Instances, SaveFail(i) PROVE IInv'
  <2> DEFINE k == key[i]
             d == MergePatch(store, k, val[i])
  <2>1. pc[i] = "patch" /\ k \in Keys /\ val[i] \in Gen[k]
    BY <1>7, <1>0 DEF SaveFail, TypeOK, IInv, PendingFromGen
  <2>2. /\ \A kk \in Keys : d[kk] # NONE => d[kk] \in Gen[kk]
        /\ \A kk \in Keys : store[kk] # NONE => d[kk] = store[kk]
    BY <2>1, <1>0, MergeKeepsStore DEF IInv
  <2>3. /\ store' \in {store, d}
        /\ state' = state
        /\ pc' = [pc EXCEPT ![i] = "idle"]
        /\ key' = [key EXCEPT ![i] = NONE]
        /\ val' = [val EXCEPT ![i] = NONE]
    BY <1>7 DEF SaveFail
  <2>4. StoreFromGen'
    BY <2>2, <2>3, <1>0 DEF StoreFromGen, IInv
  <2>5. PendingFromGen'
    BY <2>3, <1>0 DEF PendingFromGen, IInv, TypeOK
  <2>6. LocalViewConsistent'
    <3>1. CASE store' = store
      BY <2>3, <3>1 DEF LocalViewConsistent, IInv
    <3>2. CASE store' = d
      <4> SUFFICES ASSUME NEW j \in Instances, NEW kk \in Keys, state'[j][kk] # NONE
                   PROVE  state'[j][kk] = store'[kk]
        BY DEF LocalViewConsistent
      <4>1. state[j][kk] # NONE /\ state[j][kk] = store[kk]
        BY <2>3 DEF IInv, LocalViewConsistent
      <4>2. QED
        BY <4>1, <2>2, <2>3, <3>2
    <3>3. QED
      BY <2>3, <3>1, <3>2
  <2>7. QED
    BY <1>0, <2>4, <2>5, <2>6 DEF IInv
<1>8. CASE Terminated \/ UNCHANGED vars
  BY <1>8, <1>0 DEF Terminated, vars, IInv, StoreFromGen, PendingFromGen,
                    LocalViewConsistent
<1>9. QED
  BY <1>1, <1>2, <1>3, <1>4, <1>5, <1>6, <1>7, <1>8 DEF Next

(* With an idempotent generator, every credential an instance holds in    *)
(* its current_state is the one the Secret holds, for any number of       *)
(* instances, keys and calls.                                              *)
THEOREM ViewConsistency ==
  ASSUME IdempotentGenerator
  PROVE  Spec => []LocalViewConsistent
<1>1. Init => IInv
  BY InitIInv
<1>2. IInv /\ [Next]_vars => IInv'
  BY NextIInv
<1>3. IInv => LocalViewConsistent
  BY DEF IInv
<1>4. QED
  BY <1>1, <1>2, <1>3, PTL DEF Spec

-----------------------------------------------------------------------------
(***************************************************************************)
(* Refinement: CredentialCache implements CredentialStore, with the        *)
(* Secret's data as the store and ret as the callers' answers.             *)
(***************************************************************************)

(* The abstract steps, with the refinement mapping applied.               *)
AbsNext == [Abstract!Next]_<<store, ret>>

(* A hit answers from the instance's own copy; by LocalViewConsistent     *)
(* that is the stored credential, so the call is an abstract Lookup.      *)
LEMMA HitRefines ==
  ASSUME IInv, NEW i \in Instances, NEW k \in Keys, GetOrInsertHit(i, k)
  PROVE  AbsNext
<1>1. state[i][k] # NONE /\ state[i][k] = store[k]
  BY DEF GetOrInsertHit, GetIfPresent, IInv, LocalViewConsistent
<1>2. Abstract!Lookup(i, k)
  BY <1>1 DEF GetOrInsertHit, GetIfPresent, Abstract!Lookup
<1>3. QED
  BY <1>2 DEF AbsNext, Abstract!Next

(* A successful save is a Lookup when the key was already stored (the     *)
(* merge changes nothing, by idempotence), and an Insert otherwise.       *)
LEMMA SaveOkRefines ==
  ASSUME IdempotentGenerator, IInv, NEW i \in Instances, SaveOk(i)
  PROVE  AbsNext
<1> DEFINE k == key[i]
           v == val[i]
           d == MergePatch(store, k, v)
<1>1. pc[i] = "patch" /\ k \in Keys /\ v \in Gen[k] /\ TypeOK
  BY DEF SaveOk, IInv, TypeOK, PendingFromGen
<1>2. store' = d /\ ret' = [ret EXCEPT ![i] = d[k]]
  BY DEF SaveOk, GetIfPresent
<1>3. CASE store[k] # NONE
  <2>1. store[k] = v
    BY <1>1, <1>3, GenUnique DEF IInv, StoreFromGen
  <2>2. d = store
    BY <1>1, <2>1 DEF MergePatch, TypeOK, Data
  <2>3. Abstract!Lookup(i, k)
    BY <1>2, <1>3, <2>2 DEF Abstract!Lookup
  <2>4. QED
    BY <1>1, <2>3 DEF AbsNext, Abstract!Next
<1>4. CASE store[k] = NONE
  <2>1. d[k] = v
    BY <1>1 DEF MergePatch, TypeOK, Data
  <2>2. Abstract!Insert(i, k)
    BY <1>1, <1>2, <1>4, <2>1 DEF Abstract!Insert, MergePatch
  <2>3. QED
    BY <1>1, <2>2 DEF AbsNext, Abstract!Next
<1>5. QED
  BY <1>3, <1>4

(* A failed save is an abstract Fail: the store is unchanged, or the      *)
(* applied patch stored a generated credential for an absent key.         *)
LEMMA SaveFailRefines ==
  ASSUME IdempotentGenerator, IInv, NEW i \in Instances, SaveFail(i)
  PROVE  AbsNext
<1> DEFINE k == key[i]
           v == val[i]
           d == MergePatch(store, k, v)
<1>1. pc[i] = "patch" /\ k \in Keys /\ v \in Gen[k] /\ TypeOK
  BY DEF SaveFail, IInv, TypeOK, PendingFromGen
<1>2. ret' = [ret EXCEPT ![i] = NONE] /\ store' \in {store, d}
  BY DEF SaveFail
<1>3. CASE store[k] # NONE \/ store' = store
  <2>1. store' = store
    BY <1>1, <1>2, <1>3, GenUnique DEF IInv, StoreFromGen, MergePatch,
                                        TypeOK, Data
  <2>2. Abstract!Fail(i)
    BY <1>2, <2>1 DEF Abstract!Fail
  <2>3. QED
    BY <2>2 DEF AbsNext, Abstract!Next
<1>4. CASE store[k] = NONE /\ store' = d
  <2>1. Abstract!Fail(i)
    BY <1>1, <1>2, <1>4 DEF Abstract!Fail, MergePatch
  <2>2. QED
    BY <2>1 DEF AbsNext, Abstract!Next
<1>5. QED
  BY <1>2, <1>3, <1>4

(* A failed generator is an abstract Fail that stores nothing.            *)
LEMMA GenerateFailRefines ==
  ASSUME NEW i \in Instances, GenerateFail(i)
  PROVE  AbsNext
<1>1. Abstract!Fail(i)
  BY DEF GenerateFail, Abstract!Fail
<1>2. QED
  BY <1>1 DEF AbsNext, Abstract!Next

(* Every step of the cache is an abstract step or leaves the store and    *)
(* the answers alone.                                                      *)
LEMMA NextRefines ==
  ASSUME IdempotentGenerator, IInv, [Next]_vars
  PROVE  AbsNext
<1>1. CASE \E i \in Instances, k \in Keys : GetOrInsertHit(i, k)
  BY <1>1, HitRefines
<1>2. CASE \E i \in Instances : SaveOk(i)
  BY <1>2, SaveOkRefines
<1>3. CASE \E i \in Instances : SaveFail(i)
  BY <1>3, SaveFailRefines
<1>4. CASE \E i \in Instances : GenerateFail(i)
  BY <1>4, GenerateFailRefines
<1>5. CASE \/ \E i \in Instances : New(i) \/ GenerateOk(i)
           \/ \E i \in Instances, k \in Keys : GetOrInsertMiss(i, k)
           \/ Terminated \/ UNCHANGED vars
  BY <1>5 DEF New, GenerateOk, GetOrInsertMiss, Terminated, vars, AbsNext
<1>6. QED
  BY <1>1, <1>2, <1>3, <1>4, <1>5 DEF Next

(* With an idempotent generator, the cache implements the write-once      *)
(* credential store: every get_or_insert call returns the credential the  *)
(* Secret holds for its key at that moment, or stores a generated one for *)
(* an absent key, or fails; and a stored credential never changes.        *)
THEOREM Refinement ==
  ASSUME IdempotentGenerator
  PROVE  Spec => ImplementsCredentialStore
<1>1. Init => Abstract!Init
  BY DEF Init, Abstract!Init, Data
<1>2. IInv /\ [Next]_vars => AbsNext
  BY NextRefines
<1>3. Spec => []IInv
  BY InitIInv, NextIInv, PTL DEF Spec
<1>4. QED
  BY <1>1, <1>2, <1>3, PTL
     DEF Spec, ImplementsCredentialStore, Abstract!Spec, AbsNext
-----------------------------------------------------------------------------
-----------------------------------------------------------------------------
(***************************************************************************)
(* For every generator: an instance saves a key at most once, because a  *)
(* merge patch never drops a key from the response it refreshes from.     *)
(***************************************************************************)

(* Every key an instance's current_state holds is in the Secret.          *)
KeysInStore ==
    \A i \in Instances, k \in Keys : state[i][k] # NONE => store[k] # NONE

(* A key an instance has saved is in its current_state.                   *)
SavedInView ==
    \A i \in Instances, k \in Keys : inserted[i][k] > 0 => state[i][k] # NONE

(* A running call is for a key its instance's current_state lacks.        *)
PendingMissed ==
    \A i \in Instances : pc[i] \in {"gen", "patch"} => state[i][key[i]] = NONE

(* The inductive invariant behind SavedOncePerInstance.                    *)
OnceInv ==
    /\ TypeOK
    /\ KeysInStore
    /\ SavedInView
    /\ PendingMissed
    /\ SavedOncePerInstance

(* A merge patch of {k: v} is a data map that holds k and every key the    *)
(* store held.                                                             *)
LEMMA MergeKeepsKeys ==
  ASSUME TypeOK, NEW k \in Keys, NEW v \in Values
  PROVE  /\ MergePatch(store, k, v) \in Data
         /\ MergePatch(store, k, v)[k] # NONE
         /\ \A kk \in Keys : store[kk] # NONE => MergePatch(store, k, v)[kk] # NONE
BY ConstantsAssumption DEF MergePatch, TypeOK, Data

(* A patch, applied or not, keeps every key of the store.                  *)
LEMMA PatchKeepsKeys ==
  ASSUME TypeOK, NEW i \in Instances, SaveOk(i) \/ SaveFail(i)
  PROVE  \A kk \in Keys : store[kk] # NONE => store'[kk] # NONE
<1>1. pc[i] = "patch" /\ key[i] \in Keys /\ val[i] \in Values
  BY DEF SaveOk, SaveFail, TypeOK
<1>2. store' \in {store, MergePatch(store, key[i], val[i])}
  BY DEF SaveOk, SaveFail
<1>3. QED
  BY <1>1, <1>2, MergeKeepsKeys

(* The initial states satisfy OnceInv.                                     *)
LEMMA InitOnce == Init => OnceInv
BY InitTypeOK DEF Init, OnceInv, KeysInStore, SavedInView, PendingMissed,
                  SavedOncePerInstance

(* A successful save of a key the instance lacked counts its first insert *)
(* and installs a response that holds the key and every stored key.      *)
LEMMA SaveOkOnce ==
  ASSUME OnceInv, TypeOK', NEW i \in Instances, SaveOk(i)
  PROVE  OnceInv'
<1> USE ConstantsAssumption
<1> DEFINE k == key[i]
           d == MergePatch(store, k, val[i])
<1>1. pc[i] = "patch" /\ k \in Keys /\ val[i] \in Values
  BY DEF SaveOk, OnceInv, TypeOK
<1>2. /\ d \in Data /\ d[k] # NONE
      /\ \A kk \in Keys : store[kk] # NONE => d[kk] # NONE
  BY <1>1, MergeKeepsKeys DEF OnceInv
<1>3. state[i][k] = NONE /\ inserted[i][k] = 0
  BY <1>1 DEF OnceInv, PendingMissed, SavedInView, TypeOK
<1>4. /\ store' = d
      /\ state' = [state EXCEPT ![i] = d]
      /\ inserted' = [inserted EXCEPT ![i][k] = @ + 1]
      /\ pc' = [pc EXCEPT ![i] = "idle"]
      /\ key' = [key EXCEPT ![i] = NONE]
  <2>1. store' = d /\ state' = [state EXCEPT ![i] = d]
        /\ pc' = [pc EXCEPT ![i] = "idle"] /\ key' = [key EXCEPT ![i] = NONE]
    BY DEF SaveOk
  <2>2. GetIfPresent(d, k) # NONE
    BY <1>2 DEF GetIfPresent
  <2>3. inserted' = [inserted EXCEPT ![i][k] = @ + 1]
    BY <2>2, Zenon DEF SaveOk
  <2>4. QED
    BY <2>1, <2>3
<1>5. KeysInStore'
  BY <1>2, <1>4 DEF OnceInv, KeysInStore, TypeOK
<1>6. SavedInView'
  <2> SUFFICES ASSUME NEW j \in Instances, NEW kk \in Keys, inserted'[j][kk] > 0
               PROVE  state'[j][kk] # NONE
    BY DEF SavedInView
  <2>1. CASE j = i /\ kk = k
    BY <1>2, <1>4, <2>1 DEF OnceInv, TypeOK
  <2>2. CASE j = i /\ kk # k
    <3>1. inserted[i][kk] > 0
      BY <1>4, <2>2 DEF OnceInv, TypeOK
    <3>2. store[kk] # NONE
      BY <3>1 DEF OnceInv, SavedInView, KeysInStore
    <3>3. QED
      BY <1>2, <1>4, <2>2, <3>2 DEF OnceInv, TypeOK
  <2>3. CASE j # i
    BY <1>4, <2>3 DEF OnceInv, SavedInView, TypeOK
  <2>4. QED
    BY <2>1, <2>2, <2>3
<1>7. PendingMissed'
  BY <1>4 DEF OnceInv, PendingMissed, TypeOK
<1>8. SavedOncePerInstance'
  BY <1>3, <1>4 DEF OnceInv, SavedOncePerInstance, TypeOK
<1>9. QED
  BY <1>5, <1>6, <1>7, <1>8 DEF OnceInv

(* Every step keeps OnceInv, whatever the generator returns.               *)
LEMMA NextOnce == OnceInv /\ [Next]_vars => OnceInv'
<1> SUFFICES ASSUME OnceInv, [Next]_vars PROVE OnceInv'
  OBVIOUS
<1> USE ConstantsAssumption
<1>0. TypeOK'
  BY TypeStep DEF OnceInv
<1>1. ASSUME NEW i \in Instances, New(i) PROVE OnceInv'
  <2>1. /\ pc[i] = "init"
        /\ UNCHANGED <<store, key, inserted>>
        /\ pc' = [pc EXCEPT ![i] = "idle"] \/ pc' = [pc EXCEPT ![i] = "dead"]
        /\ state' = state \/ state' = [state EXCEPT ![i] = store]
    BY <1>1 DEF New
  <2>2. \A j \in Instances, kk \in Keys :
           state'[j][kk] # NONE => state[j][kk] # NONE \/ store[kk] # NONE
    BY <2>1 DEF OnceInv, TypeOK
  <2>3. KeysInStore'
    BY <2>1, <2>2 DEF OnceInv, KeysInStore
  <2>4. \A j \in Instances, kk \in Keys :
           state[j][kk] # NONE => state'[j][kk] # NONE
    <3>1. CASE state' = state
      BY <3>1
    <3>2. CASE state' = [state EXCEPT ![i] = store]
      BY <3>2 DEF OnceInv, KeysInStore, TypeOK
    <3>3. QED
      BY <2>1, <3>1, <3>2
  <2>5. SavedInView'
    BY <2>1, <2>4 DEF OnceInv, SavedInView
  <2>6. PendingMissed'
    BY <2>1, <1>0 DEF OnceInv, PendingMissed, TypeOK
  <2>7. QED
    BY <2>1, <1>0, <2>3, <2>5, <2>6 DEF OnceInv, SavedOncePerInstance
<1>2. ASSUME NEW i \in Instances, NEW k \in Keys, GetOrInsertHit(i, k)
      PROVE OnceInv'
  BY <1>2, <1>0 DEF GetOrInsertHit, OnceInv, KeysInStore, SavedInView,
                    PendingMissed, SavedOncePerInstance
<1>3. ASSUME NEW i \in Instances, NEW k \in Keys, GetOrInsertMiss(i, k)
      PROVE OnceInv'
  BY <1>3, <1>0 DEF GetOrInsertMiss, GetIfPresent, OnceInv, KeysInStore,
                    SavedInView, PendingMissed, SavedOncePerInstance, TypeOK
<1>4. ASSUME NEW i \in Instances, GenerateOk(i) PROVE OnceInv'
  BY <1>4, <1>0 DEF GenerateOk, OnceInv, KeysInStore, SavedInView,
                    PendingMissed, SavedOncePerInstance, TypeOK
<1>5. ASSUME NEW i \in Instances, GenerateFail(i) PROVE OnceInv'
  BY <1>5, <1>0 DEF GenerateFail, OnceInv, KeysInStore, SavedInView,
                    PendingMissed, SavedOncePerInstance, TypeOK
<1>6. ASSUME NEW i \in Instances, SaveOk(i) PROVE OnceInv'
  BY <1>6, <1>0, SaveOkOnce
<1>7. ASSUME NEW i \in Instances, SaveFail(i) PROVE OnceInv'
  <2>1. \A kk \in Keys : store[kk] # NONE => store'[kk] # NONE
    BY <1>7, PatchKeepsKeys DEF OnceInv
  <2>2. UNCHANGED <<state, inserted>> /\ pc' = [pc EXCEPT ![i] = "idle"]
        /\ key' = [key EXCEPT ![i] = NONE]
    BY <1>7 DEF SaveFail
  <2>3. KeysInStore'
    BY <2>1, <2>2 DEF OnceInv, KeysInStore
  <2>4. SavedInView' /\ SavedOncePerInstance'
    BY <2>2 DEF OnceInv, SavedInView, SavedOncePerInstance
  <2>5. PendingMissed'
    BY <2>2 DEF OnceInv, PendingMissed, TypeOK
  <2>6. QED
    BY <1>0, <2>3, <2>4, <2>5 DEF OnceInv
<1>8. CASE UNCHANGED vars
  BY <1>8, <1>0 DEF vars, OnceInv, KeysInStore, SavedInView,
                    PendingMissed, SavedOncePerInstance
<1>9. QED
  BY <1>1, <1>2, <1>3, <1>4, <1>5, <1>6, <1>7, <1>8 DEF Next, Terminated

(* For every generator, idempotent or not: once a call of an instance has *)
(* saved a credential, the instance serves it from current_state and      *)
(* never generates and saves that key again.                               *)
THEOREM SavedOnce == Spec => []SavedOncePerInstance
<1>1. OnceInv => SavedOncePerInstance
  BY DEF OnceInv
<1>2. QED
  BY <1>1, InitOnce, NextOnce, PTL DEF Spec
=============================================================================
