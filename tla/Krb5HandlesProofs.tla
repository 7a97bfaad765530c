------------------------- MODULE Krb5HandlesProofs -------------------------
(***************************************************************************)
(* Proofs that the ownership discipline of the krb5/kadm5 wrapper holds   *)
(* for any number of wrapper values: no double free, no leak, and no live *)
(* value with a freed context or keyblock.                                 *)
(***************************************************************************)
EXTENDS Krb5Handles, TLAPS

Alive(h) == rust[h] = "live"

(* The kinds of value the lifetime of a value of kind k borrows: the      *)
(* context, except for a KeyDataVec (the server handle, by elision in     *)
(* get_principal_keys) and a KeyblockRef (its Keyblock or KeyDataVec).    *)
ParentKinds(k) ==
    IF k = "view" THEN {"keyblock", "keydata"}
    ELSE IF k = "keydata" THEN {"server"}
    ELSE {"ctx"}

(* A slot not yet used owns nothing and was never freed.                   *)
FreshSlots ==
    \A h \in Handles : rust[h] = "unused" => native[h] = "none" /\ frees[h] = 0

(* An allocation has been freed once exactly when it is freed.             *)
FreedOnce ==
    \A h \in Handles : frees[h] = IF native[h] = "freed" THEN 1 ELSE 0

(* The allocated memory is exactly that of the live owning values.         *)
OwnedByLive ==
    \A h \in Handles :
        native[h] = "allocated" <=> Alive(h) /\ kind[h] # "view"

(* The borrow of a live value is a live value of a parent kind.            *)
AnchorLive ==
    \A h \in Handles : Alive(h) /\ kind[h] # "ctx" =>
        /\ anchor[h] \in Handles
        /\ Alive(anchor[h])
        /\ kind[anchor[h]] \in ParentKinds(kind[h])

(* A live value uses the context of its anchor; a context is its own.     *)
CtxChain ==
    \A h \in Handles : Alive(h) =>
        ctxOf[h] = IF kind[h] = "ctx" THEN h ELSE ctxOf[anchor[h]]

(* A live view points into the value it borrows.                           *)
ViewTarget ==
    \A h \in Handles : Alive(h) /\ kind[h] = "view" => target[h] = anchor[h]

(* The inductive invariant: NoDanglingHandle alone is not inductive, since *)
(* dropping a context is only blocked by the values that borrow it        *)
(* directly; AnchorLive, the parent kinds and CtxChain say that every     *)
(* value reaches its context through at most three live borrows.          *)
IInv ==
    /\ TypeOK
    /\ FreshSlots
    /\ FreedOnce
    /\ OwnedByLive
    /\ AnchorLive
    /\ CtxChain
    /\ ViewTarget
    /\ transient = 0

-----------------------------------------------------------------------------

(* Before the program makes any value the invariant holds trivially.      *)
LEMMA InitIInv == Init => IInv
<1> SUFFICES ASSUME Init PROVE IInv
  OBVIOUS
<1>1. TypeOK
  BY DEF Init, TypeOK, NULL
<1>2. FreshSlots /\ FreedOnce /\ OwnedByLive
  BY DEF Init, FreshSlots, FreedOnce, OwnedByLive, Alive
<1>3. AnchorLive /\ CtxChain /\ ViewTarget
  BY DEF Init, AnchorLive, CtxChain, ViewTarget, Alive
<1> QED BY <1>1, <1>2, <1>3 DEF Init, IInv

(* Following the anchors of a live value, at most three steps, reaches a  *)
(* live context, and it is the value's context.                            *)
LEMMA CtxOfLive ==
    ASSUME IInv, NEW h \in Handles, Alive(h)
    PROVE  /\ ctxOf[h] \in Handles
           /\ Alive(ctxOf[h])
           /\ kind[ctxOf[h]] = "ctx"
<1> USE DEF IInv, Alive
<1>1. CASE kind[h] = "ctx"
  BY <1>1 DEF CtxChain
<1>2. CASE kind[h] \in {"realm", "principal", "salt", "keyblock", "keytab", "server"}
  <2>1. /\ anchor[h] \in Handles /\ Alive(anchor[h]) /\ kind[anchor[h]] = "ctx"
    BY <1>2 DEF AnchorLive, ParentKinds
  <2>2. ctxOf[anchor[h]] = anchor[h]
    BY <2>1 DEF CtxChain
  <2>3. ctxOf[h] = anchor[h]
    BY <1>2, <2>2 DEF CtxChain
  <2> QED BY <2>1, <2>3
<1>3. CASE kind[h] = "keydata"
  <2> DEFINE s == anchor[h]
  <2>1. /\ s \in Handles /\ Alive(s) /\ kind[s] = "server"
    BY <1>3 DEF AnchorLive, ParentKinds
  <2>2. /\ anchor[s] \in Handles /\ Alive(anchor[s]) /\ kind[anchor[s]] = "ctx"
    BY <2>1 DEF AnchorLive, ParentKinds
  <2>3. ctxOf[anchor[s]] = anchor[s]
    BY <2>2 DEF CtxChain
  <2>4. ctxOf[s] = anchor[s]
    BY <2>1, <2>3 DEF CtxChain
  <2>5. ctxOf[h] = anchor[s]
    BY <1>3, <2>4 DEF CtxChain
  <2> QED BY <2>2, <2>5
<1>4. CASE kind[h] = "view"
  <2> DEFINE a == anchor[h]
  <2>1. /\ a \in Handles /\ Alive(a) /\ kind[a] \in {"keyblock", "keydata"}
    BY <1>4 DEF AnchorLive, ParentKinds
  <2>2. ctxOf[h] = ctxOf[a]
    BY <1>4 DEF CtxChain
  <2>3. CASE kind[a] = "keyblock"
    <3>1. /\ anchor[a] \in Handles /\ Alive(anchor[a]) /\ kind[anchor[a]] = "ctx"
      BY <2>1, <2>3 DEF AnchorLive, ParentKinds
    <3>2. ctxOf[a] = anchor[a]
      BY <2>1, <2>3, <3>1 DEF CtxChain
    <3> QED BY <2>2, <3>1, <3>2
  <2>4. CASE kind[a] = "keydata"
    <3> DEFINE s == anchor[a]
    <3>1. /\ s \in Handles /\ Alive(s) /\ kind[s] = "server"
      BY <2>1, <2>4 DEF AnchorLive, ParentKinds
    <3>2. /\ anchor[s] \in Handles /\ Alive(anchor[s]) /\ kind[anchor[s]] = "ctx"
      BY <3>1 DEF AnchorLive, ParentKinds
    <3>3. ctxOf[s] = anchor[s]
      BY <3>1, <3>2 DEF CtxChain
    <3>4. ctxOf[a] = ctxOf[s]
      BY <2>1, <2>4 DEF CtxChain
    <3> QED BY <2>2, <3>2, <3>3, <3>4
  <2> QED BY <2>1, <2>3, <2>4
<1> QED BY <1>1, <1>2, <1>3, <1>4 DEF TypeOK, Kinds

(* A step that changes only the three flags keeps the invariant: the      *)
(* failed calls, Keytab::add, create_principal and the failures that make *)
(* nothing.                                                                *)
LEMMA FlagStep ==
    ASSUME IInv,
           UNCHANGED <<kind, rust, native, frees, anchor, ctxOf, target, transient>>,
           badFetch' \in BOOLEAN, mixed' \in BOOLEAN, panicked' \in BOOLEAN
    PROVE  IInv'
BY DEF IInv, TypeOK, FreshSlots, FreedOnce, OwnedByLive, AnchorLive, CtxChain,
       ViewTarget, Alive

(* A constructor that returns a value in the unused slot h keeps the      *)
(* invariant when the value borrows a live value of a parent kind and     *)
(* uses its context (a context uses itself, a view points into its anchor). *)
LEMMA CreateStep ==
    ASSUME IInv, NEW h \in Handles, rust[h] = "unused",
           NEW k \in Kinds, NEW anc \in Handles \cup {NULL},
           NEW c \in Handles \cup {NULL}, NEW tgt \in Handles \cup {NULL},
           k = "ctx" => c = h,
           k # "ctx" => /\ anc \in Handles /\ Alive(anc)
                        /\ kind[anc] \in ParentKinds(k) /\ c = ctxOf[anc],
           k = "view" => tgt = anc,
           Create(h, k, anc, c, tgt),
           UNCHANGED <<frees, transient>>,
           badFetch' \in BOOLEAN, mixed' \in BOOLEAN, panicked' \in BOOLEAN
    PROVE  IInv'
<1> USE DEF Create
<1>1. \A g \in Handles : Alive(g) => g # h
  BY DEF Alive
<1>2. \A g \in Handles : rust'[g] = "live" <=> Alive(g) \/ g = h
  BY DEF IInv, TypeOK, Alive
<1>3. TypeOK'
  BY DEF IInv, TypeOK, Kinds
<1>4. FreshSlots' /\ FreedOnce' /\ OwnedByLive'
  BY <1>2 DEF IInv, TypeOK, FreshSlots, FreedOnce, OwnedByLive, Alive
<1>5. AnchorLive'
  <2> SUFFICES ASSUME NEW g \in Handles, rust'[g] = "live", kind'[g] # "ctx"
               PROVE  /\ anchor'[g] \in Handles
                      /\ rust'[anchor'[g]] = "live"
                      /\ kind'[anchor'[g]] \in ParentKinds(kind'[g])
    BY DEF AnchorLive, Alive
  <2>1. CASE g = h
    BY <1>1, <1>2, <2>1 DEF IInv, TypeOK
  <2>2. CASE g # h
    <3>1. Alive(g) /\ anchor'[g] = anchor[g] /\ kind'[g] = kind[g]
      BY <1>2, <2>2 DEF IInv, TypeOK
    <3>2. anchor[g] \in Handles /\ Alive(anchor[g])
          /\ kind[anchor[g]] \in ParentKinds(kind[g])
      BY <3>1 DEF IInv, AnchorLive
    <3> QED BY <1>1, <1>2, <3>1, <3>2 DEF IInv, TypeOK
  <2> QED BY <2>1, <2>2
<1>6. CtxChain'
  <2> SUFFICES ASSUME NEW g \in Handles, rust'[g] = "live"
               PROVE  ctxOf'[g] = IF kind'[g] = "ctx" THEN g ELSE ctxOf'[anchor'[g]]
    BY DEF CtxChain, Alive
  <2>1. CASE g = h
    BY <1>1, <2>1 DEF IInv, TypeOK
  <2>2. CASE g # h
    <3>1. Alive(g) /\ anchor'[g] = anchor[g] /\ kind'[g] = kind[g]
          /\ ctxOf'[g] = ctxOf[g]
      BY <1>2, <2>2 DEF IInv, TypeOK
    <3>2. CASE kind[g] = "ctx"
      BY <3>1, <3>2 DEF IInv, CtxChain
    <3>3. CASE kind[g] # "ctx"
      <4>1. anchor[g] \in Handles /\ Alive(anchor[g])
        BY <3>1, <3>3 DEF IInv, AnchorLive
      <4>2. ctxOf'[anchor[g]] = ctxOf[anchor[g]]
        BY <1>1, <4>1 DEF IInv, TypeOK
      <4> QED BY <3>1, <3>3, <4>2 DEF IInv, CtxChain
    <3> QED BY <3>2, <3>3
  <2> QED BY <2>1, <2>2
<1>7. ViewTarget'
  BY <1>1, <1>2 DEF IInv, TypeOK, ViewTarget, Alive
<1> QED BY <1>3, <1>4, <1>5, <1>6, <1>7 DEF IInv

(* A keyblock made in the unused slot h and dropped by the early return   *)
(* of from_password keeps the invariant: it is freed once, and no live     *)
(* value borrows it.                                                       *)
LEMMA CreateDroppedStep ==
    ASSUME IInv, NEW h \in Handles, rust[h] = "unused",
           NEW c \in Handles \cup {NULL},
           CreateDropped(h, "keyblock", c),
           UNCHANGED transient,
           badFetch' \in BOOLEAN, mixed' \in BOOLEAN, panicked' \in BOOLEAN
    PROVE  IInv'
<1> USE DEF CreateDropped
<1>1. \A g \in Handles : Alive(g) => g # h
  BY DEF Alive
<1>2. \A g \in Handles : rust'[g] = "live" <=> Alive(g)
  BY DEF IInv, TypeOK, Alive
<1>3. TypeOK'
  BY DEF IInv, TypeOK, Kinds
<1>4. FreshSlots' /\ FreedOnce' /\ OwnedByLive'
  BY <1>2 DEF IInv, TypeOK, FreshSlots, FreedOnce, OwnedByLive, Alive
<1>5. AnchorLive' /\ CtxChain' /\ ViewTarget'
  BY <1>1, <1>2 DEF IInv, TypeOK, AnchorLive, CtxChain, ViewTarget, Alive
<1> QED BY <1>3, <1>4, <1>5 DEF IInv

(* Dropping a live value that no live value borrows keeps the invariant:  *)
(* its allocation, if any, is freed for the first time, and every value   *)
(* that stays live still has its anchor.                                   *)
LEMMA DropStep ==
    ASSUME IInv, NEW h \in Handles, Drop(h)
    PROVE  IInv'
<1> USE DEF Drop, Release
<1>1. \A g \in Handles : rust'[g] = "live" <=> Alive(g) /\ g # h
  BY DEF IInv, TypeOK, Alive
<1>2. \A g \in Handles : Alive(g) /\ g # h => anchor[g] # h
  BY DEF Alive
<1>3. TypeOK'
  <2>1. panicked' \in BOOLEAN
    BY DEF IInv, TypeOK
  <2>2. rust' \in [Handles -> {"unused", "live", "dropped"}]
        /\ native' \in [Handles -> {"none", "allocated", "freed"}]
        /\ frees' \in [Handles -> Nat]
    BY DEF IInv, TypeOK
  <2>3. \A g \in Handles : (rust'[g] = "unused") <=> (kind'[g] = "none")
    BY DEF IInv, TypeOK
  <2>4. \A g \in Handles : (native'[g] = "none") <=> (kind'[g] \in {"none", "view"})
    BY DEF IInv, TypeOK
  <2> QED BY <2>1, <2>2, <2>3, <2>4 DEF IInv, TypeOK
<1>4. FreshSlots' /\ FreedOnce'
  BY DEF IInv, TypeOK, FreshSlots, FreedOnce
<1>5. OwnedByLive'
  BY <1>1 DEF IInv, TypeOK, OwnedByLive, Alive
<1>6. AnchorLive'
  BY <1>1, <1>2 DEF IInv, TypeOK, AnchorLive, Alive
<1>7. CtxChain' /\ ViewTarget'
  BY <1>1 DEF IInv, TypeOK, CtxChain, ViewTarget, Alive
<1> QED BY <1>3, <1>4, <1>5, <1>6, <1>7 DEF IInv

(* A constructor that borrows the live context c and uses it.              *)
LEMMA CtxChildStep ==
    ASSUME IInv, NEW h \in Handles, NEW c \in Handles, Unused(h), Live(c, "ctx"),
           NEW k \in Kinds \ {"ctx", "view", "keydata"},
           Create(h, k, c, c, h),
           UNCHANGED <<frees, transient>>,
           badFetch' \in BOOLEAN, mixed' \in BOOLEAN, panicked' \in BOOLEAN
    PROVE  IInv'
<1>1. ctxOf[c] = c
  BY DEF IInv, CtxChain, Live, Alive
<1> QED BY <1>1, CreateStep DEF Unused, Live, Alive, ParentKinds, NULL

(* Every step of the wrapper's API keeps the invariant.                    *)
LEMMA NextIInv == IInv /\ [Next]_vars => IInv'
<1> SUFFICES ASSUME IInv, [Next]_vars PROVE IInv'
  OBVIOUS
<1>0. ASSUME NEW call, NEW fetch, Fail(call, fetch),
             UNCHANGED <<mixed, panicked>>
      PROVE  IInv'
  BY <1>0, FlagStep DEF Fail, IInv, TypeOK
<1>1. ASSUME NEW h \in Handles, ContextNew(h) PROVE IInv'
  <2>1. CASE Create(h, "ctx", NULL, h, h) /\ Made
    BY <1>1, <2>1, CreateStep DEF ContextNew, Unused, Made, Kinds, NULL, IInv, TypeOK
  <2> QED BY <1>1, <2>1, <1>0 DEF ContextNew
<1>2. ASSUME NEW h \in Handles, NEW a \in Handles,
             \/ ParsePrincipalName(a, h) \/ DefaultRealm(a, h)
             \/ KeyblockNew(a, h) \/ KeytabResolve(a, h) \/ ServerNew(a, h)
      PROVE  IInv'
  <2>1. ASSUME NEW k \in {"principal", "realm", "keyblock", "keytab", "server"},
               Live(a, "ctx"), Unused(h), Create(h, k, a, a, h) /\ Made
        PROVE  IInv'
    BY <2>1, CtxChildStep DEF Made, Kinds, IInv, TypeOK
  <2>2. CASE UNCHANGED vars
    BY <2>2, FlagStep DEF vars, IInv, TypeOK
  <2> QED BY <1>2, <2>1, <2>2, <1>0
          DEF ParsePrincipalName, DefaultRealm, KeyblockNew, KeytabResolve, ServerNew
<1>3. ASSUME NEW h \in Handles, NEW p \in Handles, DefaultSalt(p, h) PROVE IInv'
  <2>1. /\ ctxOf[p] \in Handles /\ Alive(ctxOf[p]) /\ kind[ctxOf[p]] = "ctx"
    BY <1>3, CtxOfLive DEF DefaultSalt, Live, Alive
  <2>2. ctxOf[ctxOf[p]] = ctxOf[p]
    BY <2>1 DEF IInv, CtxChain, Alive
  <2>3. CASE Create(h, "salt", ctxOf[p], ctxOf[p], h) /\ Made
    BY <1>3, <2>1, <2>2, <2>3, CreateStep
       DEF DefaultSalt, Unused, Made, Kinds, ParentKinds, IInv, TypeOK
  <2> QED BY <1>3, <2>3, <1>0 DEF DefaultSalt
<1>4. ASSUME NEW h \in Handles, NEW a \in Handles,
             \/ KeyblockAsRef(a, h) \/ KeyDataKeys(a, h)
      PROVE  IInv'
  <2>1. /\ Alive(a) /\ kind[a] \in {"keyblock", "keydata"}
        /\ Unused(h) /\ Create(h, "view", a, ctxOf[a], a) /\ Made
    BY <1>4 DEF KeyblockAsRef, KeyDataKeys, Live, Alive
  <2>2. ctxOf[a] \in Handles
    BY <2>1, CtxOfLive
  <2> QED BY <2>1, <2>2, CreateStep DEF Unused, Made, Kinds, ParentKinds, IInv, TypeOK
<1>5. ASSUME NEW h \in Handles, NEW a \in Handles, NEW b \in Handles,
             KeyblockFromPassword(a, b, h)
      PROVE  IInv'
  <2>1. CASE Create(h, "keyblock", a, a, h)
             /\ UNCHANGED <<frees, transient, badFetch, panicked>>
    BY <1>5, <2>1, CtxChildStep DEF KeyblockFromPassword, Kinds, IInv, TypeOK
  <2>2. CASE CreateDropped(h, "keyblock", a)
             /\ UNCHANGED <<transient, badFetch, panicked>>
    BY <1>5, <2>2, CreateDroppedStep DEF KeyblockFromPassword, Unused, IInv, TypeOK
  <2>3. CASE Fail(a, a) /\ UNCHANGED panicked
    BY <1>5, <2>3, FlagStep DEF KeyblockFromPassword, Fail, IInv, TypeOK
  <2> QED BY <1>5, <2>1, <2>2, <2>3 DEF KeyblockFromPassword
<1>6. ASSUME NEW h \in Handles, NEW a \in Handles, NEW b \in Handles,
             GetPrincipalKeys(a, b, h)
      PROVE  IInv'
  <2>1. CASE Create(h, "keydata", a, ctxOf[a], h)
             /\ UNCHANGED <<frees, transient, badFetch, panicked>>
    <3>1. ctxOf[a] \in Handles
      BY <1>6, CtxOfLive DEF GetPrincipalKeys, Live, Alive
    <3> QED BY <1>6, <2>1, <3>1, CreateStep
            DEF GetPrincipalKeys, Unused, Live, Alive, Kinds, ParentKinds, IInv, TypeOK
  <2>2. CASE UNCHANGED <<kind, rust, native, frees, anchor, ctxOf, target,
                         transient, badFetch, panicked>>
    BY <1>6, <2>2, FlagStep DEF GetPrincipalKeys, IInv, TypeOK
  <2> QED BY <1>6, <2>1, <2>2 DEF GetPrincipalKeys
<1>7. ASSUME NEW h \in Handles, NEW a \in Handles, NEW b \in Handles,
             \/ KeytabAdd(a, b, h) \/ CreatePrincipal(a, h)
      PROVE  IInv'
  BY <1>7, FlagStep DEF KeytabAdd, CreatePrincipal, IInv, TypeOK
<1>8. ASSUME NEW h \in Handles, Unparse(h) PROVE IInv'
  <2>1. CASE UNCHANGED vars
    BY <2>1, FlagStep DEF vars, IInv, TypeOK
  <2> QED BY <1>8, <2>1, <1>0 DEF Unparse
<1>9. ASSUME NEW h \in Handles, Drop(h) PROVE IInv'
  BY <1>9, DropStep
<1>10. CASE Terminated \/ UNCHANGED vars
  BY <1>10, FlagStep DEF Terminated, vars, IInv, TypeOK
<1> QED BY <1>1, <1>2, <1>3, <1>4, <1>5, <1>6, <1>7, <1>8, <1>9, <1>10 DEF Next

(* The ownership invariant holds in every state of every behaviour.       *)
LEMMA InvariantHolds == Spec => []IInv
BY InitIInv, NextIInv, PTL DEF Spec

(* Every reachable state is typed; a KeyblockRef or KeyDataRef never owns *)
(* native memory, and every other value does once made.                   *)
THEOREM TypeCorrect == Spec => []TypeOK
<1>1. IInv => TypeOK
  BY DEF IInv
<1> QED BY <1>1, InvariantHolds, PTL

(* A live wrapper value never calls libkrb5 with a freed context, and a   *)
(* live KeyblockRef never points into a freed keyblock or key vector: the *)
(* lifetimes in the source (elision in get_principal_keys, 'b in as_ref,  *)
(* 'a in keys and default_salt) keep them alive.                          *)
THEOREM NoUseAfterFree == Spec => []NoDanglingHandle
<1>1. IInv => NoDanglingHandle
  <2> SUFFICES ASSUME IInv, NEW h \in Handles, rust[h] = "live"
               PROVE  /\ native[ctxOf[h]] = "allocated"
                      /\ kind[h] = "view" => native[target[h]] = "allocated"
    BY DEF NoDanglingHandle
  <2>1. ctxOf[h] \in Handles /\ Alive(ctxOf[h]) /\ kind[ctxOf[h]] = "ctx"
    BY CtxOfLive DEF Alive
  <2>2. native[ctxOf[h]] = "allocated"
    BY <2>1 DEF IInv, OwnedByLive
  <2>3. ASSUME kind[h] = "view" PROVE native[target[h]] = "allocated"
    <3>1. target[h] = anchor[h] /\ anchor[h] \in Handles /\ Alive(anchor[h])
          /\ kind[anchor[h]] \in {"keyblock", "keydata"}
      BY <2>3 DEF IInv, ViewTarget, AnchorLive, ParentKinds, Alive
    <3> QED BY <3>1 DEF IInv, OwnedByLive
  <2> QED BY <2>2, <2>3
<1> QED BY <1>1, InvariantHolds, PTL

====
