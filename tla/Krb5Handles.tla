---------------------------- MODULE Krb5Handles ----------------------------
(***************************************************************************)
(* The ownership model of the libkrb5 / libkadm5 wrapper                   *)
(* (rust/krb5/src/lib.rs, rust/krb5/src/kadm5.rs).                         *)
(*                                                                         *)
(* Every wrapper value owns one native allocation and frees it in Drop;    *)
(* it holds a Rust borrow (its lifetime parameter) of an `anchor` value,   *)
(* which the borrow checker keeps alive and in place as long as the        *)
(* wrapper lives.  What the value really needs alive is different: the     *)
(* context whose raw pointer it passes to every call (`ctxOf`) and, for a  *)
(* KeyblockRef view, the allocation its raw pointer points into            *)
(* (`target`).  The model keeps both relations apart, so that a lifetime   *)
(* that is too long shows up as a dangling pointer.                        *)
(*                                                                         *)
(* A slot of Handles is one wrapper value; its native memory is abstracted *)
(* to allocated / freed.  Transient native buffers (unparsed names, error  *)
(* messages) are counted in `transient`.                                   *)
(***************************************************************************)
EXTENDS Naturals, FiniteSets

CONSTANT
    N         \* number of slots for wrapper values

ASSUME NAssumption == N \in Nat

(* Slot ids; a constructor takes the lowest unused slot, which removes    *)
(* the states that differ only by the naming of values.                    *)
Handles == 1..N

(* The null context pointer / "no anchor".                                 *)
NULL == 0

(* The wrapper types.  "view" is KeyblockRef, the only value that owns     *)
(* no native memory.                                                       *)
Kinds == {"ctx", "realm", "principal", "salt", "keyblock", "keytab",
          "server", "keydata", "view"}

VARIABLES
    kind,       \* kind[h]: the wrapper type of slot h, "none" if unused
    rust,       \* rust[h]: "unused", "live" or "dropped" (Rust value state)
    native,     \* native[h]: "none", "allocated" or "freed"
    frees,      \* frees[h]: native free calls made on h's allocation
    anchor,     \* anchor[h]: the value h borrows (its lifetime), or NULL
    ctxOf,      \* ctxOf[h]: the KrbContext whose raw pointer h uses
    target,     \* target[h]: the allocation h's raw pointer points into
    transient,  \* transient native buffers allocated and not yet freed
    badFetch,   \* a failed call's message was fetched with another context
    mixed,      \* some call was given values of two different contexts
    panicked    \* a Drop panicked (unwrap/expect on a teardown error)

vars == <<kind, rust, native, frees, anchor, ctxOf, target, transient,
          badFetch, mixed, panicked>>

TypeOK ==
    /\ kind \in [Handles -> Kinds \cup {"none"}]
    /\ rust \in [Handles -> {"unused", "live", "dropped"}]
    /\ native \in [Handles -> {"none", "allocated", "freed"}]
    /\ frees \in [Handles -> Nat]
    /\ anchor \in [Handles -> Handles \cup {NULL}]
    /\ ctxOf \in [Handles -> Handles \cup {NULL}]
    /\ target \in [Handles -> Handles \cup {NULL}]
    /\ transient \in Nat
    /\ badFetch \in BOOLEAN
    /\ mixed \in BOOLEAN
    /\ panicked \in BOOLEAN
    /\ \A h \in Handles : (rust[h] = "unused") <=> (kind[h] = "none")
    /\ \A h \in Handles : (native[h] = "none") <=> (kind[h] \in {"none", "view"})

Init ==
    /\ kind = [h \in Handles |-> "none"]
    /\ rust = [h \in Handles |-> "unused"]
    /\ native = [h \in Handles |-> "none"]
    /\ frees = [h \in Handles |-> 0]
    /\ anchor = [h \in Handles |-> NULL]
    /\ ctxOf = [h \in Handles |-> NULL]
    /\ target = [h \in Handles |-> NULL]
    /\ transient = 0
    /\ badFetch = FALSE
    /\ mixed = FALSE
    /\ panicked = FALSE

Live(h, k) == rust[h] = "live" /\ kind[h] = k
Unused(h) == rust[h] = "unused" /\ \A g \in 1..(h - 1) : rust[g] # "unused"

(* The values a call is given belong to more than one context.             *)
Mixes(hs) == \E a, b \in hs : ctxOf[a] # ctxOf[b]

-----------------------------------------------------------------------------
(* Helpers for the three outcomes of a constructor.                        *)

(* Mutant: every wrapper value, KeyblockRef included, treated as owning.  *)
CreateOwning(h, k, anc, c, tgt) ==
    /\ kind' = [kind EXCEPT ![h] = k]
    /\ rust' = [rust EXCEPT ![h] = "live"]
    /\ native' = [native EXCEPT ![h] = "allocated"]
    /\ anchor' = [anchor EXCEPT ![h] = anc]
    /\ ctxOf' = [ctxOf EXCEPT ![h] = c]
    /\ target' = [target EXCEPT ![h] = tgt]

(* A wrapper value `Self { ctx, raw }` is returned: slot h now owns the    *)
(* allocation the native call made (views own none).                       *)
Create(h, k, anc, c, tgt) ==
    /\ kind' = [kind EXCEPT ![h] = k]
    /\ rust' = [rust EXCEPT ![h] = "live"]
    /\ native' = [native EXCEPT ![h] = IF k = "view" THEN "none" ELSE "allocated"]
    /\ anchor' = [anchor EXCEPT ![h] = anc]
    /\ ctxOf' = [ctxOf EXCEPT ![h] = c]
    /\ target' = [target EXCEPT ![h] = tgt]

(* Error::from_call_result on a non-zero code (lib.rs 39-60): the message  *)
(* is fetched with `fetch` (a context or NULL) and freed at once.          *)
Fail(call, fetch) ==
    /\ badFetch' = (badFetch \/ fetch # call)
    /\ UNCHANGED <<kind, rust, native, frees, anchor, ctxOf, target, transient>>

(* The value in slot h is dropped: Drop frees its allocation.              *)
Release(h) ==
    /\ rust' = [rust EXCEPT ![h] = "dropped"]
    /\ native' = [native EXCEPT ![h] = IF @ = "allocated" THEN "freed" ELSE @]
    /\ frees' = [frees EXCEPT ![h] = IF native[h] = "allocated" THEN @ + 1 ELSE @]

(* A constructor that allocated and then failed: the value it had built  *)
(* is dropped by `?`, so its allocation is freed once.                     *)
CreateDropped(h, k, c) ==
    /\ kind' = [kind EXCEPT ![h] = k]
    /\ rust' = [rust EXCEPT ![h] = "dropped"]
    /\ native' = [native EXCEPT ![h] = "freed"]
    /\ frees' = [frees EXCEPT ![h] = 1]
    /\ anchor' = [anchor EXCEPT ![h] = c]
    /\ ctxOf' = [ctxOf EXCEPT ![h] = c]
    /\ target' = [target EXCEPT ![h] = h]

Made == UNCHANGED <<frees, transient, badFetch, mixed, panicked>>

-----------------------------------------------------------------------------
(* KrbContext::new and KrbContext::from_profile (lib.rs 80-97): an error   *)
(* during init fetches its message without a context.                      *)
ContextNew(h) ==
    /\ ~panicked
    /\ Unused(h)
    /\ \/ Create(h, "ctx", NULL, h, h) /\ Made
       \/ Fail(NULL, NULL) /\ UNCHANGED <<mixed, panicked>>

(* KrbContext::parse_principal_name (lib.rs 103-115).  On failure the      *)
(* message is fetched with `None` although the call was made on c.         *)
ParsePrincipalName(c, h) ==
    /\ ~panicked
    /\ Live(c, "ctx") /\ Unused(h)
    /\ \/ Create(h, "principal", c, c, h) /\ Made
       \/ Fail(c, NULL) /\ UNCHANGED <<mixed, panicked>>

(* KrbContext::default_realm (lib.rs 118-130).                             *)
DefaultRealm(c, h) ==
    /\ ~panicked
    /\ Live(c, "ctx") /\ Unused(h)
    /\ \/ Create(h, "realm", c, c, h) /\ Made
       \/ Fail(c, c) /\ UNCHANGED <<mixed, panicked>>

(* Principal::default_salt (lib.rs 169-181): the KrbData<'a> borrows the   *)
(* context, not the principal.                                             *)
DefaultSalt(p, h) ==
    /\ ~panicked
    /\ Live(p, "principal") /\ Unused(h)
    /\ \/ Create(h, "salt", ctxOf[p], ctxOf[p], h) /\ Made
       \/ Fail(ctxOf[p], ctxOf[p]) /\ UNCHANGED <<mixed, panicked>>

(* Principal::unparse (lib.rs 186-205): the unparsed name is copied into a *)
(* String and freed before returning.                                      *)
Unparse(p) ==
    /\ ~panicked
    /\ Live(p, "principal")
    /\ \/ UNCHANGED vars
       \/ Fail(ctxOf[p], ctxOf[p]) /\ UNCHANGED <<mixed, panicked>>

(* Keyblock::new (lib.rs 277-293).  contents_mut cannot fail here: the     *)
(* u32 length always fits a usize on the 64-bit targets the crate builds.  *)
KeyblockNew(c, h) ==
    /\ ~panicked
    /\ Live(c, "ctx") /\ Unused(h)
    /\ \/ Create(h, "keyblock", c, c, h) /\ Made
       \/ Fail(c, c) /\ UNCHANGED <<mixed, panicked>>

(* Keyblock::from_password (lib.rs 300-331): Keyblock::new(ctx, 0), then   *)
(* the password length conversion (StringTooLong), then string_to_key;    *)
(* the two later errors drop the keyblock already made (the message of a   *)
(* string_to_key error is fetched with ctx).                               *)
KeyblockFromPassword(c, s, h) ==
    /\ ~panicked
    /\ Live(c, "ctx") /\ Live(s, "salt") /\ Unused(h)
    /\ mixed' = (mixed \/ Mixes({c, s}))
    /\ \/ Create(h, "keyblock", c, c, h)
          /\ UNCHANGED <<frees, transient, badFetch, panicked>>
       \/ Fail(c, c) /\ UNCHANGED panicked
       \/ CreateDropped(h, "keyblock", c)
          /\ UNCHANGED <<transient, badFetch, panicked>>

(* Mutant: as_ref returning a KeyblockRef<'ctx> tied to the context.     *)
KeyblockAsRefCtxLifetime(kb, h) ==
    /\ ~panicked
    /\ Live(kb, "keyblock") /\ Unused(h)
    /\ Create(h, "view", ctxOf[kb], ctxOf[kb], kb)
    /\ Made

(* Keyblock::as_ref<'b>(&'b self) (lib.rs 354-359): a KeyblockRef that     *)
(* borrows the keyblock and points at its krb5_keyblock.                   *)
KeyblockAsRef(kb, h) ==
    /\ ~panicked
    /\ Live(kb, "keyblock") /\ Unused(h)
    /\ Create(h, "view", kb, ctxOf[kb], kb)
    /\ Made

(* Keytab::resolve (lib.rs 389-395).                                       *)
KeytabResolve(c, h) ==
    /\ ~panicked
    /\ Live(c, "ctx") /\ Unused(h)
    /\ \/ Create(h, "keytab", c, c, h) /\ Made
       \/ Fail(c, c) /\ UNCHANGED <<mixed, panicked>>

(* Keytab::add (lib.rs 398-415): krb5_kt_add_entry copies the entry built  *)
(* from the principal and a shallow copy of the keyblock; the message of  *)
(* an error is fetched with the keytab's context.                          *)
KeytabAdd(kt, p, v) ==
    /\ ~panicked
    /\ Live(kt, "keytab") /\ Live(p, "principal") /\ Live(v, "view")
    /\ mixed' = (mixed \/ Mixes({kt, p, v}))
    /\ UNCHANGED <<kind, rust, native, frees, anchor, ctxOf, target,
                   transient, badFetch, panicked>>

(* ServerHandle::new (kadm5.rs 92-123): kadm5_init_with_skey; a kadm5     *)
(* error carries only its code.                                            *)
ServerNew(c, h) ==
    /\ ~panicked
    /\ Live(c, "ctx") /\ Unused(h)
    /\ \/ Create(h, "server", c, c, h) /\ Made
       \/ UNCHANGED vars

(* ServerHandle::create_principal (kadm5.rs 126-138).                      *)
CreatePrincipal(s, p) ==
    /\ ~panicked
    /\ Live(s, "server") /\ Live(p, "principal")
    /\ mixed' = (mixed \/ Mixes({s, p}))
    /\ UNCHANGED <<kind, rust, native, frees, anchor, ctxOf, target,
                   transient, badFetch, panicked>>

(* ServerHandle::get_principal_keys (kadm5.rs 143-164): by lifetime        *)
(* elision the KeyDataVec borrows the server handle (&self).               *)
GetPrincipalKeys(s, p, h) ==
    /\ ~panicked
    /\ Live(s, "server") /\ Live(p, "principal") /\ Unused(h)
    /\ mixed' = (mixed \/ Mixes({s, p}))
    /\ \/ Create(h, "keydata", s, ctxOf[s], h)
          /\ UNCHANGED <<frees, transient, badFetch, panicked>>
       \/ UNCHANGED <<kind, rust, native, frees, anchor, ctxOf, target,
                      transient, badFetch, panicked>>

(* KeyDataVec::keys<'a>(&'a self) (kadm5.rs 192-215): each KeyDataRef's   *)
(* keyblock points into the vector and borrows it.                         *)
KeyDataKeys(kd, h) ==
    /\ ~panicked
    /\ Live(kd, "keydata") /\ Unused(h)
    /\ Create(h, "view", kd, ctxOf[kd], kd)
    /\ Made

(* Drop of a value no other live value borrows (the borrow checker's      *)
(* rule).  KrbContext, DefaultRealm, Principal, Keyblock and KrbData free *)
(* their memory (lib.rs 132-138, 154-158, 207-213, 361-367, 446-450); a    *)
(* KeyblockRef frees nothing.  Keytab (lib.rs 417-427), ServerHandle       *)
(* (kadm5.rs 166-173) and KeyDataVec (kadm5.rs 217-224) panic when the     *)
(* native teardown reports an error.                                       *)
Drop(h) ==
    /\ ~panicked
    /\ rust[h] = "live"
    /\ ~\E g \in Handles : rust[g] = "live" /\ anchor[g] = h
    /\ Release(h)
    /\ \/ UNCHANGED panicked
       \/ /\ kind[h] \in {"keytab", "server", "keydata"}
          /\ panicked' = TRUE
    /\ UNCHANGED <<kind, anchor, ctxOf, target, transient, badFetch, mixed>>

(* The program has dropped every value, or a Drop panicked.                *)
Terminated ==
    /\ panicked \/ \A h \in Handles : rust[h] = "dropped"
    /\ UNCHANGED vars

Next ==
    \/ \E h \in Handles :
          \/ ContextNew(h)
          \/ Drop(h)
          \/ \E a \in Handles :
                \/ ParsePrincipalName(a, h)
                \/ DefaultRealm(a, h)
                \/ DefaultSalt(a, h)
                \/ KeyblockNew(a, h)
                \/ KeyblockAsRef(a, h)
                \/ KeytabResolve(a, h)
                \/ ServerNew(a, h)
                \/ KeyDataKeys(a, h)
                \/ CreatePrincipal(a, h)
                \/ \E b \in Handles :
                      \/ KeyblockFromPassword(a, b, h)
                      \/ KeytabAdd(a, b, h)
                      \/ GetPrincipalKeys(a, b, h)
          \/ Unparse(h)
    \/ Terminated

Spec == Init /\ [][Next]_vars

-----------------------------------------------------------------------------
(***************************************************************************)
(* Properties                                                              *)
(***************************************************************************)

(* No live wrapper value holds a dangling pointer: the context it passes  *)
(* to libkrb5, and the allocation a KeyblockRef points into, are still    *)
(* allocated whatever order the program drops its values in.               *)
NoDanglingHandle ==
    \A h \in Handles : rust[h] = "live" =>
        /\ native[ctxOf[h]] = "allocated"
        /\ kind[h] = "view" => native[target[h]] = "allocated"

(* The SAFETY comment of Error::from_call_result (lib.rs 36-38): the       *)
(* message of a failed call is fetched with the context the call was made *)
(* on, and with no context only for an error of context init.              *)
ErrorMessageFromCallContext == ~badFetch

(* The doc comment of KrbContext (lib.rs 70-71): values of one context    *)
(* are never mixed with values of another in a call.                       *)
NoContextMixing == ~mixed

(* The design's error policy (spec section 7): the only teardown failure  *)
(* that ends the process is that of the kadmin session (the expect in     *)
(* ServerHandle's Drop, kadm5.rs 166-171); a failure to close a keytab or *)
(* to free a key vector is an ordinary error.                             *)
OnlySessionTeardownFatal ==
    [][~panicked /\ panicked' =>
         \E h \in Handles : /\ rust[h] = "live" /\ rust'[h] = "dropped"
                           /\ kind[h] = "server"]_vars

=============================================================================
