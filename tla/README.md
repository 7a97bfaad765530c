# Verification of the secret-operator Kerberos core

This directory holds TLA+ models of the parts of the repository (under `src/`)
whose correctness depends on ordering, ownership and concurrency. It also holds
the TLC configurations that check those models on small instances, and TLAPS
proofs that some of the properties hold for every value of the constants.

## 1. The system and its parts

| Part | Source | What it does |
|---|---|---|
| krb5 wrapper | `src/rust/krb5/src/lib.rs` | Safe Rust types over libkrb5 handles: `KrbContext`, `Principal`, `DefaultRealm`, `KrbData` (salt), `Keyblock`, `KeyblockRef`, `Keytab`. Each value owns one native allocation and frees it in `Drop`. |
| kadm5 session | `src/rust/krb5/src/kadm5.rs` | `ServerHandle` (an authenticated kadmin session), `create_principal`, `get_principal_keys` returning a `KeyDataVec`, and `KeyDataRef` views into it. |
| Credential cache | `src/rust/krb5-provision-keytab/src/credential_cache.rs` | A lock-free cache of generated credentials, kept in a Kubernetes Secret shared by every provisioning process. Each instance holds its own copy of the Secret's data. |
| CSI node service | `src/src/main.rs` | The gRPC volume service: `node_publish_volume` writes a secret's files under the target path, and `node_unpublish_volume` removes them. |

How they interact: krb5-provision-keytab opens a `KrbContext` and a
`ServerHandle`, then calls the credential cache's `get_or_insert` for every
principal. Its generator creates the principal over kadm5 and derives or fetches
its keys. The results go into a `Keytab`. The CSI node service publishes the
resulting files into the pod's volume.

## 2. Modules

### `CredentialCache.tla`: the credential cache

The state:
- `store` is the backing Secret's data on the API server.
- `state[i]` is instance *i*'s `current_state`.
- `pc`, `key`, `val` and `calls` are where *i*'s `get_or_insert` call is.
- `result` and `inserted` are history variables for the properties.

Data is abstracted: a credential is a model value, and a data map is a total
function `Keys -> Values ∪ {NONE}`. `Gen[k]` is the set of values a generator
call for key `k` may return. When every `Gen[k]` has one element, the generator
is idempotent, which is the caller obligation in the doc comment at lines 72-75.

Actions (lines of `credential_cache.rs`):

| Action | Lines | What it models |
|---|---|---|
| `New` | 46-64 | The initial `get`; on failure the instance is gone (`GetInitialCache`). |
| `GetOrInsertHit` | 79-94 | The key is found in the instance's own `current_state`. |
| `GetOrInsertMiss` | 95-102 | The key is absent, so the generator is called. |
| `GenerateOk` / `GenerateFail` | 97-104, 132-141 | The generator's outcome. A failure is not cached. |
| `SaveOk` | 103-131 | The merge patch (`MergePatch`), then `current_state` := the response, then the lookup again (`SavedKeyNotFound` if absent). |
| `SaveFail` | 105-124 | The patch returns an error. It may or may not have been applied on the server (a timeout after the server committed it); `current_state` is left unchanged. |

Instances interleave at the two awaits (generator and patch). The calls of one
instance are sequential, because `get_or_insert` takes `&mut self`.

`ret[i]` records what *i*'s last call returned: the bytes, or `NONE` for an
error. It is what the caller sees, and it is mapped onto the abstract
specification below.

### `CredentialStore.tla`: what the cache promises

This is the abstract write-once store that the doc comment of `get_or_insert`
(lines 70-78) describes. It has no views, generators or patches. Each call is
one atomic step:
- `Lookup(i, k)` returns the stored credential;
- `Insert(i, k)` stores a generated credential for an absent key and returns it;
- `Fail(i)` returns an error, and may still have stored a generated credential
  for an absent key.

`CredentialCache` instantiates it as
`Abstract == INSTANCE CredentialStore WITH cred <- store, answer <- ret`.
`ImplementsCredentialStore == Abstract!Spec` is then checked as a property.
The refinement mapping sends each step as follows:
- a hit goes to `Lookup`;
- `SaveOk` goes to `Lookup` if the key was already in the Secret, and to
  `Insert` otherwise;
- `SaveFail` and `GenerateFail` go to `Fail`;
- every other step is a stutter.

### `Krb5Handles.tla`: krb5 wrapper and kadm5 session

A slot of `Handles` (`1..N`) is one wrapper value. Each slot has:
- `kind`: its Rust type;
- `rust`: its Rust state (unused, live or dropped);
- `native`: its native allocation (none, allocated or freed);
- `frees`: the number of free calls made on it.

The model keeps two relations apart:
- `anchor[h]` is what the value *borrows*: its lifetime parameter, which the
  borrow checker keeps alive.
- `ctxOf[h]` and `target[h]` are what the value *needs alive*: the context whose
  raw pointer it passes to libkrb5, and, for a `KeyblockRef`, the allocation its
  pointer points into.

`Drop(h)` is enabled only when no live value is anchored to `h`, which is the
borrow checker's rule. A lifetime chosen wrong in the source therefore shows up
as a live value whose `ctxOf` or `target` is freed.

Actions:
- `ContextNew`, `ParsePrincipalName`, `DefaultRealm`, `DefaultSalt`, `Unparse`,
  `KeyblockNew`, `KeyblockFromPassword`, `KeyblockAsRef`, `KeytabResolve`,
  `KeytabAdd` (lib.rs).
- `ServerNew`, `CreatePrincipal`, `GetPrincipalKeys`, `KeyDataKeys` (kadm5.rs).
- `Drop`, for every type.

Each constructor has its error path. `Fail` models `Error::from_call_result`:
the message is fetched with some context and freed at once. `CreateDropped`
models a constructor that has already allocated and then returns early, as
`from_password` does after `Keyblock::new`. A `Drop` of `Keytab`,
`ServerHandle` or `KeyDataVec` may panic (the `unwrap`/`expect` on teardown).

Lifetimes follow the source, including elision:
- `default_salt` returns `KrbData<'a>` tied to the context.
- `as_ref<'b>` ties the view to the keyblock.
- `get_principal_keys(&self, ..)` ties the `KeyDataVec` to the server handle.
- `keys<'a>(&'a self)` ties each `KeyDataRef` to the vector.

`Keyblock::new`'s `contents_mut` failure is left out: it needs a `u32` that does
not fit in a `usize`, which cannot happen on the 64-bit targets.

### `CsiNode.tla`: the CSI node service

The model covers one target path, driven by the kubelet. The file system is
abstracted to two things:
- `dir`: the target directory exists;
- `files[f]`: each secret key's file at the path, which is `absent`, `empty`
  (created or truncated, its bytes not there) or `written`.

tonic runs each request in a task of its own. `Slots` are those tasks. For each
slot there is:
- `pc[s]`, the await the handler is at;
- `todo[s]`, the keys still to write;
- `cur[s]`, the key being written;
- `result[s]` and `msg[s]`, the answer and its Status message;
- `linked[s]`, whether the file the slot created is still the one at its path
  (no `remove_dir_all` has unlinked it since).

`pending[f]` counts the writes of key `f` that have been handed to tokio's
blocking pool and have not landed yet.

Actions (lines of `src/src/main.rs`):

| Action | Lines | What it models |
|---|---|---|
| `Fetch` | 168-185 | `node_publish_volume`: `backend.get_secret_data`, or `BackendGetSecretData` on a failure. |
| `MkDir` | 129-140 | `save_secret_data`: the next key of the map, in any order, and `create_dir_all` of the target. |
| `CreateFile` | 141-143 | `File::create`: creates or truncates the file, and fails if the directory is gone. |
| `WriteFile` | 144-148 | `write_all`, then the next key or `Ok(())`. It only hands the write to the blocking pool (`pending`). |
| `Land` | 144-146 | The handed-off write completes later: it writes the file, or fails with nobody to see the error. |
| `Remove` | 188-204 | `node_unpublish_volume`: `remove_dir_all`. It fails with NotFound when the directory is missing, and it can fail part way (`PartlyRemoved`). Removed files are unlinked (`Unlink`), and writes still pending for them land nowhere. |
| `Fail` | 110-121 | The error is returned as a Status, whose message is `StatusMessage(SourceChain(e))` (lines 84-101). |
| `Discard` | (hyper) | The future of a request the kubelet gave up on is dropped. |

Why `write_all` is two steps. `tokio::fs::File::poll_write` on an idle file
copies up to 2 MiB of the buffer and spawns the write on the blocking pool,
then returns `Ready(Ok(n))`. A Kubernetes Secret holds at most 1 MiB, so
`write_all` returns Ok after that one poll. The `File` is then dropped without
`flush`, so the handler never waits for the write and never sees its error.
`WriteFile` is the hand-off and `Land` is the write itself. A write through a
handle whose file was unlinked lands on no path, which is what `linked`
records.

The kubelet is the environment, not code of this repository:
- `KubeletPublish` and `KubeletUnpublish` issue one request at a time.
- `KubeletReceive` reads the answer. An Ok answer can be lost.
- `KubeletTimeout` gives up waiting, only when `Timeouts` holds.
- `PodDeleted` and `Finished` end the pod's life.

The kubelet follows the CSI rules. A failed publish leaves the volume
"uncertain", so it is unpublished later. A failed unpublish is retried.

`MaxFaults` bounds the number of transient failures: backend or I/O errors
(including a failed `Land`) and lost answers.

Abandonment. When the kubelet gives up on a request, hyper drops the handler's
future. The `tokio::fs` operation the handler was awaiting (`BlockingOps`:
`create_dir_all`, `File::create`, `remove_dir_all`) has already been handed to
the blocking pool, so it still completes. `Running(s)` allows that one
operation. The backend fetch is plain async I/O and stops with the future.
After that, `Discard` frees the slot.

## 3. Runs

| Run | Config | Checks | Shows |
|---|---|---|---|
| `cache_idempotent` | `MC_CredentialCache_idem.cfg` | `TypeOK`, `LocalViewConsistent`, `ImplementsCredentialStore` | With an idempotent generator, 3 instances × 2 keys × 2 calls each (49,402 states). No instance's view ever contradicts the Secret, even after a patch that failed on the client but was applied. Every call answers as the abstract write-once store would. |
| `cache_racy_generator` | `MC_CredentialCache_racy.cfg` | `SavedOncePerInstance` | With a generator that breaks its obligation (2 possible values per key, 501,551 states): an instance never regenerates and saves a key twice, whatever the other instances' patches do. |
| `csi_unflushed_write` | `MC_CsiNode.cfg` | `PublishedComplete` (violation expected) | 1 slot, no timeouts. `node_publish_volume` answers Ok while the writes `write_all` handed off are still pending, so the kubelet holds the volume as published with empty files (main.rs:144). |
| `csi_timeouts` | `MC_CsiNode_timeouts.cfg` | `NoSecretAfterUnpublish`, `NoSecretDataAfterUnpublish`, `EventuallyPublished` | 2 slots with timeouts, 2 files, 3 faults (388,755 states), so an abandoned handler overlaps the retried request. A late file operation never leaves a file behind an unpublish Ok, no write of the secret's bytes is still pending then, and publishing still succeeds eventually. |
| `csi_late_truncation` | `MC_CsiNode_PublishedNeverTruncated.cfg` | `PublishedNeverTruncated` (violation expected) | An abandoned publish's `File::create` completes after the retry's write landed and truncates the file under a volume the kubelet holds as published (main.rs:141). |
| `csi_late_recreate` | `MC_CsiNode_NoSecretAfterUnpublish.cfg` | `NoSecretAfterUnpublish` (violation expected) | 3 slots, so two abandoned publishes overlap the unpublish. One's late `create_dir_all` recreates the removed directory, and the other's late `File::create` leaves a file behind the unpublish Ok (main.rs:137, 141). The file is empty, because its bytes are written only by the dropped future. |
| `csi_error_message` | `MC_CsiNode_ErrorMessageListsCauses.cfg` | `ErrorMessageListsCauses` (violation expected) | The Status message repeats the top error once per cause (main.rs:89, 115). |
| `csi_unpublish_retry` | `MC_CsiNode_EventuallyUnpublished.cfg` | `EventuallyUnpublished` (violation expected) | Unpublishing a target that is already gone fails with NotFound on every retry. The kubelet never gets its Ok, against the CSI idempotency rule (main.rs:200). |
| `krb5_ownership` | `MC_Krb5Handles.cfg` | `TypeOK`, `NoDanglingHandle` | Any program of up to 5 wrapper values (195,991 states), with every error path and every drop order the borrow checker accepts: no live value holds a freed context or points into a freed keyblock or key vector. |
| `krb5_error_context` | `MC_Krb5Handles_ErrorMessageFromCallContext.cfg` | `ErrorMessageFromCallContext` (violation expected) | `parse_principal_name` passes `None` to `from_call_result` (lib.rs:107), against its SAFETY comment (lib.rs:38). |
| `krb5_teardown_panic` | `MC_Krb5Handles_OnlySessionTeardownFatal.cfg` | `OnlySessionTeardownFatal` (violation expected) | The design (spec §7) makes only the kadmin session's teardown fatal. Yet a failing `krb5_kt_close` panics in Keytab's Drop (lib.rs:424), and so does a failing key-vector free (kadm5.rs:222). |
| `krb5_context_mixing` | `MC_Krb5Handles_NoContextMixing.cfg` | `NoContextMixing` (violation expected) | The doc comment of `KrbContext` (lib.rs:70-72) says values of two contexts must not be mixed. Yet `create_principal` accepts a principal of another context; so do `Keytab::add` and `from_password`. |

Bounds, and why they are enough:
- Credential cache: 3 instances, so two can race on a key while a third holds
  an old view. 2 keys, so a patch response can carry a key the patcher did not
  write. 2 calls per instance, so an instance can hit a key it saved earlier.
  Instances are symmetric.
- Krb5: 5 slots hold a context, a principal, a salt, a keyblock and its view,
  or a context, a server, a principal and a key vector with its view. That is
  every dependency chain of the API. Constructors take the lowest free slot,
  which removes renamings. Contexts are never reused across slots. The
  context-mixing and error-context runs use 4 slots: two contexts, a principal
  and a server. The teardown run needs 2: a context and a keytab.
- CSI: 2 files, so a publish can fail with one file written and the other
  truncated or absent, and a write of one key can still be pending while the
  other is created. 3 faults allow a failure, a timeout and a lost answer in
  one run. The kubelet never has two requests of its own open, so each slot
  past the first holds one more abandoned handler: 2 slots give one abandoned
  handler overlapping the retry, 3 slots give two. `NoSecretAfterUnpublish`
  holds with one abandoned handler (`csi_timeouts`) and fails with two
  (`csi_late_recreate`): there the recreated file is empty.
  `NoSecretDataAfterUnpublish` is checked with one abandoned handler and
  proved below for any number.

Every property of a passing run has a mutant in `PROJECT.json`: a plausible bug
in the mapped code that TLC catches with the run's own configuration. Examples:
- a failed patch treated as applied;
- `as_ref` returning `KeyblockRef<'ctx>`;
- `remove_dir_all`'s error ignored;
- `create_dir` instead of `create_dir_all`.

Fairness. The credential cache and krb5 runs assume none, and their
properties are safety properties. `CsiNode`'s `Fairness` assumes four things:
- Weak fairness of each slot's handler steps. tokio polls every task whose I/O
  is ready, so a step that stays enabled is taken.
- Weak fairness of each key's `Land`. The blocking pool runs every spawned
  task.
- Weak fairness of the kubelet's issuing of requests and of reading answers.
  Its reconciler runs periodically.
- Nothing for pod deletion, which is a user's choice.

Transient failures are bounded by `MaxFaults`, so from some point on every
request succeeds. The liveness properties are therefore about the code's own
retry behaviour, not about faults that never stop.

## 4. Proofs (TLAPS)

`CredentialCacheProofs.tla` proves:
- `TypeCorrect`: `Spec => []TypeOK`, for any sets of instances, keys and values
  and any `MaxCalls`.
- `ViewConsistency`: under `IdempotentGenerator`, `Spec => []LocalViewConsistent`.

`LocalViewConsistent` is not inductive by itself. A pending value `val[i]`
could differ from a stored one, and then `SaveOk` would break it. The inductive
invariant `IInv` adds:
- `StoreFromGen`: every stored value is one the generator can return;
- `PendingFromGen`: every pending value is one the generator can return.

With idempotence (`GenUnique`), a pending value and a stored value for the same
key are then equal. So the merge patch never changes a present key
(`MergeKeepsStore`), and every view a patch response installs agrees with the
store.

- `Refinement`: under `IdempotentGenerator`,
  `Spec => ImplementsCredentialStore`. The initial states map to abstract
  initial states. Given `IInv`, each step maps to an abstract step or a
  stutter, with one lemma per kind of step:
  - `HitRefines`: `LocalViewConsistent` makes a hit a `Lookup` of the stored
    credential.
  - `SaveOkRefines`: `GenUnique` and `StoreFromGen` make a save of a present
    key leave the Secret unchanged, which is a `Lookup`. A save of an absent
    key is an `Insert` of a generated value (`PendingFromGen`).
  - `SaveFailRefines` and `GenerateFailRefines`: these are `Fail`.

- `SavedOnce`: `Spec => []SavedOncePerInstance`, for every generator. It is
  not inductive by itself, because a call might re-save a key it already
  saved. The inductive invariant `OnceInv` adds:
  - `KeysInStore`: every key in an instance's `current_state` is in the Secret;
  - `SavedInView`: a key an instance has saved is in its `current_state`;
  - `PendingMissed`: a running call is for a key its `current_state` lacks.

  So a `SaveOk` is always the first save of its key by that instance
  (`SaveOkOnce`). The response it installs holds the key and every stored key
  (`MergeKeepsKeys`), which keeps `SavedInView` for the other keys.

`Krb5HandlesProofs.tla` proves, for every `N`:
- `TypeCorrect` (`TypeOK`);
- `NoUseAfterFree` (`NoDanglingHandle`).

`NoDanglingHandle` is not inductive. `Drop` is blocked only by values that
borrow the dropped one *directly*, while a `KeyblockRef` of a `KeyDataVec` uses
a context three borrows away. The inductive invariant `IInv` says:
- the anchor of every live value is live and of a parent kind
  (`ParentKinds`: the context; the server handle for a `KeyDataVec`; the
  keyblock or vector for a view);
- a live value's context is its anchor's (`CtxChain`);
- a view's target is its anchor (`ViewTarget`);
- the allocated memory is exactly that of the live owners (`OwnedByLive`);
- a freed allocation has been freed once (`FreedOnce`);
- unused slots are clean (`FreshSlots`).

`CtxOfLive` then follows the anchors of a live value, at most three steps, to a
live context. One lemma per kind of step carries the proof of `NextIInv`:
`CreateStep`, `CtxChildStep`, `CreateDroppedStep`, `DropStep` and `FlagStep`.

`CsiNodeProofs.tla` proves, for all sets of files and slots, all fault bounds,
and with or without timeouts:
- `TypeCorrect`: `Spec => []TypeOK`.
- `NoSecretDataAfterUnpublishProved`: `Spec => []NoSecretDataAfterUnpublish`.
  Once the kubelet has the unpublish Ok for a deleted pod and awaits nothing,
  no file at the path holds the secret's bytes and no write of them is
  pending, however many given-up handlers still run.

The inductive invariant is `DInv`: `TypeOK`, `Shape`, and
`AfterUnpublish => CleanData`. `Shape` is the kubelet's bookkeeping, for any
number of slots:
- `AbandonedUnawaited`: exactly the busy slots the kubelet does not await are
  given up on;
- `UnpublishShape`: an awaited unpublish runs only after the pod is deleted,
  at `remove` or `done`, for a volume not held as unpublished;
- `NeverPublished`: while the volume is unpublished and no publish was ever
  sent, nothing runs, no file exists and no write is pending.

`AfterUnpublish` holds from the moment the awaited unpublish has answered Ok.
`CleanData` says that no file is written and no write is pending. The
argument:
- When `remove_dir_all` answers Ok, every file is unlinked and its pending
  writes are dropped (`RemoveOkCleanData`, `UnlinkClean`).
- After that, only given-up slots run, each at most its one blocking operation
  (`HandlerSlot`). `create_dir_all` and `File::create` make no file written, and
  a `remove_dir_all` only removes. The `write_all` hand-off is not a blocking
  operation, so a given-up slot never gets to it (`AbandonedCleanData`).
- `Land` needs a pending write, and there is none.

So, unlike `NoSecretAfterUnpublish`, this property needs no bound on the
slots. TLC checked `DInv` as an invariant on 3 slots, 2 files and 2 faults
(843,762 states) before the proof.

The provers struggle with Boolean-valued variables and constants mixed into
large SMT goals. So the type lemmas split off `dir` (`TypeSplit`, `DirStep`,
proved with Zenon), and split `WriteFile` on `linked[s]`.

What stays with TLC:
- liveness and ENABLED, which the provers cannot reach: `EventuallyPublished`
  (`csi_timeouts`) and the violation of `EventuallyUnpublished`;
- `NoSecretAfterUnpublish`, which holds only up to two slots. Its proof would
  need a bound on the number of abandoned handlers.
- the violation runs, which show counterexamples on one instance.

## 5. Not modelled, and why

- **CSI node service**, the parts of `main.rs` with no state:
  - selector parsing: it is deterministic for a volume, and a valid selector
    is assumed;
  - the identity service and the endpoints that return constants or
    `Unimplemented`;
  - `main`'s socket setup.

  Only one target path is modelled. Different volumes share no state in the
  handlers.
- Secret data with no keys. `Files` is non-empty (`CsiAssumption`). With no
  keys, `save_secret_data` answers Ok without creating the target directory.
- Secret values over 2 MiB. Kubernetes does not allow them. For such a value,
  `write_all` would poll more than once and wait for the first chunk.
- Formatting: the Display/Debug impls, `PrincipalUnparseOptions::to_flags` and
  `ConfigParams::as_c`. These are conversions with no state. The undefined
  behaviour in `KrbData`'s Debug on a zero-length salt is listed as a hazard.
- Aliasing of one native allocation by two wrapper values. The krb5 model
  gives each allocation to one value, so a double free on an early-return
  path is not represented.

## 6. Plan

1. Credential cache: modelled, checked and proved, including the refinement of
   the abstract store.
2. Krb5 ownership: modelled, checked and proved. The teardown rule of the
   spec is checked by `krb5_teardown_panic`.
3. CSI node service: modelled and checked, including the asynchronous
   `write_all`. `NoSecretDataAfterUnpublish` is proved for any number of
   slots. A next step is an abstract specification of the volume that allows
   late blocking operations, with a refinement that holds with timeouts.
4. A composition of the cache with the kadm5 generator. Its question is whether
   `create_principal` returning "duplicate" on a retry breaks the generator's
   idempotence.
