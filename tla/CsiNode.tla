------------------------------- MODULE CsiNode -------------------------------
(***************************************************************************)
(* The CSI node service of the secret-operator (src/main.rs): the         *)
(* handlers node_publish_volume / save_secret_data and                    *)
(* node_unpublish_volume acting on ONE target path, driven by the kubelet. *)
(*                                                                         *)
(* The file system under the target path is abstracted to whether the     *)
(* directory exists and, per key of the secret data, whether its file is   *)
(* absent, created but not (fully) written, or written.  tonic runs every *)
(* request in a task of its own; a handler's steps are its awaits.         *)
(*                                                                         *)
(* tokio::fs::File::write_all does not wait for the bytes: the first       *)
(* poll_write of an idle File copies the buffer (up to 2 MiB; a Kubernetes *)
(* Secret is at most 1 MiB) and spawns the write on the blocking pool, and *)
(* the File is then dropped unflushed.  The write lands later (Land), and  *)
(* its error is never seen by anyone.                                      *)
(*                                                                         *)
(* The kubelet is the environment: it issues one request at a time for    *)
(* the volume, retries while it has not reached the state the pod needs,   *)
(* and, when Timeouts holds, may give up waiting on a request that is      *)
(* still running.  A given-up handler is dropped; the blocking file        *)
(* operation it was awaiting may still complete (Running, Discard).        *)
(***************************************************************************)
EXTENDS Naturals, Sequences, FiniteSets

CONSTANTS
    Files,      \* the keys of the secret data get_secret_data returns
    Slots,      \* request tasks tonic may run at once for the volume
    NONE,       \* "no key"
    MaxFaults,  \* bound on transient failures: I/O, backend, lost replies
    Timeouts    \* whether the kubelet may give up on a running request

ASSUME CsiAssumption ==
    /\ IsFiniteSet(Files) /\ Files # {}
    /\ NONE \notin Files
    /\ MaxFaults \in Nat
    /\ Timeouts \in BOOLEAN
    /\ 0 \notin Slots

(* The awaits a handler can be at, "done" once it has its answer, "idle"  *)
(* for a slot that runs no request.                                        *)
Steps == {"fetch", "mkdir", "create", "write", "remove"}

(* The errors the handlers return (PublishError, UnpublishError).          *)
ErrorKinds == {"BackendGetSecretData", "CreateDir", "CreateFile", "WriteFile",
               "Cleanup"}

(* The Display texts of an error and of its #[source] chain, outermost    *)
(* first: an io::Error has no source; the backend's error wraps a kube    *)
(* error.                                                                  *)
SourceChain(e) ==
    IF e = "BackendGetSecretData" THEN <<e, "k8s_search::Error", "kube::Error">>
    ELSE <<e, "io::Error">>

(* The message of the Status built by From<PublishError> and              *)
(* From<UnpublishError>: format!("{}", err), then one ": {}" per source    *)
(* in the loop, which formats `err` where the source was meant.            *)
StatusMessage(chain) == [i \in 1..Len(chain) |-> chain[1]]

VARIABLES
    dir,        \* the target directory exists
    files,      \* files[f]: "absent", "empty" (created, not written) or "written"
    pc,         \* pc[s]: the step of the handler in slot s
    todo,       \* todo[s]: the keys save_secret_data has still to write
    cur,        \* cur[s]: the key being written
    result,     \* result[s]: "none", "ok" or "err"
    msg,        \* msg[s]: the Status message of an error answer
    abandoned,  \* abandoned[s]: "no", or the step slot s was at when the
                \* kubelet stopped waiting for it
    want,       \* the pod's need: "mounted" while it runs, then "unmounted"
    kubelet,    \* the kubelet's record: "unpublished", "uncertain", "published"
    waiting,    \* the slot the kubelet waits on, or 0
    asked,      \* the kubelet's last request: "publish" or "unpublish"
    faults,     \* transient failures so far
    linked,     \* linked[s]: the file slot s created is still the one at its
                \* path (not unlinked by a remove_dir_all since)
    pending     \* pending[f]: writes on the blocking pool that will land on
                \* the file now at f's path

vars == <<dir, files, pc, todo, cur, result, msg, abandoned, want, kubelet,
          waiting, asked, faults, linked, pending>>

Io == <<linked, pending>>

FileStates == {"absent", "empty", "written"}

TypeOK ==
    /\ dir \in BOOLEAN
    /\ files \in [Files -> FileStates]
    /\ pc \in [Slots -> Steps \cup {"done", "idle"}]
    /\ todo \in [Slots -> SUBSET Files]
    /\ cur \in [Slots -> Files \cup {NONE}]
    /\ result \in [Slots -> {"none", "ok", "err"}]
    /\ msg \in [Slots -> Seq(ErrorKinds \cup {"k8s_search::Error", "kube::Error", "io::Error"})]
    /\ abandoned \in [Slots -> Steps \cup {"no"}]
    /\ want \in {"mounted", "unmounted"}
    /\ kubelet \in {"unpublished", "uncertain", "published"}
    /\ waiting \in Slots \cup {0}
    /\ asked \in {"publish", "unpublish"}
    /\ faults \in 0..MaxFaults
    /\ linked \in [Slots -> BOOLEAN]
    /\ pending \in [Files -> Nat]

Init ==
    /\ dir = FALSE
    /\ files = [f \in Files |-> "absent"]
    /\ pc = [s \in Slots |-> "idle"]
    /\ todo = [s \in Slots |-> {}]
    /\ cur = [s \in Slots |-> NONE]
    /\ result = [s \in Slots |-> "none"]
    /\ msg = [s \in Slots |-> <<>>]
    /\ abandoned = [s \in Slots |-> "no"]
    /\ want = "mounted"
    /\ kubelet = "unpublished"
    /\ waiting = 0
    /\ asked = "publish"
    /\ faults = 0
    /\ linked = [s \in Slots |-> FALSE]
    /\ pending = [f \in Files |-> 0]

Kube == <<want, kubelet, waiting, asked>>

(* A transient failure happens, within the bound.                          *)
Fault == faults < MaxFaults /\ faults' = faults + 1

-----------------------------------------------------------------------------
(* The handlers (src/main.rs).                                              *)

(* The handler in slot s returns the error e as a Status.                  *)
Fail(s, e) ==
    /\ pc' = [pc EXCEPT ![s] = "done"]
    /\ result' = [result EXCEPT ![s] = "err"]
    /\ msg' = [msg EXCEPT ![s] = StatusMessage(SourceChain(e))]
    /\ cur' = [cur EXCEPT ![s] = NONE]

(* node_publish_volume: backend.get_secret_data(sel).await.  The          *)
(* selector is parsed from the volume context first; it is the same on    *)
(* every retry, and a valid one is assumed.                                *)
Fetch(s) ==
    /\ pc[s] = "fetch"
    /\ \/ /\ pc' = [pc EXCEPT ![s] = "mkdir"]
          /\ todo' = [todo EXCEPT ![s] = Files]
          /\ UNCHANGED <<cur, result, msg, faults>>
       \/ Fault /\ Fail(s, "BackendGetSecretData") /\ UNCHANGED todo
    /\ UNCHANGED <<dir, files, abandoned>> /\ UNCHANGED Kube /\ UNCHANGED Io

(* Mutant: create_dir instead of create_dir_all, which fails with        *)
(* AlreadyExists once the directory is there.                              *)
MkDirNotAll(s) ==
    /\ pc[s] = "mkdir"
    /\ \E f \in todo[s] :
          \/ /\ ~dir
             /\ dir' = TRUE
             /\ pc' = [pc EXCEPT ![s] = "create"]
             /\ cur' = [cur EXCEPT ![s] = f]
             /\ UNCHANGED <<result, msg, faults>>
          \/ /\ dir /\ Fail(s, "CreateDir") /\ UNCHANGED <<dir, faults>>
          \/ Fault /\ Fail(s, "CreateDir") /\ UNCHANGED dir
    /\ UNCHANGED <<files, todo, abandoned>> /\ UNCHANGED Kube /\ UNCHANGED Io

(* save_secret_data: the next (k, v) of the HashMap, in any order, then   *)
(* create_dir_all of the file's parent, the target directory.              *)
MkDir(s) ==
    /\ pc[s] = "mkdir"
    /\ \E f \in todo[s] :
          \/ /\ dir' = TRUE
             /\ pc' = [pc EXCEPT ![s] = "create"]
             /\ cur' = [cur EXCEPT ![s] = f]
             /\ UNCHANGED <<result, msg, faults>>
          \/ Fault /\ Fail(s, "CreateDir") /\ UNCHANGED dir
    /\ UNCHANGED <<files, todo, abandoned>> /\ UNCHANGED Kube /\ UNCHANGED Io

(* File::create(item_path): creates the file, or truncates the one there, *)
(* whose pending writes still land on it; it fails when the directory is   *)
(* gone.                                                                   *)
CreateFile(s) ==
    /\ pc[s] = "create"
    /\ \/ /\ dir
          /\ files' = [files EXCEPT ![cur[s]] = "empty"]
          /\ pc' = [pc EXCEPT ![s] = "write"]
          /\ linked' = [linked EXCEPT ![s] = TRUE]
          /\ UNCHANGED <<cur, result, msg, faults>>
       \/ /\ ~dir
          /\ Fail(s, "CreateFile")
          /\ UNCHANGED <<files, faults, linked>>
       \/ Fault /\ Fail(s, "CreateFile") /\ UNCHANGED <<files, linked>>
    /\ UNCHANGED <<dir, todo, abandoned, pending>> /\ UNCHANGED Kube

(* write_all(&v) on the new File hands the write to the blocking pool and *)
(* returns Ok at once; the File is dropped and the loop goes on with the  *)
(* next key, or returns Ok(()).  A write through a handle whose file was   *)
(* unlinked since lands on no path (linked).                               *)
WriteFile(s) ==
    /\ pc[s] = "write"
    /\ pending' = [pending EXCEPT ![cur[s]] = IF linked[s] THEN @ + 1 ELSE @]
    /\ todo' = [todo EXCEPT ![s] = @ \ {cur[s]}]
    /\ IF todo'[s] = {}
          THEN /\ pc' = [pc EXCEPT ![s] = "done"]
               /\ result' = [result EXCEPT ![s] = "ok"]
          ELSE /\ pc' = [pc EXCEPT ![s] = "mkdir"]
               /\ UNCHANGED result
    /\ cur' = [cur EXCEPT ![s] = NONE]
    /\ UNCHANGED <<dir, files, msg, faults, abandoned, linked>> /\ UNCHANGED Kube

(* A write handed off by write_all runs on the blocking pool: the bytes   *)
(* land in the file at f, or the write fails (disk full, I/O error) and    *)
(* the file stays truncated, an error no handler ever sees.                *)
Land(f) ==
    /\ pending[f] > 0
    /\ pending' = [pending EXCEPT ![f] = @ - 1]
    /\ \/ files' = [files EXCEPT ![f] = "written"] /\ UNCHANGED faults
       \/ Fault /\ UNCHANGED files
    /\ UNCHANGED <<dir, pc, todo, cur, result, msg, abandoned, linked>>
    /\ UNCHANGED Kube

(* remove_dir_all leaves the files g: the removed ones are unlinked, and   *)
(* the writes pending on them, or made later through a handle to them,     *)
(* land on no path.                                                        *)
Unlink(g) ==
    /\ files' = g
    /\ pending' = [f \in Files |-> IF g[f] = "absent" THEN 0 ELSE pending[f]]
    /\ linked' = [t \in Slots |-> linked[t] /\ cur[t] \in Files /\ g[cur[t]] # "absent"]

(* The files remove_dir_all can leave when it fails part way: some of    *)
(* them removed.                                                           *)
PartlyRemoved == {g \in [Files -> FileStates] :
                    \A f \in Files : g[f] \in {files[f], "absent"}}

(* Mutant: the error of remove_dir_all is ignored (no ?), so a removal    *)
(* that failed part way answers Ok.                                        *)
RemoveIgnoringError(s) ==
    /\ pc[s] = "remove"
    /\ pc' = [pc EXCEPT ![s] = "done"]
    /\ result' = [result EXCEPT ![s] = "ok"]
    /\ \/ /\ dir' = FALSE
          /\ Unlink([f \in Files |-> "absent"])
          /\ UNCHANGED faults
       \/ /\ ~dir /\ UNCHANGED <<dir, files, faults>> /\ UNCHANGED Io
       \/ /\ dir /\ Fault
          /\ \E g \in PartlyRemoved : Unlink(g)
          /\ UNCHANGED dir
    /\ UNCHANGED <<cur, msg, todo, abandoned>> /\ UNCHANGED Kube

(* node_unpublish_volume: remove_dir_all(target_path).  It fails with     *)
(* NotFound when there is no directory, and can fail part way, having      *)
(* removed some files.                                                     *)
Remove(s) ==
    /\ pc[s] = "remove"
    /\ \/ /\ dir
          /\ dir' = FALSE
          /\ Unlink([f \in Files |-> "absent"])
          /\ pc' = [pc EXCEPT ![s] = "done"]
          /\ result' = [result EXCEPT ![s] = "ok"]
          /\ UNCHANGED <<cur, msg, faults>>
       \/ /\ ~dir
          /\ Fail(s, "Cleanup")
          /\ UNCHANGED <<dir, files, faults>> /\ UNCHANGED Io
       \/ /\ dir
          /\ Fault
          /\ Fail(s, "Cleanup")
          /\ \E g \in PartlyRemoved : Unlink(g)
          /\ UNCHANGED dir
    /\ UNCHANGED <<todo, abandoned>> /\ UNCHANGED Kube

(* A request the kubelet gave up on: hyper drops the handler's future.    *)
(* The tokio::fs operation it was awaiting runs on the blocking pool and   *)
(* may still complete (Running); nothing after it does.                    *)
Discard(s) ==
    /\ abandoned[s] # "no"
    /\ pc' = [pc EXCEPT ![s] = "idle"]
    /\ abandoned' = [abandoned EXCEPT ![s] = "no"]
    /\ cur' = [cur EXCEPT ![s] = NONE]
    /\ UNCHANGED <<dir, files, todo, result, msg, faults>> /\ UNCHANGED Kube
    /\ UNCHANGED Io

-----------------------------------------------------------------------------
(* The kubelet (environment, not code of this repository).                 *)

(* A request for the volume starts in the free slot s.                     *)
Issue(s, step, call) ==
    /\ waiting = 0 /\ pc[s] = "idle"
    /\ pc' = [pc EXCEPT ![s] = step]
    /\ asked' = call
    /\ result' = [result EXCEPT ![s] = "none"]
    /\ msg' = [msg EXCEPT ![s] = <<>>]
    /\ waiting' = s
    /\ UNCHANGED <<dir, files, todo, cur, abandoned, want, kubelet, faults>>
    /\ UNCHANGED Io

(* NodePublishVolume while the pod runs and the volume is not published.  *)
KubeletPublish(s) ==
    /\ want = "mounted" /\ kubelet # "published"
    /\ Issue(s, "fetch", "publish")

(* NodeUnpublishVolume once the pod is gone, for a volume that is or may  *)
(* be published.                                                           *)
KubeletUnpublish(s) ==
    /\ want = "unmounted" /\ kubelet # "unpublished"
    /\ Issue(s, "remove", "unpublish")

(* What the kubelet records after the answer to its request: Ok, or an   *)
(* error, or no answer (lost, or given up on).  A failed publish leaves    *)
(* the volume uncertain; a failed unpublish is retried.                    *)
Answered(ok) ==
    kubelet' = IF ok THEN [publish |-> "published", unpublish |-> "unpublished"][asked]
                     ELSE [publish |-> "uncertain", unpublish |-> kubelet][asked]

(* The kubelet reads the answer of the request it waits on; an Ok answer  *)
(* can be lost on the way (a transient failure).                           *)
KubeletReceive ==
    /\ waiting # 0 /\ pc[waiting] = "done"
    /\ \/ result[waiting] = "ok" /\ Answered(TRUE) /\ UNCHANGED faults
       \/ result[waiting] = "err" /\ Answered(FALSE) /\ UNCHANGED faults
       \/ result[waiting] = "ok" /\ Fault /\ Answered(FALSE)
    /\ pc' = [pc EXCEPT ![waiting] = "idle"]
    /\ waiting' = 0
    /\ UNCHANGED <<dir, files, todo, cur, result, msg, abandoned, want, asked>>
    /\ UNCHANGED Io

(* The kubelet's deadline passes while the request still runs.             *)
KubeletTimeout ==
    /\ Timeouts
    /\ waiting # 0 /\ pc[waiting] \in Steps
    /\ Fault
    /\ abandoned' = [abandoned EXCEPT ![waiting] = pc[waiting]]
    /\ waiting' = 0
    /\ Answered(FALSE)
    /\ UNCHANGED <<dir, files, pc, todo, cur, result, msg, want, asked>>
    /\ UNCHANGED Io

(* The pod is deleted.                                                     *)
PodDeleted ==
    /\ want = "mounted"
    /\ want' = "unmounted"
    /\ UNCHANGED <<dir, files, pc, todo, cur, result, msg, abandoned, kubelet,
                   waiting, asked, faults>>
    /\ UNCHANGED Io

(* The pod is gone and its volume unpublished: nothing more happens.       *)
Finished ==
    /\ want = "unmounted" /\ kubelet = "unpublished"
    /\ \A s \in Slots : pc[s] = "idle"
    /\ UNCHANGED vars

(* The steps that await a tokio::fs operation on the blocking pool.       *)
BlockingOps == {"mkdir", "create", "remove"}

(* Slot s may take its next step: its request is awaited, or it was given *)
(* up on at a blocking file operation that has not completed yet.  The     *)
(* backend fetch is plain async I/O and stops with the future; at "write"  *)
(* the File is made and the rest needs a poll the dropped task never gets. *)
Running(s) ==
    \/ abandoned[s] = "no"
    \/ abandoned[s] = pc[s] /\ pc[s] \in BlockingOps

Handler(s) ==
    \/ /\ Running(s)
       /\ Fetch(s) \/ MkDir(s) \/ CreateFile(s) \/ WriteFile(s) \/ Remove(s)
    \/ Discard(s)

Next ==
    \/ \E s \in Slots : Handler(s) \/ KubeletPublish(s) \/ KubeletUnpublish(s)
    \/ \E f \in Files : Land(f)
    \/ KubeletReceive \/ KubeletTimeout \/ PodDeleted \/ Finished

(* tokio polls every task whose I/O is ready, so a handler step that stays *)
(* enabled is taken, and the blocking pool runs every spawned write; the  *)
(* kubelet's reconciler runs periodically, so its    *)
(* requests and reads are not put off forever.  The pod's deletion is a    *)
(* user's choice and is not fair.                                          *)
Fairness ==
    /\ \A s \in Slots : WF_vars(Handler(s))
    /\ \A f \in Files : WF_vars(Land(f))
    /\ WF_vars(\E s \in Slots : KubeletPublish(s) \/ KubeletUnpublish(s))
    /\ WF_vars(KubeletReceive)

Spec == Init /\ [][Next]_vars /\ Fairness

-----------------------------------------------------------------------------
(***************************************************************************)
(* Properties                                                              *)
(***************************************************************************)

(* Once the kubelet has an Ok for NodePublishVolume, and while the pod     *)
(* runs, every file of the secret is in the volume and fully written: the  *)
(* Ok of node_publish_volume means the secret is there for the pod.        *)
PublishedComplete ==
    kubelet = "published" /\ want = "mounted" =>
        dir /\ \A f \in Files : files[f] = "written"

(* While the kubelet holds the volume published for a running pod, a file *)
(* of the secret whose bytes have landed never loses them again (no later  *)
(* File::create of an older request truncates it under the pod).           *)
PublishedNeverTruncated ==
    [][kubelet = "published" /\ want = "mounted" /\
       kubelet' = "published" /\ want' = "mounted" =>
         \A f \in Files : files[f] = "written" => files'[f] = "written"]_vars

(* Once the kubelet has an Ok for NodeUnpublishVolume and waits on        *)
(* nothing, no file of the secret is left on the node.                     *)
NoSecretAfterUnpublish ==
    want = "unmounted" /\ kubelet = "unpublished" /\ waiting = 0 =>
        \A f \in Files : files[f] = "absent"

(* Once the kubelet has an Ok for NodeUnpublishVolume and waits on        *)
(* nothing, no secret bytes are on the node and none are on their way: a   *)
(* file an abandoned publish recreates is left empty, and a write_all      *)
(* handed off before remove_dir_all lands on no path.                      *)
NoSecretDataAfterUnpublish ==
    want = "unmounted" /\ kubelet = "unpublished" /\ waiting = 0 =>
        \A f \in Files : files[f] # "written" /\ pending[f] = 0

(* The message of an error Status names the error and then each of its    *)
(* causes, as the loop over source() in From<PublishError> means to: no   *)
(* later part repeats the error itself.                                    *)
ErrorMessageListsCauses ==
    \A s \in Slots : \A i \in 2..Len(msg[s]) : msg[s][i] # msg[s][1]

(* With finitely many transient failures, a running pod's volume is       *)
(* eventually published by the kubelet's retries.                          *)
EventuallyPublished ==
    want = "mounted" ~> (kubelet = "published" \/ want = "unmounted")

(* With finitely many transient failures, the volume of a deleted pod is  *)
(* eventually unpublished: the CSI spec makes NodeUnpublishVolume          *)
(* idempotent, so a retry of one that already removed the volume succeeds. *)
EventuallyUnpublished ==
    want = "unmounted" ~> kubelet = "unpublished"
=============================================================================
