---------------------------- MODULE CsiNodeProofs ----------------------------
(***************************************************************************)
(* Proofs about the CSI node service model, for every set of files and    *)
(* slots, every bound on transient failures, with or without timeouts.     *)
(***************************************************************************)
EXTENDS CsiNode, TLAPS

(* The parts of a Status message.                                          *)
MsgParts == ErrorKinds \cup {"k8s_search::Error", "kube::Error", "io::Error"}

-----------------------------------------------------------------------------
(* The Status message of any error is a sequence of message parts.         *)
LEMMA StatusMessageType ==
    ASSUME NEW e \in ErrorKinds
    PROVE  StatusMessage(SourceChain(e)) \in Seq(MsgParts)
BY DEF StatusMessage, SourceChain, ErrorKinds, MsgParts

(* The assumptions on the constants the state steps use.                 *)
LEMMA Consts == MaxFaults \in Nat /\ 0 \notin Slots /\ NONE \notin Files
BY CsiAssumption

(* TypeOK without its Boolean conjunct, which the SMT backend handles     *)
(* apart.                                                                  *)
TypeRest ==
    /\ files \in [Files -> FileStates]
    /\ pc \in [Slots -> Steps \cup {"done", "idle"}]
    /\ todo \in [Slots -> SUBSET Files]
    /\ cur \in [Slots -> Files \cup {NONE}]
    /\ result \in [Slots -> {"none", "ok", "err"}]
    /\ msg \in [Slots -> Seq(MsgParts)]
    /\ abandoned \in [Slots -> Steps \cup {"no"}]
    /\ want \in {"mounted", "unmounted"}
    /\ kubelet \in {"unpublished", "uncertain", "published"}
    /\ waiting \in Slots \cup {0}
    /\ asked \in {"publish", "unpublish"}
    /\ faults \in 0..MaxFaults
    /\ linked \in [Slots -> BOOLEAN]
    /\ pending \in [Files -> Nat]

LEMMA TypeSplit == TypeOK <=> dir \in BOOLEAN /\ TypeRest
BY DEF TypeOK, TypeRest, MsgParts

(* Every step keeps dir a Boolean.                                         *)
LEMMA DirStep == dir \in BOOLEAN /\ [Next]_vars => dir' \in BOOLEAN
<1> SUFFICES ASSUME dir \in BOOLEAN, [Next]_vars PROVE dir' \in BOOLEAN
    OBVIOUS
<1>1. CASE \E s \in Slots : Handler(s)
    BY <1>1, Zenon DEF Handler, Fetch, MkDir, CreateFile, WriteFile, Remove,
       Discard, Fail
<1>2. QED
    BY <1>1, Zenon DEF Next, Land, KubeletPublish, KubeletUnpublish, Issue,
       KubeletReceive, KubeletTimeout, PodDeleted, Finished, vars

(* What a handler's Fail leaves typed.                                      *)
LEMMA FailType ==
    ASSUME TypeRest, NEW s \in Slots, NEW e \in ErrorKinds, Fail(s, e)
    PROVE  /\ pc' \in [Slots -> Steps \cup {"done", "idle"}]
           /\ result' \in [Slots -> {"none", "ok", "err"}]
           /\ msg' \in [Slots -> Seq(MsgParts)]
           /\ cur' \in [Slots -> Files \cup {NONE}]
BY StatusMessageType DEF Fail, TypeRest

LEMMA FetchType == ASSUME TypeRest, NEW s \in Slots, Fetch(s) PROVE TypeRest'
<1>1. CASE pc' = [pc EXCEPT ![s] = "mkdir"] /\ todo' = [todo EXCEPT ![s] = Files]
           /\ UNCHANGED <<cur, result, msg, faults>>
    BY <1>1, Consts DEF Fetch, Kube, Io, TypeRest, Steps
<1>2. CASE Fault /\ Fail(s, "BackendGetSecretData") /\ UNCHANGED todo
    BY <1>2, FailType, Consts DEF Fetch, Fault, Kube, Io, TypeRest, ErrorKinds
<1>3. QED
    BY <1>1, <1>2 DEF Fetch

LEMMA MkDirType == ASSUME TypeRest, NEW s \in Slots, MkDir(s) PROVE TypeRest'
<1>1. PICK f \in todo[s] :
          \/ /\ dir' = TRUE
             /\ pc' = [pc EXCEPT ![s] = "create"]
             /\ cur' = [cur EXCEPT ![s] = f]
             /\ UNCHANGED <<result, msg, faults>>
          \/ Fault /\ Fail(s, "CreateDir") /\ UNCHANGED dir
    BY DEF MkDir
<1>2. CASE pc' = [pc EXCEPT ![s] = "create"] /\ cur' = [cur EXCEPT ![s] = f]
           /\ UNCHANGED <<result, msg, faults>>
    BY <1>2, Consts DEF MkDir, Kube, Io, TypeRest, Steps
<1>3. CASE Fault /\ Fail(s, "CreateDir")
    BY <1>3, FailType, Consts DEF MkDir, Fault, Kube, Io, TypeRest, ErrorKinds
<1>4. QED
    BY <1>1, <1>2, <1>3

LEMMA CreateFileType == ASSUME TypeRest, NEW s \in Slots, CreateFile(s) PROVE TypeRest'
<1>1. CASE files' = [files EXCEPT ![cur[s]] = "empty"]
           /\ pc' = [pc EXCEPT ![s] = "write"]
           /\ linked' = [linked EXCEPT ![s] = TRUE]
           /\ UNCHANGED <<cur, result, msg, faults>>
    BY <1>1, Consts DEF CreateFile, Kube, TypeRest, Steps, FileStates
<1>2. CASE Fail(s, "CreateFile") /\ UNCHANGED <<files, faults, linked>>
    BY <1>2, FailType, Consts DEF CreateFile, Kube, TypeRest, ErrorKinds
<1>3. CASE Fault /\ Fail(s, "CreateFile") /\ UNCHANGED <<files, linked>>
    BY <1>3, FailType, Consts DEF CreateFile, Fault, Kube, TypeRest, ErrorKinds
<1>4. QED
    BY <1>1, <1>2, <1>3 DEF CreateFile

LEMMA WriteFileType == ASSUME TypeRest, NEW s \in Slots, WriteFile(s) PROVE TypeRest'
<1>1. /\ pending' \in [Files -> Nat]
      /\ todo' \in [Slots -> SUBSET Files]
      /\ cur' \in [Slots -> Files \cup {NONE}]
    <2>1. ASSUME linked[s] PROVE pending' \in [Files -> Nat]
        <3>1. pending' = [pending EXCEPT ![cur[s]] = @ + 1]
            BY <2>1 DEF WriteFile
        <3>2. CASE cur[s] \in Files
            BY <3>1, <3>2 DEF TypeRest
        <3>3. CASE cur[s] \notin Files
            BY <3>1, <3>3 DEF TypeRest
        <3>4. QED
            BY <3>2, <3>3
    <2>6. ASSUME ~linked[s] PROVE pending' \in [Files -> Nat]
        <3>1. pending' = [pending EXCEPT ![cur[s]] = @]
            BY <2>6 DEF WriteFile
        <3>2. QED
            BY <3>1 DEF TypeRest
    <2>2. pending' \in [Files -> Nat]
        BY <2>1, <2>6
    <2>3. todo' \in [Slots -> SUBSET Files]
        BY DEF WriteFile, TypeRest
    <2>4. cur' \in [Slots -> Files \cup {NONE}]
        BY DEF WriteFile, TypeRest
    <2>5. QED
        BY <2>2, <2>3, <2>4
<1>2. pc' \in [Slots -> Steps \cup {"done", "idle"}] /\ result' \in [Slots -> {"none", "ok", "err"}]
    <2>1. CASE todo'[s] = {}
        BY <2>1 DEF WriteFile, TypeRest, Steps
    <2>2. CASE todo'[s] # {}
        BY <2>2 DEF WriteFile, TypeRest, Steps
    <2>3. QED
        BY <2>1, <2>2
<1>3. QED
    BY <1>1, <1>2 DEF WriteFile, Kube, TypeRest

(* What remove_dir_all leaves is typed.                                     *)
LEMMA UnlinkType ==
    ASSUME TypeRest, NEW g \in [Files -> FileStates], Unlink(g)
    PROVE  /\ files' \in [Files -> FileStates]
           /\ pending' \in [Files -> Nat]
           /\ linked' \in [Slots -> BOOLEAN]
BY DEF Unlink, TypeRest

LEMMA RemoveType == ASSUME TypeRest, NEW s \in Slots, Remove(s) PROVE TypeRest'
<1>1. CASE /\ Unlink([f \in Files |-> "absent"])
           /\ pc' = [pc EXCEPT ![s] = "done"]
           /\ result' = [result EXCEPT ![s] = "ok"]
           /\ UNCHANGED <<cur, msg, faults>>
    <2>1. [f \in Files |-> "absent"] \in [Files -> FileStates]
        BY DEF FileStates
    <2>2. QED
        BY <1>1, <2>1, UnlinkType, Consts DEF Remove, Kube, TypeRest, Steps
<1>2. CASE Fail(s, "Cleanup") /\ UNCHANGED <<files, faults>> /\ UNCHANGED Io
    BY <1>2, FailType, Consts DEF Remove, Kube, Io, TypeRest, ErrorKinds
<1>3. CASE /\ Fault /\ Fail(s, "Cleanup")
           /\ \E g \in PartlyRemoved : Unlink(g)
    BY <1>3, FailType, UnlinkType, Consts
       DEF Remove, Fault, Kube, TypeRest, ErrorKinds, PartlyRemoved
<1>4. QED
    BY <1>1, <1>2, <1>3 DEF Remove

(* A handed-off write lands or fails.                                      *)
LEMMA LandType == ASSUME TypeRest, NEW f \in Files, Land(f) PROVE TypeRest'
<1>1. pending' \in [Files -> Nat]
    BY DEF Land, TypeRest
<1>2. ASSUME files' = [files EXCEPT ![f] = "written"], UNCHANGED faults
      PROVE  files' \in [Files -> FileStates] /\ faults' \in 0..MaxFaults
    BY <1>2 DEF TypeRest, FileStates
<1>4. ASSUME Fault, UNCHANGED files
      PROVE  files' \in [Files -> FileStates] /\ faults' \in 0..MaxFaults
    BY <1>4, Consts DEF Fault, TypeRest
<1>5. files' \in [Files -> FileStates] /\ faults' \in 0..MaxFaults
    BY <1>2, <1>4 DEF Land
<1>3. QED
    BY <1>1, <1>5 DEF Land, Kube, TypeRest

LEMMA DiscardType == ASSUME TypeRest, NEW s \in Slots, Discard(s) PROVE TypeRest'
BY Consts DEF Discard, Kube, Io, TypeRest

LEMMA IssueType ==
    ASSUME TypeRest, NEW s \in Slots, NEW step \in Steps,
           NEW call \in {"publish", "unpublish"}, Issue(s, step, call)
    PROVE  TypeRest'
BY Consts DEF Issue, Io, TypeRest

(* The kubelet's record after an answer, or after none, is typed.          *)
LEMMA AnsweredType ==
    ASSUME TypeRest
    PROVE  /\ Answered(TRUE) => kubelet' \in {"unpublished", "uncertain", "published"}
           /\ Answered(FALSE) => kubelet' \in {"unpublished", "uncertain", "published"}
BY DEF Answered, TypeRest

LEMMA ReceiveType == ASSUME TypeRest, KubeletReceive PROVE TypeRest'
<1>1. kubelet' \in {"unpublished", "uncertain", "published"}
    BY AnsweredType DEF KubeletReceive
<1>2. faults' \in 0..MaxFaults
    <2>1. faults' = faults \/ (faults < MaxFaults /\ faults' = faults + 1)
        BY Zenon DEF KubeletReceive, Fault
    <2>2. QED
        BY <2>1, Consts DEF TypeRest
<1>3. /\ pc' = [pc EXCEPT ![waiting] = "idle"] /\ waiting' = 0
      /\ UNCHANGED <<files, todo, cur, result, msg, abandoned, want, asked>>
      /\ UNCHANGED Io
    BY DEF KubeletReceive
<1>4. QED
    BY <1>1, <1>2, <1>3, Consts DEF TypeRest, Io

LEMMA TimeoutType == ASSUME TypeRest, KubeletTimeout PROVE TypeRest'
<1>1. kubelet' \in {"unpublished", "uncertain", "published"}
    BY AnsweredType DEF KubeletTimeout
<1>2. QED
    BY <1>1, Consts DEF KubeletTimeout, Fault, Io, TypeRest, Steps

(* Every step, timeouts included, keeps the other variables in their      *)
(* types.                                                                  *)
LEMMA RestStep == TypeRest /\ [Next]_vars => TypeRest'
<1> SUFFICES ASSUME TypeRest, [Next]_vars PROVE TypeRest'
    OBVIOUS
<1>1. CASE \E s \in Slots : Handler(s)
    BY <1>1, FetchType, MkDirType, CreateFileType, WriteFileType, RemoveType,
       DiscardType DEF Handler
<1>2. CASE \E s \in Slots : KubeletPublish(s) \/ KubeletUnpublish(s)
    BY <1>2, IssueType DEF KubeletPublish, KubeletUnpublish, Steps
<1>3. CASE \E f \in Files : Land(f)
    BY <1>3, LandType
<1>4. CASE PodDeleted \/ Finished \/ UNCHANGED vars
    BY <1>4 DEF PodDeleted, Finished, vars, Io, TypeRest
<1>5. QED
    BY <1>1, <1>2, <1>3, <1>4, ReceiveType, TimeoutType DEF Next

LEMMA InitType == Init => TypeOK
<1>1. Init => dir \in BOOLEAN
    BY DEF Init
<1>2. Init => TypeRest
    BY Consts DEF Init, TypeRest, FileStates, Steps
<1>3. QED
    BY <1>1, <1>2, TypeSplit

(* TypeOK holds in every reachable state, with or without timeouts.        *)
THEOREM TypeCorrect == Spec => []TypeOK
<1>1. TypeOK /\ [Next]_vars => TypeOK'
    BY DirStep, RestStep, Zenon DEF TypeOK, TypeRest, MsgParts
<1>2. QED
    BY <1>1, InitType, PTL DEF Spec
-----------------------------------------------------------------------------
(***************************************************************************)
(* NoSecretDataAfterUnpublish for any number of request tasks, whether or *)
(* not the kubelet gives up on requests.                                   *)
(***************************************************************************)

(* How the kubelet comes to record a volume as unpublished.                *)
LEMMA AnsweredUnpublished ==
    ASSUME asked \in {"publish", "unpublish"}
    PROVE  /\ Answered(TRUE) /\ kubelet' = "unpublished" => asked = "unpublish"
           /\ Answered(FALSE) /\ kubelet' = "unpublished" =>
                 asked = "unpublish" /\ kubelet = "unpublished"
<1>1. CASE asked = "publish"
    <2>1. Answered(TRUE) => kubelet' = "published"
        BY <1>1, Zenon DEF Answered
    <2>2. Answered(FALSE) => kubelet' = "uncertain"
        BY <1>1, Zenon DEF Answered
    <2>3. QED
        BY <2>1, <2>2
<1>2. CASE asked = "unpublish"
    BY <1>2, Zenon DEF Answered
<1>3. QED
    BY <1>1, <1>2

(* Only a slot the kubelet no longer waits on is abandoned, and every     *)
(* busy slot it does not wait on is.                                       *)
AbandonedUnawaited ==
    \A s \in Slots :
       /\ abandoned[s] # "no" => pc[s] # "idle" /\ waiting # s
       /\ pc[s] # "idle" /\ waiting # s => abandoned[s] # "no"
       /\ waiting = s => pc[s] # "idle"

(* An awaited unpublish runs only after the pod is gone, at remove or     *)
(* done, for a volume not held as unpublished.                             *)
UnpublishShape ==
    /\ asked = "unpublish" => want = "unmounted"
    /\ waiting # 0 /\ asked = "unpublish" =>
          pc[waiting] \in {"remove", "done"} /\ kubelet # "unpublished"

(* The volume is unpublished and no publish was ever sent: nothing runs, *)
(* no file exists and no write is pending.                                 *)
NeverPublished ==
    kubelet = "unpublished" /\ asked = "publish" /\ waiting = 0 =>
        /\ \A s \in Slots : pc[s] = "idle"
        /\ \A f \in Files : files[f] = "absent" /\ pending[f] = 0

(* The awaited unpublish has removed the volume, or its Ok was recorded.  *)
AfterUnpublish ==
    /\ asked = "unpublish"
    /\ \/ waiting # 0 /\ pc[waiting] = "done" /\ result[waiting] = "ok"
       \/ kubelet = "unpublished" /\ waiting = 0

(* Then no file holds the secret's bytes and no write is on its way.    *)
CleanData == \A f \in Files : files[f] # "written" /\ pending[f] = 0

(* The kubelet's bookkeeping of requests, for any number of slots.        *)
Shape == AbandonedUnawaited /\ UnpublishShape /\ NeverPublished

DInv ==
    /\ TypeOK
    /\ Shape
    /\ AfterUnpublish => CleanData

(* A handler step of slot s: its request is not the awaited unpublish     *)
(* unless it is at remove, and a given-up request runs only the step it   *)
(* was given up at.                                                        *)
LEMMA HandlerSlot ==
    ASSUME TypeRest, Shape, NEW s \in Slots, Running(s), pc[s] \in Steps
    PROVE  /\ waiting # s => abandoned[s] = pc[s] /\ pc[s] \in BlockingOps
           /\ waiting = s /\ asked = "unpublish" => pc[s] = "remove"
           /\ AfterUnpublish => waiting # s
<1>1. pc[s] # "idle" /\ pc[s] # "done" /\ s # 0
    BY Consts DEF Steps
<1>2. waiting # s => abandoned[s] = pc[s] /\ pc[s] \in BlockingOps
    BY <1>1 DEF Shape, AbandonedUnawaited, Running
<1>3. waiting = s /\ asked = "unpublish" => pc[s] = "remove"
    BY <1>1 DEF Shape, UnpublishShape
<1>4. AfterUnpublish => waiting # s
    BY <1>1 DEF AfterUnpublish
<1>5. QED
    BY <1>2, <1>3, <1>4

(* A handler step keeps the bookkeeping: it moves its own slot from one   *)
(* await to the next or to done, and touches nothing the kubelet holds.   *)
LEMMA HandlerShape ==
    ASSUME TypeRest, Shape, NEW s \in Slots, Running(s),
           Fetch(s) \/ MkDir(s) \/ CreateFile(s) \/ WriteFile(s) \/ Remove(s)
    PROVE  Shape'
<1>1. pc[s] \in Steps /\ pc'[s] \in Steps \cup {"done"}
    BY DEF Fetch, MkDir, CreateFile, WriteFile, Remove, Fail, Steps, TypeRest
<1>2. /\ UNCHANGED <<abandoned, want, kubelet, waiting, asked>>
      /\ pc' = [pc EXCEPT ![s] = pc'[s]]
      /\ \A t \in Slots : t # s => result'[t] = result[t]
    BY DEF Fetch, MkDir, CreateFile, WriteFile, Remove, Fail, Kube, TypeRest
<1>3. waiting = s /\ asked = "unpublish" => pc'[s] = "done"
    <2> SUFFICES ASSUME waiting = s, asked = "unpublish" PROVE pc'[s] = "done"
        OBVIOUS
    <2>1. pc[s] = "remove"
        BY <1>1, HandlerSlot
    <2>2. Remove(s)
        BY <2>1 DEF Fetch, MkDir, CreateFile, WriteFile
    <2>3. QED
        BY <2>2 DEF Remove, Fail, TypeRest
<1>4. kubelet = "unpublished" /\ asked = "publish" /\ waiting = 0 => FALSE
    BY <1>1 DEF Shape, NeverPublished, Steps
<1>5. QED
    BY <1>1, <1>2, <1>3, <1>4, Consts
       DEF Shape, AbandonedUnawaited, UnpublishShape, NeverPublished, TypeRest, Steps

(* Dropping a given-up request frees its slot, which nobody awaits.        *)
LEMMA DiscardShape ==
    ASSUME TypeRest, Shape, NEW s \in Slots, Discard(s)
    PROVE  Shape'
<1>1. pc[s] # "idle" /\ waiting # s
    BY DEF Discard, Shape, AbandonedUnawaited
<1>2. /\ UNCHANGED <<want, kubelet, waiting, asked, result>>
      /\ pc' = [pc EXCEPT ![s] = "idle"]
      /\ abandoned' = [abandoned EXCEPT ![s] = "no"]
    BY DEF Discard, Kube
<1>3. QED
    BY <1>1, <1>2 DEF Shape, AbandonedUnawaited, UnpublishShape, NeverPublished,
                      TypeRest, Discard, Io

(* A new request goes to an idle slot, which is not given up on, and an   *)
(* unpublish is issued only after the pod is gone, for a volume that is   *)
(* not held as unpublished.                                                *)
LEMMA IssueShape ==
    ASSUME TypeRest, Shape, NEW s \in Slots, KubeletPublish(s) \/ KubeletUnpublish(s)
    PROVE  Shape'
<1>1. waiting = 0 /\ pc[s] = "idle" /\ abandoned[s] = "no"
    BY Consts DEF KubeletPublish, KubeletUnpublish, Issue, Shape, AbandonedUnawaited
<1>2. /\ waiting' = s /\ UNCHANGED <<abandoned, want, kubelet>>
      /\ pc' = [pc EXCEPT ![s] = pc'[s]]
      /\ \/ asked' = "publish" /\ pc'[s] = "fetch"
         \/ /\ asked' = "unpublish" /\ pc'[s] = "remove"
            /\ want = "unmounted" /\ kubelet # "unpublished"
    BY DEF KubeletPublish, KubeletUnpublish, Issue, TypeRest
<1>3. QED
    BY <1>1, <1>2, Consts DEF Shape, AbandonedUnawaited, UnpublishShape,
                              NeverPublished, TypeRest

(* The kubelet reads the answer of the slot it awaits, which was not      *)
(* given up on, and frees it; it records unpublished only for an          *)
(* unpublish.                                                              *)
LEMMA ReceiveShape ==
    ASSUME TypeRest, Shape, KubeletReceive
    PROVE  Shape'
<1>1. /\ waiting \in Slots /\ abandoned[waiting] = "no"
      /\ waiting' = 0 /\ pc' = [pc EXCEPT ![waiting] = "idle"]
      /\ UNCHANGED <<abandoned, want, asked>>
    BY Consts DEF KubeletReceive, Shape, AbandonedUnawaited, TypeRest
<1>2. Answered(TRUE) \/ Answered(FALSE)
    BY DEF KubeletReceive
<1>3. kubelet' = "unpublished" => asked = "unpublish"
    BY <1>2, AnsweredUnpublished DEF TypeRest
<1>4. QED
    BY <1>1, <1>3, Consts DEF Shape, AbandonedUnawaited, UnpublishShape,
                              NeverPublished, TypeRest

(* A timeout gives up the awaited slot at its current await and frees the *)
(* kubelet, which keeps its record of an unpublish and records a publish  *)
(* as uncertain.                                                           *)
LEMMA TimeoutShape ==
    ASSUME TypeRest, Shape, KubeletTimeout
    PROVE  Shape'
<1>1. /\ waiting \in Slots /\ pc[waiting] \in Steps
      /\ waiting' = 0 /\ abandoned' = [abandoned EXCEPT ![waiting] = pc[waiting]]
      /\ UNCHANGED <<pc, want, asked>>
    BY Consts DEF KubeletTimeout, TypeRest
<1>2. kubelet' # "unpublished"
    <2>1. asked = "unpublish" => kubelet # "unpublished"
        BY <1>1, Consts DEF Shape, UnpublishShape
    <2>2. QED
        BY <2>1, AnsweredUnpublished DEF KubeletTimeout, TypeRest
<1>3. AbandonedUnawaited'
    BY <1>1, Consts DEF AbandonedUnawaited, Shape, TypeRest, Steps
<1>4. UnpublishShape' /\ NeverPublished'
    BY <1>1, <1>2 DEF UnpublishShape, NeverPublished, Shape
<1>5. QED
    BY <1>3, <1>4 DEF Shape

(* Every step keeps the bookkeeping.                                       *)
LEMMA NextShape ==
    ASSUME TypeRest, Shape, [Next]_vars
    PROVE  Shape'
<1>1. CASE \E s \in Slots : Handler(s)
    BY <1>1, HandlerShape, DiscardShape DEF Handler
<1>2. CASE \E s \in Slots : KubeletPublish(s) \/ KubeletUnpublish(s)
    BY <1>2, IssueShape
<1>3. CASE KubeletReceive
    BY <1>3, ReceiveShape
<1>4. CASE KubeletTimeout
    BY <1>4, TimeoutShape
<1>5. CASE PodDeleted
    BY <1>5 DEF PodDeleted, Shape, AbandonedUnawaited, UnpublishShape,
                NeverPublished, Io
<1>8. CASE \E f \in Files : Land(f)
    BY <1>8 DEF Land, Kube, Shape, AbandonedUnawaited, UnpublishShape,
                NeverPublished
<1>6. CASE Finished \/ UNCHANGED vars
    BY <1>6 DEF Finished, vars, Shape, AbandonedUnawaited, UnpublishShape,
                NeverPublished
<1>7. QED
    BY <1>1, <1>2, <1>3, <1>4, <1>5, <1>6, <1>8 DEF Next

(* A handler step moves its slot off the await it was at, and no other.   *)
LEMMA HandlerMoves ==
    ASSUME TypeRest, NEW s \in Slots,
           Fetch(s) \/ MkDir(s) \/ CreateFile(s) \/ WriteFile(s) \/ Remove(s)
    PROVE  /\ pc' = [pc EXCEPT ![s] = pc'[s]]
           /\ UNCHANGED <<abandoned, waiting, asked, kubelet>>
           /\ \A t \in Slots : t # s => result'[t] = result[t]
BY DEF Fetch, MkDir, CreateFile, WriteFile, Remove, Fail, Kube, TypeRest

(* What remove_dir_all leaves holds no written file and no pending write  *)
(* when there was none before.                                             *)
LEMMA UnlinkClean ==
    ASSUME TypeRest, CleanData, NEW g \in PartlyRemoved, Unlink(g)
    PROVE  CleanData'
BY DEF Unlink, PartlyRemoved, CleanData, TypeRest

(* After the unpublish has removed the volume only given-up requests run, *)
(* each at the blocking operation it was given up at: create_dir_all,     *)
(* File::create, which leaves the file empty, or remove_dir_all.  None of *)
(* them hands off a write.                                                 *)
LEMMA AbandonedCleanData ==
    ASSUME TypeRest, Shape, AfterUnpublish, CleanData,
           NEW s \in Slots, Running(s),
           Fetch(s) \/ MkDir(s) \/ CreateFile(s) \/ WriteFile(s) \/ Remove(s)
    PROVE  CleanData'
<1>1. pc[s] \in BlockingOps
    <2>1. pc[s] \in Steps
        BY DEF Fetch, MkDir, CreateFile, WriteFile, Remove, Steps
    <2>2. QED
        BY <2>1, HandlerSlot
<1>2. CASE MkDir(s)
    BY <1>2 DEF MkDir, Io, CleanData
<1>3. CASE CreateFile(s)
    <2>1. UNCHANGED pending
        BY <1>3 DEF CreateFile
    <2>2. files' = files \/ files' = [files EXCEPT ![cur[s]] = "empty"]
        BY <1>3 DEF CreateFile
    <2>3. QED
        BY <2>1, <2>2 DEF CleanData, TypeRest
<1>4. CASE Remove(s)
    <2>1. [f \in Files |-> "absent"] \in PartlyRemoved
        BY DEF PartlyRemoved, FileStates, TypeRest
    <2>2. (\E g \in PartlyRemoved : Unlink(g)) \/ (UNCHANGED files /\ UNCHANGED Io)
        BY <1>4, <2>1 DEF Remove
    <2>3. QED
        BY <2>2, UnlinkClean DEF Io, CleanData
<1>5. QED
    BY <1>1, <1>2, <1>3, <1>4 DEF Fetch, WriteFile, BlockingOps

(* The awaited unpublish's remove_dir_all answers Ok: every file is gone  *)
(* and the writes pending on them land on no path.                         *)
LEMMA RemoveOkCleanData ==
    ASSUME TypeRest, NEW s \in Slots, Remove(s), result'[s] = "ok"
    PROVE  CleanData'
<1>1. Unlink([f \in Files |-> "absent"])
    BY DEF Remove, Fail, TypeRest
<1>2. QED
    BY <1>1 DEF Unlink, CleanData

(* Every step keeps CleanData once the unpublish has removed the volume.  *)
LEMMA NextCleanData ==
    ASSUME TypeRest, Shape, AfterUnpublish => CleanData, [Next]_vars
    PROVE  AfterUnpublish' => CleanData'
<1> SUFFICES ASSUME AfterUnpublish' PROVE CleanData'
    OBVIOUS
<1>1. ASSUME NEW s \in Slots, Running(s),
             Fetch(s) \/ MkDir(s) \/ CreateFile(s) \/ WriteFile(s) \/ Remove(s)
      PROVE  CleanData'
    <2>1. CASE AfterUnpublish
        BY <1>1, <2>1, AbandonedCleanData
    <2>2. CASE ~AfterUnpublish
        <3>1. /\ pc' = [pc EXCEPT ![s] = pc'[s]]
              /\ UNCHANGED <<waiting, asked, kubelet>>
              /\ \A t \in Slots : t # s => result'[t] = result[t]
            BY <1>1, HandlerMoves
        <3>2. waiting = s /\ asked = "unpublish" /\ result'[s] = "ok"
            BY <2>2, <3>1 DEF AfterUnpublish, TypeRest
        <3>3. Remove(s)
            <4>1. pc[s] = "remove"
                BY <1>1, <3>2, HandlerSlot DEF Fetch, MkDir, CreateFile,
                                               WriteFile, Remove, Steps
            <4>2. QED
                BY <1>1, <4>1 DEF Fetch, MkDir, CreateFile, WriteFile
        <3>4. QED
            BY <3>2, <3>3, RemoveOkCleanData
    <2>3. QED
        BY <2>1, <2>2
<1>2. ASSUME NEW s \in Slots, Discard(s) PROVE CleanData'
    <2>1. waiting # s
        BY <1>2 DEF Discard, Shape, AbandonedUnawaited
    <2>2. /\ pc' = [pc EXCEPT ![s] = "idle"]
          /\ UNCHANGED <<files, pending, result, waiting, asked, kubelet>>
        BY <1>2 DEF Discard, Kube, Io
    <2>3. AfterUnpublish
        BY <2>1, <2>2 DEF AfterUnpublish, TypeRest
    <2>4. QED
        BY <2>2, <2>3 DEF CleanData
<1>3. CASE \E s \in Slots : KubeletPublish(s) \/ KubeletUnpublish(s)
    <2>1. PICK s \in Slots : KubeletPublish(s) \/ KubeletUnpublish(s)
        BY <1>3
    <2>2. waiting' = s /\ pc'[s] \in {"fetch", "remove"}
        BY <2>1 DEF KubeletPublish, KubeletUnpublish, Issue, TypeRest
    <2>3. QED
        BY <2>2, Consts DEF AfterUnpublish
<1>4. CASE KubeletReceive
    <2>1. /\ waiting \in Slots /\ pc[waiting] = "done" /\ waiting' = 0
          /\ UNCHANGED <<files, pending, result, asked>>
        BY <1>4, Consts DEF KubeletReceive, Io, TypeRest
    <2>2. asked = "unpublish" /\ kubelet' = "unpublished"
        BY <2>1 DEF AfterUnpublish
    <2>3. kubelet # "unpublished"
        BY <2>1, <2>2, Consts DEF Shape, UnpublishShape
    <2>4. result[waiting] = "ok"
        <3>1. ~Answered(FALSE)
            BY <2>2, <2>3, AnsweredUnpublished DEF TypeRest
        <3>2. QED
            BY <1>4, <3>1 DEF KubeletReceive
    <2>5. AfterUnpublish
        BY <2>1, <2>2, <2>4, Consts DEF AfterUnpublish
    <2>6. QED
        BY <2>1, <2>5 DEF CleanData
<1>5. CASE KubeletTimeout
    <2>1. waiting \in Slots /\ waiting' = 0 /\ UNCHANGED asked
        BY <1>5, Consts DEF KubeletTimeout, TypeRest
    <2>2. asked = "unpublish" => kubelet # "unpublished"
        BY <2>1, Consts DEF Shape, UnpublishShape
    <2>3. kubelet' # "unpublished" \/ asked = "publish"
        BY <1>5, <2>2, AnsweredUnpublished DEF KubeletTimeout, TypeRest
    <2>4. QED
        BY <2>1, <2>3 DEF AfterUnpublish
<1>6. CASE \E f \in Files : Land(f)
    <2>1. PICK f \in Files : Land(f)
        BY <1>6
    <2>2. UNCHANGED <<pc, result, waiting, asked, kubelet>>
        BY <2>1 DEF Land, Kube
    <2>3. ~CleanData
        BY <2>1 DEF Land, CleanData
    <2>4. QED
        BY <2>2, <2>3 DEF AfterUnpublish
<1>7. CASE PodDeleted \/ Finished \/ UNCHANGED vars
    BY <1>7 DEF PodDeleted, Finished, vars, Io, AfterUnpublish, CleanData
<1>8. QED
    BY <1>1, <1>2, <1>3, <1>4, <1>5, <1>6, <1>7 DEF Next, Handler

(* For any number of request tasks, any bound on transient failures, and  *)
(* whether or not the kubelet gives up on requests: once it has the Ok of *)
(* NodeUnpublishVolume for a deleted pod and awaits nothing, no file on   *)
(* the node holds the secret's bytes and no write_all handed off earlier  *)
(* will put them back.  A given-up publish can still recreate a file, but *)
(* only its File::create runs, never its write (node_publish_volume,      *)
(* save_secret_data, node_unpublish_volume, main.rs).                      *)
THEOREM NoSecretDataAfterUnpublishProved == Spec => []NoSecretDataAfterUnpublish
<1>1. Init => DInv
    BY InitType DEF Init, DInv, Shape, AbandonedUnawaited, UnpublishShape,
                    NeverPublished, AfterUnpublish
<1>2. DInv /\ [Next]_vars => DInv'
    <2> SUFFICES ASSUME DInv, [Next]_vars PROVE DInv'
        OBVIOUS
    <2>1. TypeRest /\ dir \in BOOLEAN
        BY TypeSplit DEF DInv
    <2>2. TypeOK'
        BY DirStep, RestStep, Zenon DEF DInv, TypeOK, TypeRest, MsgParts
    <2>3. Shape'
        BY <2>1, NextShape DEF DInv
    <2>4. AfterUnpublish' => CleanData'
        BY <2>1, NextCleanData DEF DInv
    <2>5. QED
        BY <2>2, <2>3, <2>4 DEF DInv
<1>3. DInv => NoSecretDataAfterUnpublish
    BY DEF DInv, TypeOK, Shape, NeverPublished, AfterUnpublish, CleanData,
           NoSecretDataAfterUnpublish
<1>4. QED
    BY <1>1, <1>2, <1>3, PTL DEF Spec
=============================================================================
