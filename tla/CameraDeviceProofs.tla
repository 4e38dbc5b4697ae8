------------------------- MODULE CameraDeviceProofs -------------------------
(***************************************************************************)
(* Theorems about CameraDevice, for any streams, any number of requests    *)
(* and any bound on the early metadata: the types, the flush, who holds a  *)
(* Camera3RequestDescriptor and for how long, hence that no raw pointer    *)
(* outlives pendingRequests_ and that configureStreams finds every list    *)
(* empty, in which order the packs of metadata of a request are numbered,  *)
(* and that CameraDevice implements CaptureContract.                       *)
(***************************************************************************)
EXTENDS CameraDevice, DataLemmas, FiniteSetTheorems

LEMMA BlankType == \A life \in {"absent", "freed"} : Blank(life) \in Descriptor
  BY DEF Blank, NewDescriptor, Descriptor

LEMMA InitType == Init => TypeOK
<1> SUFFICES ASSUME Init PROVE TypeOK OBVIOUS
<1> USE StreamAssumption, BoundAssumption
<1>1. DeviceTypeOK
  <2>1. Blank("absent") \in Descriptor BY BlankType
  <2>2. desc = [f \in Frames |-> Blank("absent")] BY DEF Init
  <2>3. desc \in [Frames -> Descriptor] BY <2>1, <2>2
  <2>4. /\ configured \in [streams : BOOLEAN, config : BOOLEAN, good : BOOLEAN]
        /\ pendingStreamBuffers \in [Streams -> Seq(Frames)]
        /\ pendingRequests \in Seq(Frames) /\ pendingPartialResults \in Seq(Results)
    BY DEF Init
  <2> QED BY <2>3, <2>4 DEF Init, DeviceTypeOK
<1>2. ThreadTypeOK BY DEF Init, ThreadTypeOK
<1>3. FrameworkTypeOK BY DEF Init, FrameworkTypeOK
<1> QED BY <1>1, <1>2, <1>3 DEF TypeOK

(* The control thread and the framework's calls. *)
LEMMA ControlType ==
  ASSUME TypeOK, Open \/ (\E op \in ControlOps : CallControl(op)) \/ ControlThread
  PROVE  TypeOK'
<1> USE BoundAssumption DEF device, framework, lists
<1>0. DeviceTypeOK /\ ThreadTypeOK /\ FrameworkTypeOK BY DEF TypeOK
<1> USE <1>0
<1>1. CASE Open
  <2>1. DeviceTypeOK'
    BY <1>1 DEF Open, DeviceTypeOK
  <2>2. ThreadTypeOK'
    BY <1>1 DEF Open, ThreadTypeOK
  <2>3. FrameworkTypeOK'
    BY <1>1 DEF Open, FrameworkTypeOK
  <2> QED BY <2>1, <2>2, <2>3 DEF TypeOK
<1>2. ASSUME NEW op \in ControlOps, CallControl(op) PROVE TypeOK'
  <2>1. DeviceTypeOK' BY <1>2 DEF CallControl, DeviceTypeOK
  <2>2. ThreadTypeOK' BY <1>2 DEF CallControl, ThreadTypeOK
  <2>3. FrameworkTypeOK' BY <1>2 DEF CallControl, FrameworkTypeOK
  <2> QED BY <2>1, <2>2, <2>3 DEF TypeOK
<1>3. CASE FlushBegin
  <2>1. DeviceTypeOK'
    BY <1>3 DEF FlushBegin, DeviceTypeOK
  <2>2. ThreadTypeOK'
    BY <1>3 DEF FlushBegin, ThreadTypeOK
  <2>3. FrameworkTypeOK'
    BY <1>3 DEF FlushBegin, FrameworkTypeOK
  <2> QED BY <2>1, <2>2, <2>3 DEF TypeOK
<1>4. CASE FlushCheck
  <2>1. DeviceTypeOK'
    BY <1>4 DEF FlushCheck, DeviceTypeOK
  <2>2. ThreadTypeOK'
    BY <1>4 DEF FlushCheck, ThreadTypeOK
  <2>3. FrameworkTypeOK'
    BY <1>4 DEF FlushCheck, FrameworkTypeOK
  <2> QED BY <2>1, <2>2, <2>3 DEF TypeOK
<1>5. CASE FlushStop
  <2>1. DeviceTypeOK'
    BY <1>5 DEF FlushStop, DeviceTypeOK
  <2>2. ThreadTypeOK'
    BY <1>5 DEF FlushStop, ThreadTypeOK
  <2>3. FrameworkTypeOK'
    BY <1>5 DEF FlushStop, FrameworkTypeOK
  <2> QED BY <2>1, <2>2, <2>3 DEF TypeOK
<1>6. CASE FlushEnd
  <2>1. DeviceTypeOK'
    BY <1>6 DEF FlushEnd, DeviceTypeOK
  <2>2. ThreadTypeOK'
    BY <1>6 DEF FlushEnd, ThreadTypeOK
  <2>3. FrameworkTypeOK'
    BY <1>6 DEF FlushEnd, FrameworkTypeOK
  <2> QED BY <2>1, <2>2, <2>3 DEF TypeOK
<1>7. CASE FlushReturn
  <2>1. DeviceTypeOK'
    BY <1>7 DEF FlushReturn, DeviceTypeOK
  <2>2. ThreadTypeOK'
    BY <1>7 DEF FlushReturn, ThreadTypeOK
  <2>3. FrameworkTypeOK'
    BY <1>7 DEF FlushReturn, FrameworkTypeOK
  <2> QED BY <2>1, <2>2, <2>3 DEF TypeOK
<1>8. CASE CloseReturn
  <2>1. DeviceTypeOK'
    BY <1>8 DEF CloseReturn, DeviceTypeOK
  <2>2. ThreadTypeOK'
    BY <1>8 DEF CloseReturn, ThreadTypeOK
  <2>3. FrameworkTypeOK'
    BY <1>8 DEF CloseReturn, FrameworkTypeOK
  <2> QED BY <2>1, <2>2, <2>3 DEF TypeOK
<1>9. CASE ConfigureStreams
  <2>1. DeviceTypeOK'
    <3>a. configured \in [streams : BOOLEAN, config : BOOLEAN, good : BOOLEAN]
      BY DEF DeviceTypeOK
    <3>b. \/ \E filled \in BOOLEAN :
                configured' = [configured EXCEPT !.streams = filled, !.good = FALSE]
          \/ configured' = [streams |-> TRUE, config |-> TRUE, good |-> TRUE]
          \/ configured' = [streams |-> TRUE, config |-> TRUE, good |-> FALSE]
      BY <1>9 DEF ConfigureStreams
    <3>1. configured' \in [streams : BOOLEAN, config : BOOLEAN, good : BOOLEAN]
      <4>1. CASE \E filled \in BOOLEAN :
                   configured' = [configured EXCEPT !.streams = filled, !.good = FALSE]
        <5>1. PICK filled \in BOOLEAN :
                configured' = [configured EXCEPT !.streams = filled, !.good = FALSE]
          BY <4>1
        <5>2. configured' = [streams |-> filled, config |-> configured.config, good |-> FALSE]
          BY <3>a, <5>1
        <5> QED BY <3>a, <5>2
      <4>2. CASE \/ configured' = [streams |-> TRUE, config |-> TRUE, good |-> TRUE]
                 \/ configured' = [streams |-> TRUE, config |-> TRUE, good |-> FALSE]
        <5>1. \A good \in BOOLEAN : [streams |-> TRUE, config |-> TRUE, good |-> good]
                \in [streams : BOOLEAN, config : BOOLEAN, good : BOOLEAN]
          OBVIOUS
        <5>2. \E good \in BOOLEAN :
                configured' = [streams |-> TRUE, config |-> TRUE, good |-> good]
          BY <4>2, Zenon
        <5> QED BY ONLY <5>1, <5>2
      <4> QED BY <3>b, <4>1, <4>2
    <3>2. state' \in {"Stopped", "Flushing", "Running"} /\ running' \in BOOLEAN
      BY <1>9 DEF ConfigureStreams, DeviceTypeOK
    <3>c. pendingStreamBuffers' = [s \in Streams |-> <<>>] BY <1>9 DEF ConfigureStreams
    <3>3. pendingStreamBuffers' \in [Streams -> Seq(Frames)] BY ONLY <3>c
    <3> QED BY <1>9, <3>1, <3>2, <3>3 DEF ConfigureStreams, DeviceTypeOK
  <2>2. ThreadTypeOK'
    BY <1>9 DEF ConfigureStreams, ThreadTypeOK
  <2>3. FrameworkTypeOK'
    BY <1>9 DEF ConfigureStreams, FrameworkTypeOK
  <2> QED BY <2>1, <2>2, <2>3 DEF TypeOK
<1> QED BY <1>1, <1>2, <1>3, <1>4, <1>5, <1>6, <1>7, <1>8, <1>9 DEF ControlThread

LEMMA NewDescriptorType ==
  ASSUME NEW S \in SUBSET Streams, NEW lost \in SUBSET Direct
  PROVE  NewDescriptor("prepared", S, SourceBuffers(S, lost)) \in Descriptor
<1>1. SourceBuffers(S, lost) \in [Streams -> Streams \cup {NoBuffer}]
  BY StreamAssumption DEF SourceBuffers, Direct
<1> QED BY <1>1 DEF NewDescriptor, Descriptor

LEMMA CaptureType ==
  ASSUME TypeOK,
         \/ RejectRequest \/ CaptureThread
         \/ \E S \in SUBSET Streams : \E lost \in SUBSET Direct : PrepareRequest(S, lost)
  PROVE  TypeOK'
<1> USE BoundAssumption DEF device, framework, lists
<1>0. DeviceTypeOK /\ ThreadTypeOK /\ FrameworkTypeOK BY DEF TypeOK
<1> USE <1>0
<1>1. CASE RejectRequest
  <2>1. DeviceTypeOK'
    BY <1>1 DEF RejectRequest, MayCapture, Frames, DeviceTypeOK
  <2>2. ThreadTypeOK'
    BY <1>1 DEF RejectRequest, MayCapture, Frames, ThreadTypeOK
  <2>3. FrameworkTypeOK'
    BY <1>1 DEF RejectRequest, MayCapture, Frames, FrameworkTypeOK
  <2> QED BY <2>1, <2>2, <2>3 DEF TypeOK
<1>2. ASSUME NEW S \in SUBSET Streams, NEW lost \in SUBSET Direct, PrepareRequest(S, lost)
      PROVE  TypeOK'
  <2>1. DeviceTypeOK'
    BY <1>2, NewDescriptorType DEF PrepareRequest, MayCapture, DeviceTypeOK
  <2>2. ThreadTypeOK' BY <1>2 DEF PrepareRequest, MayCapture, ThreadTypeOK, Frames
  <2>3. FrameworkTypeOK' BY <1>2 DEF PrepareRequest, FrameworkTypeOK
  <2> QED BY <2>1, <2>2, <2>3 DEF TypeOK
<1>3. ASSUME cap.pc # "idle" PROVE cap.frame \in Frames /\ desc[cap.frame] \in Descriptor
  BY <1>3 DEF ThreadTypeOK, DeviceTypeOK
<1>a. ASSUME cap.pc # "idle" PROVE desc[cap.frame].streams \subseteq Streams
  BY <1>3, <1>a DEF Descriptor
<1>4. CASE AbortRequest
  <2>1. DeviceTypeOK'
    BY <1>4, <1>3, BlankType DEF AbortRequest, DeviceTypeOK
  <2>2. ThreadTypeOK'
    BY <1>4 DEF AbortRequest, ThreadTypeOK
  <2>3. FrameworkTypeOK'
    BY <1>4, <1>3, <1>a DEF AbortRequest, FrameworkTypeOK
  <2> QED BY <2>1, <2>2, <2>3 DEF TypeOK
<1>5. CASE EnsureStarted
  <2>1. DeviceTypeOK'
    BY <1>5 DEF EnsureStarted, DeviceTypeOK
  <2>2. ThreadTypeOK'
    BY <1>5 DEF EnsureStarted, ThreadTypeOK
  <2>3. FrameworkTypeOK'
    BY <1>5 DEF EnsureStarted, FrameworkTypeOK
  <2> QED BY <2>1, <2>2, <2>3 DEF TypeOK
<1>6. CASE StartFails
  <2>1. DeviceTypeOK'
    BY <1>6, <1>3, BlankType DEF StartFails, DeviceTypeOK
  <2>2. ThreadTypeOK'
    BY <1>6 DEF StartFails, ThreadTypeOK
  <2>3. FrameworkTypeOK'
    BY <1>6 DEF StartFails, FrameworkTypeOK
  <2> QED BY <2>1, <2>2, <2>3 DEF TypeOK
<1>7. CASE PushRequest
  <2>1. DeviceTypeOK'
    <3>1. desc' \in [Frames -> Descriptor]
      BY <1>3, <1>7 DEF PushRequest, DeviceTypeOK, Descriptor
    <3> QED BY <1>3, <1>7, <3>1 DEF PushRequest, DeviceTypeOK
  <2>2. ThreadTypeOK'
    BY <1>7 DEF PushRequest, ThreadTypeOK
  <2>3. FrameworkTypeOK'
    BY <1>7, <1>3, <1>a DEF PushRequest, FrameworkTypeOK
  <2> QED BY <2>1, <2>2, <2>3 DEF TypeOK
<1>8. CASE QueueRequest
  <2>1. DeviceTypeOK'
    <3>1. desc' \in [Frames -> Descriptor]
      BY <1>3, <1>8 DEF QueueRequest, DeviceTypeOK, Descriptor
    <3> QED BY <1>8, <3>1 DEF QueueRequest, DeviceTypeOK
  <2>2. ThreadTypeOK'
    BY <1>8 DEF QueueRequest, ThreadTypeOK
  <2>3. FrameworkTypeOK'
    BY <1>8 DEF QueueRequest, FrameworkTypeOK
  <2> QED BY <2>1, <2>2, <2>3 DEF TypeOK
<1> QED BY <1>1, <1>2, <1>4, <1>5, <1>6, <1>7, <1>8 DEF CaptureThread

(* What EnterCheck does to the lists and to the camera thread. *)
LEMMA EnterCheckType ==
  ASSUME TypeOK, NEW f \in Frames, NEW b \in Streams, NEW d, EnterCheck(f, b, d)
  PROVE  /\ pendingPartialResults' \in Seq(Results)
         /\ pendingStreamBuffers' \in [Streams -> Seq(Frames)]
         /\ cam' \in [pc : {"idle", "collecting", "sending", "finishing", "notifying"},
                      iter : Nat, ready : Seq(Results)]
         /\ cam'.pc = "collecting" /\ cam'.ready = cam.ready
<1>1. /\ pendingPartialResults \in Seq(Results)
      /\ pendingStreamBuffers \in [Streams -> Seq(Frames)]
      /\ cam \in [pc : {"idle", "collecting", "sending", "finishing", "notifying"},
                  iter : Nat, ready : Seq(Results)]
  BY DEF TypeOK, DeviceTypeOK, ThreadTypeOK
<1>2. <<<<f, b>>>> \in Seq(Results) BY DEF Results
<1>3. \A s \in Streams : RemoveFirst(pendingStreamBuffers[s], f) \in Seq(Frames)
  BY <1>1, RemoveFirstType
<1>4. pendingPartialResults' \in Seq(Results)
  BY <1>1, <1>2, ConcatProperties DEF EnterCheck
<1>5. pendingStreamBuffers' \in [Streams -> Seq(Frames)] BY <1>1, <1>3 DEF EnterCheck
<1> QED BY <1>1, <1>4, <1>5 DEF EnterCheck

LEMMA BufferCompleteType ==
  ASSUME TypeOK, NEW f \in Frames, NEW b \in Streams, NEW ok \in BOOLEAN,
         NEW failed \in SUBSET Streams, BufferComplete(f, b, ok, failed)
  PROVE  TypeOK'
<1> DEFINE mine   == ResultBuffers(f, b)
           todo   == IF ok THEN mine \ Direct ELSE {}
           errors == IF ok THEN failed ELSE mine
           meta   == IF todo \cap Jpeg # {} THEN desc[f].meta \cup {b} ELSE desc[f].meta
           status == [s \in Streams |-> IF s \in errors THEN "Error" ELSE desc[f].bufStatus[s]]
           d      == [desc[f] EXCEPT !.fbs = @ \ {b}, !.partial[b] = "open",
                                     !.toProcess = @ \cup (todo \ failed),
                                     !.meta = meta, !.bufStatus = status]
<1>0. DeviceTypeOK /\ ThreadTypeOK /\ FrameworkTypeOK /\ desc[f] \in Descriptor
  BY DEF TypeOK, DeviceTypeOK
<1>1. mine \subseteq Streams BY <1>0 DEF ResultBuffers, Descriptor
<1>2. todo \subseteq Streams /\ errors \subseteq Streams BY <1>1
<1>3. /\ desc' = [desc EXCEPT ![f] = d]
      /\ Announce(f, errors)
      /\ EnterCheck(f, b, d) \/ UNCHANGED <<pendingPartialResults, pendingStreamBuffers, cam>>
      /\ UNCHANGED <<opened, configured, state, pendingRequests, nextFrame, cap, ctl, running,
                     asked, returned, finals, indices>>
  BY DEF BufferComplete
<1> HIDE DEF mine, todo, errors
<1>a. desc[f].meta \subseteq Streams /\ desc[f].bufStatus \in [Streams -> {"Success", "Error"}]
  BY <1>0 DEF Descriptor
<1>b. meta \subseteq Streams BY <1>a
<1>c. status \in [Streams -> {"Success", "Error"}] BY <1>a
<1> HIDE DEF meta, status
<1>4. d \in Descriptor BY <1>0, <1>2, <1>b, <1>c DEF Descriptor
<1> HIDE DEF d
<1>5. /\ pendingPartialResults' \in Seq(Results)
      /\ pendingStreamBuffers' \in [Streams -> Seq(Frames)]
      /\ cam' \in [pc : {"idle", "collecting", "sending", "finishing", "notifying"},
                   iter : Nat, ready : Seq(Results)]
      /\ cam'.pc = "sending" => cam'.ready # <<>>
  BY <1>0, <1>3, EnterCheckType DEF DeviceTypeOK, ThreadTypeOK
<1>6. DeviceTypeOK' BY <1>0, <1>3, <1>4, <1>5 DEF DeviceTypeOK
<1>7. ThreadTypeOK' BY <1>0, <1>3, <1>5 DEF ThreadTypeOK
<1>8. FrameworkTypeOK' BY <1>0, <1>2, <1>3 DEF FrameworkTypeOK, Announce
<1> QED BY <1>6, <1>7, <1>8 DEF TypeOK

LEMMA StreamProcessingType ==
  ASSUME TypeOK, NEW f \in Frames, NEW s \in Streams, NEW ok \in BOOLEAN,
         StreamProcessingComplete(f, s, ok), desc[f].src[s] \in Streams
  PROVE  TypeOK'
<1> DEFINE b == desc[f].src[s]
           status == IF ok THEN "Success" ELSE "Error"
           d == [desc[f] EXCEPT !.toProcess = @ \ {s}, !.bufStatus[s] = status]
<1>0. DeviceTypeOK /\ ThreadTypeOK /\ FrameworkTypeOK /\ desc[f] \in Descriptor
  BY DEF TypeOK, DeviceTypeOK
<1>3. /\ desc' = [desc EXCEPT ![f] = d]
      /\ \E E \in SUBSET Streams : Announce(f, E)
      /\ EnterCheck(f, b, d) \/ UNCHANGED <<pendingPartialResults, pendingStreamBuffers, cam>>
      /\ UNCHANGED <<opened, configured, state, pendingRequests, nextFrame, cap, ctl, running,
                     asked, returned, finals, indices>>
  BY DEF StreamProcessingComplete
<1>2. status \in {"Success", "Error"} OBVIOUS
<1> HIDE DEF status
<1>4. d \in Descriptor BY <1>0, <1>2 DEF Descriptor
<1> HIDE DEF d
<1>5. /\ pendingPartialResults' \in Seq(Results)
      /\ pendingStreamBuffers' \in [Streams -> Seq(Frames)]
      /\ cam' \in [pc : {"idle", "collecting", "sending", "finishing", "notifying"},
                   iter : Nat, ready : Seq(Results)]
      /\ cam'.pc = "sending" => cam'.ready # <<>>
  BY <1>0, <1>3, EnterCheckType DEF DeviceTypeOK, ThreadTypeOK
<1>6. DeviceTypeOK' BY <1>0, <1>3, <1>4, <1>5 DEF DeviceTypeOK
<1>7. ThreadTypeOK' BY <1>0, <1>3, <1>5 DEF ThreadTypeOK
<1>8. FrameworkTypeOK'
  <2>1. PICK E \in SUBSET Streams : Announce(f, E) BY <1>3
  <2> QED BY <1>0, <1>3, <2>1 DEF FrameworkTypeOK, Announce
<1> QED BY <1>6, <1>7, <1>8 DEF TypeOK

LEMMA LibcameraType ==
  ASSUME TypeOK, NEW f \in Frames,
         MetadataAvailable(f) \/ \E status \in {"Success", "Cancelled"} : RequestComplete(f, status)
  PROVE  TypeOK'
<1>0. DeviceTypeOK /\ ThreadTypeOK /\ FrameworkTypeOK /\ desc[f] \in Descriptor
  BY DEF TypeOK, DeviceTypeOK
<1> USE <1>0 DEF lists, framework
<1>1. CASE MetadataAvailable(f)
  <2>0. desc[f].nextIndex \in Nat BY DEF Descriptor
  <2>1. DeviceTypeOK'
    <3>1. [desc[f] EXCEPT !.nextIndex = @ + 1] \in Descriptor BY DEF Descriptor
    <3> QED BY <1>1, <3>1 DEF MetadataAvailable, DeviceTypeOK
  <2>2. ThreadTypeOK' BY <1>1 DEF MetadataAvailable, ThreadTypeOK
  <2>3. FrameworkTypeOK' BY <1>1, <2>0 DEF MetadataAvailable, FrameworkTypeOK
  <2> QED BY <2>1, <2>2, <2>3 DEF TypeOK
<1>2. ASSUME NEW status \in {"Success", "Cancelled"}, RequestComplete(f, status)
      PROVE  TypeOK'
  <2> DEFINE done == AllCompleted(desc[f])
             d == [desc[f] EXCEPT !.queued = FALSE, !.status = status, !.completed = done]
  <2>0. done \in BOOLEAN BY DEF AllCompleted
  <2>1. DeviceTypeOK'
    <3>1. /\ desc' = [desc EXCEPT ![f] = d]
          /\ UNCHANGED <<opened, configured, state, pendingRequests, pendingStreamBuffers,
                         pendingPartialResults, running>>
      BY <1>2 DEF RequestComplete
    <3> HIDE DEF done
    <3>2. d \in Descriptor BY <2>0 DEF Descriptor
    <3> HIDE DEF d
    <3> QED BY <3>1, <3>2 DEF DeviceTypeOK
  <2>2. ThreadTypeOK' BY <1>2 DEF RequestComplete, ThreadTypeOK
  <2>3. FrameworkTypeOK' BY <1>2 DEF RequestComplete, FrameworkTypeOK
  <2> QED BY <2>1, <2>2, <2>3 DEF TypeOK
<1> QED BY <1>1, <1>2

(* NextReady is one of the ready results. *)
LEMMA NextReadyType ==
  ASSUME TypeOK, ReadyAt # {}
  PROVE  /\ NextReady \in ReadyAt
         /\ NextReady \in 1..Len(pendingPartialResults)
<1>1. pendingPartialResults \in Seq(Results) BY DEF TypeOK, DeviceTypeOK
<1>2. ReadyAt \subseteq 1..Len(pendingPartialResults) /\ ReadyAt \subseteq Nat
  BY <1>1 DEF ReadyAt
<1> DEFINE ahead == {i \in ReadyAt : i >= cam.iter}
           S == IF ahead # {} THEN ahead ELSE ReadyAt
<1>a. ahead \subseteq ReadyAt OBVIOUS
<1>b. (ahead # {} => S = ahead) /\ (ahead = {} => S = ReadyAt) OBVIOUS
<1>4. NextReady = Min(S) BY DEF NextReady
<1> HIDE DEF S, ahead
<1>3. S \in SUBSET Nat /\ S # {} /\ S \subseteq ReadyAt
  <2>1. CASE ahead = {} BY <1>2, <1>b, <2>1
  <2>2. CASE ahead # {} BY <1>2, <1>a, <1>b, <2>2
  <2> QED BY <2>1, <2>2
<1>5. Min(S) \in S BY <1>3, MinInSet
<1> QED BY <1>2, <1>3, <1>4, <1>5

LEMMA CollectType ==
  ASSUME TypeOK, CollectReady \/ CollectDone
  PROVE  TypeOK'
<1>0. DeviceTypeOK /\ ThreadTypeOK /\ FrameworkTypeOK BY DEF TypeOK
<1> USE <1>0 DEF device, lists, framework
<1>1. CASE CollectReady
  <2> DEFINE i == NextReady
             r == pendingPartialResults[i]
  <2>1. i \in 1..Len(pendingPartialResults) /\ Ready(r)
    BY <1>1, NextReadyType DEF CollectReady, ReadyAt
  <2>2. r \in Results BY <2>1 DEF DeviceTypeOK
  <2>3. RemoveAt(pendingPartialResults, i) \in Seq(Results)
    BY <2>1, RemoveAtType DEF DeviceTypeOK
  <2>4. \A s \in Streams :
          s \in ResultBuffers(r[1], r[2]) /\ desc[r[1]].bufStatus[s] # "Error" =>
            Tail(pendingStreamBuffers[s]) \in Seq(Frames)
    <3> TAKE s \in Streams
    <3> HAVE s \in ResultBuffers(r[1], r[2]) /\ desc[r[1]].bufStatus[s] # "Error"
    <3>1. pendingStreamBuffers[s] # <<>> BY <2>1 DEF Ready
    <3>2. pendingStreamBuffers[s] \in Seq(Frames) BY DEF DeviceTypeOK
    <3> QED BY <3>1, <3>2, HeadTailProperties
  <2>5. DeviceTypeOK'
    <3>1. pendingStreamBuffers' =
            [s \in Streams |->
               IF s \in ResultBuffers(r[1], r[2]) /\ desc[r[1]].bufStatus[s] # "Error"
               THEN Tail(pendingStreamBuffers[s]) ELSE pendingStreamBuffers[s]]
      BY <1>1 DEF CollectReady
    <3>2. pendingStreamBuffers \in [Streams -> Seq(Frames)] BY DEF DeviceTypeOK
    <3>3. pendingStreamBuffers' \in [Streams -> Seq(Frames)] BY ONLY <2>4, <3>1, <3>2
    <3> QED BY <1>1, <2>3, <3>3 DEF CollectReady, DeviceTypeOK
  <2>6. ThreadTypeOK'
    <3>1. cam' = [cam EXCEPT !.iter = i, !.ready = Append(@, r)] BY <1>1 DEF CollectReady
    <3>2. cam.pc = "collecting" /\ UNCHANGED <<nextFrame, cap, ctl>>
      BY <1>1 DEF CollectReady
    <3>3. i \in Nat BY <2>1
    <3>4. cam \in [pc : {"idle", "collecting", "sending", "finishing", "notifying"},
                  iter : Nat, ready : Seq(Results)]
      BY DEF ThreadTypeOK
    <3> HIDE DEF r, i
    <3>5. Append(cam.ready, r) \in Seq(Results) BY <2>2, <3>4
    <3>6. /\ cam' \in [pc : {"idle", "collecting", "sending", "finishing", "notifying"},
                       iter : Nat, ready : Seq(Results)]
          /\ cam'.pc = "collecting"
      BY <3>1, <3>2, <3>3, <3>4, <3>5
    <3> QED BY <3>2, <3>6 DEF ThreadTypeOK
  <2>7. FrameworkTypeOK' BY <1>1 DEF CollectReady, FrameworkTypeOK
  <2> QED BY <2>5, <2>6, <2>7 DEF TypeOK
<1>2. CASE CollectDone
  <2>1. DeviceTypeOK' BY <1>2 DEF CollectDone, DeviceTypeOK
  <2>2. ThreadTypeOK'
    <3>1. CASE cam.ready = <<>> BY <1>2, <3>1 DEF CollectDone, ThreadTypeOK
    <3>2. CASE cam.ready # <<>> BY <1>2, <3>2 DEF CollectDone, ThreadTypeOK
    <3> QED BY <3>1, <3>2
  <2>3. FrameworkTypeOK' BY <1>2 DEF CollectDone, FrameworkTypeOK
  <2> QED BY <2>1, <2>2, <2>3 DEF TypeOK
<1> QED BY <1>1, <1>2

LEMMA CompletePartialType ==
  ASSUME TypeOK, CompletePartialResult
  PROVE  TypeOK'
<1> DEFINE f == Head(cam.ready)[1]
           b == Head(cam.ready)[2]
           d == [desc[f] EXCEPT !.partial[b] = "completed",
                                !.nextIndex = IF b \in desc[f].meta THEN @ + 1 ELSE @]
           last == IsLast(d)
           rest == Tail(cam.ready)
           pc == IF last THEN "finishing" ELSE IF rest = <<>> THEN "idle" ELSE "sending"
<1>0. DeviceTypeOK /\ ThreadTypeOK /\ FrameworkTypeOK BY SMTT(30) DEF TypeOK
<1>1. /\ cam.pc = "sending"
      /\ desc' = [desc EXCEPT ![f] = [d EXCEPT !.completed = last]]
      /\ cam' = [cam EXCEPT !.ready = rest, !.pc = pc]
      /\ UNCHANGED <<opened, configured, state, lists, nextFrame, cap, ctl, running,
                     asked, finals, notified>>
  BY ZenonT(30) DEF CompletePartialResult
<1>2. returned' = [returned EXCEPT ![f] =
        [s \in Streams |-> IF s \in ResultBuffers(f, b)
                           THEN Append(@[s], IF d.bufStatus[s] = "Error" THEN "error" ELSE "ok")
                           ELSE @[s]]]
  BY ZenonT(30) DEF CompletePartialResult
<1>3. indices' = [indices EXCEPT ![f] =
        IF b \in desc[f].meta THEN Append(@, desc[f].nextIndex) ELSE @]
  BY DEF CompletePartialResult
<1>4. cam \in [pc : {"idle", "collecting", "sending", "finishing", "notifying"},
              iter : Nat, ready : Seq(Results)] /\ cam.ready # <<>>
  BY <1>0, <1>1 DEF ThreadTypeOK
<1>5. Head(cam.ready) \in Results /\ rest \in Seq(Results) BY <1>4, HeadTailProperties
<1>6. f \in Frames /\ b \in Streams BY <1>5 DEF Results
<1> HIDE DEF f, b
<1>7. desc[f] \in Descriptor BY <1>0, <1>6 DEF DeviceTypeOK
<1>8. d \in Descriptor
  <2>1. desc[f].nextIndex \in Nat BY <1>7 DEF Descriptor
  <2>2. (IF b \in desc[f].meta THEN desc[f].nextIndex + 1 ELSE desc[f].nextIndex) \in Nat
    BY <2>1
  <2> QED BY <1>6, <1>7, <2>2 DEF Descriptor
<1> HIDE DEF d
<1>9. last \in BOOLEAN BY DEF IsLast, AllCompleted
<1> HIDE DEF last, rest
<1>10. DeviceTypeOK'
  <2>1. [d EXCEPT !.completed = last] \in Descriptor BY <1>8, <1>9 DEF Descriptor
  <2> QED BY <1>0, <1>1, <1>6, <2>1 DEF DeviceTypeOK, lists
<1>11. ThreadTypeOK'
  <2>1. pc \in {"idle", "finishing", "sending"} /\ (pc = "sending" => rest # <<>>)
    OBVIOUS
  <2> HIDE DEF pc
  <2> QED BY <1>0, <1>1, <1>4, <1>5, <2>1 DEF ThreadTypeOK
<1>12. FrameworkTypeOK'
  <2>1. returned' \in [Frames -> [Streams -> Seq({"ok", "error"})]]
    BY <1>0, <1>2, <1>6 DEF FrameworkTypeOK
  <2>2. indices' \in [Frames -> Seq(Nat)]
    BY <1>0, <1>3, <1>6, <1>7 DEF FrameworkTypeOK, Descriptor
  <2> QED BY <1>0, <1>1, <2>1, <2>2 DEF FrameworkTypeOK
<1> QED BY <1>10, <1>11, <1>12 DEF TypeOK

LEMMA FinishType ==
  ASSUME TypeOK, FinishFront \/ FinishDone \/ NotifyFlush
  PROVE  TypeOK'
<1>0. DeviceTypeOK /\ ThreadTypeOK /\ FrameworkTypeOK BY DEF TypeOK
<1> USE <1>0 DEF device, lists, framework
<1>1. CASE FinishFront
  <2> DEFINE f == Head(pendingRequests)
  <2>1. pendingRequests # <<>> BY <1>1 DEF FinishFront, FrontCompleted
  <2>2. f \in Frames /\ Tail(pendingRequests) \in Seq(Frames)
    BY <2>1, HeadTailProperties DEF DeviceTypeOK
  <2>3. /\ finals' = Append(finals, f)
        /\ indices' = [indices EXCEPT ![f] = Append(@, MaxMetadataPackIndex)]
        /\ notified' = [notified EXCEPT ![f] =
                          IF desc[f].status = "Cancelled" THEN @ \cup {"RESULT"} ELSE @]
        /\ desc' = [desc EXCEPT ![f] = Blank("freed")]
    BY <1>1 DEF FinishFront
  <2> HIDE DEF f
  <2>4. DeviceTypeOK' BY <1>1, <2>2, <2>3, BlankType DEF FinishFront, DeviceTypeOK
  <2>5. ThreadTypeOK' BY <1>1 DEF FinishFront, ThreadTypeOK
  <2>6. FrameworkTypeOK'
    BY <1>1, <2>2, <2>3, BoundAssumption DEF FinishFront, FrameworkTypeOK
  <2> QED BY <2>4, <2>5, <2>6 DEF TypeOK
<1>2. CASE FinishDone \/ NotifyFlush
  <2>1. AfterFinish \in {"idle", "sending"} /\ (AfterFinish = "sending" => cam.ready # <<>>)
    BY DEF AfterFinish
  <2>2. DeviceTypeOK' BY <1>2 DEF FinishDone, NotifyFlush, DeviceTypeOK
  <2>3. ThreadTypeOK'
    <3>1. CASE FinishDone
      <4>1. CASE pendingRequests = <<>> BY <2>1, <3>1, <4>1 DEF FinishDone, ThreadTypeOK
      <4>2. CASE pendingRequests # <<>> BY <2>1, <3>1, <4>2 DEF FinishDone, ThreadTypeOK
      <4> QED BY <4>1, <4>2
    <3>2. CASE NotifyFlush
      <4>1. CASE ctl.pc = "wait" BY <2>1, <3>2, <4>1 DEF NotifyFlush, ThreadTypeOK
      <4>2. CASE ctl.pc # "wait" BY <2>1, <3>2, <4>2 DEF NotifyFlush, ThreadTypeOK
      <4> QED BY <4>1, <4>2
    <3> QED BY <1>2, <3>1, <3>2
  <2>4. FrameworkTypeOK' BY <1>2 DEF FinishDone, NotifyFlush, FrameworkTypeOK
  <2> QED BY <2>2, <2>3, <2>4 DEF TypeOK
<1> QED BY <1>1, <1>2

(* A post-processed image is made from a frame buffer. *)
SourcesOK == \A f \in Frames : \A s \in desc[f].toProcess : desc[f].src[s] # NoBuffer

LEMMA SourcesStep ==
  ASSUME TypeOK, SourcesOK, Next
  PROVE  SourcesOK'
<1> USE DEF device, lists, framework
<1>0. /\ desc \in [Frames -> Descriptor]
      /\ \A f \in Frames : desc[f] \in Descriptor
      /\ cap.pc # "idle" => cap.frame \in Frames
      /\ pendingRequests \in Seq(Frames) /\ cam.ready \in Seq(Results)
      /\ cam.pc = "sending" => cam.ready # <<>>
  BY DEF TypeOK, DeviceTypeOK, ThreadTypeOK
<1> DEFINE Keeps(f, d) == /\ d.src = desc[f].src
                          /\ \A s \in d.toProcess : s \in desc[f].toProcess \/ d.src[s] \in Streams
           Fresh(d) == d.toProcess = {}
<1>1. ASSUME NEW f \in Frames, NEW d, desc' = [desc EXCEPT ![f] = d], Keeps(f, d) \/ Fresh(d)
      PROVE  SourcesOK'
  BY <1>0, <1>1, StreamAssumption DEF SourcesOK
<1>2. CASE UNCHANGED desc BY <1>2 DEF SourcesOK
<1>3. \A life : Fresh(Blank(life)) BY DEF Blank, NewDescriptor
<1>4. CASE Framework
  <2>1. ASSUME NEW S \in SUBSET Streams, NEW lost \in SUBSET Direct, PrepareRequest(S, lost)
        PROVE  SourcesOK'
    BY <2>1, <1>1 DEF PrepareRequest, MayCapture, NewDescriptor
  <2> QED BY <1>4, <1>2, <2>1 DEF Framework, Open, CallControl, RejectRequest
<1>5. CASE ControlThread
  BY <1>5, <1>2 DEF ControlThread, FlushBegin, FlushCheck, FlushStop, FlushEnd, FlushReturn,
                    CloseReturn, ConfigureStreams
<1>6. CASE CaptureThread
  <2>1. CASE AbortRequest \/ StartFails
    BY <2>1, <1>0, <1>1, <1>3 DEF AbortRequest, StartFails
  <2>2. CASE EnsureStarted BY <2>2, <1>2 DEF EnsureStarted
  <2>3. CASE PushRequest
    <3>1. desc' = [desc EXCEPT ![cap.frame] = [desc[cap.frame] EXCEPT !.life = "pending"]]
      BY <2>3 DEF PushRequest
    <3>2. cap.frame \in Frames BY <2>3, <1>0 DEF PushRequest
    <3>3. Keeps(cap.frame, [desc[cap.frame] EXCEPT !.life = "pending"])
      BY <1>0, <3>2 DEF Descriptor
    <3> QED BY <1>1, <3>1, <3>2, <3>3
  <2>4. CASE QueueRequest
    <3> DEFINE q == desc[cap.frame].fbs # {}
               d == [desc[cap.frame] EXCEPT !.queued = q]
    <3>1. desc' = [desc EXCEPT ![cap.frame] = d] BY <2>4 DEF QueueRequest
    <3>2. cap.frame \in Frames BY <2>4, <1>0 DEF QueueRequest
    <3> HIDE DEF q
    <3>3. Keeps(cap.frame, d) BY <1>0, <3>2 DEF Descriptor
    <3> HIDE DEF d
    <3> QED BY <1>1, <3>1, <3>2, <3>3
  <2> QED BY <1>6, <2>1, <2>2, <2>3, <2>4 DEF CaptureThread
<1>7. CASE CameraThread
  <2>1. CASE CompletePartialResult
    <3> DEFINE f == Head(cam.ready)[1]
               b == Head(cam.ready)[2]
               d == [desc[f] EXCEPT !.partial[b] = "completed",
                                    !.nextIndex = IF b \in desc[f].meta THEN @ + 1 ELSE @]
               last == IsLast(d)
               e == [d EXCEPT !.completed = last]
    <3>1. desc' = [desc EXCEPT ![f] = e] BY <2>1 DEF CompletePartialResult
    <3>2. cam.ready # <<>> BY <2>1, <1>0 DEF CompletePartialResult
    <3>3. Head(cam.ready) \in Results BY <1>0, <3>2, HeadTailProperties
    <3>4. f \in Frames BY <3>3 DEF Results
    <3> HIDE DEF f, b, last
    <3>5. d.src = desc[f].src /\ d.toProcess = desc[f].toProcess BY <1>0, <3>4 DEF Descriptor
    <3>6. e.src = d.src /\ e.toProcess = d.toProcess BY <1>0, <3>4 DEF Descriptor
    <3> HIDE DEF d, e
    <3>7. Keeps(f, e) BY <3>5, <3>6
    <3> QED BY ZenonT(30), <1>1, <3>1, <3>4, <3>7
  <2>2. CASE FinishFront
    <3>1. Head(pendingRequests) \in Frames
      BY <2>2, <1>0, HeadTailProperties DEF FinishFront, FrontCompleted
    <3> QED BY <2>2, <1>1, <1>3, <3>1 DEF FinishFront
  <2> QED BY <1>7, <1>2, <2>1, <2>2
          DEF CameraThread, CollectReady, CollectDone, FinishDone, NotifyFlush
<1>8. ASSUME NEW f \in Frames, MetadataAvailable(f) PROVE SourcesOK'
  <2>1. desc' = [desc EXCEPT ![f] = [desc[f] EXCEPT !.nextIndex = @ + 1]]
    BY <1>8 DEF MetadataAvailable
  <2>2. Keeps(f, [desc[f] EXCEPT !.nextIndex = @ + 1]) BY <1>0 DEF Descriptor
  <2> QED BY <1>1, <2>1, <2>2
<1>9. ASSUME NEW f \in Frames, NEW b \in Streams, NEW ok \in BOOLEAN,
             NEW failed \in SUBSET Streams, BufferComplete(f, b, ok, failed)
      PROVE  SourcesOK'
  <2> DEFINE mine   == ResultBuffers(f, b)
             todo   == IF ok THEN mine \ Direct ELSE {}
             errors == IF ok THEN failed ELSE mine
             d      == [desc[f] EXCEPT
                          !.fbs = @ \ {b},
                          !.partial[b] = "open",
                          !.toProcess = @ \cup (todo \ failed),
                          !.meta = IF todo \cap Jpeg # {} THEN @ \cup {b} ELSE @,
                          !.bufStatus = [s \in Streams |-> IF s \in errors THEN "Error" ELSE @[s]]]
  <2>1. desc' = [desc EXCEPT ![f] = d] BY <1>9 DEF BufferComplete
  <2>2. todo \subseteq mine OBVIOUS
  <2>3. \A s \in mine : desc[f].src[s] = b BY DEF ResultBuffers
  <2> HIDE DEF mine, todo, errors
  <2>4. d.src = desc[f].src /\ d.toProcess = desc[f].toProcess \cup (todo \ failed)
    BY <1>0 DEF Descriptor
  <2> HIDE DEF d
  <2>5. Keeps(f, d) BY <2>2, <2>3, <2>4
  <2> QED BY <1>1, <2>1, <2>5
<1>10. ASSUME NEW f \in Frames, NEW s \in Streams, NEW ok \in BOOLEAN,
              StreamProcessingComplete(f, s, ok)
       PROVE  SourcesOK'
  <2> DEFINE status == IF ok THEN "Success" ELSE "Error"
             d == [desc[f] EXCEPT !.toProcess = @ \ {s}, !.bufStatus[s] = status]
  <2>1. desc' = [desc EXCEPT ![f] = d] BY <1>10 DEF StreamProcessingComplete
  <2> HIDE DEF status
  <2>2. d.src = desc[f].src /\ d.toProcess = desc[f].toProcess \ {s} BY <1>0 DEF Descriptor
  <2> HIDE DEF d
  <2> QED BY <1>1, <2>1, <2>2
<1>11. ASSUME NEW f \in Frames, NEW st \in {"Success", "Cancelled"}, RequestComplete(f, st)
       PROVE  SourcesOK'
  <2> DEFINE done == AllCompleted(desc[f])
             d == [desc[f] EXCEPT !.queued = FALSE, !.status = st, !.completed = done]
  <2>1. desc' = [desc EXCEPT ![f] = d] BY <1>11 DEF RequestComplete
  <2> HIDE DEF done
  <2>2. d.src = desc[f].src /\ d.toProcess = desc[f].toProcess BY <1>0 DEF Descriptor
  <2> HIDE DEF d
  <2> QED BY <1>1, <2>1, <2>2
<1> QED BY <1>4, <1>5, <1>6, <1>7, <1>8, <1>9, <1>10, <1>11 DEF Next, Libcamera

LEMMA TypeStep ==
  ASSUME TypeOK, SourcesOK, Next
  PROVE  TypeOK'
<1>1. CASE Framework \/ ControlThread \/ CaptureThread
  BY <1>1, ControlType, CaptureType DEF Framework
<1>2. CASE CameraThread
  BY <1>2, CollectType, CompletePartialType, FinishType DEF CameraThread
<1>3. ASSUME NEW f \in Frames, Libcamera(f) \/ MetadataAvailable(f) PROVE TypeOK'
  <2>1. ASSUME NEW b \in Streams, NEW ok \in BOOLEAN, NEW failed \in SUBSET Streams,
               BufferComplete(f, b, ok, failed)
        PROVE  TypeOK'
    BY <2>1, BufferCompleteType
  <2>2. ASSUME NEW s \in Streams, NEW ok \in BOOLEAN, StreamProcessingComplete(f, s, ok)
        PROVE  TypeOK'
    <3>1. s \in desc[f].toProcess BY <2>2 DEF StreamProcessingComplete
    <3>2. desc[f] \in Descriptor BY DEF TypeOK, DeviceTypeOK
    <3>3. desc[f].src[s] \in Streams BY <3>1, <3>2 DEF SourcesOK, Descriptor
    <3> QED BY <2>2, <3>3, StreamProcessingType
  <2> QED BY <1>3, <2>1, <2>2, LibcameraType DEF Libcamera
<1> QED BY <1>1, <1>2, <1>3 DEF Next

LEMMA TypeStutter == ASSUME TypeOK, SourcesOK, UNCHANGED vars PROVE TypeOK' /\ SourcesOK'
<1> USE DEF vars, device, framework
<1>1. DeviceTypeOK' BY DEF TypeOK, DeviceTypeOK
<1>2. ThreadTypeOK' BY DEF TypeOK, ThreadTypeOK
<1>3. FrameworkTypeOK' BY DEF TypeOK, FrameworkTypeOK
<1>4. SourcesOK' BY DEF SourcesOK
<1> QED BY <1>1, <1>2, <1>3, <1>4 DEF TypeOK

(* Every variable keeps its type: in particular the iterator over
   pendingPartialResults_ is never used past the end of the list, a stream's
   list is never popped when it is empty, and a result taken from cam.ready is
   always there to be completed.                                             *)
THEOREM TypeCorrect == Spec => []TypeOK
<1>1. Init => TypeOK /\ SourcesOK
  BY InitType DEF Init, SourcesOK, Blank, NewDescriptor
<1>2. TypeOK /\ SourcesOK /\ [Next]_vars => (TypeOK /\ SourcesOK)'
  BY TypeStep, SourcesStep, TypeStutter
<1> QED BY <1>1, <1>2, PTL DEF Spec

(***************************************************************************)
(* Flushing against submitting: why camera_->stop(), which flushAndStop    *)
(* calls without holding stateMutex_, never overtakes a request.           *)
(***************************************************************************)
Draining == {"check", "wait", "stop", "stopped"}

(* state_ follows the flushing thread, a submitting thread that holds
   stateMutex_ keeps the camera running, and the camera is stopped only once
   nothing is pending.                                                       *)
PhaseInv ==
  /\ state = "Flushing" <=> ctl.pc \in Draining
  /\ ctl.pc \in {"stop", "stopped"} => pendingRequests = <<>>
  /\ cap.pc \in {"pushing", "queueing"} => state = "Running"
  /\ state = "Running" => running
  /\ state = "Flushing" /\ ctl.pc # "stopped" => running
  /\ pendingRequests # <<>> => running

(* A request that libcamera has is pending; the one that is being submitted is
   not finished before it is queued.                                         *)
QueueInv ==
  /\ \A f \in Frames : desc[f].queued => f \in ToSet(pendingRequests)
  /\ cap.pc = "queueing" => cap.frame \in ToSet(pendingRequests)
  /\ cap.pc # "idle" =>
       /\ desc[cap.frame].status = "Pending"
       /\ ~desc[cap.frame].queued /\ ~desc[cap.frame].completed

FlushInv == TypeOK /\ SourcesOK /\ PhaseInv /\ QueueInv

(* The signals of libcamera touch neither state_ nor the list of requests. *)
LEMMA LibcameraElsewhere ==
  ASSUME NEW f \in Frames, Libcamera(f) \/ MetadataAvailable(f)
  PROVE  UNCHANGED <<state, running, ctl, cap, pendingRequests>>
<1>1. CASE MetadataAvailable(f) BY <1>1 DEF MetadataAvailable, lists
<1>2. ASSUME NEW b \in Streams, NEW ok \in BOOLEAN, NEW failed \in SUBSET Streams,
             BufferComplete(f, b, ok, failed)
      PROVE  UNCHANGED <<state, running, ctl, cap, pendingRequests>>
  BY <1>2 DEF BufferComplete
<1>3. ASSUME NEW s \in Streams, NEW ok \in BOOLEAN, StreamProcessingComplete(f, s, ok)
      PROVE  UNCHANGED <<state, running, ctl, cap, pendingRequests>>
  BY <1>3 DEF StreamProcessingComplete
<1>4. ASSUME NEW status, RequestComplete(f, status)
      PROVE  UNCHANGED <<state, running, ctl, cap, pendingRequests>>
  BY <1>4 DEF RequestComplete, lists
<1> QED BY <1>1, <1>2, <1>3, <1>4 DEF Libcamera

LEMMA PhaseStep ==
  ASSUME FlushInv, Next
  PROVE  PhaseInv'
<1> USE DEF device, lists, framework
<1>0. PhaseInv /\ pendingRequests \in Seq(Frames)
  BY DEF FlushInv, TypeOK, DeviceTypeOK
<1>a. /\ cap.pc \in {"idle", "prepared", "pushing", "queueing"}
      /\ cap' = [cap EXCEPT !.pc = "pushing"] => cap'.pc = "pushing"
      /\ cap' = [cap EXCEPT !.pc = "queueing"] => cap'.pc = "queueing"
      /\ \A p : ctl' = [ctl EXCEPT !.pc = p] => ctl'.pc = p
      /\ state \in {"Stopped", "Flushing", "Running"}
  BY DEF FlushInv, TypeOK, DeviceTypeOK, ThreadTypeOK
<1> USE <1>0 DEF PhaseInv, Draining
<1>1. ASSUME UNCHANGED <<state, running, ctl, pendingRequests>>,
             cap'.pc \in {"pushing", "queueing"} => cap.pc \in {"pushing", "queueing"}
      PROVE  PhaseInv'
  BY <1>1
<1>2. CASE Framework
  <2>1. ASSUME NEW op \in ControlOps, CallControl(op) PROVE PhaseInv'
    BY <2>1 DEF CallControl
  <2>2. ASSUME NEW S \in SUBSET Streams, NEW lost \in SUBSET Direct, PrepareRequest(S, lost)
        PROVE  PhaseInv'
    BY <2>2, <1>1 DEF PrepareRequest
  <2> QED BY <1>2, <1>1, <2>1, <2>2 DEF Framework, Open, RejectRequest
<1>3. CASE ControlThread
  <2>1. CASE FlushBegin BY <2>1, <1>a DEF FlushBegin, StateMutexFree
  <2>2. CASE FlushCheck
    <3>1. CASE pendingRequests = <<>> BY <2>2, <3>1, <1>a DEF FlushCheck
    <3>2. CASE pendingRequests # <<>> BY <2>2, <3>2, <1>a DEF FlushCheck
    <3> QED BY <3>1, <3>2
  <2>3. CASE FlushStop BY <2>3, <1>a DEF FlushStop
  <2>4. CASE FlushEnd BY <2>4, <1>a DEF FlushEnd, StateMutexFree
  <2>5. CASE FlushReturn \/ CloseReturn BY <2>5 DEF FlushReturn, CloseReturn
  <2>6. CASE ConfigureStreams
    <3>1. /\ ctl.pc = "return" /\ ctl'.pc = "idle" /\ UNCHANGED <<pendingRequests, cap>>
          /\ cap.pc \notin {"pushing", "queueing"}
          /\ \/ UNCHANGED <<state, running>>
             \/ /\ state' = IF state = "Stopped" THEN "Running" ELSE state
                /\ running' = (running \/ state = "Stopped")
      BY <2>6 DEF ConfigureStreams, StateMutexFree
    <3>2. state # "Flushing" BY <3>1
    <3>3. \/ UNCHANGED <<state, running>>
          \/ state' = "Running" /\ running'
      <4>1. CASE UNCHANGED <<state, running>> BY <4>1
      <4>2. CASE /\ state' = IF state = "Stopped" THEN "Running" ELSE state
                 /\ running' = (running \/ state = "Stopped")
        <5>1. state = "Running" => running OBVIOUS
        <5>2. state = "Running" \/ state = "Stopped" BY <1>a, <3>2
        <5> QED BY <4>2, <5>1, <5>2, Zenon
      <4> QED BY <3>1, <4>1, <4>2
    <3>4. CASE UNCHANGED <<state, running>> BY <3>1, <3>4
    <3>5. CASE state' = "Running" /\ running' BY <3>1, <3>5
    <3> QED BY <3>3, <3>4, <3>5
  <2> QED BY <1>3, <2>1, <2>2, <2>3, <2>4, <2>5, <2>6 DEF ControlThread
<1>4. CASE CaptureThread
  <2>1. CASE AbortRequest \/ StartFails \/ QueueRequest
    BY <2>1, <1>1 DEF AbortRequest, StartFails, QueueRequest
  <2>2. CASE EnsureStarted BY <2>2, <1>a DEF EnsureStarted
  <2>3. CASE PushRequest
    <3>1. Append(pendingRequests, cap.frame) # <<>> OBVIOUS
    <3> QED BY <2>3, <3>1, <1>a DEF PushRequest
  <2> QED BY <1>4, <2>1, <2>2, <2>3 DEF CaptureThread
<1>5. CASE CameraThread
  <2>1. CASE FinishFront
    <3>1. pendingRequests # <<>> BY <2>1 DEF FinishFront, FrontCompleted
    <3> QED BY <2>1, <3>1 DEF FinishFront
  <2>2. CASE NotifyFlush
    <3>1. CASE ctl.pc = "wait" BY <2>2, <3>1, <1>a DEF NotifyFlush
    <3>2. CASE ctl.pc # "wait" BY <2>2, <3>2 DEF NotifyFlush
    <3> QED BY <3>1, <3>2
  <2> QED BY <1>5, <1>1, <2>1, <2>2
          DEF CameraThread, CollectReady, CollectDone, CompletePartialResult, FinishDone
<1>6. ASSUME NEW f \in Frames, Libcamera(f) \/ MetadataAvailable(f) PROVE PhaseInv'
  BY <1>6, <1>1, LibcameraElsewhere
<1> QED BY <1>2, <1>3, <1>4, <1>5, <1>6 DEF Next

(* A step that replaces one descriptor by one that is not queued for the first
   time, and finishes only a request that is not being submitted.            *)
LEMMA QueueByDescriptor ==
  ASSUME FlushInv, NEW f \in Frames, NEW d,
         desc' = [desc EXCEPT ![f] = d], UNCHANGED <<cap, pendingRequests>>,
         d.queued => desc[f].queued,
         cap.pc # "idle" /\ cap.frame = f => d.status = "Pending" /\ ~d.queued /\ ~d.completed
  PROVE  QueueInv'
<1>1. desc'[f] = d /\ \A g \in Frames : g # f => desc'[g] = desc[g]
  BY DEF FlushInv, TypeOK, DeviceTypeOK
<1>2. cap.pc # "idle" => cap.frame \in Frames BY DEF FlushInv, TypeOK, ThreadTypeOK
<1> QED BY <1>1, <1>2 DEF FlushInv, QueueInv

LEMMA QueueStep ==
  ASSUME FlushInv, Next
  PROVE  QueueInv'
<1> USE DEF device, lists, framework
<1>0. /\ desc \in [Frames -> Descriptor]
      /\ \A f \in Frames : desc[f] \in Descriptor
      /\ cap \in [pc : {"idle", "prepared", "pushing", "queueing"}, frame : 0..MaxRequests]
      /\ cap.pc # "idle" => cap.frame \in Frames
      /\ pendingRequests \in Seq(Frames) /\ cam.ready \in Seq(Results)
      /\ cam.pc = "sending" => cam.ready # <<>>
      /\ QueueInv
  BY DEF FlushInv, TypeOK, DeviceTypeOK, ThreadTypeOK
<1>1. ASSUME UNCHANGED <<desc, cap, pendingRequests>> PROVE QueueInv'
  BY <1>1, <1>0 DEF QueueInv
<1>2. CASE Framework
  <2>1. ASSUME NEW S \in SUBSET Streams, NEW lost \in SUBSET Direct, PrepareRequest(S, lost)
        PROVE  QueueInv'
    <3> DEFINE d == NewDescriptor("prepared", S, SourceBuffers(S, lost))
    <3>1. /\ desc' = [desc EXCEPT ![nextFrame] = d] /\ nextFrame \in Frames
          /\ cap' = [pc |-> "prepared", frame |-> nextFrame]
          /\ pendingRequests' = pendingRequests
      BY <2>1 DEF PrepareRequest, MayCapture
    <3>2. d.status = "Pending" /\ ~d.queued /\ ~d.completed BY DEF NewDescriptor
    <3> HIDE DEF d
    <3>3. desc'[nextFrame] = d /\ \A g \in Frames : g # nextFrame => desc'[g] = desc[g]
      BY <1>0, <3>1
    <3> QED BY <1>0, <3>1, <3>2, <3>3 DEF QueueInv
  <2> QED BY <1>2, <1>1, <2>1 DEF Framework, Open, CallControl, RejectRequest
<1>3. CASE ControlThread
  BY <1>3, <1>1 DEF ControlThread, FlushBegin, FlushCheck, FlushStop, FlushEnd, FlushReturn,
                    CloseReturn, ConfigureStreams
<1>4. CASE CaptureThread
  <2>1. CASE AbortRequest \/ StartFails
    <3>1. /\ desc' = [desc EXCEPT ![cap.frame] = Blank("freed")] /\ cap.frame \in Frames
          /\ cap' = [pc |-> "idle", frame |-> 0] /\ pendingRequests' = pendingRequests
      BY <2>1, <1>0 DEF AbortRequest, StartFails
    <3>2. ~Blank("freed").queued BY DEF Blank, NewDescriptor
    <3>3. \A f \in Frames : desc'[f].queued => desc[f].queued BY <1>0, <3>1, <3>2
    <3>4. cap'.pc = "idle" BY <3>1
    <3> QED BY <1>0, <3>1, <3>3, <3>4 DEF QueueInv
  <2>2. CASE EnsureStarted BY <2>2, <1>0 DEF EnsureStarted, QueueInv
  <2>3. CASE PushRequest
    <3> DEFINE d == [desc[cap.frame] EXCEPT !.life = "pending"]
    <3>1. /\ desc' = [desc EXCEPT ![cap.frame] = d] /\ cap.frame \in Frames
          /\ cap' = [cap EXCEPT !.pc = "queueing"]
          /\ pendingRequests' = Append(pendingRequests, cap.frame)
      BY <2>3, <1>0 DEF PushRequest
    <3>2. ToSet(pendingRequests') = ToSet(pendingRequests) \cup {cap.frame}
      BY <1>0, <3>1, AppendElements
    <3>3. d.status = desc[cap.frame].status /\ d.queued = desc[cap.frame].queued
          /\ d.completed = desc[cap.frame].completed
      BY <1>0, <3>1 DEF Descriptor
    <3> HIDE DEF d
    <3>4. desc'[cap.frame] = d /\ \A g \in Frames : g # cap.frame => desc'[g] = desc[g]
      BY <1>0, <3>1
    <3>5. cap'.frame = cap.frame /\ cap.pc # "idle" BY <2>3, <1>0, <3>1 DEF PushRequest
    <3> QED BY <1>0, <3>2, <3>3, <3>4, <3>5 DEF QueueInv
  <2>4. CASE QueueRequest
    <3>1. /\ \A g \in Frames : g # cap.frame => desc'[g] = desc[g]
          /\ cap' = [pc |-> "idle", frame |-> 0]
          /\ pendingRequests' = pendingRequests /\ cap.pc = "queueing"
      BY <2>4, <1>0 DEF QueueRequest
    <3>2. cap'.pc = "idle" BY <3>1
    <3> QED BY <1>0, <3>1, <3>2 DEF QueueInv
  <2> QED BY <1>4, <2>1, <2>2, <2>3, <2>4 DEF CaptureThread
<1>5. CASE CameraThread
  <2>1. CASE CompletePartialResult
    <3> DEFINE f == Head(cam.ready)[1]
               b == Head(cam.ready)[2]
               d == [desc[f] EXCEPT !.partial[b] = "completed",
                                    !.nextIndex = IF b \in desc[f].meta THEN @ + 1 ELSE @]
               last == IsLast(d)
               e == [d EXCEPT !.completed = last]
    <3>1. desc' = [desc EXCEPT ![f] = e] /\ UNCHANGED <<cap, pendingRequests>>
      BY ZenonT(30), <2>1 DEF CompletePartialResult
    <3>2. cam.ready # <<>> BY <2>1, <1>0 DEF CompletePartialResult
    <3>3. Head(cam.ready) \in Results BY <1>0, <3>2, HeadTailProperties
    <3>4. f \in Frames BY <3>3 DEF Results
    <3>5. last => d.status # "Pending" BY DEF IsLast
    <3> HIDE DEF f, b, last
    <3>6. d.status = desc[f].status /\ d.queued = desc[f].queued BY <1>0, <3>4 DEF Descriptor
    <3>7. e.status = d.status /\ e.queued = d.queued /\ e.completed = last
      BY <1>0, <3>4 DEF Descriptor
    <3> HIDE DEF d, e
    <3> QED BY SMTT(30), <1>0, <3>1, <3>4, <3>5, <3>6, <3>7, QueueByDescriptor DEF QueueInv
  <2>2. CASE FinishFront
    <3> DEFINE f == Head(pendingRequests)
    <3>1. /\ pendingRequests # <<>> /\ desc[f].completed
          /\ desc' = [desc EXCEPT ![f] = Blank("freed")]
          /\ pendingRequests' = Tail(pendingRequests) /\ cap' = cap
      BY <2>2 DEF FinishFront, FrontCompleted
    <3>2. f \in Frames BY <1>0, <3>1, HeadTailProperties
    <3>3. \A g \in ToSet(pendingRequests) : g # f => g \in ToSet(pendingRequests')
      BY <1>0, <3>1, TailElements
    <3>4. ~Blank("freed").queued BY DEF Blank, NewDescriptor
    <3> HIDE DEF f
    <3>5. desc'[f] = Blank("freed") /\ \A g \in Frames : g # f => desc'[g] = desc[g]
      BY <1>0, <3>1, <3>2
    <3>6. cap.pc # "idle" => cap.frame # f BY <1>0, <3>1 DEF QueueInv
    <3> QED BY <1>0, <3>1, <3>3, <3>4, <3>5, <3>6 DEF QueueInv
  <2> QED BY <1>5, <1>1, <2>1, <2>2
          DEF CameraThread, CollectReady, CollectDone, FinishDone, NotifyFlush
<1>6. ASSUME NEW f \in Frames, MetadataAvailable(f) PROVE QueueInv'
  <2> DEFINE d == [desc[f] EXCEPT !.nextIndex = @ + 1]
  <2>1. desc' = [desc EXCEPT ![f] = d] /\ UNCHANGED <<cap, pendingRequests>>
    BY <1>6 DEF MetadataAvailable
  <2>2. d.status = desc[f].status /\ d.queued = desc[f].queued
        /\ d.completed = desc[f].completed
    BY <1>0 DEF Descriptor
  <2> HIDE DEF d
  <2> QED BY <1>0, <2>1, <2>2, QueueByDescriptor DEF QueueInv
<1>7. ASSUME NEW f \in Frames, NEW b \in Streams, NEW ok \in BOOLEAN,
             NEW failed \in SUBSET Streams, BufferComplete(f, b, ok, failed)
      PROVE  QueueInv'
  <2> DEFINE mine   == ResultBuffers(f, b)
             todo   == IF ok THEN mine \ Direct ELSE {}
             errors == IF ok THEN failed ELSE mine
             d      == [desc[f] EXCEPT
                          !.fbs = @ \ {b},
                          !.partial[b] = "open",
                          !.toProcess = @ \cup (todo \ failed),
                          !.meta = IF todo \cap Jpeg # {} THEN @ \cup {b} ELSE @,
                          !.bufStatus = [s \in Streams |-> IF s \in errors THEN "Error" ELSE @[s]]]
  <2>1. desc' = [desc EXCEPT ![f] = d] /\ UNCHANGED <<cap, pendingRequests>>
    BY <1>7 DEF BufferComplete
  <2> HIDE DEF mine, todo, errors
  <2>2. d.status = desc[f].status /\ d.queued = desc[f].queued
        /\ d.completed = desc[f].completed
    BY <1>0 DEF Descriptor
  <2> HIDE DEF d
  <2> QED BY <1>0, <2>1, <2>2, QueueByDescriptor DEF QueueInv
<1>8. ASSUME NEW f \in Frames, NEW s \in Streams, NEW ok \in BOOLEAN,
             StreamProcessingComplete(f, s, ok)
      PROVE  QueueInv'
  <2> DEFINE status == IF ok THEN "Success" ELSE "Error"
             d == [desc[f] EXCEPT !.toProcess = @ \ {s}, !.bufStatus[s] = status]
  <2>1. desc' = [desc EXCEPT ![f] = d] /\ UNCHANGED <<cap, pendingRequests>>
    BY <1>8 DEF StreamProcessingComplete
  <2> HIDE DEF status
  <2>2. d.status = desc[f].status /\ d.queued = desc[f].queued
        /\ d.completed = desc[f].completed
    BY <1>0 DEF Descriptor
  <2> HIDE DEF d
  <2> QED BY <1>0, <2>1, <2>2, QueueByDescriptor DEF QueueInv
<1>9. ASSUME NEW f \in Frames, NEW st \in {"Success", "Cancelled"}, RequestComplete(f, st)
      PROVE  QueueInv'
  <2> DEFINE done == AllCompleted(desc[f])
             d == [desc[f] EXCEPT !.queued = FALSE, !.status = st, !.completed = done]
  <2>1. /\ desc' = [desc EXCEPT ![f] = d] /\ UNCHANGED <<cap, pendingRequests>>
        /\ desc[f].queued
    BY <1>9 DEF RequestComplete
  <2> HIDE DEF done
  <2>2. d.queued = FALSE BY <1>0 DEF Descriptor
  <2> HIDE DEF d
  <2> QED BY <1>0, <2>1, <2>2, QueueByDescriptor DEF QueueInv
<1> QED BY <1>2, <1>3, <1>4, <1>5, <1>6, <1>7, <1>8, <1>9 DEF Next, Libcamera

LEMMA FlushInit == Init => FlushInv
<1> SUFFICES ASSUME Init PROVE FlushInv OBVIOUS
<1>1. TypeOK BY InitType
<1>2. SourcesOK /\ QueueInv
  BY DEF Init, SourcesOK, QueueInv, Blank, NewDescriptor
<1>3. PhaseInv BY DEF Init, PhaseInv, Draining
<1> QED BY <1>1, <1>2, <1>3 DEF FlushInv

LEMMA FlushStep ==
  ASSUME FlushInv, [Next]_vars
  PROVE  FlushInv'
<1>1. CASE Next BY <1>1, TypeStep, SourcesStep, PhaseStep, QueueStep DEF FlushInv
<1>2. CASE UNCHANGED vars
  <2>1. TypeOK' /\ SourcesOK' BY <1>2, TypeStutter DEF FlushInv
  <2>2. PhaseInv' /\ QueueInv'
    BY <1>2 DEF FlushInv, vars, device, PhaseInv, QueueInv
  <2> QED BY <2>1, <2>2 DEF FlushInv
<1> QED BY <1>1, <1>2

LEMMA FlushInvariant == Spec => []FlushInv
<1>1. FlushInv /\ [Next]_vars => FlushInv' BY FlushStep
<1> QED BY FlushInit, <1>1, PTL DEF Spec

(* libcamera is never stopped while it holds a request or is being handed one:
   the flush takes Flushing under stateMutex_, which turns further submissions
   into aborts, and stops the camera only when nothing is pending, whichever
   way processCaptureRequest, flushAndStop and the completions interleave.   *)
THEOREM RunsWhileQueued == Spec => []QueuedOnlyWhileRunning
<1>1. FlushInv => QueuedOnlyWhileRunning
  <2> SUFFICES ASSUME FlushInv, cap.pc = "queueing" \/ \E f \in Frames : desc[f].queued
               PROVE  running
    BY DEF QueuedOnlyWhileRunning
  <2>1. ToSet(pendingRequests) # {} BY DEF FlushInv, QueueInv
  <2>2. pendingRequests # <<>> BY <2>1 DEF ToSet
  <2> QED BY <2>2 DEF FlushInv, PhaseInv
<1> QED BY <1>1, FlushInvariant, PTL

(* The set of requests a flush waits for only shrinks, so that it may end. *)
THEOREM NoNewRequestWhileFlushing == Spec => FlushingAcceptsNothing
<1>1. FlushInv /\ [Next]_vars =>
        [state = "Flushing" => Len(pendingRequests') <= Len(pendingRequests)]_vars
  <2> SUFFICES ASSUME FlushInv, Next, state = "Flushing"
               PROVE  Len(pendingRequests') <= Len(pendingRequests)
    OBVIOUS
  <2> USE DEF device, lists, framework
  <2>1. pendingRequests \in Seq(Frames) /\ Len(pendingRequests) \in Nat
    BY DEF FlushInv, TypeOK, DeviceTypeOK
  <2>2. CASE UNCHANGED pendingRequests BY <2>1, <2>2
  <2>3. ~PushRequest BY DEF PushRequest, FlushInv, PhaseInv
  <2>4. CASE FinishFront
    <3>1. pendingRequests # <<>> /\ pendingRequests' = Tail(pendingRequests)
      BY <2>4 DEF FinishFront, FrontCompleted
    <3> QED BY <2>1, <3>1, HeadTailProperties
  <2>5. CASE Framework
    BY <2>5, <2>2 DEF Framework, Open, CallControl, RejectRequest, PrepareRequest
  <2>6. CASE ControlThread
    BY <2>6, <2>2 DEF ControlThread, FlushBegin, FlushCheck, FlushStop, FlushEnd, FlushReturn,
                      CloseReturn, ConfigureStreams
  <2>7. CASE CaptureThread
    BY SMTT(30), <2>7, <2>2, <2>3 DEF CaptureThread, AbortRequest, EnsureStarted, StartFails, QueueRequest
  <2>8. CASE CameraThread
    BY <2>8, <2>2, <2>4 DEF CameraThread, CollectReady, CollectDone, CompletePartialResult,
                            FinishDone, NotifyFlush
  <2>9. ASSUME NEW f \in Frames, Libcamera(f) \/ MetadataAvailable(f)
        PROVE  UNCHANGED pendingRequests
    BY <2>9, LibcameraElsewhere
  <2> QED BY <2>2, <2>5, <2>6, <2>7, <2>8, <2>9 DEF Next
<1> QED BY <1>1, FlushInvariant, PTL DEF Spec, FlushingAcceptsNothing

-----------------------------------------------------------------------------
(* Which list holds a descriptor, and for how long. *)

Alive(f)  == desc[f].life = "pending"
Entered   == ToSet(pendingPartialResults)
Collected == ToSet(cam.ready)

(* A buffer is in the list of its stream until its result is collected or has
   gone, or it failed and its result is in pendingPartialResults_.           *)
Waits(f, s) ==
  LET b == desc[f].src[s] IN
  /\ Alive(f) /\ s \in desc[f].streams
  /\ desc[f].partial[b] # "completed" /\ <<f, b>> \notin Collected
  /\ <<f, b>> \in Entered => desc[f].bufStatus[s] # "Error"

ListInv ==
  /\ IsInjective(pendingRequests)
  /\ \A f \in Frames : f \in ToSet(pendingRequests) <=> Alive(f)
  /\ \A s \in Streams : IsInjective(pendingStreamBuffers[s])
  /\ \A s \in Streams : \A f \in Frames : f \in ToSet(pendingStreamBuffers[s]) <=> Waits(f, s)

ResultInv ==
  /\ IsInjective(pendingPartialResults) /\ IsInjective(cam.ready)
  /\ Entered \cap Collected = {}
  /\ \A f \in Frames : \A b \in Streams : <<f, b>> \in Entered \cup Collected =>
       /\ Alive(f) /\ desc[f].partial[b] = "open"
       /\ \A s \in desc[f].toProcess : desc[f].src[s] # b

(* The frame buffers of a descriptor and its results. *)
Coherent(d) ==
  /\ \A s \in d.streams :
       d.src[s] \in Streams /\ (d.src[s] \in d.fbs \/ d.partial[d.src[s]] # "none")
  /\ \A b \in d.fbs : d.partial[b] = "none"
  /\ \A s \in d.toProcess :
       d.life = "pending" /\ s \in d.streams /\ d.partial[d.src[s]] = "open"
  /\ d.life = "prepared" => \A b \in Streams : d.partial[b] = "none"
  /\ d.status # "Pending" => ~d.queued /\ d.fbs = {}
  /\ d.completed => d.status # "Pending" /\ AllCompleted(d)

FrameInv ==
  /\ \A f \in Frames : Coherent(desc[f])
  /\ \A f \in Frames : f >= nextFrame => desc[f].life = "absent"
  /\ cap.pc \in {"prepared", "pushing"} => desc[cap.frame].life = "prepared"

(* The control thread finds nothing when it configures. *)
ConfigureInv ==
  /\ state = "Stopped" => pendingRequests = <<>>
  /\ ctl.op \in {"configure", "close"} => cap.pc = "idle"
  /\ ctl.pc = "return" /\ ctl.op = "configure" => pendingRequests = <<>>

OwnerInv == FlushInv /\ ListInv /\ ResultInv /\ FrameInv /\ ConfigureInv

(* What the types of the variables say. *)
LEMMA Types ==
  ASSUME OwnerInv
  PROVE  /\ desc \in [Frames -> Descriptor] /\ \A f \in Frames : desc[f] \in Descriptor
         /\ pendingRequests \in Seq(Frames) /\ pendingPartialResults \in Seq(Results)
         /\ \A s \in Streams : pendingStreamBuffers[s] \in Seq(Frames)
         /\ pendingStreamBuffers \in [Streams -> Seq(Frames)]
         /\ cam.ready \in Seq(Results)
         /\ nextFrame \in Nat /\ Frames \subseteq Nat
         /\ cap.pc # "idle" => cap.frame \in Frames
         /\ ToSet(pendingRequests) \subseteq Frames
         /\ \A s \in Streams : ToSet(pendingStreamBuffers[s]) \subseteq Frames
         /\ Entered \subseteq Results /\ Collected \subseteq Results
<1>1. /\ desc \in [Frames -> Descriptor] /\ pendingRequests \in Seq(Frames)
      /\ pendingPartialResults \in Seq(Results) /\ cam.ready \in Seq(Results)
      /\ pendingStreamBuffers \in [Streams -> Seq(Frames)]
      /\ nextFrame \in 1..(MaxRequests + 1) /\ (cap.pc # "idle" => cap.frame \in Frames)
  BY DEF OwnerInv, FlushInv, TypeOK, DeviceTypeOK, ThreadTypeOK
<1>2. Frames \subseteq Nat /\ nextFrame \in Nat BY <1>1, BoundAssumption DEF Frames
<1>3. \A T : \A q \in Seq(T) : ToSet(q) \subseteq T BY DEF ToSet
<1>4. \A s \in Streams : pendingStreamBuffers[s] \in Seq(Frames) BY <1>1
<1>5. /\ ToSet(pendingRequests) \subseteq Frames
      /\ \A s \in Streams : ToSet(pendingStreamBuffers[s]) \subseteq Frames
      /\ Entered \subseteq Results /\ Collected \subseteq Results
  BY <1>1, <1>3, <1>4 DEF Entered, Collected
<1> QED BY <1>1, <1>2, <1>4, <1>5

(* A step that only moves threads. *)
LEMMA QuietStep ==
  ASSUME OwnerInv, UNCHANGED <<desc, pendingRequests, pendingStreamBuffers, pendingPartialResults>>,
         cam'.ready = cam.ready, nextFrame' \in {nextFrame, nextFrame + 1},
         cap'.pc \in {"prepared", "pushing"} =>
           cap.pc \in {"prepared", "pushing"} /\ cap'.frame = cap.frame
  PROVE  ListInv' /\ ResultInv' /\ FrameInv'
<1>1. \A f \in Frames : f >= nextFrame' => f >= nextFrame BY Types
<1>2. ListInv' BY DEF OwnerInv, ListInv, Waits, Alive, Entered, Collected
<1>3. ResultInv' BY DEF OwnerInv, ResultInv, Alive, Entered, Collected
<1>4. FrameInv' BY <1>1 DEF OwnerInv, FrameInv
<1> QED BY <1>2, <1>3, <1>4

(* A step that replaces one descriptor by one with the same owner. *)
LEMMA FrameByDescriptor ==
  ASSUME OwnerInv, NEW f \in Frames, NEW d, desc' = [desc EXCEPT ![f] = d], Coherent(d),
         d.life = desc[f].life, nextFrame' = nextFrame,
         cap'.pc \in {"prepared", "pushing"} =>
           cap.pc \in {"prepared", "pushing"} /\ cap'.frame = cap.frame
  PROVE  FrameInv'
<1>1. desc'[f] = d /\ \A g \in Frames : g # f => desc'[g] = desc[g] BY Types
<1>2. \A g \in Frames : desc'[g].life = desc[g].life BY <1>1
<1>3. cap.pc \in {"prepared", "pushing"} => cap.frame \in Frames BY Types
<1> QED BY <1>1, <1>2, <1>3 DEF OwnerInv, FrameInv

(* How far a buffer is may change while its result is in no list. *)
LEMMA KeptByDescriptor ==
  ASSUME OwnerInv, NEW f \in Frames, NEW d, desc' = [desc EXCEPT ![f] = d], Coherent(d),
         d.life = desc[f].life, d.streams = desc[f].streams, d.src = desc[f].src,
         \A b \in Streams : /\ d.partial[b] = "completed" <=> desc[f].partial[b] = "completed"
                            /\ desc[f].partial[b] = "open" => d.partial[b] = "open",
         \A s \in d.toProcess : <<f, d.src[s]>> \notin Entered \cup Collected,
         \A s \in d.streams : <<f, d.src[s]>> \in Entered => d.bufStatus[s] = desc[f].bufStatus[s],
         UNCHANGED <<pendingRequests, pendingStreamBuffers, pendingPartialResults, nextFrame>>,
         cam'.ready = cam.ready,
         cap'.pc \in {"prepared", "pushing"} =>
           cap.pc \in {"prepared", "pushing"} /\ cap'.frame = cap.frame
  PROVE  ListInv' /\ ResultInv' /\ FrameInv'
<1>1. desc'[f] = d /\ \A g \in Frames : g # f => desc'[g] = desc[g] BY Types
<1>2. Entered' = Entered /\ Collected' = Collected BY DEF Entered, Collected
<1>3. \A g \in Frames : Alive(g)' <=> Alive(g) BY <1>1 DEF Alive
<1>4. \A g \in Frames, s \in Streams : Waits(g, s)' <=> Waits(g, s)
  <2> SUFFICES ASSUME NEW g \in Frames, NEW s \in Streams PROVE Waits(g, s)' <=> Waits(g, s)
    OBVIOUS
  <2>1. CASE g # f BY <1>1, <1>2, <1>3, <2>1 DEF Waits
  <2>2. CASE g = f
    <3>1. s \in d.streams => d.src[s] \in Streams BY DEF Coherent
    <3> QED BY <1>1, <1>2, <1>3, <2>2, <3>1 DEF Waits
  <2> QED BY <2>1, <2>2
<1>5. ListInv' BY <1>3, <1>4 DEF OwnerInv, ListInv
<1>6. ResultInv'
  <2> SUFFICES ASSUME NEW g \in Frames, NEW b \in Streams, <<g, b>> \in Entered \cup Collected
               PROVE  /\ Alive(g)' /\ desc'[g].partial[b] = "open"
                      /\ \A s \in desc'[g].toProcess : desc'[g].src[s] # b
    BY <1>2 DEF OwnerInv, ResultInv
  <2>1. /\ Alive(g) /\ desc[g].partial[b] = "open"
        /\ \A s \in desc[g].toProcess : desc[g].src[s] # b
    BY DEF OwnerInv, ResultInv
  <2>2. CASE g # f BY <1>1, <1>3, <2>1, <2>2
  <2>3. CASE g = f BY <1>1, <1>3, <2>1, <2>3
  <2> QED BY <2>2, <2>3
<1>7. FrameInv' BY FrameByDescriptor
<1> QED BY <1>5, <1>6, <1>7

(* ... and as its result joins pendingPartialResults_, it leaves the list of
   its stream if it failed.                                                  *)
LEMMA EnteredByDescriptor ==
  ASSUME OwnerInv, NEW f \in Frames, NEW b \in Streams, NEW d,
         desc' = [desc EXCEPT ![f] = d], Coherent(d), EnterCheck(f, b, d),
         d.life = desc[f].life, d.streams = desc[f].streams, d.src = desc[f].src, Alive(f),
         \A c \in Streams : /\ d.partial[c] = "completed" <=> desc[f].partial[c] = "completed"
                            /\ desc[f].partial[c] = "open" => d.partial[c] = "open",
         d.partial[b] = "open", <<f, b>> \notin Entered \cup Collected,
         \A s \in d.toProcess : d.src[s] # b /\ <<f, d.src[s]>> \notin Entered \cup Collected,
         \A s \in d.streams : <<f, d.src[s]>> \in Entered => d.bufStatus[s] = desc[f].bufStatus[s],
         UNCHANGED <<pendingRequests, nextFrame, cap>>
  PROVE  ListInv' /\ ResultInv' /\ FrameInv'
<1>1. desc'[f] = d /\ \A g \in Frames : g # f => desc'[g] = desc[g] BY Types
<1>2. /\ pendingPartialResults' = <<<<f, b>>>> \o pendingPartialResults
      /\ pendingStreamBuffers' =
           [s \in Streams |->
              IF s \in ResultBuffers(f, b) /\ d.bufStatus[s] = "Error"
              THEN RemoveFirst(pendingStreamBuffers[s], f) ELSE pendingStreamBuffers[s]]
      /\ cam'.ready = cam.ready
  <2>1. cam \in [pc : {"idle", "collecting", "sending", "finishing", "notifying"},
                 iter : Nat, ready : Seq(Results)]
    BY DEF OwnerInv, FlushInv, TypeOK, ThreadTypeOK
  <2>2. cam' = [cam EXCEPT !.pc = "collecting", !.iter = 1] BY DEF EnterCheck
  <2>3. cam'.ready = cam.ready BY <2>1, <2>2
  <2> QED BY <2>3 DEF EnterCheck
<1>3. <<f, b>> \in Results BY DEF Results
<1>4. /\ Entered' = Entered \cup {<<f, b>>} /\ Collected' = Collected
      /\ IsInjective(pendingPartialResults)'
  <2>1. IsInjective(pendingPartialResults) /\ <<f, b>> \notin ToSet(pendingPartialResults)
    BY DEF OwnerInv, ResultInv, Entered
  <2>2. pendingPartialResults \in Seq(Results) BY Types
  <2>3. /\ ToSet(<<<<f, b>>>> \o pendingPartialResults) = ToSet(pendingPartialResults) \cup {<<f, b>>}
        /\ IsInjective(<<<<f, b>>>> \o pendingPartialResults)
    BY <1>3, <2>1, <2>2, PrependElements
  <2> QED BY <1>2, <2>3 DEF Entered, Collected
<1>5. \A g \in Frames : Alive(g)' <=> Alive(g) BY <1>1 DEF Alive
<1>6. \A s \in Streams :
        LET gone == {g \in {f} : s \in ResultBuffers(f, b) /\ d.bufStatus[s] = "Error"}
        IN  /\ ToSet(pendingStreamBuffers'[s]) = ToSet(pendingStreamBuffers[s]) \ gone
            /\ IsInjective(pendingStreamBuffers'[s])
  <2> SUFFICES ASSUME NEW s \in Streams
               PROVE  LET gone == {g \in {f} : s \in ResultBuffers(f, b) /\ d.bufStatus[s] = "Error"}
                      IN  /\ ToSet(pendingStreamBuffers'[s]) = ToSet(pendingStreamBuffers[s]) \ gone
                          /\ IsInjective(pendingStreamBuffers'[s])
    OBVIOUS
  <2>1. pendingStreamBuffers[s] \in Seq(Frames) /\ IsInjective(pendingStreamBuffers[s])
    BY Types DEF OwnerInv, ListInv
  <2>2. CASE s \in ResultBuffers(f, b) /\ d.bufStatus[s] = "Error"
    <3>1. pendingStreamBuffers'[s] = RemoveFirst(pendingStreamBuffers[s], f) BY <1>2, <2>2
    <3> QED BY <2>1, <2>2, <3>1, RemoveFirstElements
  <2>3. CASE ~(s \in ResultBuffers(f, b) /\ d.bufStatus[s] = "Error")
    <3>1. pendingStreamBuffers'[s] = pendingStreamBuffers[s] BY <1>2, <2>3
    <3> QED BY <2>1, <2>3, <3>1
  <2> QED BY <2>2, <2>3
<1>7. \A g \in Frames, s \in Streams :
        Waits(g, s)' <=> Waits(g, s) /\ ~(g = f /\ s \in ResultBuffers(f, b) /\ d.bufStatus[s] = "Error")
  <2> SUFFICES ASSUME NEW g \in Frames, NEW s \in Streams
               PROVE  Waits(g, s)' <=>
                        Waits(g, s) /\ ~(g = f /\ s \in ResultBuffers(f, b) /\ d.bufStatus[s] = "Error")
    OBVIOUS
  <2>1. CASE g # f
    <3>1. \A c : <<g, c>> \in Entered' <=> <<g, c>> \in Entered BY <1>4, <2>1
    <3> QED BY <1>1, <1>4, <1>5, <2>1, <3>1 DEF Waits
  <2>2. CASE g = f /\ s \notin d.streams BY <1>1, <2>2 DEF Waits
  <2>3. CASE g = f /\ s \in d.streams /\ d.src[s] = b
    <3>1. s \in ResultBuffers(f, b) BY <2>3 DEF ResultBuffers
    <3>2. Waits(f, s) BY <2>3 DEF Waits
    <3>3. Waits(f, s)' <=> d.bufStatus[s] # "Error" BY <1>1, <1>4, <1>5, <2>3 DEF Waits
    <3> QED BY <2>3, <3>1, <3>2, <3>3
  <2>4. CASE g = f /\ s \in d.streams /\ d.src[s] # b
    <3>1. s \notin ResultBuffers(f, b) BY <2>4 DEF ResultBuffers
    <3>2. d.src[s] \in Streams BY <2>4 DEF Coherent
    <3>3. <<f, d.src[s]>> \in Entered' <=> <<f, d.src[s]>> \in Entered BY <1>4, <2>4
    <3>4. Waits(f, s)' <=> Waits(f, s) BY <1>1, <1>4, <1>5, <2>4, <3>2, <3>3 DEF Waits
    <3> QED BY <2>4, <3>1, <3>4
  <2> QED BY <2>1, <2>2, <2>3, <2>4
<1>8. ListInv'
  <2>1. \A s \in Streams : \A g \in Frames : g \in ToSet(pendingStreamBuffers'[s]) <=> Waits(g, s)'
    BY <1>6, <1>7 DEF OwnerInv, ListInv
  <2> QED BY <1>5, <1>6, <2>1 DEF OwnerInv, ListInv
<1>9. ResultInv'
  <2>1. ASSUME NEW g \in Frames, NEW c \in Streams, <<g, c>> \in Entered' \cup Collected'
        PROVE  /\ Alive(g)' /\ desc'[g].partial[c] = "open"
               /\ \A s \in desc'[g].toProcess : desc'[g].src[s] # c
    <3>1. CASE <<g, c>> = <<f, b>> BY <1>1, <1>5, <3>1
    <3>2. CASE <<g, c>> # <<f, b>>
      <4>1. <<g, c>> \in Entered \cup Collected BY <1>4, <2>1, <3>2
      <4>2. /\ Alive(g) /\ desc[g].partial[c] = "open"
            /\ \A s \in desc[g].toProcess : desc[g].src[s] # c
        BY <4>1 DEF OwnerInv, ResultInv
      <4>3. CASE g # f BY <1>1, <1>5, <4>2, <4>3
      <4>4. CASE g = f BY <1>1, <1>5, <4>1, <4>2, <4>4
      <4> QED BY <4>3, <4>4
    <3> QED BY <3>1, <3>2
  <2>2. IsInjective(cam'.ready) BY <1>2 DEF OwnerInv, ResultInv
  <2>3. Entered' \cap Collected' = {} BY <1>4 DEF OwnerInv, ResultInv
  <2> QED BY <1>4, <2>1, <2>2, <2>3 DEF ResultInv
<1>10. FrameInv' BY FrameByDescriptor
<1> QED BY <1>8, <1>9, <1>10

(* The framework and the control thread. *)
LEMMA ControlOwner ==
  ASSUME OwnerInv, ControlThread
  PROVE  ListInv' /\ ResultInv' /\ FrameInv'
<1> USE DEF device, lists, framework
<1>1. CASE FlushBegin \/ FlushCheck \/ FlushStop \/ FlushEnd \/ FlushReturn \/ CloseReturn
  BY <1>1, QuietStep DEF FlushBegin, FlushCheck, FlushStop, FlushEnd, FlushReturn, CloseReturn
<1>2. CASE ConfigureStreams
  <2>1. /\ pendingRequests = <<>> /\ UNCHANGED <<desc, pendingRequests, pendingPartialResults, cam, nextFrame, cap>>
        /\ pendingStreamBuffers' = [s \in Streams |-> <<>>]
    BY <1>2 DEF ConfigureStreams, OwnerInv, ConfigureInv
  <2>2. ToSet(<<>>) = {} /\ IsInjective(<<>>) BY DEF ToSet, IsInjective
  <2>3. \A f \in Frames : ~Alive(f)' BY <2>1, <2>2 DEF OwnerInv, ListInv, Alive
  <2>4. \A s \in Streams : pendingStreamBuffers'[s] = <<>> BY <2>1
  <2>5. ListInv' BY <2>1, <2>2, <2>3, <2>4 DEF ListInv, Waits
  <2>6. ResultInv' BY <2>1 DEF OwnerInv, ResultInv, Entered, Collected, Alive
  <2>7. FrameInv' BY <2>1 DEF OwnerInv, FrameInv
  <2> QED BY <2>5, <2>6, <2>7
<1> QED BY <1>1, <1>2 DEF ControlThread

LEMMA FrameworkOwner ==
  ASSUME OwnerInv, ~GetBufferCanFail, Framework
  PROVE  ListInv' /\ ResultInv' /\ FrameInv'
<1> USE DEF device, lists, framework
<1>1. CASE Open \/ RejectRequest \/ \E op \in ControlOps : CallControl(op)
  BY <1>1, QuietStep DEF Open, RejectRequest, CallControl
<1>2. ASSUME NEW S \in SUBSET Streams, NEW lost \in SUBSET Direct, PrepareRequest(S, lost)
      PROVE  ListInv' /\ ResultInv' /\ FrameInv'
  <2> DEFINE d == NewDescriptor("prepared", S, SourceBuffers(S, lost))
             n == nextFrame
  <2>1. /\ desc' = [desc EXCEPT ![n] = d] /\ n \in Frames /\ nextFrame' = n + 1 /\ lost = {}
        /\ cap' = [pc |-> "prepared", frame |-> n]
        /\ UNCHANGED <<pendingRequests, pendingStreamBuffers, pendingPartialResults, cam>>
    BY <1>2 DEF PrepareRequest, MayCapture
  <2>2. /\ d.life = "prepared" /\ d.streams = S /\ d.src = SourceBuffers(S, lost)
        /\ d.status = "Pending" /\ ~d.completed /\ d.toProcess = {}
        /\ \A b \in Streams : d.partial[b] = "none"
        /\ d.fbs = {SourceBuffers(S, lost)[s] : s \in S} \ {NoBuffer}
    BY DEF NewDescriptor
  <2>3. \A s \in S : SourceBuffers(S, lost)[s] \in Streams \ {NoBuffer}
    BY <2>1, StreamAssumption DEF SourceBuffers, Direct
  <2>4. Coherent(d) BY <2>2, <2>3 DEF Coherent
  <2> HIDE DEF d, n
  <2>5. desc'[n] = d /\ \A g \in Frames : g # n => desc'[g] = desc[g] BY <2>1, Types
  <2>6. desc[n].life = "absent"
    <3>1. n \in Frames /\ n >= nextFrame BY <2>1, Types DEF n
    <3> QED BY <3>1 DEF OwnerInv, FrameInv
  <2>7. (\A g \in Frames : Alive(g)' <=> Alive(g)) /\ ~Alive(n)
    BY <2>1, <2>2, <2>5, <2>6 DEF Alive
  <2>8. Entered' = Entered /\ Collected' = Collected BY <2>1 DEF Entered, Collected
  <2>9. \A g \in Frames, s \in Streams : Waits(g, s)' <=> Waits(g, s)
    BY <2>5, <2>7, <2>8 DEF Waits
  <2>10. ListInv' BY <2>1, <2>7, <2>9 DEF OwnerInv, ListInv
  <2>11. ResultInv'
    <3>1. \A g \in Frames, b \in Streams : <<g, b>> \in Entered \cup Collected => g # n
      BY <2>7 DEF OwnerInv, ResultInv
    <3> QED BY <2>1, <2>5, <2>7, <2>8, <3>1 DEF OwnerInv, ResultInv
  <2>12. FrameInv'
    <3>1. \A g \in Frames : g >= nextFrame' => g >= nextFrame /\ g # n BY <2>1, Types DEF n
    <3> QED BY <2>1, <2>2, <2>4, <2>5, <3>1 DEF OwnerInv, FrameInv
  <2> QED BY <2>10, <2>11, <2>12
<1> QED BY <1>1, <1>2 DEF Framework

(* The capture thread. *)
LEMMA CaptureOwner ==
  ASSUME OwnerInv, CaptureThread
  PROVE  ListInv' /\ ResultInv' /\ FrameInv'
<1> USE DEF device, lists, framework
<1>1. CASE EnsureStarted
  <2>1. cap.pc = "prepared" /\ cap' = [cap EXCEPT !.pc = "pushing"] BY <1>1 DEF EnsureStarted
  <2>2. cap'.frame = cap.frame BY <2>1 DEF OwnerInv, FlushInv, TypeOK, ThreadTypeOK
  <2> QED BY <1>1, <2>1, <2>2, QuietStep DEF EnsureStarted
<1>2. CASE AbortRequest \/ StartFails
  <2> DEFINE d == Blank("freed")
             f == cap.frame
  <2>1. /\ desc' = [desc EXCEPT ![f] = d] /\ cap.pc = "prepared" /\ cap'.pc = "idle"
        /\ UNCHANGED <<pendingRequests, pendingStreamBuffers, pendingPartialResults, cam, nextFrame>>
    BY <1>2 DEF AbortRequest, StartFails
  <2>2. d.life = "freed" /\ Coherent(d) BY DEF Blank, NewDescriptor, Coherent
  <2>3. f \in Frames /\ desc[f].life = "prepared" BY <2>1, Types DEF OwnerInv, FrameInv
  <2> HIDE DEF d, f
  <2>4. desc'[f] = d /\ \A g \in Frames : g # f => desc'[g] = desc[g] BY <2>1, <2>3, Types
  <2>5. (\A g \in Frames : Alive(g)' <=> Alive(g)) /\ ~Alive(f) BY <2>2, <2>3, <2>4 DEF Alive
  <2>6. Entered' = Entered /\ Collected' = Collected BY <2>1 DEF Entered, Collected
  <2>7. \A g \in Frames, s \in Streams : Waits(g, s)' <=> Waits(g, s)
    BY <2>4, <2>5, <2>6 DEF Waits
  <2>8. ListInv' BY <2>1, <2>5, <2>7 DEF OwnerInv, ListInv
  <2>9. ResultInv'
    <3>1. \A g \in Frames, b \in Streams : <<g, b>> \in Entered \cup Collected => g # f
      BY <2>5 DEF OwnerInv, ResultInv
    <3> QED BY <2>1, <2>4, <2>5, <2>6, <3>1 DEF OwnerInv, ResultInv
  <2>10. FrameInv'
    <3>1. \A g \in Frames : g >= nextFrame => g # f BY <2>3 DEF OwnerInv, FrameInv
    <3> QED BY <2>1, <2>2, <2>4, <3>1 DEF OwnerInv, FrameInv
  <2> QED BY <2>8, <2>9, <2>10
<1>3. CASE PushRequest
  <2> DEFINE f == cap.frame
             d == [desc[f] EXCEPT !.life = "pending"]
  <2>1. /\ desc' = [desc EXCEPT ![f] = d] /\ cap.pc = "pushing" /\ cap'.pc = "queueing"
        /\ pendingRequests' = Append(pendingRequests, f)
        /\ pendingStreamBuffers' =
             [s \in Streams |-> IF s \in desc[f].streams THEN Append(pendingStreamBuffers[s], f)
                                ELSE pendingStreamBuffers[s]]
        /\ UNCHANGED <<pendingPartialResults, cam, nextFrame>>
    BY <1>3 DEF PushRequest, OwnerInv, FlushInv, TypeOK, ThreadTypeOK
  <2>2. f \in Frames /\ desc[f].life = "prepared" BY <2>1, Types DEF OwnerInv, FrameInv
  <2>3. /\ d.life = "pending" /\ d.streams = desc[f].streams /\ d.src = desc[f].src
        /\ d.partial = desc[f].partial /\ d.toProcess = desc[f].toProcess /\ d.fbs = desc[f].fbs
        /\ d.status = desc[f].status /\ d.queued = desc[f].queued /\ d.completed = desc[f].completed
    BY <2>2, Types DEF Descriptor
  <2> HIDE DEF d, f
  <2>4. desc'[f] = d /\ \A g \in Frames : g # f => desc'[g] = desc[g] BY <2>1, <2>2, Types
  <2>5. Coherent(desc[f]) /\ \A b \in Streams : d.partial[b] = "none"
    BY <2>2, <2>3 DEF OwnerInv, FrameInv, Coherent
  <2>6. Coherent(d) BY <2>3, <2>5 DEF Coherent, AllCompleted
  <2>7. (\A g \in Frames : Alive(g)' <=> Alive(g) \/ g = f) /\ ~Alive(f)
    BY <2>2, <2>3, <2>4 DEF Alive
  <2>8. Entered' = Entered /\ Collected' = Collected BY <2>1 DEF Entered, Collected
  <2>9. \A b \in Streams : <<f, b>> \notin Entered \cup Collected
    BY <2>2, <2>7 DEF OwnerInv, ResultInv
  <2>10. \A g \in Frames, s \in Streams :
           Waits(g, s)' <=> Waits(g, s) \/ (g = f /\ s \in d.streams)
    <3> SUFFICES ASSUME NEW g \in Frames, NEW s \in Streams
                 PROVE  Waits(g, s)' <=> Waits(g, s) \/ (g = f /\ s \in d.streams)
      OBVIOUS
    <3>1. CASE g # f BY <2>4, <2>7, <2>8, <3>1 DEF Waits
    <3>2. CASE g = f
      <4>1. s \in d.streams => d.src[s] \in Streams BY <2>6 DEF Coherent
      <4> QED BY <2>4, <2>5, <2>7, <2>8, <2>9, <3>2, <4>1 DEF Waits
    <3> QED BY <3>1, <3>2
  <2>11. /\ IsInjective(pendingRequests') /\ ToSet(pendingRequests') = ToSet(pendingRequests) \cup {f}
    <3>1. pendingRequests \in Seq(Frames) /\ IsInjective(pendingRequests) /\ f \notin ToSet(pendingRequests)
      BY <2>2, <2>7, Types DEF OwnerInv, ListInv
    <3> QED BY <2>1, <2>2, <3>1, AppendElements, AppendKeepsInjective
  <2>12. \A s \in Streams :
           /\ IsInjective(pendingStreamBuffers'[s])
           /\ ToSet(pendingStreamBuffers'[s]) =
                ToSet(pendingStreamBuffers[s]) \cup {g \in {f} : s \in d.streams}
    <3> SUFFICES ASSUME NEW s \in Streams
                 PROVE  /\ IsInjective(pendingStreamBuffers'[s])
                        /\ ToSet(pendingStreamBuffers'[s]) =
                             ToSet(pendingStreamBuffers[s]) \cup {g \in {f} : s \in d.streams}
      OBVIOUS
    <3>1. /\ pendingStreamBuffers[s] \in Seq(Frames) /\ IsInjective(pendingStreamBuffers[s])
          /\ f \notin ToSet(pendingStreamBuffers[s])
      BY <2>2, <2>7, Types DEF OwnerInv, ListInv, Waits
    <3>2. CASE s \in d.streams
      <4>1. pendingStreamBuffers'[s] = Append(pendingStreamBuffers[s], f) BY <2>1, <2>3, <3>2
      <4> QED BY <2>2, <3>1, <3>2, <4>1, AppendElements, AppendKeepsInjective
    <3>3. CASE s \notin d.streams
      <4>1. pendingStreamBuffers'[s] = pendingStreamBuffers[s] BY <2>1, <2>3, <3>3
      <4> QED BY <3>1, <3>3, <4>1
    <3> QED BY <3>2, <3>3
  <2>13. ListInv'
    <3>1. \A s \in Streams : \A g \in Frames : g \in ToSet(pendingStreamBuffers'[s]) <=> Waits(g, s)'
      BY <2>10, <2>12 DEF OwnerInv, ListInv
    <3> QED BY <2>7, <2>11, <2>12, <3>1 DEF OwnerInv, ListInv
  <2>14. ResultInv'
    <3>1. \A g \in Frames, b \in Streams : <<g, b>> \in Entered \cup Collected => g # f
      BY <2>9
    <3> QED BY <2>1, <2>4, <2>7, <2>8, <3>1 DEF OwnerInv, ResultInv
  <2>15. FrameInv'
    <3>1. \A g \in Frames : g >= nextFrame => g # f BY <2>2 DEF OwnerInv, FrameInv
    <3> QED BY <2>1, <2>4, <2>6, <3>1 DEF OwnerInv, FrameInv
  <2> QED BY <2>13, <2>14, <2>15
<1>4. CASE QueueRequest
  <2> DEFINE f == cap.frame
             queued == desc[f].fbs # {}
             d == [desc[f] EXCEPT !.queued = queued]
  <2>1. /\ desc' = [desc EXCEPT ![f] = d] /\ cap.pc = "queueing" /\ cap'.pc = "idle"
        /\ UNCHANGED <<pendingRequests, pendingStreamBuffers, pendingPartialResults, cam, nextFrame>>
    <3>1. /\ desc' = [desc EXCEPT ![f].queued = queued] /\ cap.pc = "queueing" /\ cap'.pc = "idle"
          /\ UNCHANGED <<pendingRequests, pendingStreamBuffers, pendingPartialResults, cam, nextFrame>>
      BY <1>4 DEF QueueRequest
    <3> QED BY <3>1
  <2>2. f \in Frames /\ desc[f].status = "Pending"
    BY <2>1, Types DEF OwnerInv, FlushInv, QueueInv
  <2> HIDE DEF queued
  <2>3. /\ d.life = desc[f].life /\ d.streams = desc[f].streams /\ d.src = desc[f].src
        /\ d.partial = desc[f].partial /\ d.toProcess = desc[f].toProcess /\ d.fbs = desc[f].fbs
        /\ d.status = desc[f].status /\ d.bufStatus = desc[f].bufStatus /\ d.completed = desc[f].completed
    BY <2>2, Types DEF Descriptor
  <2> HIDE DEF d, f
  <2>4. Coherent(d)
    <3>1. Coherent(desc[f]) BY <2>2 DEF OwnerInv, FrameInv
    <3> QED BY <2>2, <2>3, <3>1 DEF Coherent, AllCompleted
  <2>5. \A s \in d.toProcess : <<f, d.src[s]>> \notin Entered \cup Collected
    <3>1. \A s \in d.toProcess : d.src[s] \in Streams BY <2>4 DEF Coherent
    <3> QED BY <2>2, <2>3, <3>1 DEF OwnerInv, ResultInv
  <2> QED BY <2>1, <2>2, <2>3, <2>4, <2>5, KeptByDescriptor
<1> QED BY <1>1, <1>2, <1>3, <1>4 DEF CaptureThread

(* The signals of libcamera and of the post-processors. *)
LEMMA BufferOwner ==
  ASSUME OwnerInv, NEW f \in Frames, NEW b \in Streams, NEW ok \in BOOLEAN,
         NEW failed \in SUBSET Streams, BufferComplete(f, b, ok, failed)
  PROVE  ListInv' /\ ResultInv' /\ FrameInv'
<1> DEFINE mine   == ResultBuffers(f, b)
           todo   == IF ok THEN mine \ Direct ELSE {}
           errors == IF ok THEN failed ELSE mine
           meta   == IF todo \cap Jpeg # {} THEN desc[f].meta \cup {b} ELSE desc[f].meta
           d      == [desc[f] EXCEPT
                        !.fbs = @ \ {b},
                        !.partial[b] = "open",
                        !.toProcess = @ \cup (todo \ failed),
                        !.meta = IF todo \cap Jpeg # {} THEN @ \cup {b} ELSE @,
                        !.bufStatus = [s \in Streams |-> IF s \in errors THEN "Error" ELSE @[s]]]
<1>1. /\ desc' = [desc EXCEPT ![f] = d] /\ desc[f].queued /\ b \in desc[f].fbs /\ failed \subseteq todo
      /\ IF todo \subseteq failed THEN EnterCheck(f, b, d)
         ELSE UNCHANGED <<pendingPartialResults, pendingStreamBuffers, cam>>
      /\ UNCHANGED <<pendingRequests, nextFrame, cap>>
  BY DEF BufferComplete
<1>2. todo \subseteq mine /\ errors \subseteq mine BY <1>1
<1>3. mine = {s \in desc[f].streams : desc[f].src[s] = b} BY DEF ResultBuffers
<1> HIDE DEF mine, todo, errors
<1>4. /\ d.life = desc[f].life /\ d.streams = desc[f].streams /\ d.src = desc[f].src
      /\ d.status = desc[f].status /\ d.queued = desc[f].queued /\ d.completed = desc[f].completed
      /\ d.fbs = desc[f].fbs \ {b} /\ d.toProcess = desc[f].toProcess \cup (todo \ failed)
      /\ d.partial = [desc[f].partial EXCEPT ![b] = "open"]
      /\ d.bufStatus = [s \in Streams |-> IF s \in errors THEN "Error" ELSE desc[f].bufStatus[s]]
  BY Types DEF Descriptor
<1>5. desc[f].partial \in [Streams -> {"none", "open", "completed"}] /\ desc[f].streams \subseteq Streams
  BY Types DEF Descriptor
<1>6. /\ d.partial[b] = "open" /\ \A c \in Streams : c # b => d.partial[c] = desc[f].partial[c]
  BY <1>4, <1>5
<1> HIDE DEF d
<1>7. Coherent(desc[f]) BY DEF OwnerInv, FrameInv
<1>8. /\ desc[f].life = "pending" /\ Alive(f) /\ desc[f].partial[b] = "none"
      /\ desc[f].status = "Pending" /\ ~desc[f].completed
  <2>1. f \in ToSet(pendingRequests) BY <1>1 DEF OwnerInv, FlushInv, QueueInv
  <2>2. Alive(f) BY <2>1 DEF OwnerInv, ListInv
  <2> QED BY <1>1, <1>7, <2>2 DEF Coherent, Alive
<1>9. \A s \in desc[f].streams : desc[f].src[s] \in Streams BY <1>7 DEF Coherent
<1>10. /\ \A s \in d.toProcess : s \in d.streams /\ d.src[s] \in Streams /\ d.partial[d.src[s]] = "open"
       /\ \A s \in desc[f].toProcess : desc[f].src[s] # b
  <2>1. \A s \in desc[f].toProcess :
          s \in desc[f].streams /\ desc[f].partial[desc[f].src[s]] = "open" /\ desc[f].src[s] # b
    BY <1>7, <1>8 DEF Coherent
  <2>2. \A s \in todo : s \in desc[f].streams /\ desc[f].src[s] = b BY <1>2, <1>3
  <2>3. ASSUME NEW s \in d.toProcess
        PROVE  s \in d.streams /\ d.src[s] \in Streams /\ d.partial[d.src[s]] = "open"
    <3>1. CASE s \in desc[f].toProcess BY <1>4, <1>6, <1>9, <2>1, <3>1
    <3>2. CASE s \in todo BY <1>4, <1>6, <1>9, <2>2, <3>2
    <3> QED BY <1>4, <3>1, <3>2
  <2> QED BY <2>1, <2>3
<1>11. Coherent(d)
  <2>1. \A s \in d.streams : d.src[s] \in Streams /\ (d.src[s] \in d.fbs \/ d.partial[d.src[s]] # "none")
    <3> SUFFICES ASSUME NEW s \in d.streams
                 PROVE  d.src[s] \in Streams /\ (d.src[s] \in d.fbs \/ d.partial[d.src[s]] # "none")
      OBVIOUS
    <3>1. d.src[s] \in Streams /\ (d.src[s] \in desc[f].fbs \/ desc[f].partial[d.src[s]] # "none")
      BY <1>4, <1>7 DEF Coherent
    <3>2. CASE d.src[s] = b BY <1>6, <3>1, <3>2
    <3>3. CASE d.src[s] # b BY <1>4, <1>6, <3>1, <3>3
    <3> QED BY <3>2, <3>3
  <2>2. \A c \in d.fbs : d.partial[c] = "none"
    <3>1. desc[f].fbs \subseteq Streams BY Types DEF Descriptor
    <3> QED BY <1>4, <1>6, <1>7, <3>1 DEF Coherent
  <2> QED BY <1>4, <1>8, <1>10, <2>1, <2>2 DEF Coherent
<1>12. <<f, b>> \notin Entered \cup Collected BY <1>8 DEF OwnerInv, ResultInv
<1>13. \A s \in d.toProcess : <<f, d.src[s]>> \notin Entered \cup Collected
  <2> SUFFICES ASSUME NEW s \in d.toProcess PROVE <<f, d.src[s]>> \notin Entered \cup Collected
    OBVIOUS
  <2>1. CASE s \in desc[f].toProcess BY <1>4, <1>10, <2>1 DEF OwnerInv, ResultInv
  <2>2. CASE s \in todo BY <1>2, <1>3, <1>4, <1>12, <2>2
  <2> QED BY <1>4, <2>1, <2>2
<1>14. \A s \in d.streams : <<f, d.src[s]>> \in Entered => d.bufStatus[s] = desc[f].bufStatus[s]
  BY <1>2, <1>3, <1>4, <1>5, <1>12
<1>15. \A c \in Streams : /\ d.partial[c] = "completed" <=> desc[f].partial[c] = "completed"
                          /\ desc[f].partial[c] = "open" => d.partial[c] = "open"
  BY <1>6, <1>8
<1>16. CASE todo \subseteq failed
  <2>1. EnterCheck(f, b, d) BY <1>1, <1>16
  <2>2. \A s \in d.toProcess : d.src[s] # b BY <1>4, <1>10, <1>16
  <2> QED BY <1>1, <1>4, <1>6, <1>8, <1>11, <1>12, <1>13, <1>14, <1>15, <2>1, <2>2, EnteredByDescriptor
<1>17. CASE ~(todo \subseteq failed)
  <2>1. UNCHANGED <<pendingPartialResults, pendingStreamBuffers, cam>> BY <1>1, <1>17
  <2> QED BY <1>1, <1>4, <1>11, <1>13, <1>14, <1>15, <2>1, KeptByDescriptor
<1> QED BY <1>16, <1>17

LEMMA ProcessingOwner ==
  ASSUME OwnerInv, NEW f \in Frames, NEW s \in Streams, NEW ok \in BOOLEAN,
         StreamProcessingComplete(f, s, ok)
  PROVE  ListInv' /\ ResultInv' /\ FrameInv'
<1> DEFINE b == desc[f].src[s]
           status == IF ok THEN "Success" ELSE "Error"
           d == [desc[f] EXCEPT !.toProcess = @ \ {s}, !.bufStatus[s] = status]
<1>1. /\ desc' = [desc EXCEPT ![f] = d] /\ s \in desc[f].toProcess
      /\ IF d.toProcess \cap ResultBuffers(f, b) = {} THEN EnterCheck(f, b, d)
         ELSE UNCHANGED <<pendingPartialResults, pendingStreamBuffers, cam>>
      /\ UNCHANGED <<pendingRequests, nextFrame, cap>>
  BY DEF StreamProcessingComplete
<1> HIDE DEF status
<1>2. /\ d.life = desc[f].life /\ d.streams = desc[f].streams /\ d.src = desc[f].src
      /\ d.status = desc[f].status /\ d.queued = desc[f].queued /\ d.completed = desc[f].completed
      /\ d.fbs = desc[f].fbs /\ d.toProcess = desc[f].toProcess \ {s}
      /\ d.partial = desc[f].partial
      /\ d.bufStatus = [desc[f].bufStatus EXCEPT ![s] = status]
  BY Types DEF Descriptor
<1>3. desc[f].bufStatus \in [Streams -> {"Success", "Error"}] BY Types DEF Descriptor
<1>4. \A t \in Streams : t # s => d.bufStatus[t] = desc[f].bufStatus[t] BY <1>2, <1>3
<1> HIDE DEF d
<1>5. Coherent(desc[f]) BY DEF OwnerInv, FrameInv
<1>6. /\ Alive(f) /\ s \in desc[f].streams /\ desc[f].partial[b] = "open" /\ b \in Streams
  BY <1>1, <1>5 DEF Coherent, Alive
<1>7. Coherent(d) BY <1>2, <1>5 DEF Coherent, AllCompleted
<1>8. \A t \in desc[f].toProcess : t \in desc[f].streams /\ desc[f].src[t] \in Streams
  BY <1>5 DEF Coherent
<1>9. \A t \in desc[f].toProcess : <<f, desc[f].src[t]>> \notin Entered \cup Collected
  BY <1>8 DEF OwnerInv, ResultInv
<1>10. <<f, b>> \notin Entered \cup Collected BY <1>1, <1>9
<1>11. desc[f].streams \subseteq Streams BY Types DEF Descriptor
<1>12. \A t \in d.streams : <<f, d.src[t]>> \in Entered => d.bufStatus[t] = desc[f].bufStatus[t]
  BY <1>2, <1>4, <1>10, <1>11
<1>13. CASE d.toProcess \cap ResultBuffers(f, b) = {}
  <2>1. EnterCheck(f, b, d) BY <1>1, <1>13
  <2>2. \A t \in d.toProcess : d.src[t] # b BY <1>2, <1>8, <1>13 DEF ResultBuffers
  <2> HIDE DEF b
  <2> QED BY <1>1, <1>2, <1>6, <1>7, <1>9, <1>10, <1>12, <2>1, <2>2, EnteredByDescriptor
<1>14. CASE d.toProcess \cap ResultBuffers(f, b) # {}
  <2>1. UNCHANGED <<pendingPartialResults, pendingStreamBuffers, cam>> BY <1>1, <1>14
  <2> QED BY <1>1, <1>2, <1>7, <1>9, <1>12, <2>1, KeptByDescriptor
<1> QED BY <1>13, <1>14

LEMMA RequestOwner ==
  ASSUME OwnerInv, NEW f \in Frames,
         MetadataAvailable(f) \/ \E status \in {"Success", "Cancelled"} : RequestComplete(f, status)
  PROVE  ListInv' /\ ResultInv' /\ FrameInv'
<1> USE DEF device, lists, framework
<1>c. Coherent(desc[f]) BY DEF OwnerInv, FrameInv
<1>p. \A s \in desc[f].toProcess : <<f, desc[f].src[s]>> \notin Entered \cup Collected
  <2>1. \A s \in desc[f].toProcess : desc[f].src[s] \in Streams BY <1>c DEF Coherent
  <2> QED BY <2>1 DEF OwnerInv, ResultInv
<1>1. CASE MetadataAvailable(f)
  <2> DEFINE d == [desc[f] EXCEPT !.nextIndex = @ + 1]
  <2>1. /\ desc' = [desc EXCEPT ![f] = d]
        /\ UNCHANGED <<pendingRequests, pendingStreamBuffers, pendingPartialResults, nextFrame, cap, cam>>
    BY <1>1 DEF MetadataAvailable
  <2>2. /\ d.life = desc[f].life /\ d.streams = desc[f].streams /\ d.src = desc[f].src
        /\ d.partial = desc[f].partial /\ d.toProcess = desc[f].toProcess /\ d.fbs = desc[f].fbs
        /\ d.status = desc[f].status /\ d.queued = desc[f].queued /\ d.completed = desc[f].completed
        /\ d.bufStatus = desc[f].bufStatus
    BY Types DEF Descriptor
  <2> HIDE DEF d
  <2>3. Coherent(d) BY <1>c, <2>2 DEF Coherent, AllCompleted
  <2> QED BY <1>p, <2>1, <2>2, <2>3, KeptByDescriptor
<1>2. ASSUME NEW st \in {"Success", "Cancelled"}, RequestComplete(f, st)
      PROVE  ListInv' /\ ResultInv' /\ FrameInv'
  <2> DEFINE done == AllCompleted(desc[f])
             d == [desc[f] EXCEPT !.queued = FALSE, !.status = st, !.completed = done]
             pc == IF done THEN "finishing" ELSE "idle"
  <2>1. /\ desc' = [desc EXCEPT ![f] = d] /\ desc[f].fbs = {}
        /\ cam' = [cam EXCEPT !.pc = pc]
        /\ UNCHANGED <<pendingRequests, pendingStreamBuffers, pendingPartialResults, nextFrame, cap>>
    BY <1>2 DEF RequestComplete
  <2> HIDE DEF pc
  <2>2. cam'.ready = cam.ready BY <2>1 DEF OwnerInv, FlushInv, TypeOK, ThreadTypeOK
  <2>3. done => AllCompleted(desc[f]) OBVIOUS
  <2> HIDE DEF done
  <2>4. /\ d.life = desc[f].life /\ d.streams = desc[f].streams /\ d.src = desc[f].src
        /\ d.partial = desc[f].partial /\ d.toProcess = desc[f].toProcess /\ d.fbs = desc[f].fbs
        /\ d.status = st /\ ~d.queued /\ d.completed = done /\ d.bufStatus = desc[f].bufStatus
    BY Types DEF Descriptor
  <2> HIDE DEF d
  <2>5. Coherent(d) BY <1>c, <2>1, <2>3, <2>4 DEF Coherent, AllCompleted
  <2> QED BY <1>p, <2>1, <2>2, <2>4, <2>5, KeptByDescriptor
<1> QED BY <1>1, <1>2

(* The loops of the camera manager thread. *)
LEMMA CollectOwner ==
  ASSUME OwnerInv, CollectReady
  PROVE  ListInv' /\ ResultInv' /\ FrameInv'
<1> USE DEF device, lists, framework
<1> DEFINE i == NextReady
           r == pendingPartialResults[i]
           f == r[1]
           b == r[2]
           taken(s) == s \in ResultBuffers(f, b) /\ desc[f].bufStatus[s] # "Error"
<1>1. /\ cam' = [cam EXCEPT !.iter = i, !.ready = Append(@, r)]
      /\ pendingPartialResults' = RemoveAt(pendingPartialResults, i)
      /\ pendingStreamBuffers' =
           [s \in Streams |-> IF taken(s) THEN Tail(pendingStreamBuffers[s]) ELSE pendingStreamBuffers[s]]
      /\ UNCHANGED <<pendingRequests, desc, nextFrame, cap>>
  BY DEF CollectReady
<1>2. /\ i \in 1..Len(pendingPartialResults)
      /\ \A s \in Streams : taken(s) => pendingStreamBuffers[s] # <<>> /\ Head(pendingStreamBuffers[s]) = f
  <2>1. NextReady \in ReadyAt /\ NextReady \in 1..Len(pendingPartialResults)
    BY NextReadyType DEF CollectReady, OwnerInv, FlushInv
  <2> QED BY <2>1 DEF ReadyAt, Ready
<1> HIDE DEF i
<1>3. r \in Results /\ r \in Entered
  <2>1. pendingPartialResults \in Seq(Results) BY Types
  <2> QED BY <1>2, <2>1 DEF Entered, ToSet
<1>4. f \in Frames /\ b \in Streams /\ r = <<f, b>> BY <1>3 DEF Results
<1> HIDE DEF r, f, b
<1>5. /\ Entered' = Entered \ {r} /\ IsInjective(pendingPartialResults')
  <2>1. pendingPartialResults \in Seq(Results) /\ IsInjective(pendingPartialResults)
    BY Types DEF OwnerInv, ResultInv
  <2>2. r = pendingPartialResults[i] BY DEF r
  <2> QED BY <1>1, <1>2, <2>1, <2>2, RemoveAtElements DEF Entered
<1>6. /\ cam'.ready = Append(cam.ready, r) /\ Collected' = Collected \cup {r}
      /\ IsInjective(cam'.ready)
  <2>1. cam'.ready = Append(cam.ready, r)
    BY <1>1 DEF OwnerInv, FlushInv, TypeOK, ThreadTypeOK
  <2>2. cam.ready \in Seq(Results) /\ IsInjective(cam.ready) /\ r \notin ToSet(cam.ready)
    BY <1>3, Types DEF OwnerInv, ResultInv, Collected
  <2> QED BY <1>3, <2>1, <2>2, AppendElements, AppendKeepsInjective DEF Collected
<1>7. \A g \in Frames : Alive(g)' <=> Alive(g) BY <1>1 DEF Alive
<1>8. Alive(f) /\ desc[f].partial[b] = "open" /\ r \notin Collected
  BY <1>3, <1>4 DEF OwnerInv, ResultInv
<1>9. \A s \in Streams :
        /\ IsInjective(pendingStreamBuffers'[s])
        /\ ToSet(pendingStreamBuffers'[s]) = ToSet(pendingStreamBuffers[s]) \ {g \in {f} : taken(s)}
  <2> SUFFICES ASSUME NEW s \in Streams
               PROVE  /\ IsInjective(pendingStreamBuffers'[s])
                      /\ ToSet(pendingStreamBuffers'[s]) =
                           ToSet(pendingStreamBuffers[s]) \ {g \in {f} : taken(s)}
    OBVIOUS
  <2>1. pendingStreamBuffers[s] \in Seq(Frames) /\ IsInjective(pendingStreamBuffers[s])
    BY Types DEF OwnerInv, ListInv
  <2>2. CASE taken(s)
    <3>1. /\ pendingStreamBuffers'[s] = Tail(pendingStreamBuffers[s])
          /\ pendingStreamBuffers[s] # <<>> /\ Head(pendingStreamBuffers[s]) = f
      BY <1>1, <1>2, <2>2
    <3> QED BY <2>1, <2>2, <3>1, TailElements, TailKeepsInjective
  <2>3. CASE ~taken(s)
    <3>1. pendingStreamBuffers'[s] = pendingStreamBuffers[s] BY <1>1, <2>3
    <3> QED BY <2>1, <2>3, <3>1
  <2> QED BY <2>2, <2>3
<1>10. \A g \in Frames, s \in Streams : Waits(g, s)' <=> Waits(g, s) /\ ~(g = f /\ taken(s))
  <2> SUFFICES ASSUME NEW g \in Frames, NEW s \in Streams
               PROVE  Waits(g, s)' <=> Waits(g, s) /\ ~(g = f /\ taken(s))
    OBVIOUS
  <2>1. CASE g # f
    <3>1. \A c : /\ <<g, c>> \in Entered' <=> <<g, c>> \in Entered
                 /\ <<g, c>> \in Collected' <=> <<g, c>> \in Collected
      BY <1>4, <1>5, <1>6, <2>1
    <3> QED BY <1>1, <1>7, <2>1, <3>1 DEF Waits
  <2>2. CASE g = f /\ s \notin desc[g].streams BY <1>1, <2>2 DEF Waits
  <2>3. CASE g = f /\ s \in desc[g].streams /\ desc[g].src[s] = b
    <3>1. <<g, desc[g].src[s]>> = r BY <1>4, <2>3
    <3>2. ~Waits(g, s)' BY <1>1, <1>6, <3>1 DEF Waits
    <3>3. Waits(g, s) => desc[g].bufStatus[s] # "Error" BY <1>3, <3>1 DEF Waits
    <3>4. s \in ResultBuffers(f, b) BY <2>3 DEF ResultBuffers
    <3> QED BY <2>3, <3>2, <3>3, <3>4
  <2>4. CASE g = f /\ s \in desc[g].streams /\ desc[g].src[s] # b
    <3>1. ~taken(s) BY <2>4 DEF ResultBuffers
    <3>2. <<g, desc[g].src[s]>> # r BY <1>4, <2>4
    <3>3. /\ <<g, desc[g].src[s]>> \in Entered' <=> <<g, desc[g].src[s]>> \in Entered
          /\ <<g, desc[g].src[s]>> \in Collected' <=> <<g, desc[g].src[s]>> \in Collected
      BY <1>5, <1>6, <3>2
    <3>4. Waits(g, s)' <=> Waits(g, s) BY <1>1, <1>7, <3>3 DEF Waits
    <3> QED BY <2>4, <3>1, <3>4
  <2> QED BY <2>1, <2>2, <2>3, <2>4
<1> HIDE DEF taken
<1>11. ListInv'
  <2>1. \A s \in Streams : \A g \in Frames : g \in ToSet(pendingStreamBuffers'[s]) <=> Waits(g, s)'
    BY <1>9, <1>10 DEF OwnerInv, ListInv
  <2> QED BY <1>1, <1>7, <1>9, <2>1 DEF OwnerInv, ListInv
<1>12. ResultInv'
  <2>1. Entered' \cap Collected' = {} BY <1>5, <1>6 DEF OwnerInv, ResultInv
  <2>2. Entered' \cup Collected' = Entered \cup Collected BY <1>3, <1>5, <1>6
  <2> QED BY <1>1, <1>5, <1>6, <1>7, <2>1, <2>2 DEF OwnerInv, ResultInv
<1>13. FrameInv' BY <1>1 DEF OwnerInv, FrameInv
<1> QED BY <1>11, <1>12, <1>13

LEMMA SendOwner ==
  ASSUME OwnerInv, CompletePartialResult
  PROVE  ListInv' /\ ResultInv' /\ FrameInv'
<1> DEFINE r == Head(cam.ready)
           f == r[1]
           b == r[2]
           d == [desc[f] EXCEPT !.partial[b] = "completed",
                                !.nextIndex = IF b \in desc[f].meta THEN @ + 1 ELSE @]
           last == IsLast(d)
           e == [d EXCEPT !.completed = last]
           rest == Tail(cam.ready)
           pc == IF last THEN "finishing" ELSE IF rest = <<>> THEN "idle" ELSE "sending"
<1>1. /\ cam.pc = "sending" /\ desc' = [desc EXCEPT ![f] = e]
      /\ cam' = [cam EXCEPT !.ready = rest, !.pc = pc]
      /\ UNCHANGED <<lists, nextFrame, cap>>
  BY ZenonT(30) DEF CompletePartialResult
<1>2. /\ cam \in [pc : {"idle", "collecting", "sending", "finishing", "notifying"},
                  iter : Nat, ready : Seq(Results)]
      /\ cam.ready # <<>>
  BY <1>1 DEF OwnerInv, FlushInv, TypeOK, ThreadTypeOK
<1>3. r \in Results /\ Collected = {r} \cup ToSet(rest) /\ rest \in Seq(Results)
  BY <1>2, TailElements DEF Collected
<1>4. IsInjective(rest) /\ r \notin ToSet(rest)
  <2>1. IsInjective(cam.ready) BY DEF OwnerInv, ResultInv
  <2> QED BY <1>2, <2>1, TailKeepsInjective
<1> HIDE DEF pc
<1>5. cam'.ready = rest BY <1>1, <1>2
<1> HIDE DEF rest
<1>6. f \in Frames /\ b \in Streams /\ r = <<f, b>> BY <1>3 DEF Results
<1> HIDE DEF r
<1>7. d.status = desc[f].status /\ (last <=> d.status # "Pending" /\ AllCompleted(d))
  BY <1>6, Types DEF Descriptor, IsLast
<1>8. /\ d.life = desc[f].life /\ d.streams = desc[f].streams /\ d.src = desc[f].src
      /\ d.toProcess = desc[f].toProcess /\ d.fbs = desc[f].fbs
      /\ d.queued = desc[f].queued /\ d.bufStatus = desc[f].bufStatus
      /\ d.partial = [desc[f].partial EXCEPT ![b] = "completed"]
  BY <1>6, Types DEF Descriptor
<1> HIDE DEF last
<1>9. /\ e.life = desc[f].life /\ e.streams = desc[f].streams /\ e.src = desc[f].src
      /\ e.toProcess = desc[f].toProcess /\ e.fbs = desc[f].fbs /\ e.status = desc[f].status
      /\ e.queued = desc[f].queued /\ e.bufStatus = desc[f].bufStatus
      /\ e.partial = d.partial /\ e.completed = last
  BY <1>6, <1>7, <1>8, Types DEF Descriptor
<1>10. desc[f].partial \in [Streams -> {"none", "open", "completed"}] BY <1>6, Types DEF Descriptor
<1>11. /\ e.partial[b] = "completed" /\ \A c \in Streams : c # b => e.partial[c] = desc[f].partial[c]
  BY <1>6, <1>8, <1>9, <1>10
<1> HIDE DEF d, e, f, b
<1>12. /\ desc'[f] = e /\ \A g \in Frames : g # f => desc'[g] = desc[g]
       /\ \A g \in Frames : Alive(g)' <=> Alive(g)
  BY <1>1, <1>6, <1>9, Types DEF Alive
<1>13. Entered' = Entered /\ Collected' = Collected \ {r}
  BY <1>1, <1>3, <1>4, <1>5 DEF Entered, Collected, lists
<1>14. /\ Alive(f) /\ desc[f].partial[b] = "open" /\ \A s \in desc[f].toProcess : desc[f].src[s] # b
       /\ <<f, b>> \notin Entered /\ <<f, b>> \in Collected
  BY <1>3, <1>6 DEF OwnerInv, ResultInv
<1>15. Coherent(desc[f]) BY <1>6 DEF OwnerInv, FrameInv
<1>16. \A g \in Frames, s \in Streams : Waits(g, s)' <=> Waits(g, s)
  <2> SUFFICES ASSUME NEW g \in Frames, NEW s \in Streams PROVE Waits(g, s)' <=> Waits(g, s)
    OBVIOUS
  <2>1. CASE g # f
    <3>1. \A c : <<g, c>> \in Collected' <=> <<g, c>> \in Collected BY <1>6, <1>13, <2>1
    <3> QED BY <1>12, <1>13, <2>1, <3>1 DEF Waits
  <2>2. CASE g = f /\ s \notin desc[f].streams BY <1>9, <1>12, <2>2 DEF Waits
  <2>3. CASE g = f /\ s \in desc[f].streams /\ desc[f].src[s] = b
    BY <1>9, <1>11, <1>12, <1>14, <2>3 DEF Waits
  <2>4. CASE g = f /\ s \in desc[f].streams /\ desc[f].src[s] # b
    <3>1. desc[f].src[s] \in Streams BY <1>15, <2>4 DEF Coherent
    <3>2. <<f, desc[f].src[s]>> # r BY <1>6, <2>4
    <3> QED BY <1>9, <1>11, <1>12, <1>13, <2>4, <3>1, <3>2 DEF Waits
  <2> QED BY <2>1, <2>2, <2>3, <2>4
<1>17. ListInv' BY <1>1, <1>12, <1>16 DEF OwnerInv, ListInv, lists
<1>18. ResultInv'
  <2>1. ASSUME NEW g \in Frames, NEW c \in Streams, <<g, c>> \in Entered' \cup Collected'
        PROVE  /\ Alive(g)' /\ desc'[g].partial[c] = "open"
               /\ \A s \in desc'[g].toProcess : desc'[g].src[s] # c
    <3>1. <<g, c>> # <<f, b>> /\ <<g, c>> \in Entered \cup Collected
      BY <1>6, <1>13, <1>14, <2>1
    <3>2. /\ Alive(g) /\ desc[g].partial[c] = "open"
          /\ \A s \in desc[g].toProcess : desc[g].src[s] # c
      BY <3>1 DEF OwnerInv, ResultInv
    <3>3. CASE g # f BY <1>12, <3>2, <3>3
    <3>4. CASE g = f
      <4>1. c # b BY <3>1, <3>4
      <4> QED BY <1>9, <1>11, <1>12, <3>2, <3>4, <4>1
    <3> QED BY <3>3, <3>4
  <2>2. IsInjective(pendingPartialResults') BY <1>1 DEF OwnerInv, ResultInv, lists
  <2>3. Entered' \cap Collected' = {} BY <1>13 DEF OwnerInv, ResultInv
  <2> QED BY <1>4, <1>5, <2>1, <2>2, <2>3 DEF ResultInv
<1>19. Coherent(e)
  <2>1. \A s \in e.streams : e.src[s] \in Streams /\ (e.src[s] \in e.fbs \/ e.partial[e.src[s]] # "none")
    <3> SUFFICES ASSUME NEW s \in e.streams
                 PROVE  e.src[s] \in Streams /\ (e.src[s] \in e.fbs \/ e.partial[e.src[s]] # "none")
      OBVIOUS
    <3>1. e.src[s] \in Streams /\ (e.src[s] \in e.fbs \/ desc[f].partial[e.src[s]] # "none")
      BY <1>9, <1>15 DEF Coherent
    <3>2. CASE e.src[s] = b BY <1>11, <3>1, <3>2
    <3>3. CASE e.src[s] # b BY <1>11, <3>1, <3>3
    <3> QED BY <3>2, <3>3
  <2>2. \A c \in e.fbs : e.partial[c] = "none"
    <3>1. desc[f].fbs \subseteq Streams /\ b \notin desc[f].fbs
      BY <1>6, <1>14, <1>15, Types DEF Descriptor, Coherent
    <3> QED BY <1>9, <1>11, <1>15, <3>1 DEF Coherent
  <2>3. \A s \in e.toProcess :
          e.life = "pending" /\ s \in e.streams /\ e.partial[e.src[s]] = "open"
    <3> SUFFICES ASSUME NEW s \in e.toProcess
                 PROVE  e.life = "pending" /\ s \in e.streams /\ e.partial[e.src[s]] = "open"
      OBVIOUS
    <3>1. /\ e.life = "pending" /\ s \in e.streams /\ desc[f].partial[e.src[s]] = "open"
          /\ e.src[s] \in Streams /\ e.src[s] # b
      BY <1>9, <1>14, <1>15 DEF Coherent
    <3> QED BY <1>11, <3>1
  <2>4. e.life # "prepared" BY <1>9, <1>14 DEF Alive
  <2>5. e.completed => e.status # "Pending" /\ AllCompleted(e) BY <1>7, <1>9 DEF AllCompleted
  <2> QED BY <1>9, <1>15, <2>1, <2>2, <2>3, <2>4, <2>5 DEF Coherent
<1>20. FrameInv' BY <1>1, <1>6, <1>9, <1>19, FrameByDescriptor
<1> QED BY <1>17, <1>18, <1>20

LEMMA FinishOwner ==
  ASSUME OwnerInv, FinishFront
  PROVE  ListInv' /\ ResultInv' /\ FrameInv'
<1> DEFINE f == Head(pendingRequests)
           d == Blank("freed")
<1>1. /\ pendingRequests # <<>> /\ desc[f].completed
      /\ desc' = [desc EXCEPT ![f] = d] /\ pendingRequests' = Tail(pendingRequests)
      /\ UNCHANGED <<pendingStreamBuffers, pendingPartialResults, nextFrame, cam, cap>>
  BY DEF FinishFront, FrontCompleted
<1>2. /\ f \in Frames /\ IsInjective(pendingRequests') /\ f \in ToSet(pendingRequests)
      /\ ToSet(pendingRequests') = ToSet(pendingRequests) \ {f}
  <2>1. pendingRequests \in Seq(Frames) /\ IsInjective(pendingRequests)
    BY Types DEF OwnerInv, ListInv
  <2> QED BY <1>1, <2>1, TailElements, TailKeepsInjective
<1>3. d.life = "freed" /\ Coherent(d) BY DEF Blank, NewDescriptor, Coherent
<1> HIDE DEF f, d
<1>4. desc'[f] = d /\ \A g \in Frames : g # f => desc'[g] = desc[g] BY <1>1, <1>2, Types
<1>5. \A g \in Frames : Alive(g)' <=> Alive(g) /\ g # f BY <1>3, <1>4 DEF Alive
<1>6. Entered' = Entered /\ Collected' = Collected BY <1>1 DEF Entered, Collected
<1>7. Coherent(desc[f]) /\ Alive(f) BY <1>2 DEF OwnerInv, FrameInv, ListInv
<1>8. \A c \in Streams : desc[f].partial[c] # "open" BY <1>1, <1>7 DEF Coherent, AllCompleted
<1>9. \A s \in desc[f].streams : desc[f].partial[desc[f].src[s]] = "completed"
  <2> SUFFICES ASSUME NEW s \in desc[f].streams
               PROVE  desc[f].partial[desc[f].src[s]] = "completed"
    OBVIOUS
  <2>1. desc[f].src[s] \in Streams /\ desc[f].partial[desc[f].src[s]] # "none"
    BY <1>1, <1>7 DEF Coherent
  <2>2. desc[f].partial \in [Streams -> {"none", "open", "completed"}]
    BY <1>2, Types DEF Descriptor
  <2> QED BY <1>8, <2>1, <2>2
<1>10. \A s \in Streams : ~Waits(f, s) BY <1>9 DEF Waits
<1>11. \A g \in Frames, s \in Streams : Waits(g, s)' <=> Waits(g, s)
  BY <1>4, <1>5, <1>6, <1>10 DEF Waits
<1>12. ListInv'
  <2>1. \A g \in Frames : g \in ToSet(pendingRequests') <=> Alive(g)'
    BY <1>2, <1>5 DEF OwnerInv, ListInv
  <2> QED BY <1>1, <1>2, <1>11, <2>1 DEF OwnerInv, ListInv
<1>13. ResultInv'
  <2>1. \A g \in Frames, c \in Streams : <<g, c>> \in Entered \cup Collected => g # f
    BY <1>8 DEF OwnerInv, ResultInv
  <2> QED BY <1>1, <1>4, <1>5, <1>6, <2>1 DEF OwnerInv, ResultInv
<1>14. FrameInv'
  <2>1. desc[f].life = "pending" BY <1>7 DEF Alive
  <2>2. cap.pc \in {"prepared", "pushing"} => cap.frame \in Frames /\ cap.frame # f
    BY <2>1, Types DEF OwnerInv, FrameInv
  <2>3. \A g \in Frames : g >= nextFrame => g # f BY <1>2, <2>1 DEF OwnerInv, FrameInv
  <2> QED BY <1>1, <1>3, <1>4, <2>2, <2>3 DEF OwnerInv, FrameInv
<1> QED BY <1>12, <1>13, <1>14

LEMMA CameraOwner ==
  ASSUME OwnerInv, CameraThread
  PROVE  ListInv' /\ ResultInv' /\ FrameInv'
<1> USE DEF device, lists, framework
<1>1. CASE CollectDone \/ FinishDone \/ NotifyFlush
  <2>1. /\ UNCHANGED <<desc, pendingRequests, pendingStreamBuffers, pendingPartialResults, nextFrame, cap>>
        /\ \/ \E pc : cam' = [cam EXCEPT !.pc = pc]
           \/ \E pc : cam' = [cam EXCEPT !.pc = pc, !.iter = 1]
    BY <1>1 DEF CollectDone, FinishDone, NotifyFlush
  <2>2. cam'.ready = cam.ready BY <2>1 DEF OwnerInv, FlushInv, TypeOK, ThreadTypeOK
  <2> QED BY <2>1, <2>2, QuietStep
<1> QED BY <1>1, CollectOwner, SendOwner, FinishOwner DEF CameraThread

(* Nothing is pending in a stopped camera, and nothing can be added between
   the flush and the rest of configureStreams.                               *)
LEMMA ConfigureStep ==
  ASSUME OwnerInv, Next
  PROVE  ConfigureInv'
<1> USE DEF device, lists, framework
<1>0. /\ ConfigureInv /\ PhaseInv /\ cap.pc \in {"idle", "prepared", "pushing", "queueing"}
      /\ ctl \in [pc : {"idle", "flush", "check", "wait", "stop", "stopped", "return"},
                  op : {"none", "flush", "configure", "close"}]
      /\ state \in {"Stopped", "Flushing", "Running"}
  BY DEF OwnerInv, FlushInv, TypeOK, DeviceTypeOK, ThreadTypeOK
<1> USE <1>0 DEF ConfigureInv
<1>1. ASSUME UNCHANGED <<state, ctl, pendingRequests>>, cap.pc = "idle" => cap'.pc = "idle"
      PROVE  ConfigureInv'
  BY <1>1
<1>2. CASE Framework
  <2>1. ASSUME NEW op \in ControlOps, CallControl(op) PROVE ConfigureInv'
    BY <2>1 DEF CallControl
  <2>2. ASSUME NEW S \in SUBSET Streams, NEW lost \in SUBSET Direct, PrepareRequest(S, lost)
        PROVE  ConfigureInv'
    BY <2>2 DEF PrepareRequest, MayCapture
  <2> QED BY <1>2, <1>1, <2>1, <2>2 DEF Framework, Open, RejectRequest
<1>3. CASE ControlThread
  <2>1. CASE FlushBegin
    <3>1. CASE state # "Running"
      <4>1. state = "Stopped" BY <2>1, <3>1 DEF FlushBegin, PhaseInv, Draining
      <4> QED BY <2>1, <3>1, <4>1 DEF FlushBegin
    <3>2. CASE state = "Running" BY <2>1, <3>2 DEF FlushBegin
    <3> QED BY <3>1, <3>2
  <2>2. CASE FlushCheck
    <3>1. ctl'.pc # "return" /\ ctl'.op = ctl.op /\ UNCHANGED <<state, pendingRequests, cap>>
      BY <2>2 DEF FlushCheck
    <3> QED BY <3>1
  <2>3. CASE FlushStop BY <2>3 DEF FlushStop
  <2>4. CASE FlushEnd
    <3>1. pendingRequests = <<>> BY <2>4 DEF FlushEnd, PhaseInv
    <3> QED BY <2>4, <3>1 DEF FlushEnd
  <2>5. CASE FlushReturn \/ CloseReturn BY <2>5 DEF FlushReturn, CloseReturn
  <2>6. CASE ConfigureStreams
    <3>1. /\ ctl' = [pc |-> "idle", op |-> "none"] /\ pendingRequests = <<>>
          /\ UNCHANGED <<pendingRequests, cap>>
      BY <2>6 DEF ConfigureStreams
    <3> QED BY <3>1
  <2> QED BY <1>3, <2>1, <2>2, <2>3, <2>4, <2>5, <2>6 DEF ControlThread
<1>4. CASE CaptureThread
  <2>1. CASE AbortRequest \/ StartFails \/ QueueRequest
    BY <2>1, <1>1 DEF AbortRequest, StartFails, QueueRequest
  <2>2. CASE EnsureStarted
    <3>1. state' = "Running" /\ cap.pc # "idle" /\ UNCHANGED <<ctl, pendingRequests>>
      BY <2>2 DEF EnsureStarted
    <3> QED BY <3>1
  <2>3. CASE PushRequest
    <3>1. state = "Running" /\ cap.pc # "idle" /\ UNCHANGED <<ctl, state>>
      BY <2>3 DEF PushRequest, PhaseInv
    <3> QED BY <3>1
  <2> QED BY <1>4, <2>1, <2>2, <2>3 DEF CaptureThread
<1>5. CASE CameraThread
  <2>1. CASE FinishFront
    <3>1. pendingRequests # <<>> /\ UNCHANGED <<state, ctl, cap>>
      BY <2>1 DEF FinishFront, FrontCompleted
    <3> QED BY <3>1
  <2>2. CASE NotifyFlush
    <3>1. /\ UNCHANGED <<state, pendingRequests, cap>>
          /\ ctl'.op = ctl.op /\ (ctl'.pc = "return" => ctl.pc = "return")
      BY <2>2 DEF NotifyFlush
    <3> QED BY <3>1
  <2> QED BY <1>5, <1>1, <2>1, <2>2
          DEF CameraThread, CollectReady, CollectDone, CompletePartialResult, FinishDone
<1>6. ASSUME NEW f \in Frames, Libcamera(f) \/ MetadataAvailable(f) PROVE ConfigureInv'
  BY <1>6, <1>1, LibcameraElsewhere
<1> QED BY <1>2, <1>3, <1>4, <1>5, <1>6 DEF Next

LEMMA OwnerInit == Init => OwnerInv
<1> SUFFICES ASSUME Init PROVE OwnerInv OBVIOUS
<1>1. ToSet(<<>>) = {} /\ IsInjective(<<>>) BY DEF ToSet, IsInjective
<1>2. FlushInv BY FlushInit
<1>3. \A f \in Frames : desc[f] = Blank("absent") /\ Blank("absent").life = "absent"
  BY DEF Init, Blank, NewDescriptor
<1>4. \A f \in Frames : ~Alive(f) BY <1>3 DEF Alive
<1>5. ListInv BY <1>1, <1>4 DEF Init, ListInv, Waits
<1>6. ResultInv BY <1>1 DEF Init, ResultInv, Entered, Collected
<1>7. FrameInv
  <2>1. Coherent(Blank("absent")) BY DEF Blank, NewDescriptor, Coherent
  <2> QED BY <1>3, <2>1 DEF Init, FrameInv
<1>8. ConfigureInv BY DEF Init, ConfigureInv
<1> QED BY <1>2, <1>5, <1>6, <1>7, <1>8 DEF OwnerInv

LEMMA OwnerInvariant ==
  ASSUME ~GetBufferCanFail
  PROVE  Spec => []OwnerInv
<1>1. OwnerInv /\ [Next]_vars => OwnerInv'
  <2> SUFFICES ASSUME OwnerInv, [Next]_vars PROVE OwnerInv' OBVIOUS
  <2>1. FlushInv' BY FlushStep DEF OwnerInv
  <2>2. CASE UNCHANGED vars
    <3>1. ListInv' /\ ResultInv' /\ FrameInv' BY <2>2, QuietStep DEF vars, device
    <3>2. ConfigureInv' BY <2>2 DEF OwnerInv, ConfigureInv, vars, device
    <3> QED BY <2>1, <3>1, <3>2 DEF OwnerInv
  <2>3. CASE Next
    <3>1. ASSUME NEW f \in Frames, Libcamera(f) \/ MetadataAvailable(f)
          PROVE  ListInv' /\ ResultInv' /\ FrameInv'
      BY <3>1, BufferOwner, ProcessingOwner, RequestOwner DEF Libcamera
    <3>2. ListInv' /\ ResultInv' /\ FrameInv'
      BY <2>3, <3>1, FrameworkOwner, ControlOwner, CaptureOwner, CameraOwner DEF Next
    <3> QED BY <2>1, <2>3, <3>2, ConfigureStep DEF OwnerInv
  <2> QED BY <2>2, <2>3
<1> QED BY OwnerInit, <1>1, PTL DEF Spec

(* No list, result, worker or thread holds a pointer to a descriptor that is
   gone, whatever the streams and their mapping, if every buffer that a request
   needs can be had.                                                         *)
THEOREM NothingDangles ==
  ASSUME ~GetBufferCanFail
  PROVE  Spec => []NoDanglingReference
<1>1. OwnerInv => NoDanglingReference
  <2> SUFFICES ASSUME OwnerInv PROVE NoDanglingReference OBVIOUS
  <2> DEFINE alive == {f \in Frames : desc[f].life = "pending"}
  <2>1. ToSet(pendingRequests) = alive BY Types DEF OwnerInv, ListInv, Alive
  <2>2. \A s \in Streams : ToSet(pendingStreamBuffers[s]) \subseteq alive
    BY Types DEF OwnerInv, ListInv, Waits, Alive
  <2>3. ASSUME NEW r \in Entered \cup Collected
        PROVE  /\ r[1] \in Frames /\ r[2] \in Streams /\ r = <<r[1], r[2]>> /\ Alive(r[1])
               /\ desc[r[1]].partial[r[2]] = "open"
    <3>1. r[1] \in Frames /\ r[2] \in Streams /\ r = <<r[1], r[2]>> BY <2>3, Types DEF Results
    <3> QED BY <2>3, <3>1 DEF OwnerInv, ResultInv
  <2>4. ASSUME NEW r \in Entered, NEW s \in ResultBuffers(r[1], r[2]), desc[r[1]].bufStatus[s] # "Error"
        PROVE  r[1] \in ToSet(pendingStreamBuffers[s])
    <3>1. /\ r[1] \in Frames /\ r[2] \in Streams /\ r = <<r[1], r[2]>> /\ Alive(r[1])
          /\ desc[r[1]].partial[r[2]] = "open" /\ r \notin Collected
      BY <2>3 DEF OwnerInv, ResultInv
    <3>2. s \in desc[r[1]].streams /\ desc[r[1]].src[s] = r[2] /\ s \in Streams
      BY <3>1, Types DEF ResultBuffers, Descriptor
    <3>3. Waits(r[1], s) BY <2>4, <3>1, <3>2 DEF Waits
    <3> QED BY <3>1, <3>2, <3>3 DEF OwnerInv, ListInv
  <2>5. cap.pc = "queueing" => cap.frame \in alive
    BY <2>1 DEF OwnerInv, FlushInv, QueueInv
  <2> QED BY <2>1, <2>2, <2>3, <2>4, <2>5 DEF NoDanglingReference, Entered, Collected, Alive
<1> QED BY OwnerInvariant, <1>1, PTL

(* The rest of configureStreams finds the lists empty, as it asserts. *)
THEOREM ConfigureFindsNothing ==
  ASSUME ~GetBufferCanFail
  PROVE  Spec => []NothingPendingAtConfigure
<1>1. OwnerInv => NothingPendingAtConfigure
  <2> SUFFICES ASSUME OwnerInv, ctl.pc = "return", ctl.op = "configure"
               PROVE  /\ pendingRequests = <<>> /\ pendingPartialResults = <<>>
                      /\ \A s \in Streams : pendingStreamBuffers[s] = <<>>
    BY DEF NothingPendingAtConfigure
  <2>1. pendingRequests = <<>> BY DEF OwnerInv, ConfigureInv
  <2>2. ToSet(<<>>) = {} BY DEF ToSet
  <2>3. \A f \in Frames : ~Alive(f) BY <2>1, <2>2 DEF OwnerInv, ListInv
  <2>4. \A T : \A q \in Seq(T) : q # <<>> => ToSet(q) # {} BY TailElements
  <2>5. Entered = {}
    <3>1. \A r \in Entered : r[1] \in Frames /\ r[2] \in Streams /\ r = <<r[1], r[2]>>
      BY Types DEF Results
    <3> QED BY <2>3, <3>1 DEF OwnerInv, ResultInv
  <2>6. \A s \in Streams : ToSet(pendingStreamBuffers[s]) = {}
    BY <2>3, Types DEF OwnerInv, ListInv, Waits
  <2> QED BY <2>1, <2>4, <2>5, <2>6, Types DEF Entered
<1> QED BY OwnerInvariant, <1>1, PTL

-----------------------------------------------------------------------------
(* The indices of the metadata packs. *)

Completed(d) == {b \in Streams : d.partial[b] = "completed"}

(* A request that is not answered has sent only packs below nextPartialIndex_,
   which grows with the early metadata and the completed results alone.      *)
IndexOK(x, d) ==
  /\ \A i, j \in DOMAIN x : i < j => x[i] < x[j]
  /\ d.life = "absent" => x = <<>>
  /\ d.life # "freed" => \A i \in DOMAIN x : x[i] < d.nextIndex
  /\ d.nextIndex <= MaxMetadata + 1 + Cardinality(Completed(d))

IndexInv == OwnerInv /\ \A f \in Frames : IndexOK(indices[f], desc[f])

LEMMA AppendGrows ==
  ASSUME NEW x \in Seq(Nat), NEW e \in Nat, NEW n \in Nat, e < n,
         \A i, j \in DOMAIN x : i < j => x[i] < x[j], \A i \in DOMAIN x : x[i] < e
  PROVE  LET y == Append(x, e)
         IN  /\ \A i, j \in DOMAIN y : i < j => y[i] < y[j]
             /\ \A i \in DOMAIN y : y[i] < n
<1> DEFINE y == Append(x, e)
           k == Len(x)
<1>1. /\ k \in Nat /\ DOMAIN x = 1..k /\ DOMAIN y = 1..(k + 1)
      /\ \A i \in 1..k : y[i] = x[i] /\ x[i] \in Nat
      /\ y[k + 1] = e
  BY AppendProperties
<1> HIDE DEF y, k
<1>2. \A i \in 1..(k + 1) : i \in 1..k \/ i = k + 1 BY <1>1
<1>3. ASSUME NEW i \in 1..(k + 1), NEW j \in 1..(k + 1), i < j PROVE y[i] < y[j]
  <2>1. i \in 1..k BY <1>1, <1>3
  <2>2. CASE j \in 1..k BY <1>1, <1>3, <2>1, <2>2
  <2>3. CASE j = k + 1 BY <1>1, <2>1, <2>3
  <2> QED BY <1>2, <2>2, <2>3
<1>4. ASSUME NEW i \in 1..(k + 1) PROVE y[i] < n
  <2>1. CASE i \in 1..k BY <1>1, <2>1
  <2>2. CASE i = k + 1 BY <1>1, <2>2
  <2> QED BY <1>2, <2>1, <2>2
<1>5. \A i, j \in DOMAIN y : i < j => y[i] < y[j] BY <1>1, <1>3
<1>6. \A i \in DOMAIN y : y[i] < n BY <1>1, <1>4
<1> QED BY <1>5, <1>6 DEF y

(* What the types of the variables say here. *)
LEMMA IndexTypes ==
  ASSUME OwnerInv, IsFiniteSet(Streams)
  PROVE  /\ \A f \in Frames : indices[f] \in Seq(Nat) /\ desc[f].nextIndex \in Nat
         /\ indices \in [Frames -> Seq(Nat)] /\ desc \in [Frames -> Descriptor]
         /\ MaxMetadata \in Nat /\ MaxMetadataPackIndex \in Nat
         /\ \A d : /\ IsFiniteSet(Completed(d)) /\ Cardinality(Completed(d)) \in Nat
                   /\ Cardinality(Completed(d)) <= Cardinality(Streams)
         /\ Cardinality(Streams) \in Nat
<1>1. indices \in [Frames -> Seq(Nat)] BY DEF OwnerInv, FlushInv, TypeOK, FrameworkTypeOK
<1>2. \A f \in Frames : desc[f].nextIndex \in Nat BY Types DEF Descriptor
<1>3. MaxMetadata \in Nat /\ MaxMetadataPackIndex \in Nat BY BoundAssumption
<1>4. ASSUME NEW d
      PROVE  /\ IsFiniteSet(Completed(d)) /\ Cardinality(Completed(d)) \in Nat
             /\ Cardinality(Completed(d)) <= Cardinality(Streams)
  <2>1. Completed(d) \in SUBSET Streams BY DEF Completed
  <2>2. IsFiniteSet(Completed(d)) /\ Cardinality(Completed(d)) <= Cardinality(Streams)
    BY <2>1, FS_Subset
  <2> QED BY <2>2, FS_CardinalityType
<1>5. Cardinality(Streams) \in Nat BY FS_CardinalityType
<1> QED BY <1>1, <1>2, <1>3, <1>4, <1>5, Types

LEMMA IndexByDescriptor ==
  ASSUME IndexInv, NEW f \in Frames, NEW d, NEW x, desc' = [desc EXCEPT ![f] = d],
         indices' = [indices EXCEPT ![f] = x], IndexOK(x, d)
  PROVE  \A g \in Frames : IndexOK(indices[g], desc[g])'
<1>1. desc \in [Frames -> Descriptor] /\ indices \in [Frames -> Seq(Nat)]
  BY DEF IndexInv, OwnerInv, FlushInv, TypeOK, DeviceTypeOK, FrameworkTypeOK
<1>2. /\ desc'[f] = d /\ indices'[f] = x
      /\ \A g \in Frames : g # f => desc'[g] = desc[g] /\ indices'[g] = indices[g]
  BY <1>1
<1> SUFFICES ASSUME NEW g \in Frames PROVE IndexOK(indices'[g], desc'[g])
  BY DEF IndexOK, Completed
<1>3. IndexOK(indices[g], desc[g]) BY DEF IndexInv
<1> QED BY <1>2, <1>3

(* A descriptor is replaced by one that counts the same. *)
LEMMA IndexKept ==
  ASSUME IndexInv, NEW f \in Frames, NEW d, desc' = [desc EXCEPT ![f] = d], UNCHANGED indices,
         d.nextIndex = desc[f].nextIndex, d.life = "pending", desc[f].life # "freed",
         Completed(d) = Completed(desc[f])
  PROVE  \A g \in Frames : IndexOK(indices[g], desc[g])'
<1>2. IndexOK(indices[f], desc[f]) BY DEF IndexInv
<1>3. IndexOK(indices[f], d) BY <1>2 DEF IndexOK
<1>4. indices' = [indices EXCEPT ![f] = indices[f]]
  BY DEF IndexInv, OwnerInv, FlushInv, TypeOK, FrameworkTypeOK
<1> QED BY <1>3, <1>4, IndexByDescriptor

LEMMA BlankIndexOK ==
  ASSUME IsFiniteSet(Streams), NEW x, \A i, j \in DOMAIN x : i < j => x[i] < x[j],
         NEW d, d.nextIndex = 1, \A b \in Streams : d.partial[b] = "none",
         d.life = "freed" \/ x = <<>>
  PROVE  IndexOK(x, d)
<1>1. Completed(d) = {} BY DEF Completed
<1>2. Cardinality(Completed(d)) = 0 BY <1>1, FS_EmptySet
<1>3. DOMAIN <<>> = {} OBVIOUS
<1> QED BY <1>2, <1>3, BoundAssumption DEF IndexOK

LEMMA IndexQuiet ==
  ASSUME IndexInv, UNCHANGED <<desc, indices>>
  PROVE  \A g \in Frames : IndexOK(indices[g], desc[g])'
BY DEF IndexInv, IndexOK, Completed

(* The framework and the control thread. *)
LEMMA FrameworkIndex ==
  ASSUME IndexInv, IsFiniteSet(Streams), Framework \/ ControlThread
  PROVE  \A g \in Frames : IndexOK(indices[g], desc[g])'
<1> USE DEF device, framework
<1>1. ASSUME NEW S \in SUBSET Streams, NEW lost \in SUBSET Direct, PrepareRequest(S, lost)
      PROVE  \A g \in Frames : IndexOK(indices[g], desc[g])'
  <2> DEFINE d == NewDescriptor("prepared", S, SourceBuffers(S, lost))
             n == nextFrame
  <2>1. desc' = [desc EXCEPT ![n] = d] /\ n \in Frames /\ UNCHANGED indices
    BY <1>1 DEF PrepareRequest, MayCapture
  <2>2. d.nextIndex = 1 /\ \A b \in Streams : d.partial[b] = "none" BY DEF NewDescriptor
  <2> HIDE DEF d
  <2>3. indices[n] = <<>>
    <3>1. n \in Frames /\ n >= nextFrame BY <2>1, Types DEF IndexInv
    <3>2. desc[n].life = "absent" BY <3>1 DEF IndexInv, OwnerInv, FrameInv
    <3> QED BY <2>1, <3>2 DEF IndexInv, IndexOK
  <2> HIDE DEF n
  <2>4. \A i, j \in DOMAIN indices[n] : i < j => indices[n][i] < indices[n][j] BY <2>3
  <2>5. IndexOK(indices[n], d) BY <2>2, <2>3, <2>4, BlankIndexOK
  <2>6. indices' = [indices EXCEPT ![n] = indices[n]] BY <2>1, IndexTypes DEF IndexInv
  <2> QED BY <2>1, <2>5, <2>6, IndexByDescriptor
<1>2. CASE Open \/ RejectRequest \/ \E op \in ControlOps : CallControl(op)
  BY <1>2, IndexQuiet DEF Open, RejectRequest, CallControl
<1>3. CASE ControlThread
  BY <1>3, IndexQuiet DEF ControlThread, FlushBegin, FlushCheck, FlushStop, FlushEnd,
       FlushReturn, CloseReturn, ConfigureStreams
<1> QED BY <1>1, <1>2, <1>3 DEF Framework

LEMMA CaptureIndex ==
  ASSUME IndexInv, IsFiniteSet(Streams), CaptureThread
  PROVE  \A g \in Frames : IndexOK(indices[g], desc[g])'
<1> USE DEF device, framework
<1> DEFINE f == cap.frame
<1>0. cap.pc # "idle" => f \in Frames BY Types DEF IndexInv
<1>1. CASE EnsureStarted BY <1>1, IndexQuiet DEF EnsureStarted
<1>2. CASE AbortRequest \/ StartFails
  <2> DEFINE d == Blank("freed")
  <2>1. desc' = [desc EXCEPT ![f] = d] /\ cap.pc = "prepared" /\ UNCHANGED indices
    BY <1>2 DEF AbortRequest, StartFails
  <2>2. d.nextIndex = 1 /\ d.life = "freed" /\ \A b \in Streams : d.partial[b] = "none"
    BY DEF Blank, NewDescriptor
  <2> HIDE DEF d, f
  <2>3. f \in Frames BY <1>0, <2>1
  <2>4. \A i, j \in DOMAIN indices[f] : i < j => indices[f][i] < indices[f][j]
    BY <2>3 DEF IndexInv, IndexOK
  <2>5. IndexOK(indices[f], d) BY <2>2, <2>4, BlankIndexOK
  <2>6. indices' = [indices EXCEPT ![f] = indices[f]] BY <2>1, IndexTypes DEF IndexInv
  <2> QED BY <2>1, <2>3, <2>5, <2>6, IndexByDescriptor
<1>3. CASE PushRequest
  <2> DEFINE d == [desc[f] EXCEPT !.life = "pending"]
  <2>1. desc' = [desc EXCEPT ![f] = d] /\ cap.pc = "pushing" /\ UNCHANGED indices
    BY <1>3 DEF PushRequest
  <2>2. f \in Frames /\ desc[f].life = "prepared" BY <1>0, <2>1 DEF IndexInv, OwnerInv, FrameInv
  <2>3. d.nextIndex = desc[f].nextIndex /\ d.life = "pending" /\ d.partial = desc[f].partial
    BY <2>2, Types DEF Descriptor, IndexInv
  <2> HIDE DEF d, f
  <2>4. Completed(d) = Completed(desc[f]) BY <2>3 DEF Completed
  <2> QED BY <2>1, <2>2, <2>3, <2>4, IndexKept
<1>4. CASE QueueRequest
  <2> DEFINE d == [desc[f] EXCEPT !.queued = desc[f].fbs # {}]
  <2>1. desc' = [desc EXCEPT ![f] = d] /\ cap.pc = "queueing" /\ UNCHANGED indices
    BY <1>4 DEF QueueRequest
  <2>2. f \in Frames /\ desc[f].life = "pending"
    <3>1. f \in ToSet(pendingRequests) BY <2>1 DEF IndexInv, OwnerInv, FlushInv, QueueInv
    <3> QED BY <1>0, <2>1, <3>1 DEF IndexInv, OwnerInv, ListInv, Alive
  <2>3. d.nextIndex = desc[f].nextIndex /\ d.life = desc[f].life /\ d.partial = desc[f].partial
    BY <2>2, Types DEF Descriptor, IndexInv
  <2> HIDE DEF d, f
  <2>4. Completed(d) = Completed(desc[f]) BY <2>3 DEF Completed
  <2> QED BY <2>1, <2>2, <2>3, <2>4, IndexKept
<1> QED BY <1>1, <1>2, <1>3, <1>4 DEF CaptureThread

(* The signals of libcamera and of the workers. *)
LEMMA LibcameraIndex ==
  ASSUME IndexInv, IsFiniteSet(Streams), NEW f \in Frames, Libcamera(f) \/ MetadataAvailable(f)
  PROVE  \A g \in Frames : IndexOK(indices[g], desc[g])'
<1>0. desc[f] \in Descriptor BY Types DEF IndexInv
<1>p. desc[f].queued => desc[f].life = "pending"
  BY DEF IndexInv, OwnerInv, FlushInv, QueueInv, ListInv, Alive
<1>1. ASSUME NEW b \in Streams, NEW ok \in BOOLEAN, NEW failed \in SUBSET Streams,
             BufferComplete(f, b, ok, failed)
      PROVE  \A g \in Frames : IndexOK(indices[g], desc[g])'
  <2> DEFINE todo == IF ok THEN ResultBuffers(f, b) \ Direct ELSE {}
             errors == IF ok THEN failed ELSE ResultBuffers(f, b)
             d == [desc[f] EXCEPT
                     !.fbs = @ \ {b},
                     !.partial[b] = "open",
                     !.toProcess = @ \cup (todo \ failed),
                     !.meta = IF todo \cap Jpeg # {} THEN @ \cup {b} ELSE @,
                     !.bufStatus = [s \in Streams |-> IF s \in errors THEN "Error" ELSE @[s]]]
  <2>1. /\ desc' = [desc EXCEPT ![f] = d] /\ desc[f].queued /\ b \in desc[f].fbs
        /\ UNCHANGED indices
    BY <1>1 DEF BufferComplete
  <2> HIDE DEF todo, errors
  <2>2. /\ d.nextIndex = desc[f].nextIndex /\ d.life = desc[f].life
        /\ d.partial = [desc[f].partial EXCEPT ![b] = "open"]
    BY <1>0 DEF Descriptor
  <2> HIDE DEF d
  <2>3. desc[f].partial[b] = "none" BY <2>1 DEF IndexInv, OwnerInv, FrameInv, Coherent
  <2>4. \A c \in Streams : d.partial[c] = "completed" <=> desc[f].partial[c] = "completed"
    BY <1>0, <2>2, <2>3 DEF Descriptor
  <2>5. Completed(d) = Completed(desc[f]) BY <2>4 DEF Completed
  <2> QED BY <1>p, <2>1, <2>2, <2>5, IndexKept
<1>2. ASSUME NEW s \in Streams, NEW ok \in BOOLEAN, StreamProcessingComplete(f, s, ok)
      PROVE  \A g \in Frames : IndexOK(indices[g], desc[g])'
  <2> DEFINE d == [desc[f] EXCEPT !.toProcess = @ \ {s},
                                  !.bufStatus[s] = IF ok THEN "Success" ELSE "Error"]
  <2>1. desc' = [desc EXCEPT ![f] = d] /\ s \in desc[f].toProcess /\ UNCHANGED indices
    BY <1>2 DEF StreamProcessingComplete
  <2>2. /\ d.nextIndex = desc[f].nextIndex /\ d.life = desc[f].life
        /\ d.partial = desc[f].partial
    BY <1>0 DEF Descriptor
  <2> HIDE DEF d
  <2>3. desc[f].life = "pending" BY <2>1 DEF IndexInv, OwnerInv, FrameInv, Coherent
  <2>4. Completed(d) = Completed(desc[f]) BY <2>2 DEF Completed
  <2> QED BY <2>1, <2>2, <2>3, <2>4, IndexKept
<1>3. ASSUME NEW st \in {"Success", "Cancelled"}, RequestComplete(f, st)
      PROVE  \A g \in Frames : IndexOK(indices[g], desc[g])'
  <2> DEFINE done == AllCompleted(desc[f])
             d == [desc[f] EXCEPT !.queued = FALSE, !.status = st, !.completed = done]
  <2>1. desc' = [desc EXCEPT ![f] = d] /\ desc[f].queued /\ UNCHANGED indices
    BY <1>3 DEF RequestComplete, framework
  <2> HIDE DEF done
  <2>2. /\ d.nextIndex = desc[f].nextIndex /\ d.life = desc[f].life
        /\ d.partial = desc[f].partial
    BY <1>0 DEF Descriptor
  <2> HIDE DEF d
  <2>3. Completed(d) = Completed(desc[f]) BY <2>2 DEF Completed
  <2> QED BY <1>p, <2>1, <2>2, <2>3, IndexKept
<1>4. CASE MetadataAvailable(f)
  <2> DEFINE d == [desc[f] EXCEPT !.nextIndex = @ + 1]
             x == Append(indices[f], desc[f].nextIndex)
  <2>1. /\ desc' = [desc EXCEPT ![f] = d] /\ indices' = [indices EXCEPT ![f] = x]
        /\ desc[f].queued /\ desc[f].nextIndex <= MaxMetadata
    BY <1>4 DEF MetadataAvailable
  <2>2. /\ d.nextIndex = desc[f].nextIndex + 1 /\ d.life = desc[f].life
        /\ d.partial = desc[f].partial
    BY <1>0 DEF Descriptor
  <2> HIDE DEF d, x
  <2>3. /\ \A i, j \in DOMAIN indices[f] : i < j => indices[f][i] < indices[f][j]
        /\ \A i \in DOMAIN indices[f] : indices[f][i] < desc[f].nextIndex
    BY <1>p, <2>1 DEF IndexInv, IndexOK
  <2>4. indices[f] \in Seq(Nat) /\ desc[f].nextIndex \in Nat /\ MaxMetadata \in Nat
        /\ Cardinality(Completed(d)) \in Nat
    BY IndexTypes DEF IndexInv
  <2>5. /\ \A i, j \in DOMAIN x : i < j => x[i] < x[j]
        /\ \A i \in DOMAIN x : x[i] < desc[f].nextIndex + 1
    <3>1. desc[f].nextIndex + 1 \in Nat /\ desc[f].nextIndex < desc[f].nextIndex + 1 BY <2>4
    <3> QED BY <2>3, <2>4, <3>1, AppendGrows DEF x
  <2>6. d.nextIndex <= MaxMetadata + 1 + Cardinality(Completed(d)) BY <2>1, <2>2, <2>4
  <2>7. IndexOK(x, d) BY <1>p, <2>1, <2>2, <2>5, <2>6 DEF IndexOK
  <2> QED BY <2>1, <2>7, IndexByDescriptor
<1> QED BY <1>1, <1>2, <1>3, <1>4 DEF Libcamera

(* The camera manager thread. *)
LEMMA SendIndex ==
  ASSUME IndexInv, IsFiniteSet(Streams), CompletePartialResult
  PROVE  \A g \in Frames : IndexOK(indices[g], desc[g])'
<1> DEFINE r == Head(cam.ready)
           f == r[1]
           b == r[2]
           counts == b \in desc[f].meta
           d == [desc[f] EXCEPT !.partial[b] = "completed",
                                !.nextIndex = IF counts THEN @ + 1 ELSE @]
           last == IsLast(d)
           e == [d EXCEPT !.completed = last]
           x == IF counts THEN Append(indices[f], desc[f].nextIndex) ELSE indices[f]
           n == IF counts THEN desc[f].nextIndex + 1 ELSE desc[f].nextIndex
<1>1. /\ cam.pc = "sending" /\ desc' = [desc EXCEPT ![f] = e]
  BY ZenonT(30) DEF CompletePartialResult
<1>2. indices' = [indices EXCEPT ![f] = IF counts THEN Append(@, desc[f].nextIndex) ELSE @]
  BY DEF CompletePartialResult
<1>3. r \in Collected
  <2>1. cam.ready \in Seq(Results) /\ cam.ready # <<>>
    BY <1>1, Types DEF IndexInv, OwnerInv, FlushInv, TypeOK, ThreadTypeOK
  <2> QED BY <2>1, TailElements DEF Collected
<1>4. f \in Frames /\ b \in Streams /\ r = <<f, b>> BY <1>3, Types DEF IndexInv, Results
<1> HIDE DEF r, f, b
<1>5. desc[f].life = "pending" /\ desc[f].partial[b] = "open"
  BY <1>3, <1>4 DEF IndexInv, OwnerInv, ResultInv, Alive
<1>6. desc[f] \in Descriptor BY <1>4, Types DEF IndexInv
<1>7. /\ d.nextIndex = n /\ d.life = desc[f].life
      /\ d.partial = [desc[f].partial EXCEPT ![b] = "completed"]
  BY <1>4, <1>6 DEF Descriptor
<1> HIDE DEF counts, last
<1>8. /\ e.nextIndex = n /\ e.life = desc[f].life
      /\ e.partial = [desc[f].partial EXCEPT ![b] = "completed"]
  BY <1>4, <1>6 DEF Descriptor
<1> HIDE DEF e, d
<1>9. Completed(e) = Completed(desc[f]) \cup {b} /\ b \notin Completed(desc[f])
  BY <1>4, <1>5, <1>6, <1>8 DEF Completed, Descriptor
<1>10. /\ IsFiniteSet(Completed(desc[f])) /\ Cardinality(Completed(desc[f])) \in Nat
       /\ indices[f] \in Seq(Nat) /\ desc[f].nextIndex \in Nat /\ MaxMetadata \in Nat
  BY <1>4, IndexTypes DEF IndexInv
<1>11. Cardinality(Completed(e)) = Cardinality(Completed(desc[f])) + 1
  BY <1>9, <1>10, FS_AddElement
<1>12. IndexOK(indices[f], desc[f]) BY <1>4 DEF IndexInv
<1>13. n \in Nat /\ n <= desc[f].nextIndex + 1 BY <1>10
<1>14. e.nextIndex <= MaxMetadata + 1 + Cardinality(Completed(e))
  <2>1. desc[f].nextIndex <= MaxMetadata + 1 + Cardinality(Completed(desc[f]))
    BY <1>12 DEF IndexOK
  <2> HIDE DEF n
  <2> QED BY <1>8, <1>10, <1>11, <1>13, <2>1
<1>15. /\ \A i, j \in DOMAIN x : i < j => x[i] < x[j]
       /\ \A i \in DOMAIN x : x[i] < n
  <2>0. /\ \A i, j \in DOMAIN indices[f] : i < j => indices[f][i] < indices[f][j]
        /\ \A i \in DOMAIN indices[f] : indices[f][i] < desc[f].nextIndex
    BY <1>5, <1>12 DEF IndexOK
  <2>1. CASE counts
    <3>1. desc[f].nextIndex + 1 \in Nat /\ desc[f].nextIndex < desc[f].nextIndex + 1 BY <1>10
    <3>2. x = Append(indices[f], desc[f].nextIndex) /\ n = desc[f].nextIndex + 1 BY <2>1
    <3> HIDE DEF x, n
    <3> QED BY <1>10, <2>0, <3>1, <3>2, AppendGrows
  <2>2. CASE ~counts BY <2>0, <2>2
  <2> QED BY <2>1, <2>2
<1>16. indices' = [indices EXCEPT ![f] = x] BY <1>2, <1>4, IndexTypes DEF IndexInv
<1> HIDE DEF x, n
<1>17. IndexOK(x, e) BY <1>5, <1>8, <1>14, <1>15 DEF IndexOK
<1> QED BY <1>1, <1>4, <1>16, <1>17, IndexByDescriptor

LEMMA CameraIndex ==
  ASSUME IndexInv, IsFiniteSet(Streams), CameraThread,
         MaxMetadata + Cardinality(Streams) < MaxMetadataPackIndex
  PROVE  \A g \in Frames : IndexOK(indices[g], desc[g])'
<1>1. CASE CollectReady \/ CollectDone \/ FinishDone \/ NotifyFlush
  BY <1>1, IndexQuiet DEF CollectReady, CollectDone, FinishDone, NotifyFlush, device, framework
<1>2. CASE FinishFront
  <2> DEFINE f == Head(pendingRequests)
             d == Blank("freed")
             x == Append(indices[f], MaxMetadataPackIndex)
  <2>1. /\ pendingRequests # <<>> /\ desc' = [desc EXCEPT ![f] = d]
        /\ indices' = [indices EXCEPT ![f] = x]
    BY <1>2 DEF FinishFront, FrontCompleted
  <2>2. f \in Frames /\ desc[f].life = "pending"
    <3>1. pendingRequests \in Seq(Frames) BY Types DEF IndexInv
    <3>2. f \in Frames /\ f \in ToSet(pendingRequests) BY <2>1, <3>1, TailElements
    <3> QED BY <3>2 DEF IndexInv, OwnerInv, ListInv, Alive
  <2>3. d.nextIndex = 1 /\ d.life = "freed" /\ \A b \in Streams : d.partial[b] = "none"
    BY DEF Blank, NewDescriptor
  <2> HIDE DEF f, d
  <2>4. IndexOK(indices[f], desc[f]) BY <2>2 DEF IndexInv
  <2>5. /\ indices[f] \in Seq(Nat) /\ desc[f].nextIndex \in Nat
        /\ MaxMetadata \in Nat /\ MaxMetadataPackIndex \in Nat
        /\ Cardinality(Completed(desc[f])) \in Nat /\ Cardinality(Streams) \in Nat
        /\ Cardinality(Completed(desc[f])) <= Cardinality(Streams)
    BY <2>2, IndexTypes DEF IndexInv
  <2>6. desc[f].nextIndex <= MaxMetadataPackIndex BY <2>4, <2>5 DEF IndexOK
  <2>7. \A i \in DOMAIN indices[f] : indices[f][i] < MaxMetadataPackIndex
    <3> SUFFICES ASSUME NEW i \in DOMAIN indices[f] PROVE indices[f][i] < MaxMetadataPackIndex
      OBVIOUS
    <3>1. indices[f][i] \in Nat BY <2>5
    <3>2. indices[f][i] < desc[f].nextIndex BY <2>2, <2>4 DEF IndexOK
    <3> QED BY <2>5, <2>6, <3>1, <3>2
  <2>8. \A i, j \in DOMAIN indices[f] : i < j => indices[f][i] < indices[f][j]
    BY <2>4 DEF IndexOK
  <2>9. MaxMetadataPackIndex + 1 \in Nat /\ MaxMetadataPackIndex < MaxMetadataPackIndex + 1
    BY <2>5
  <2>10. \A i, j \in DOMAIN x : i < j => x[i] < x[j]
    BY <2>5, <2>7, <2>8, <2>9, AppendGrows
  <2> HIDE DEF x
  <2>11. IndexOK(x, d) BY <2>3, <2>10, BlankIndexOK
  <2> QED BY <2>1, <2>2, <2>11, IndexByDescriptor
<1> QED BY <1>1, <1>2, SendIndex DEF CameraThread

(* The packs of a request carry growing indices and its final result the
   largest, for any streams, provided that the early metadata and one pack per
   stream leave MaxMetadataPackIndex free.                                   *)
THEOREM PackIndicesAreOrdered ==
  ASSUME ~GetBufferCanFail, IsFiniteSet(Streams),
         MaxMetadata + Cardinality(Streams) < MaxMetadataPackIndex
  PROVE  Spec => []PackIndicesGrow
<1>1. Init => \A f \in Frames : IndexOK(indices[f], desc[f])
  <2> SUFFICES ASSUME Init, NEW f \in Frames PROVE IndexOK(indices[f], desc[f]) OBVIOUS
  <2>1. indices[f] = <<>> /\ desc[f] = Blank("absent") BY DEF Init
  <2>2. Blank("absent").nextIndex = 1 /\ \A b \in Streams : Blank("absent").partial[b] = "none"
    BY DEF Blank, NewDescriptor
  <2>3. \A i, j \in DOMAIN <<>> : i < j => <<>>[i] < <<>>[j] OBVIOUS
  <2> QED BY <2>1, <2>2, <2>3, BlankIndexOK
<1>2. OwnerInv /\ (\A f \in Frames : IndexOK(indices[f], desc[f])) /\ [Next]_vars
        => (\A f \in Frames : IndexOK(indices[f], desc[f]))'
  <2> SUFFICES ASSUME IndexInv, [Next]_vars
               PROVE  \A f \in Frames : IndexOK(indices[f], desc[f])'
    BY DEF IndexInv
  <2>1. CASE UNCHANGED vars BY <2>1, IndexQuiet DEF vars, device, framework
  <2>2. CASE Next
    BY <2>2, FrameworkIndex, CaptureIndex, CameraIndex, LibcameraIndex DEF Next
  <2> QED BY <2>1, <2>2
<1>3. (\A f \in Frames : IndexOK(indices[f], desc[f])) => PackIndicesGrow
  BY DEF IndexOK, PackIndicesGrow
<1> QED BY OwnerInvariant, <1>1, <1>2, <1>3, PTL DEF Spec
-----------------------------------------------------------------------------
(* CameraDevice implements CaptureContract: each of its steps is a step of   *)
(* the contract or changes nothing that the framework sees.  What the      *)
(* framework knows is told by the descriptors (AnswerInv), and the order   *)
(* of the answers comes from the order of the lists (OrderInv).            *)

(* The frames of a list come in the order of their numbers. *)
Sorted(q) == \A i, j \in DOMAIN q : i < j => q[i] < q[j]

(* What the framework knows of a request, told by its descriptor. *)
AnswerOK(d, a, r, n, answered) ==
  /\ d.life \in {"absent", "prepared"} =>
       a = {} /\ n = {} /\ ~answered /\ \A s \in Streams : r[s] = <<>>
  /\ d.life = "prepared" =>
       d.streams # {} /\ \A s \in d.streams : d.bufStatus[s] = "Success"
  /\ d.life = "pending" =>
       /\ a = d.streams /\ a # {} /\ ~answered /\ "REQUEST" \notin n
       /\ \A s \in d.streams : /\ r[s] = <<>> <=> d.partial[d.src[s]] # "completed"
                               /\ s \in n <=> d.bufStatus[s] = "Error"
                               /\ s \in n => d.partial[d.src[s]] # "none"
       /\ \A s \in d.toProcess : s \notin n
  /\ d.life \in {"prepared", "pending"} =>
       \A b \in Streams : b \in d.fbs \/ d.partial[b] # "none" => \E s \in d.streams : d.src[s] = b
  /\ d.life = "freed" =>
       (answered \/ "REQUEST" \in n \/ a = {}) /\ \A s \in a : r[s] # <<>>

(* ... of every request. *)
AnswerInv ==
  \A f \in Frames : AnswerOK(desc[f], asked[f], returned[f], notified[f], f \in ToSet(finals))

(* Before the j-th ready result, g's image of s has come back, is announced as
   failed, or is in a result that is sent earlier.                           *)
Settled(g, s, j) ==
  Alive(g) /\ s \in desc[g].streams =>
    \/ desc[g].partial[desc[g].src[s]] = "completed"
    \/ desc[g].bufStatus[s] = "Error"
    \/ \E i \in 1..(j - 1) : cam.ready[i] = <<g, desc[g].src[s]>>

(* The good buffers of a result that is ready come after those of earlier
   requests.                                                                 *)
ReadyInOrder ==
  \A j \in 1..Len(cam.ready) : \A s \in ResultBuffers(cam.ready[j][1], cam.ready[j][2]) :
     desc[cam.ready[j][1]].bufStatus[s] # "Error" =>
        \A g \in Frames : g < cam.ready[j][1] => Settled(g, s, j)

(* The lists are in the order of the requests, and the one that is submitted
   is the last.                                                              *)
OrderInv ==
  /\ Sorted(pendingRequests) /\ \A s \in Streams : Sorted(pendingStreamBuffers[s])
  /\ cap.pc # "idle" => nextFrame = cap.frame + 1
  /\ ReadyInOrder

-----------------------------------------------------------------------------
(* The steps of the contract, in terms of what the device writes. *)

LEMMA ContractStutters ==
  ASSUME UNCHANGED <<asked, returned, finals>>,
         \A f \in Frames : /\ notified'[f] \cap Streams = notified[f] \cap Streams
                           /\ "REQUEST" \in notified'[f] <=> "REQUEST" \in notified[f]
  PROVE  UNCHANGED Contract!vars
BY DEF Contract!vars

LEMMA ContractAccepts ==
  ASSUME NEW f \in Frames, NEW S \in SUBSET Streams, S # {},
         \A g \in Frames : g >= f => asked[g] = {},
         asked' = [asked EXCEPT ![f] = S], UNCHANGED <<returned, finals, notified>>
  PROVE  Contract!Next
<1>1. Contract!Fresh(f) BY DEF Contract!Fresh, Contract!Frames, Frames
<1>2. Contract!Accept(f, S) BY <1>1 DEF Contract!Accept
<1>3. f \in Contract!Frames BY DEF Contract!Frames, Frames
<1> QED BY <1>2, <1>3 DEF Contract!Next

LEMMA ContractAborts ==
  ASSUME notified \in [Frames -> SUBSET (Streams \cup {"REQUEST", "RESULT"})],
         NEW f \in Frames, NEW S \in SUBSET Streams, S # {},
         \A g \in Frames : g >= f => asked[g] = {},
         asked' = [asked EXCEPT ![f] = S],
         returned' = [returned EXCEPT ![f] = [s \in Streams |-> IF s \in S THEN <<"error">> ELSE <<>>]],
         notified' = [notified EXCEPT ![f] = @ \cup {"REQUEST"}], UNCHANGED finals
  PROVE  Contract!Next
<1>1. Contract!Fresh(f) BY DEF Contract!Fresh, Contract!Frames, Frames
<1>2. /\ notified'[f] = notified[f] \cup {"REQUEST"}
      /\ \A g \in Frames : g # f => notified'[g] = notified[g]
  OBVIOUS
<1>3. [g \in Frames |-> notified'[g] \cap Streams] = [g \in Frames |-> notified[g] \cap Streams]
  <2>1. \A g \in Frames : notified'[g] \cap Streams = notified[g] \cap Streams
    BY <1>2, MarkAssumption
  <2> QED BY <2>1
<1>4. {g \in Frames : "REQUEST" \in notified'[g]} = {g \in Frames : "REQUEST" \in notified[g]} \cup {f}
  BY <1>2
<1>5. Contract!Abort(f, S) BY <1>1, <1>3, <1>4 DEF Contract!Abort
<1>6. f \in Contract!Frames BY DEF Contract!Frames, Frames
<1> QED BY <1>5, <1>6 DEF Contract!Next

LEMMA ContractAnnounces ==
  ASSUME notified \in [Frames -> SUBSET (Streams \cup {"REQUEST", "RESULT"})],
         NEW f \in Frames, NEW E \in SUBSET Streams,
         \A s \in E : s \in asked[f] /\ returned[f][s] = <<>> /\ s \notin notified[f],
         notified' = [notified EXCEPT ![f] = @ \cup E], UNCHANGED <<asked, returned, finals>>
  PROVE  [Contract!Next]_(Contract!vars)
<1>1. /\ notified'[f] = notified[f] \cup E
      /\ \A g \in Frames : g # f => notified'[g] = notified[g]
  OBVIOUS
<1>2. \A g \in Frames : "REQUEST" \in notified'[g] <=> "REQUEST" \in notified[g]
  BY <1>1, MarkAssumption
<1>3. CASE E = {}
  <2>1. \A g \in Frames : notified'[g] \cap Streams = notified[g] \cap Streams BY <1>1, <1>3
  <2> QED BY <1>2, <2>1, ContractStutters
<1>4. CASE E # {}
  <2> DEFINE failed == [g \in Frames |-> notified[g] \cap Streams]
             failed2 == [g \in Frames |-> notified'[g] \cap Streams]
  <2>1. failed2 = [failed EXCEPT ![f] = @ \cup E]
    <3>1. failed[f] = notified[f] \cap Streams /\ failed2[f] = notified'[f] \cap Streams OBVIOUS
    <3>2. failed2[f] = failed[f] \cup E BY <1>1, <3>1
    <3>3. \A g \in Frames : g # f => failed2[g] = failed[g] BY <1>1
    <3>4. failed = [g \in Frames |-> failed[g]] /\ failed2 = [g \in Frames |-> failed2[g]] OBVIOUS
    <3> HIDE DEF failed, failed2
    <3> QED BY <3>2, <3>3, <3>4
  <2>2. E \subseteq Contract!Owed(f) \ failed[f] BY DEF Contract!Owed
  <2>3. {g \in Frames : "REQUEST" \in notified'[g]} = {g \in Frames : "REQUEST" \in notified[g]}
    BY <1>2
  <2>4. Contract!Announce(f, E) BY <1>4, <2>1, <2>2, <2>3 DEF Contract!Announce
  <2>5. f \in Contract!Frames BY DEF Contract!Frames, Frames
  <2> QED BY <2>4, <2>5 DEF Contract!Next
<1> QED BY <1>3, <1>4

LEMMA ContractReturns ==
  ASSUME NEW f \in Frames, NEW S \in SUBSET Streams, S # {},
         \A s \in S : s \in asked[f] /\ returned[f][s] = <<>>,
         \A s \in S : s \notin notified[f] =>
           \A g \in Frames : g < f /\ s \in asked[g] /\ returned[g][s] = <<>> => s \in notified[g],
         returned \in [Frames -> [Streams -> Seq({"ok", "error"})]],
         returned' = [returned EXCEPT ![f] =
           [s \in Streams |-> IF s \notin S THEN @[s]
                              ELSE IF s \in notified[f] THEN <<"error">> ELSE <<"ok">>]],
         UNCHANGED <<asked, notified, finals>>
  PROVE  Contract!Next
<1> DEFINE failed == [g \in Frames |-> notified[g] \cap Streams]
<1>1. \A g \in Frames : failed[g] = notified[g] \cap Streams OBVIOUS
<1>2. S \subseteq Contract!Owed(f) BY DEF Contract!Owed
<1>3. \A g \in Frames : g < f => (S \ failed[f]) \cap Contract!Owed(g) \subseteq failed[g]
  BY DEF Contract!Owed
<1>4. returned' = [returned EXCEPT ![f] =
         [s \in Streams |-> IF s \notin S THEN @[s]
                            ELSE IF s \in failed[f] THEN <<"error">> ELSE <<"ok">>]]
  <2>1. \A s \in S : s \in failed[f] <=> s \in notified[f] BY <1>1
  <2>2. [s \in Streams |-> IF s \notin S THEN returned[f][s]
                           ELSE IF s \in notified[f] THEN <<"error">> ELSE <<"ok">>]
      = [s \in Streams |-> IF s \notin S THEN returned[f][s]
                           ELSE IF s \in failed[f] THEN <<"error">> ELSE <<"ok">>]
    BY <2>1
  <2> HIDE DEF failed
  <2> QED BY <2>2
<1>5. Contract!ReturnBuffers(f, S)
  BY <1>2, <1>3, <1>4 DEF Contract!ReturnBuffers, Contract!Frames, Frames
<1>6. f \in Contract!Frames BY DEF Contract!Frames, Frames
<1> QED BY <1>5, <1>6 DEF Contract!Next

LEMMA ContractFinishes ==
  ASSUME notified \in [Frames -> SUBSET (Streams \cup {"REQUEST", "RESULT"})],
         NEW f \in Frames, asked[f] # {}, "REQUEST" \notin notified[f], f \notin ToSet(finals),
         \A s \in asked[f] : returned[f][s] # <<>>,
         \A g \in Frames : g < f /\ asked[g] # {} /\ "REQUEST" \notin notified[g] =>
                           g \in ToSet(finals),
         finals' = Append(finals, f), UNCHANGED <<asked, returned>>,
         NEW E \in SUBSET {"RESULT"}, notified' = [notified EXCEPT ![f] = @ \cup E]
  PROVE  Contract!Next
<1>1. /\ notified'[f] = notified[f] \cup E
      /\ \A g \in Frames : g # f => notified'[g] = notified[g]
  OBVIOUS
<1>2. \A g \in Frames : /\ notified'[g] \cap Streams = notified[g] \cap Streams
                        /\ "REQUEST" \in notified'[g] <=> "REQUEST" \in notified[g]
  BY <1>1, MarkAssumption
<1>3. [g \in Frames |-> notified'[g] \cap Streams] = [g \in Frames |-> notified[g] \cap Streams]
  BY <1>2
<1>4. {g \in Frames : "REQUEST" \in notified'[g]} = {g \in Frames : "REQUEST" \in notified[g]}
  BY <1>2
<1>5. Contract!Owed(f) = {} BY DEF Contract!Owed
<1>7. Contract!Accepted = {g \in Frames : asked[g] # {} /\ "REQUEST" \notin notified[g]}
  BY DEF Contract!Accepted, Contract!Frames, Frames
<1>8. f \in Contract!Accepted \ ToSet(finals) BY <1>7
<1>9. \A g \in Contract!Accepted : g < f => g \in ToSet(finals) BY <1>7
<1>10. Contract!Finish(f)
  BY <1>3, <1>4, <1>5, <1>8, <1>9 DEF Contract!Finish, Contract!ToSet, ToSet
<1>6. f \in Contract!Frames BY DEF Contract!Frames, Frames
<1> QED BY <1>6, <1>10 DEF Contract!Next

(* The invariant under which each step of the device is one of the contract. *)
RefInv == OwnerInv /\ AnswerInv /\ OrderInv

LEMMA AnswerTypes ==
  ASSUME OwnerInv
  PROVE  /\ asked \in [Frames -> SUBSET Streams]
         /\ returned \in [Frames -> [Streams -> Seq({"ok", "error"})]]
         /\ finals \in Seq(Frames)
         /\ notified \in [Frames -> SUBSET (Streams \cup {"REQUEST", "RESULT"})]
BY DEF OwnerInv, FlushInv, TypeOK, FrameworkTypeOK

-----------------------------------------------------------------------------
(* Each step keeps AnswerInv, and is a step of the contract or none. *)

(* A step about one request. *)
LEMMA AnswerByFrame ==
  ASSUME RefInv, NEW f \in Frames, finals' = finals \/ finals' = Append(finals, f),
         \A g \in Frames : g # f =>
           /\ desc'[g] = desc[g] /\ asked'[g] = asked[g]
           /\ returned'[g] = returned[g] /\ notified'[g] = notified[g],
         AnswerOK(desc'[f], asked'[f], returned'[f], notified'[f], f \in ToSet(finals'))
  PROVE  AnswerInv'
<1>1. \A g \in Frames : g # f => (g \in ToSet(finals') <=> g \in ToSet(finals))
  <2>1. finals \in Seq(Frames) BY AnswerTypes DEF RefInv
  <2>2. ToSet(Append(finals, f)) = ToSet(finals) \cup {f} BY <2>1, AppendElements
  <2> QED BY <2>2
<1> SUFFICES ASSUME NEW g \in Frames
             PROVE  AnswerOK(desc'[g], asked'[g], returned'[g], notified'[g], g \in ToSet(finals'))
  BY DEF AnswerInv, AnswerOK
<1>2. CASE g = f BY <1>2
<1>3. CASE g # f
  <2>1. AnswerOK(desc[g], asked[g], returned[g], notified[g], g \in ToSet(finals))
    BY DEF RefInv, AnswerInv
  <2> QED BY <1>1, <1>3, <2>1 DEF AnswerOK
<1> QED BY <1>2, <1>3

(* A step that changes nothing of it. *)
LEMMA AnswerQuiet ==
  ASSUME RefInv, UNCHANGED <<desc, asked, returned, finals, notified>>
  PROVE  AnswerInv' /\ [Contract!Next]_(Contract!vars)
<1>1. AnswerInv' BY DEF RefInv, AnswerInv, AnswerOK
<1>2. UNCHANGED Contract!vars BY ContractStutters
<1> QED BY <1>1, <1>2

(* Nothing that the framework sees changes in the descriptor. *)
LEMMA AnswerKept ==
  ASSUME RefInv, NEW f \in Frames, NEW d, desc' = [desc EXCEPT ![f] = d],
         UNCHANGED <<asked, returned, finals, notified>>,
         d.life = desc[f].life, d.streams = desc[f].streams, d.src = desc[f].src,
         d.partial = desc[f].partial, d.bufStatus = desc[f].bufStatus,
         d.toProcess = desc[f].toProcess, d.fbs = desc[f].fbs
  PROVE  AnswerInv' /\ [Contract!Next]_(Contract!vars)
<1>1. desc'[f] = d /\ \A g \in Frames : g # f => desc'[g] = desc[g] BY Types DEF RefInv
<1>2. AnswerOK(desc[f], asked[f], returned[f], notified[f], f \in ToSet(finals))
  BY DEF RefInv, AnswerInv
<1>3. AnswerOK(d, asked[f], returned[f], notified[f], f \in ToSet(finals)) BY <1>2 DEF AnswerOK
<1>4. AnswerInv' BY <1>1, <1>3, AnswerByFrame
<1>5. UNCHANGED Contract!vars BY ContractStutters
<1> QED BY <1>4, <1>5

(* The request that is submitted is later than all that were asked for. *)
LEMMA SubmittedIsFresh ==
  ASSUME RefInv, cap.pc \in {"prepared", "pushing"}
  PROVE  /\ cap.frame \in Frames /\ desc[cap.frame].life = "prepared"
         /\ \A g \in Frames : g >= cap.frame => asked[g] = {}
<1>1. cap.frame \in Frames /\ desc[cap.frame].life = "prepared"
  BY Types DEF RefInv, OwnerInv, FrameInv
<1>2. ASSUME NEW g \in Frames, g >= cap.frame PROVE asked[g] = {}
  <2>1. CASE g = cap.frame BY <1>1, <2>1 DEF RefInv, AnswerInv, AnswerOK
  <2>2. CASE g # cap.frame
    <3>1. g \in Nat /\ cap.frame \in Nat BY <1>1, Types DEF RefInv
    <3>2. nextFrame = cap.frame + 1 BY DEF RefInv, OrderInv
    <3>3. g >= nextFrame BY <1>2, <2>2, <3>1, <3>2
    <3>4. desc[g].life = "absent" BY <3>3 DEF RefInv, OwnerInv, FrameInv
    <3> QED BY <3>4 DEF RefInv, AnswerInv, AnswerOK
  <2> QED BY <2>1, <2>2
<1> QED BY <1>1, <1>2

(* The framework and the control thread. *)
LEMMA FrameworkAnswer ==
  ASSUME RefInv, Framework \/ ControlThread
  PROVE  AnswerInv' /\ [Contract!Next]_(Contract!vars)
<1> USE DEF device, framework
<1>1. ASSUME NEW S \in SUBSET Streams, NEW lost \in SUBSET Direct, PrepareRequest(S, lost)
      PROVE  AnswerInv' /\ [Contract!Next]_(Contract!vars)
  <2> DEFINE d == NewDescriptor("prepared", S, SourceBuffers(S, lost))
             n == nextFrame
  <2>1. /\ desc' = [desc EXCEPT ![n] = d] /\ n \in Frames /\ S # {}
        /\ UNCHANGED <<asked, returned, finals, notified>>
    BY <1>1 DEF PrepareRequest, MayCapture
  <2>2. /\ d.life = "prepared" /\ d.streams = S /\ d.src = SourceBuffers(S, lost)
        /\ \A b \in Streams : d.partial[b] = "none" /\ d.bufStatus[b] = "Success"
        /\ d.fbs = {SourceBuffers(S, lost)[s] : s \in S} \ {NoBuffer}
    BY DEF NewDescriptor
  <2> HIDE DEF d
  <2>3. desc[n].life = "absent"
    <3>1. n \in Frames /\ n >= nextFrame BY <2>1, Types DEF RefInv
    <3> QED BY <3>1 DEF RefInv, OwnerInv, FrameInv
  <2> HIDE DEF n
  <2>4. AnswerOK(desc[n], asked[n], returned[n], notified[n], n \in ToSet(finals))
    BY <2>1 DEF RefInv, AnswerInv
  <2>5. AnswerOK(d, asked[n], returned[n], notified[n], n \in ToSet(finals))
    <3>1. \A b \in Streams : b \in d.fbs \/ d.partial[b] # "none" => \E s \in d.streams : d.src[s] = b
      BY <2>2
    <3> QED BY <2>1, <2>2, <2>3, <2>4, <3>1 DEF AnswerOK
  <2>6. desc'[n] = d /\ \A g \in Frames : g # n => desc'[g] = desc[g]
    BY <2>1, Types DEF RefInv
  <2>7. AnswerInv' BY <2>1, <2>5, <2>6, AnswerByFrame
  <2>8. UNCHANGED Contract!vars BY <2>1, ContractStutters
  <2> QED BY <2>7, <2>8
<1>2. CASE Open \/ RejectRequest \/ \E op \in ControlOps : CallControl(op)
  BY <1>2, AnswerQuiet DEF Open, RejectRequest, CallControl
<1>3. CASE ControlThread
  BY <1>3, AnswerQuiet DEF ControlThread, FlushBegin, FlushCheck, FlushStop, FlushEnd,
       FlushReturn, CloseReturn, ConfigureStreams
<1> QED BY <1>1, <1>2, <1>3 DEF Framework

(* The capture thread accepts a request or gives it back. *)
LEMMA CaptureAnswer ==
  ASSUME RefInv, CaptureThread
  PROVE  AnswerInv' /\ [Contract!Next]_(Contract!vars)
<1> USE DEF device, framework
<1> DEFINE f == cap.frame
<1>1. CASE EnsureStarted BY <1>1, AnswerQuiet DEF EnsureStarted
<1>2. CASE AbortRequest
  <2> DEFINE d == Blank("freed")
             S == desc[f].streams
             back == [s \in Streams |-> IF s \in S THEN <<"error">> ELSE <<>>]
  <2>1. /\ desc' = [desc EXCEPT ![f] = d] /\ cap.pc = "prepared"
        /\ notified' = [notified EXCEPT ![f] = @ \cup {"REQUEST"}]
        /\ returned' = [returned EXCEPT ![f] =
             [s \in Streams |-> IF s \in S THEN Append(@[s], "error") ELSE @[s]]]
        /\ asked' = [asked EXCEPT ![f] = S] /\ UNCHANGED finals
    BY <1>2 DEF AbortRequest
  <2>2. d.life = "freed" BY DEF Blank, NewDescriptor
  <2> HIDE DEF f, d
  <2>3. /\ f \in Frames /\ desc[f].life = "prepared"
        /\ \A g \in Frames : g >= f => asked[g] = {}
    BY <2>1, SubmittedIsFresh DEF f
  <2>4. AnswerOK(desc[f], asked[f], returned[f], notified[f], f \in ToSet(finals))
    BY <2>3 DEF RefInv, AnswerInv
  <2>5. S \in SUBSET Streams /\ S # {}
    <3>1. desc[f] \in Descriptor BY <2>3, Types DEF RefInv
    <3>2. S # {} BY <2>3, <2>4 DEF AnswerOK
    <3> QED BY <3>1, <3>2 DEF Descriptor
  <2>6. returned' = [returned EXCEPT ![f] = back]
    <3>1. \A s \in Streams : returned[f][s] = <<>> BY <2>3, <2>4 DEF AnswerOK
    <3>a. Append(<<>>, "error") = <<"error">> OBVIOUS
    <3> HIDE DEF S
    <3>2. [s \in Streams |-> IF s \in S THEN Append(returned[f][s], "error") ELSE returned[f][s]]
            = back
      BY Zenon, <3>1, <3>a
    <3> QED BY <2>1, <3>2
  <2>7. \A s \in S : back[s] # <<>> BY <2>5
  <2> HIDE DEF S, back
  <2>8. Contract!Next
    BY <2>1, <2>3, <2>5, <2>6, AnswerTypes, ContractAborts DEF RefInv, back
  <2>9. /\ desc'[f] = d /\ asked'[f] = S /\ returned'[f] = back
        /\ notified'[f] = notified[f] \cup {"REQUEST"}
        /\ \A g \in Frames : g # f =>
             /\ desc'[g] = desc[g] /\ asked'[g] = asked[g]
             /\ returned'[g] = returned[g] /\ notified'[g] = notified[g]
    BY <2>1, <2>3, <2>6, Types, AnswerTypes DEF RefInv
  <2>10. AnswerOK(desc'[f], asked'[f], returned'[f], notified'[f], f \in ToSet(finals'))
    BY <2>2, <2>7, <2>9 DEF AnswerOK
  <2>11. AnswerInv' BY <2>1, <2>3, <2>9, <2>10, AnswerByFrame
  <2> QED BY <2>8, <2>11
<1>3. CASE StartFails
  <2> DEFINE d == Blank("freed")
  <2>1. /\ desc' = [desc EXCEPT ![f] = d] /\ cap.pc = "prepared"
        /\ UNCHANGED <<asked, returned, finals, notified>>
    BY <1>3 DEF StartFails
  <2>2. d.life = "freed" BY DEF Blank, NewDescriptor
  <2> HIDE DEF f, d
  <2>3. f \in Frames /\ asked[f] = {}
    <3>1. cap.frame \in Frames /\ cap.frame >= cap.frame /\ asked[cap.frame] = {}
      BY <2>1, SubmittedIsFresh, Types DEF RefInv
    <3> QED BY <3>1 DEF f
  <2>4. desc'[f] = d /\ \A g \in Frames : g # f => desc'[g] = desc[g]
    BY <2>1, <2>3, Types DEF RefInv
  <2>5. AnswerOK(d, asked[f], returned[f], notified[f], f \in ToSet(finals))
    BY <2>2, <2>3 DEF AnswerOK
  <2>6. AnswerInv' BY <2>1, <2>3, <2>4, <2>5, AnswerByFrame
  <2>7. UNCHANGED Contract!vars BY <2>1, ContractStutters
  <2> QED BY <2>6, <2>7
<1>4. CASE PushRequest
  <2> DEFINE d == [desc[f] EXCEPT !.life = "pending"]
             S == desc[f].streams
  <2>1. /\ desc' = [desc EXCEPT ![f] = d] /\ cap.pc = "pushing"
        /\ asked' = [asked EXCEPT ![f] = S] /\ UNCHANGED <<returned, finals, notified>>
    BY <1>4 DEF PushRequest
  <2>2. /\ f \in Frames /\ desc[f].life = "prepared"
        /\ \A g \in Frames : g >= f => asked[g] = {}
    BY <2>1, SubmittedIsFresh
  <2>a. desc[f] \in Descriptor BY <2>2, Types DEF RefInv
  <2>3. /\ d.life = "pending" /\ d.streams = S /\ d.src = desc[f].src
        /\ d.partial = desc[f].partial /\ d.bufStatus = desc[f].bufStatus
        /\ d.toProcess = desc[f].toProcess /\ d.fbs = desc[f].fbs
    BY <2>a DEF Descriptor
  <2> HIDE DEF f, d
  <2>4. AnswerOK(desc[f], asked[f], returned[f], notified[f], f \in ToSet(finals))
    BY <2>2 DEF RefInv, AnswerInv
  <2>5. S \in SUBSET Streams /\ S # {} BY <2>2, <2>4, <2>a DEF AnswerOK, Descriptor
  <2>6. Coherent(desc[f]) BY <2>2 DEF RefInv, OwnerInv, FrameInv
  <2>7. /\ \A b \in Streams : desc[f].partial[b] = "none"
        /\ desc[f].toProcess = {} /\ \A s \in S : desc[f].src[s] \in Streams
    BY <2>2, <2>6 DEF Coherent
  <2> HIDE DEF S
  <2>8. AnswerOK(d, S, returned[f], notified[f], f \in ToSet(finals))
    <3>1. /\ notified[f] = {} /\ f \notin ToSet(finals) /\ \A s \in Streams : returned[f][s] = <<>>
          /\ \A s \in S : desc[f].bufStatus[s] = "Success"
          /\ \A b \in Streams : b \in d.fbs \/ d.partial[b] # "none" => \E s \in d.streams : d.src[s] = b
      BY <2>2, <2>3, <2>4 DEF AnswerOK, S
    <3>2. ASSUME NEW s \in S
          PROVE  /\ returned[f][s] = <<>> /\ d.partial[d.src[s]] = "none"
                 /\ s \notin notified[f] /\ d.bufStatus[s] = "Success"
      BY <2>3, <2>5, <2>7, <3>1
    <3> QED BY <2>3, <2>5, <2>7, <3>1, <3>2 DEF AnswerOK
  <2>9. /\ desc'[f] = d /\ asked'[f] = S
        /\ \A g \in Frames : g # f => desc'[g] = desc[g] /\ asked'[g] = asked[g]
    BY <2>1, <2>2, Types, AnswerTypes DEF RefInv
  <2>10. AnswerInv' BY <2>1, <2>2, <2>8, <2>9, AnswerByFrame
  <2>11. Contract!Next BY <2>1, <2>2, <2>5, ContractAccepts
  <2> QED BY <2>10, <2>11
<1>5. CASE QueueRequest
  <2> DEFINE d == [desc[f] EXCEPT !.queued = desc[f].fbs # {}]
  <2>1. /\ desc' = [desc EXCEPT ![f] = d] /\ cap.pc = "queueing"
        /\ UNCHANGED <<asked, returned, finals, notified>>
    BY <1>5 DEF QueueRequest
  <2>2. f \in Frames BY <2>1, Types DEF RefInv
  <2>3. /\ d.life = desc[f].life /\ d.streams = desc[f].streams /\ d.src = desc[f].src
        /\ d.partial = desc[f].partial /\ d.bufStatus = desc[f].bufStatus
        /\ d.toProcess = desc[f].toProcess /\ d.fbs = desc[f].fbs
    BY <2>2, Types DEF Descriptor, RefInv
  <2> HIDE DEF f, d
  <2> QED BY <2>1, <2>2, <2>3, AnswerKept
<1> QED BY <1>1, <1>2, <1>3, <1>4, <1>5 DEF CaptureThread

(* Failed images and failed post-processing are announced. *)
LEMMA BufferAnswer ==
  ASSUME RefInv, NEW f \in Frames, NEW b \in Streams, NEW ok \in BOOLEAN,
         NEW failed \in SUBSET Streams, BufferComplete(f, b, ok, failed)
  PROVE  AnswerInv' /\ [Contract!Next]_(Contract!vars)
<1> DEFINE mine   == ResultBuffers(f, b)
           todo   == IF ok THEN mine \ Direct ELSE {}
           errors == IF ok THEN failed ELSE mine
           d      == [desc[f] EXCEPT
                        !.fbs = @ \ {b},
                        !.partial[b] = "open",
                        !.toProcess = @ \cup (todo \ failed),
                        !.meta = IF todo \cap Jpeg # {} THEN @ \cup {b} ELSE @,
                        !.bufStatus = [s \in Streams |-> IF s \in errors THEN "Error" ELSE @[s]]]
           n      == notified[f] \cup errors
<1>1. /\ desc' = [desc EXCEPT ![f] = d] /\ desc[f].queued /\ b \in desc[f].fbs /\ failed \subseteq todo
      /\ notified' = [notified EXCEPT ![f] = @ \cup errors]
      /\ UNCHANGED <<asked, returned, finals>>
  BY DEF BufferComplete, Announce
<1>2. todo \subseteq mine /\ errors \subseteq mine /\ \A s \in todo \ failed : s \notin errors
  BY <1>1
<1>3. mine = {s \in desc[f].streams : desc[f].src[s] = b} BY DEF ResultBuffers
<1> HIDE DEF mine, todo, errors
<1>t. desc[f] \in Descriptor BY Types DEF RefInv
<1>4. /\ d.life = desc[f].life /\ d.streams = desc[f].streams /\ d.src = desc[f].src
      /\ d.fbs = desc[f].fbs \ {b} /\ d.toProcess = desc[f].toProcess \cup (todo \ failed)
      /\ d.partial = [desc[f].partial EXCEPT ![b] = "open"]
      /\ d.bufStatus = [s \in Streams |-> IF s \in errors THEN "Error" ELSE desc[f].bufStatus[s]]
  BY <1>t DEF Descriptor
<1>5. desc[f].partial \in [Streams -> {"none", "open", "completed"}] /\ desc[f].streams \subseteq Streams
  BY <1>t DEF Descriptor
<1>6. d.partial[b] = "open" /\ \A c \in Streams : c # b => d.partial[c] = desc[f].partial[c]
  BY <1>4, <1>5
<1> HIDE DEF d
<1>7. Coherent(desc[f]) BY DEF RefInv, OwnerInv, FrameInv
<1>8. desc[f].life = "pending" /\ desc[f].partial[b] = "none"
  <2>1. f \in ToSet(pendingRequests) BY <1>1 DEF RefInv, OwnerInv, FlushInv, QueueInv
  <2>2. Alive(f) BY <2>1 DEF RefInv, OwnerInv, ListInv
  <2> QED BY <1>1, <1>7, <2>2 DEF Coherent, Alive
<1>9. AnswerOK(desc[f], asked[f], returned[f], notified[f], f \in ToSet(finals))
  BY DEF RefInv, AnswerInv
<1>10. ASSUME NEW s \in mine
       PROVE  /\ s \in asked[f] /\ returned[f][s] = <<>> /\ s \notin notified[f]
              /\ s \in desc[f].streams /\ desc[f].src[s] = b /\ s \in Streams
  BY <1>3, <1>5, <1>8, <1>9 DEF AnswerOK
<1>11. errors \in SUBSET Streams BY <1>2, <1>10
<1>12. [Contract!Next]_(Contract!vars)
  BY <1>1, <1>2, <1>10, <1>11, AnswerTypes, ContractAnnounces DEF RefInv
<1>13. \A s \in desc[f].toProcess :
         s \in desc[f].streams /\ s \notin notified[f] /\ desc[f].partial[desc[f].src[s]] = "open"
  BY <1>7, <1>8, <1>9 DEF Coherent, AnswerOK
<1>14. AnswerOK(d, asked[f], returned[f], n, f \in ToSet(finals))
  <2>1. ASSUME NEW s \in desc[f].streams
        PROVE  /\ returned[f][s] = <<>> <=> d.partial[d.src[s]] # "completed"
               /\ s \in n <=> d.bufStatus[s] = "Error"
               /\ s \in n => d.partial[d.src[s]] # "none"
    <3>1. /\ returned[f][s] = <<>> <=> desc[f].partial[desc[f].src[s]] # "completed"
          /\ s \in notified[f] <=> desc[f].bufStatus[s] = "Error"
          /\ s \in notified[f] => desc[f].partial[desc[f].src[s]] # "none"
      BY <1>8, <1>9 DEF AnswerOK
    <3>2. desc[f].src[s] \in Streams /\ s \in Streams BY <1>5, <1>7 DEF Coherent
    <3>3. CASE desc[f].src[s] = b
      <4>1. returned[f][s] = <<>> /\ s \notin notified[f] BY <1>8, <3>1, <3>3
      <4>2. d.partial[d.src[s]] = "open" BY <1>4, <1>6, <3>3
      <4>3. d.bufStatus[s] = IF s \in errors THEN "Error" ELSE desc[f].bufStatus[s]
        BY <1>4, <3>2
      <4> QED BY <3>1, <4>1, <4>2, <4>3
    <3>4. CASE desc[f].src[s] # b
      <4>1. s \notin errors BY <1>2, <1>3, <3>4
      <4>2. d.partial[d.src[s]] = desc[f].partial[desc[f].src[s]] BY <1>4, <1>6, <3>2, <3>4
      <4>3. d.bufStatus[s] = desc[f].bufStatus[s] BY <1>4, <3>2, <4>1
      <4> QED BY <3>1, <4>1, <4>2, <4>3
    <3> QED BY <3>3, <3>4
  <2>2. ASSUME NEW s \in d.toProcess PROVE s \notin n
    <3>1. CASE s \in desc[f].toProcess
      <4>1. s \notin mine BY <1>3, <1>8, <1>13, <3>1
      <4> QED BY <1>2, <1>13, <3>1, <4>1
    <3>2. CASE s \in todo \ failed BY <1>2, <1>10, <3>2
    <3> QED BY <1>4, <3>1, <3>2
  <2>3. ASSUME NEW c \in Streams, c \in d.fbs \/ d.partial[c] # "none"
        PROVE  \E s \in d.streams : d.src[s] = c
    <3>1. c \in desc[f].fbs \/ desc[f].partial[c] # "none" BY <1>1, <1>4, <1>6, <2>3
    <3>2. \E s \in desc[f].streams : desc[f].src[s] = c BY <1>8, <1>9, <3>1 DEF AnswerOK
    <3> QED BY <1>4, <3>2
  <2>4. /\ asked[f] = desc[f].streams /\ asked[f] # {} /\ f \notin ToSet(finals)
        /\ "REQUEST" \notin notified[f]
    BY <1>8, <1>9 DEF AnswerOK
  <2>5. "REQUEST" \notin n BY <1>11, <2>4, MarkAssumption
  <2> HIDE DEF n
  <2> QED BY <1>4, <1>8, <2>1, <2>2, <2>3, <2>4, <2>5 DEF AnswerOK
<1>15. /\ desc'[f] = d /\ notified'[f] = n
       /\ \A g \in Frames : g # f => desc'[g] = desc[g] /\ notified'[g] = notified[g]
  BY <1>1, Types, AnswerTypes DEF RefInv
<1> HIDE DEF n
<1>16. AnswerInv' BY <1>1, <1>14, <1>15, AnswerByFrame
<1> QED BY <1>12, <1>16

LEMMA ProcessingAnswer ==
  ASSUME RefInv, NEW f \in Frames, NEW s \in Streams, NEW ok \in BOOLEAN,
         StreamProcessingComplete(f, s, ok)
  PROVE  AnswerInv' /\ [Contract!Next]_(Contract!vars)
<1> DEFINE st == IF ok THEN "Success" ELSE "Error"
           d == [desc[f] EXCEPT !.toProcess = @ \ {s}, !.bufStatus[s] = st]
           E == IF ok THEN {} ELSE {s}
           n == notified[f] \cup E
<1>1. /\ desc' = [desc EXCEPT ![f] = d] /\ s \in desc[f].toProcess
      /\ notified' = [notified EXCEPT ![f] = @ \cup E]
      /\ UNCHANGED <<asked, returned, finals>>
  BY DEF StreamProcessingComplete, Announce
<1>2. (s \in E <=> st = "Error") /\ E \subseteq {s} OBVIOUS
<1>t. desc[f] \in Descriptor BY Types DEF RefInv
<1> HIDE DEF st, E
<1>3. /\ d.life = desc[f].life /\ d.streams = desc[f].streams /\ d.src = desc[f].src
      /\ d.fbs = desc[f].fbs /\ d.toProcess = desc[f].toProcess \ {s}
      /\ d.partial = desc[f].partial
      /\ d.bufStatus[s] = st /\ \A t \in Streams : t # s => d.bufStatus[t] = desc[f].bufStatus[t]
  BY <1>t DEF Descriptor
<1> HIDE DEF d
<1>4. /\ desc[f].life = "pending" /\ s \in desc[f].streams
      /\ desc[f].partial[desc[f].src[s]] = "open"
  BY <1>1 DEF RefInv, OwnerInv, FrameInv, Coherent
<1>5. AnswerOK(desc[f], asked[f], returned[f], notified[f], f \in ToSet(finals))
  BY DEF RefInv, AnswerInv
<1>6. /\ s \in asked[f] /\ returned[f][s] = <<>> /\ s \notin notified[f]
  BY <1>1, <1>4, <1>5 DEF AnswerOK
<1>7. [Contract!Next]_(Contract!vars)
  BY <1>1, <1>2, <1>6, AnswerTypes, ContractAnnounces DEF RefInv
<1>8. AnswerOK(d, asked[f], returned[f], n, f \in ToSet(finals))
  <2>1. ASSUME NEW t \in desc[f].streams
        PROVE  /\ returned[f][t] = <<>> <=> d.partial[d.src[t]] # "completed"
               /\ t \in n <=> d.bufStatus[t] = "Error"
               /\ t \in n => d.partial[d.src[t]] # "none"
    <3>1. /\ returned[f][t] = <<>> <=> desc[f].partial[desc[f].src[t]] # "completed"
          /\ t \in notified[f] <=> desc[f].bufStatus[t] = "Error"
          /\ t \in notified[f] => desc[f].partial[desc[f].src[t]] # "none"
      BY <1>4, <1>5 DEF AnswerOK
    <3>2. t \in Streams BY <1>t DEF Descriptor
    <3>3. CASE t = s BY <1>2, <1>3, <1>4, <1>6, <3>1, <3>3
    <3>4. CASE t # s BY <1>2, <1>3, <3>1, <3>2, <3>4
    <3> QED BY <3>3, <3>4
  <2>2. \A t \in d.toProcess : t \notin n
    BY <1>2, <1>3, <1>4, <1>5 DEF AnswerOK
  <2>3. /\ asked[f] = desc[f].streams /\ asked[f] # {} /\ f \notin ToSet(finals)
        /\ "REQUEST" \notin notified[f]
    BY <1>4, <1>5 DEF AnswerOK
  <2>4. "REQUEST" \notin n BY <1>2, <2>3, MarkAssumption
  <2>5. \A c \in Streams : c \in d.fbs \/ d.partial[c] # "none" => \E t \in d.streams : d.src[t] = c
    BY <1>3, <1>4, <1>5 DEF AnswerOK
  <2> HIDE DEF n
  <2> QED BY <1>3, <1>4, <2>1, <2>2, <2>3, <2>4, <2>5 DEF AnswerOK
<1>9. /\ desc'[f] = d /\ notified'[f] = n
      /\ \A g \in Frames : g # f => desc'[g] = desc[g] /\ notified'[g] = notified[g]
  BY <1>1, Types, AnswerTypes DEF RefInv
<1> HIDE DEF n
<1>10. AnswerInv' BY <1>1, <1>8, <1>9, AnswerByFrame
<1> QED BY <1>7, <1>10

LEMMA LibcameraAnswer ==
  ASSUME RefInv, NEW f \in Frames, Libcamera(f) \/ MetadataAvailable(f)
  PROVE  AnswerInv' /\ [Contract!Next]_(Contract!vars)
<1>t. desc[f] \in Descriptor BY Types DEF RefInv
<1>1. ASSUME NEW st \in {"Success", "Cancelled"}, RequestComplete(f, st)
      PROVE  AnswerInv' /\ [Contract!Next]_(Contract!vars)
  <2> DEFINE done == AllCompleted(desc[f])
             d == [desc[f] EXCEPT !.queued = FALSE, !.status = st, !.completed = done]
  <2>1. desc' = [desc EXCEPT ![f] = d] /\ UNCHANGED <<asked, returned, finals, notified>>
    BY <1>1 DEF RequestComplete, framework
  <2> HIDE DEF done
  <2>2. /\ d.life = desc[f].life /\ d.streams = desc[f].streams /\ d.src = desc[f].src
        /\ d.partial = desc[f].partial /\ d.bufStatus = desc[f].bufStatus
        /\ d.toProcess = desc[f].toProcess /\ d.fbs = desc[f].fbs
    BY <1>t DEF Descriptor
  <2> HIDE DEF d
  <2> QED BY <2>1, <2>2, AnswerKept
<1>2. CASE MetadataAvailable(f)
  <2> DEFINE d == [desc[f] EXCEPT !.nextIndex = @ + 1]
  <2>1. desc' = [desc EXCEPT ![f] = d] /\ UNCHANGED <<asked, returned, finals, notified>>
    BY <1>2 DEF MetadataAvailable
  <2>2. /\ d.life = desc[f].life /\ d.streams = desc[f].streams /\ d.src = desc[f].src
        /\ d.partial = desc[f].partial /\ d.bufStatus = desc[f].bufStatus
        /\ d.toProcess = desc[f].toProcess /\ d.fbs = desc[f].fbs
    BY <1>t DEF Descriptor
  <2> HIDE DEF d
  <2> QED BY <2>1, <2>2, AnswerKept
<1> QED BY <1>1, <1>2, BufferAnswer, ProcessingAnswer DEF Libcamera

(* The front of an ordered list is its least element. *)
LEMMA SortedHead ==
  ASSUME NEW T \in SUBSET Nat, NEW q \in Seq(T), q # <<>>, Sorted(q)
  PROVE  \A g \in ToSet(q) : Head(q) <= g
<1>1. /\ Head(q) = q[1] /\ DOMAIN q = 1..Len(q) /\ Len(q) \in Nat /\ Len(q) > 0
      /\ \A i \in 1..Len(q) : q[i] \in Nat
  <2>1. \A i \in 1..Len(q) : q[i] \in T BY ElementOfSeq
  <2>2. Len(q) \in Nat /\ Len(q) # 0 BY EmptySeq
  <2>3. \A i \in 1..Len(q) : q[i] \in Nat BY <2>1
  <2>4. Head(q) = q[1] /\ DOMAIN q = 1..Len(q) BY <2>2, HeadTailProperties
  <2>5. Len(q) > 0 BY <2>2
  <2> QED BY <2>2, <2>3, <2>4, <2>5
<1> SUFFICES ASSUME NEW i \in 1..Len(q) PROVE q[1] <= q[i]
  BY <1>1 DEF ToSet
<1>2. CASE i = 1 BY <1>1, <1>2
<1>3. CASE i > 1
  <2>1. q[1] < q[i] BY <1>1, <1>3 DEF Sorted
  <2> QED BY <1>1, <2>1
<1> QED BY <1>2, <1>3

(* The buffers of the result that is sent next are owed, and what is owed to
   earlier requests for the streams of the good ones is announced.           *)
LEMMA HeadIsInOrder ==
  ASSUME RefInv, cam.ready # <<>>
  PROVE  LET f == Head(cam.ready)[1]
             b == Head(cam.ready)[2]
         IN  /\ f \in Frames /\ b \in Streams /\ desc[f].life = "pending"
             /\ desc[f].partial[b] = "open" /\ ResultBuffers(f, b) # {}
             /\ \A s \in ResultBuffers(f, b) :
                  s \in Streams /\ s \in asked[f] /\ returned[f][s] = <<>>
             /\ \A s \in ResultBuffers(f, b) : s \notin notified[f] =>
                  \A g \in Frames : g < f /\ s \in asked[g] /\ returned[g][s] = <<>>
                                    => s \in notified[g]
<1> DEFINE r == Head(cam.ready)
           f == r[1]
           b == r[2]
<1>1. r = cam.ready[1] /\ 1 \in 1..Len(cam.ready) /\ r \in Collected
  <2>1. cam.ready \in Seq(Results) BY Types DEF RefInv
  <2>2. Len(cam.ready) \in Nat /\ Len(cam.ready) > 0 /\ r = cam.ready[1] BY <2>1, EmptySeq
  <2> QED BY <2>1, <2>2, TailElements DEF Collected
<1>2. f \in Frames /\ b \in Streams /\ r = <<f, b>> BY <1>1, Types DEF RefInv, Results
<1>3. /\ \A s \in ResultBuffers(f, b) :
           desc[f].bufStatus[s] # "Error" =>
             \A g \in Frames : g < f => Settled(g, s, 1)
  BY <1>1 DEF RefInv, OrderInv, ReadyInOrder
<1> HIDE DEF r, f, b
<1>4. desc[f].life = "pending" /\ desc[f].partial[b] = "open"
  BY <1>1, <1>2 DEF RefInv, OwnerInv, ResultInv, Alive
<1>5. AnswerOK(desc[f], asked[f], returned[f], notified[f], f \in ToSet(finals)) /\ desc[f] \in Descriptor
  BY <1>2, Types DEF RefInv, AnswerInv
<1>6. ResultBuffers(f, b) = {s \in desc[f].streams : desc[f].src[s] = b} BY DEF ResultBuffers
<1>7. ResultBuffers(f, b) # {} BY <1>2, <1>4, <1>5, <1>6 DEF AnswerOK
<1>8. desc[f].streams \subseteq Streams BY <1>5 DEF Descriptor
<1>9. ASSUME NEW s \in ResultBuffers(f, b)
      PROVE  /\ s \in Streams /\ s \in asked[f] /\ returned[f][s] = <<>>
             /\ s \in notified[f] <=> desc[f].bufStatus[s] = "Error"
  BY <1>4, <1>5, <1>6, <1>8 DEF AnswerOK
<1>10. ASSUME NEW s \in ResultBuffers(f, b), s \notin notified[f],
              NEW g \in Frames, g < f, s \in asked[g], returned[g][s] = <<>>
       PROVE  s \in notified[g]
  <2>1. Settled(g, s, 1) BY <1>3, <1>9, <1>10
  <2>2. AnswerOK(desc[g], asked[g], returned[g], notified[g], g \in ToSet(finals)) /\ desc[g] \in Descriptor
    BY Types DEF RefInv, AnswerInv
  <2>3. desc[g].life \in {"absent", "prepared", "pending", "freed"} BY <2>2 DEF Descriptor
  <2>4. desc[g].life = "pending" BY <1>10, <2>2, <2>3 DEF AnswerOK
  <2>5. s \in desc[g].streams /\ desc[g].partial[desc[g].src[s]] # "completed"
    BY <1>10, <2>2, <2>4 DEF AnswerOK
  <2>6. desc[g].bufStatus[s] = "Error" BY <2>1, <2>4, <2>5 DEF Settled, Alive
  <2> QED BY <2>2, <2>4, <2>5, <2>6 DEF AnswerOK
<1> QED BY <1>2, <1>4, <1>7, <1>9, <1>10 DEF r, f, b

(* The buffers of the first ready result come back. *)
LEMMA SendAnswer ==
  ASSUME RefInv, CompletePartialResult
  PROVE  AnswerInv' /\ [Contract!Next]_(Contract!vars)
<1> DEFINE r == Head(cam.ready)
           f == r[1]
           b == r[2]
           d == [desc[f] EXCEPT !.partial[b] = "completed",
                                !.nextIndex = IF b \in desc[f].meta THEN @ + 1 ELSE @]
           last == IsLast(d)
           e == [d EXCEPT !.completed = last]
           S == ResultBuffers(f, b)
           status(s) == IF d.bufStatus[s] = "Error" THEN "error" ELSE "ok"
           back == [s \in Streams |-> IF s \in S THEN Append(returned[f][s], status(s))
                                      ELSE returned[f][s]]
<1>1. /\ cam.pc = "sending" /\ desc' = [desc EXCEPT ![f] = e]
      /\ UNCHANGED <<asked, finals, notified>>
  BY ZenonT(30) DEF CompletePartialResult
<1>2. returned' = [returned EXCEPT ![f] = back] BY ZenonT(30) DEF CompletePartialResult
<1>3. cam.ready # <<>> BY <1>1 DEF RefInv, OwnerInv, FlushInv, TypeOK, ThreadTypeOK
<1>4. /\ f \in Frames /\ b \in Streams /\ desc[f].life = "pending"
      /\ desc[f].partial[b] = "open" /\ S # {}
      /\ \A s \in S : s \in Streams /\ s \in asked[f] /\ returned[f][s] = <<>>
      /\ \A s \in S : s \notin notified[f] =>
           \A g \in Frames : g < f /\ s \in asked[g] /\ returned[g][s] = <<>> => s \in notified[g]
  BY <1>3, HeadIsInOrder
<1> HIDE DEF r, f, b
<1>t. desc[f] \in Descriptor BY <1>4, Types DEF RefInv
<1>5. d.bufStatus = desc[f].bufStatus BY <1>4, <1>t DEF Descriptor
<1> HIDE DEF last
<1>6. /\ e.life = desc[f].life /\ e.streams = desc[f].streams /\ e.src = desc[f].src
      /\ e.toProcess = desc[f].toProcess /\ e.fbs = desc[f].fbs
      /\ e.bufStatus = desc[f].bufStatus
      /\ e.partial = [desc[f].partial EXCEPT ![b] = "completed"]
  BY <1>4, <1>t DEF Descriptor
<1> HIDE DEF d, e
<1>7. AnswerOK(desc[f], asked[f], returned[f], notified[f], f \in ToSet(finals))
  BY <1>4 DEF RefInv, AnswerInv
<1>8. S = {s \in desc[f].streams : desc[f].src[s] = b} BY DEF ResultBuffers
<1> HIDE DEF S
<1>9. back = [s \in Streams |-> IF s \notin S THEN returned[f][s]
                                ELSE IF s \in notified[f] THEN <<"error">> ELSE <<"ok">>]
  <2>1. Append(<<>>, "error") = <<"error">> /\ Append(<<>>, "ok") = <<"ok">> OBVIOUS
  <2>2. \A s \in S : s \in notified[f] <=> d.bufStatus[s] = "Error"
    BY <1>4, <1>5, <1>7, <1>8 DEF AnswerOK
  <2>3. ASSUME NEW s \in Streams
        PROVE  (IF s \in S THEN Append(returned[f][s], status(s)) ELSE returned[f][s])
               = (IF s \notin S THEN returned[f][s]
                  ELSE IF s \in notified[f] THEN <<"error">> ELSE <<"ok">>)
    <3>1. CASE s \notin S BY <3>1
    <3>2. CASE s \in S /\ s \in notified[f]
      <4>1. status(s) = "error" /\ returned[f][s] = <<>> BY <1>4, <2>2, <3>2
      <4> QED BY <2>1, <3>2, <4>1
    <3>3. CASE s \in S /\ s \notin notified[f]
      <4>1. status(s) = "ok" /\ returned[f][s] = <<>> BY <1>4, <2>2, <3>3
      <4> QED BY <2>1, <3>3, <4>1
    <3> QED BY <3>1, <3>2, <3>3
  <2> QED BY <2>3, Zenon
<1>10. /\ \A s \in S : back[s] # <<>>
       /\ \A s \in Streams : s \notin S => back[s] = returned[f][s]
  <2>1. <<"error">> # <<>> /\ <<"ok">> # <<>> OBVIOUS
  <2> QED BY <1>4, <1>9, <2>1
<1>11. Contract!Next
  <2>1. returned' = [returned EXCEPT ![f] =
          [s \in Streams |-> IF s \notin S THEN @[s]
                             ELSE IF s \in notified[f] THEN <<"error">> ELSE <<"ok">>]]
    BY <1>2, <1>9
  <2>2. returned \in [Frames -> [Streams -> Seq({"ok", "error"})]] BY AnswerTypes DEF RefInv
  <2>3. S \in SUBSET Streams BY <1>4
  <2>4. UNCHANGED <<asked, notified, finals>> BY <1>1
  <2>5. f \in Frames /\ S # {} /\ \A s \in S : s \in asked[f] /\ returned[f][s] = <<>> BY <1>4
  <2>6. \A s \in S : s \notin notified[f] =>
          \A g \in Frames : g < f /\ s \in asked[g] /\ returned[g][s] = <<>> => s \in notified[g]
    BY <1>4
  <2> HIDE DEF back
  <2> QED BY ZenonT(60), <2>1, <2>2, <2>3, <2>4, <2>5, <2>6, ContractReturns
<1> HIDE DEF back
<1>12. /\ desc'[f] = e /\ returned'[f] = back
       /\ \A g \in Frames : g # f => desc'[g] = desc[g] /\ returned'[g] = returned[g]
  BY <1>1, <1>2, <1>4, Types, AnswerTypes DEF RefInv
<1>13. AnswerOK(e, asked[f], back, notified[f], f \in ToSet(finals))
  <2>1. ASSUME NEW s \in desc[f].streams
        PROVE  /\ back[s] = <<>> <=> e.partial[e.src[s]] # "completed"
               /\ s \in notified[f] <=> e.bufStatus[s] = "Error"
               /\ s \in notified[f] => e.partial[e.src[s]] # "none"
    <3>1. /\ returned[f][s] = <<>> <=> desc[f].partial[desc[f].src[s]] # "completed"
          /\ s \in notified[f] <=> desc[f].bufStatus[s] = "Error"
          /\ s \in notified[f] => desc[f].partial[desc[f].src[s]] # "none"
      BY <1>4, <1>7 DEF AnswerOK
    <3>2. s \in Streams BY <1>t DEF Descriptor
    <3>3. desc[f].src[s] \in Streams BY <1>4 DEF RefInv, OwnerInv, FrameInv, Coherent
    <3>4. desc[f].partial \in [Streams -> {"none", "open", "completed"}] BY <1>t DEF Descriptor
    <3>5. CASE desc[f].src[s] = b
      <4>1. e.partial[e.src[s]] = "completed" BY <1>4, <1>6, <3>4, <3>5
      <4>2. back[s] # <<>> BY <1>8, <1>10, <3>5
      <4> QED BY <1>6, <3>1, <4>1, <4>2
    <3>6. CASE desc[f].src[s] # b
      <4>1. e.partial[e.src[s]] = desc[f].partial[desc[f].src[s]]
        BY <1>4, <1>6, <3>3, <3>4, <3>6
      <4>2. back[s] = returned[f][s] BY <1>8, <1>10, <3>2, <3>6
      <4> QED BY <1>6, <3>1, <4>1, <4>2
    <3> QED BY <3>5, <3>6
  <2>2. \A t \in e.toProcess : t \notin notified[f] BY <1>4, <1>6, <1>7 DEF AnswerOK
  <2>3. /\ asked[f] = desc[f].streams /\ asked[f] # {} /\ f \notin ToSet(finals)
        /\ "REQUEST" \notin notified[f]
    BY <1>4, <1>7 DEF AnswerOK
  <2>4. ASSUME NEW c \in Streams, c \in e.fbs \/ e.partial[c] # "none"
        PROVE  \E t \in e.streams : e.src[t] = c
    <3>1. desc[f].partial \in [Streams -> {"none", "open", "completed"}] BY <1>t DEF Descriptor
    <3>2. CASE c = b
      <4>1. desc[f].partial[c] # "none" BY <1>4, <3>2
      <4> QED BY <1>4, <1>6, <1>7, <4>1 DEF AnswerOK
    <3>3. CASE c # b
      <4>1. c \in desc[f].fbs \/ desc[f].partial[c] # "none" BY <1>4, <1>6, <2>4, <3>1, <3>3
      <4> QED BY <1>4, <1>6, <1>7, <4>1 DEF AnswerOK
    <3> QED BY <3>2, <3>3
  <2> QED BY <1>4, <1>6, <2>1, <2>2, <2>3, <2>4 DEF AnswerOK
<1>14. AnswerInv' BY <1>1, <1>4, <1>12, <1>13, AnswerByFrame
<1> QED BY <1>11, <1>14

(* The oldest request is answered. *)
LEMMA FinishAnswer ==
  ASSUME RefInv, FinishFront
  PROVE  AnswerInv' /\ [Contract!Next]_(Contract!vars)
<1> DEFINE f == Head(pendingRequests)
           d == Blank("freed")
           E == IF desc[f].status = "Cancelled" THEN {"RESULT"} ELSE {}
<1>1. /\ pendingRequests # <<>> /\ desc[f].completed
      /\ desc' = [desc EXCEPT ![f] = d] /\ finals' = Append(finals, f)
      /\ notified' = [notified EXCEPT ![f] = @ \cup E] /\ UNCHANGED <<asked, returned>>
  <2>1. (IF desc[f].status = "Cancelled" THEN notified[f] \cup {"RESULT"} ELSE notified[f])
          = notified[f] \cup E
    OBVIOUS
  <2>2. notified' = [notified EXCEPT ![f] =
          IF desc[f].status = "Cancelled" THEN notified[f] \cup {"RESULT"} ELSE notified[f]]
    BY DEF FinishFront
  <2> QED BY <2>1, <2>2 DEF FinishFront, FrontCompleted
<1>2. pendingRequests \in Seq(Frames) /\ Frames \in SUBSET Nat BY Types DEF RefInv
<1>3. f \in Frames /\ f \in ToSet(pendingRequests) BY <1>1, <1>2, TailElements
<1>4. \A g \in ToSet(pendingRequests) : f <= g BY <1>1, <1>2, SortedHead DEF RefInv, OrderInv
<1>5. E \in SUBSET {"RESULT"} OBVIOUS
<1>6. d.life = "freed" BY DEF Blank, NewDescriptor
<1> HIDE DEF f, d, E
<1>7. desc[f].life = "pending" BY <1>3 DEF RefInv, OwnerInv, ListInv, Alive
<1>8. AnswerOK(desc[f], asked[f], returned[f], notified[f], f \in ToSet(finals)) /\ desc[f] \in Descriptor
  BY <1>3, Types DEF RefInv, AnswerInv
<1>9. /\ asked[f] = desc[f].streams /\ asked[f] # {} /\ f \notin ToSet(finals)
      /\ "REQUEST" \notin notified[f]
  BY <1>7, <1>8 DEF AnswerOK
<1>10. \A s \in asked[f] : returned[f][s] # <<>>
  <2> SUFFICES ASSUME NEW s \in desc[f].streams PROVE returned[f][s] # <<>> BY <1>9
  <2>1. Coherent(desc[f]) BY <1>3 DEF RefInv, OwnerInv, FrameInv
  <2>2. desc[f].src[s] \in Streams /\ desc[f].partial[desc[f].src[s]] # "none"
    BY <1>1, <2>1 DEF Coherent
  <2>3. desc[f].partial[desc[f].src[s]] # "open" BY <1>1, <2>1, <2>2 DEF Coherent, AllCompleted
  <2>4. desc[f].partial \in [Streams -> {"none", "open", "completed"}] BY <1>8 DEF Descriptor
  <2>5. desc[f].partial[desc[f].src[s]] = "completed" BY <2>2, <2>3, <2>4
  <2> QED BY <1>7, <1>8, <2>5 DEF AnswerOK
<1>11. ASSUME NEW g \in Frames, g < f, asked[g] # {}, "REQUEST" \notin notified[g]
       PROVE  g \in ToSet(finals)
  <2>1. g \notin ToSet(pendingRequests) BY <1>2, <1>3, <1>4, <1>11
  <2>2. desc[g].life # "pending" BY <2>1 DEF RefInv, OwnerInv, ListInv, Alive
  <2>3. AnswerOK(desc[g], asked[g], returned[g], notified[g], g \in ToSet(finals)) /\ desc[g] \in Descriptor
    BY Types DEF RefInv, AnswerInv
  <2>4. desc[g].life \in {"absent", "prepared", "pending", "freed"} BY <2>3 DEF Descriptor
  <2> QED BY <1>11, <2>2, <2>3, <2>4 DEF AnswerOK
<1>12. Contract!Next
  BY <1>1, <1>3, <1>5, <1>9, <1>10, <1>11, AnswerTypes, ContractFinishes DEF RefInv
<1>13. desc'[f] = d /\ \A g \in Frames : g # f => desc'[g] = desc[g] /\ notified'[g] = notified[g]
  BY <1>1, <1>3, Types, AnswerTypes DEF RefInv
<1>14. f \in ToSet(finals')
  <2>1. finals \in Seq(Frames) BY AnswerTypes DEF RefInv
  <2> QED BY <1>1, <1>3, <2>1, AppendElements
<1>15. AnswerOK(d, asked[f], returned[f], notified'[f], f \in ToSet(finals'))
  BY <1>6, <1>10, <1>14 DEF AnswerOK
<1>16. AnswerInv' BY <1>1, <1>3, <1>13, <1>15, AnswerByFrame
<1> QED BY <1>12, <1>16

LEMMA CameraAnswer ==
  ASSUME RefInv, CameraThread
  PROVE  AnswerInv' /\ [Contract!Next]_(Contract!vars)
<1>1. CASE CollectReady \/ CollectDone \/ FinishDone \/ NotifyFlush
  BY <1>1, AnswerQuiet DEF CollectReady, CollectDone, FinishDone, NotifyFlush, device, framework
<1> QED BY <1>1, SendAnswer, FinishAnswer DEF CameraThread

-----------------------------------------------------------------------------
(* The lists stay in the order of the requests. *)

LEMMA SortedAppend ==
  ASSUME NEW T, NEW q \in Seq(T), NEW e \in T, Sorted(q), \A g \in ToSet(q) : g < e
  PROVE  Sorted(Append(q, e))
<1> DEFINE p == Append(q, e)
<1>1. /\ DOMAIN q = 1..Len(q) /\ DOMAIN p = 1..(Len(q) + 1) /\ Len(q) \in Nat
      /\ \A i \in 1..Len(q) : p[i] = q[i]
      /\ p[Len(q) + 1] = e
  BY AppendProperties
<1> HIDE DEF p
<1>2. \A i \in 1..Len(q) : q[i] < e BY <1>1 DEF ToSet
<1> SUFFICES ASSUME NEW i \in 1..(Len(q) + 1), NEW j \in 1..(Len(q) + 1), i < j PROVE p[i] < p[j]
  BY <1>1 DEF Sorted, p
<1>3. i \in 1..Len(q) BY <1>1
<1>4. CASE j \in 1..Len(q) BY <1>1, <1>3, <1>4 DEF Sorted
<1>5. CASE j = Len(q) + 1 BY <1>1, <1>2, <1>3, <1>5
<1> QED BY <1>1, <1>4, <1>5

LEMMA SortedTail ==
  ASSUME NEW T, NEW q \in Seq(T), q # <<>>, Sorted(q)
  PROVE  Sorted(Tail(q))
<1> DEFINE t == Tail(q)
<1>1. /\ Len(t) = Len(q) - 1 /\ Len(q) \in Nat /\ DOMAIN q = 1..Len(q) /\ DOMAIN t = 1..Len(t)
      /\ \A i \in 1..Len(t) : t[i] = q[i + 1]
  <2>1. Len(q) \in Nat /\ Len(q) # 0 BY EmptySeq
  <2> QED BY <2>1, HeadTailProperties
<1> HIDE DEF t
<1> SUFFICES ASSUME NEW i \in 1..Len(t), NEW j \in 1..Len(t), i < j PROVE t[i] < t[j]
  BY <1>1 DEF Sorted, t
<1>2. i + 1 \in 1..Len(q) /\ j + 1 \in 1..Len(q) /\ i + 1 < j + 1 BY <1>1
<1>3. q[i + 1] < q[j + 1] BY <1>1, <1>2 DEF Sorted
<1> QED BY <1>1, <1>3

LEMMA SortedRemoveAt ==
  ASSUME NEW T, NEW q \in Seq(T), NEW m \in 1..Len(q), Sorted(q)
  PROVE  Sorted(RemoveAt(q, m))
<1> DEFINE p == RemoveAt(q, m)
<1>1. /\ Len(p) = Len(q) - 1 /\ Len(q) \in Nat /\ DOMAIN p = 1..Len(p) /\ DOMAIN q = 1..Len(q)
      /\ \A j \in 1..Len(p) : p[j] = IF j < m THEN q[j] ELSE q[j + 1]
  BY RemoveAtIndex
<1> HIDE DEF p
<1> SUFFICES ASSUME NEW i \in 1..Len(p), NEW j \in 1..Len(p), i < j PROVE p[i] < p[j]
  BY <1>1 DEF Sorted, p
<1> DEFINE at(k) == IF k < m THEN k ELSE k + 1
<1>2. /\ at(i) \in 1..Len(q) /\ at(j) \in 1..Len(q) /\ at(i) < at(j)
      /\ p[i] = q[at(i)] /\ p[j] = q[at(j)]
  BY <1>1
<1> HIDE DEF at
<1> QED BY <1>1, <1>2 DEF Sorted

LEMMA SortedRemoveFirst ==
  ASSUME NEW T, NEW q \in Seq(T), NEW e, Sorted(q)
  PROVE  Sorted(RemoveFirst(q, e))
<1>1. CASE ~\E i \in 1..Len(q) : q[i] = e BY <1>1 DEF RemoveFirst
<1>2. CASE \E i \in 1..Len(q) : q[i] = e
  <2> DEFINE m == SelectInSeq(q, LAMBDA v : v = e)
  <2>1. m \in 1..Len(q)
    <3> DEFINE I == {i \in 1..Len(q) : q[i] = e}
    <3>1. I \in SUBSET Nat /\ I # {} BY <1>2
    <3>2. m = Min(I) BY <1>2 DEF SelectInSeq
    <3> HIDE DEF I, m
    <3>3. Min(I) \in I BY <3>1, MinInSet
    <3> QED BY <3>2, <3>3 DEF I
  <2>2. RemoveFirst(q, e) = RemoveAt(q, m) BY <1>2 DEF RemoveFirst
  <2> HIDE DEF m
  <2> QED BY <2>1, <2>2, SortedRemoveAt
<1> QED BY <1>1, <1>2

LEMMA SubmittedIsLater ==
  ASSUME RefInv, cap.pc \in {"prepared", "pushing"}, NEW g \in Frames, Alive(g)
  PROVE  g < cap.frame
<1>1. cap.frame \in Frames /\ desc[cap.frame].life = "prepared" /\ nextFrame = cap.frame + 1
  BY Types DEF RefInv, OwnerInv, FrameInv, OrderInv
<1>2. g # cap.frame BY <1>1 DEF Alive
<1>3. ~(g >= nextFrame) BY DEF Alive, RefInv, OwnerInv, FrameInv
<1>4. g \in Nat /\ cap.frame \in Nat BY <1>1, Types DEF RefInv
<1> QED BY <1>1, <1>2, <1>3, <1>4

ListsInOrder == Sorted(pendingRequests) /\ \A s \in Streams : Sorted(pendingStreamBuffers[s])
NextIsSubmitted == cap.pc # "idle" => nextFrame = cap.frame + 1

LEMMA ListsOrder ==
  ASSUME RefInv, Next
  PROVE  ListsInOrder'
<1> USE DEF device, lists, framework
<1>t. /\ pendingRequests \in Seq(Frames) /\ \A s \in Streams : pendingStreamBuffers[s] \in Seq(Frames)
      /\ Sorted(pendingRequests) /\ \A s \in Streams : Sorted(pendingStreamBuffers[s])
  BY Types DEF RefInv, OrderInv
<1>u. ASSUME UNCHANGED lists PROVE ListsInOrder' BY <1>t, <1>u DEF ListsInOrder
<1>1. CASE Framework
  BY <1>1, <1>u DEF Framework, Open, CallControl, RejectRequest, PrepareRequest
<1>2. CASE ControlThread
  <2>1. CASE ConfigureStreams
    <3>1. Sorted(<<>>) BY DEF Sorted
    <3>2. /\ UNCHANGED pendingRequests /\ pendingStreamBuffers' = [s \in Streams |-> <<>>]
      BY <2>1 DEF ConfigureStreams
    <3> QED BY <1>t, <3>1, <3>2 DEF ListsInOrder
  <2> QED BY <1>2, <1>u, <2>1 DEF ControlThread, FlushBegin, FlushCheck, FlushStop, FlushEnd,
       FlushReturn, CloseReturn
<1>3. CASE CaptureThread
  <2>1. CASE PushRequest
    <3> DEFINE f == cap.frame
    <3>1. /\ cap.pc = "pushing" /\ pendingRequests' = Append(pendingRequests, f)
          /\ pendingStreamBuffers' =
               [s \in Streams |-> IF s \in desc[f].streams THEN Append(pendingStreamBuffers[s], f)
                                  ELSE pendingStreamBuffers[s]]
      BY <2>1 DEF PushRequest
    <3>2. f \in Frames /\ \A g \in Frames : Alive(g) => g < f
      BY <3>1, SubmittedIsLater, Types DEF RefInv
    <3> HIDE DEF f
    <3>3. \A g \in ToSet(pendingRequests) : g < f
      BY <3>2, Types DEF RefInv, OwnerInv, ListInv
    <3>4. \A s \in Streams : \A g \in ToSet(pendingStreamBuffers[s]) : g < f
      BY <3>2, Types DEF RefInv, OwnerInv, ListInv, Waits
    <3>5. Sorted(pendingRequests') BY <1>t, <3>1, <3>2, <3>3, SortedAppend
    <3>6. ASSUME NEW s \in Streams PROVE Sorted(pendingStreamBuffers'[s])
      <4>1. Sorted(Append(pendingStreamBuffers[s], f)) BY <1>t, <3>2, <3>4, SortedAppend
      <4> QED BY <1>t, <3>1, <4>1
    <3> QED BY <3>5, <3>6 DEF ListsInOrder
  <2> QED BY <1>3, <1>u, <2>1 DEF CaptureThread, AbortRequest, EnsureStarted, StartFails, QueueRequest
<1>4. CASE CameraThread
  <2>1. CASE CollectReady
    <3>1. /\ UNCHANGED pendingRequests
          /\ \A s \in Streams : pendingStreamBuffers'[s] = pendingStreamBuffers[s]
                \/ /\ pendingStreamBuffers[s] # <<>>
                   /\ pendingStreamBuffers'[s] = Tail(pendingStreamBuffers[s])
      <4> DEFINE i == NextReady
                 r == pendingPartialResults[i]
                 taken(s) == s \in ResultBuffers(r[1], r[2]) /\ desc[r[1]].bufStatus[s] # "Error"
      <4>1. /\ UNCHANGED pendingRequests
            /\ pendingStreamBuffers' =
                 [s \in Streams |-> IF taken(s) THEN Tail(pendingStreamBuffers[s])
                                    ELSE pendingStreamBuffers[s]]
        BY <2>1 DEF CollectReady
      <4>2. NextReady \in ReadyAt
        BY <2>1, NextReadyType DEF CollectReady, RefInv, OwnerInv, FlushInv
      <4>3. \A s \in Streams : taken(s) => pendingStreamBuffers[s] # <<>>
        BY <4>2 DEF ReadyAt, Ready
      <4> HIDE DEF taken
      <4> QED BY <4>1, <4>3
    <3>2. ASSUME NEW s \in Streams PROVE Sorted(pendingStreamBuffers'[s])
      <4>1. CASE pendingStreamBuffers'[s] = pendingStreamBuffers[s] BY <1>t, <4>1
      <4>2. CASE /\ pendingStreamBuffers[s] # <<>>
                 /\ pendingStreamBuffers'[s] = Tail(pendingStreamBuffers[s])
        BY <1>t, <4>2, SortedTail
      <4> QED BY <3>1, <4>1, <4>2
    <3> QED BY <1>t, <3>1, <3>2 DEF ListsInOrder
  <2>2. CASE FinishFront
    <3>1. /\ pendingRequests # <<>> /\ pendingRequests' = Tail(pendingRequests)
          /\ UNCHANGED pendingStreamBuffers
      BY <2>2 DEF FinishFront, FrontCompleted
    <3>2. Sorted(pendingRequests') BY <1>t, <3>1, SortedTail
    <3> QED BY <1>t, <3>1, <3>2 DEF ListsInOrder
  <2>3. CASE CompletePartialResult
    <3>1. UNCHANGED lists BY <2>3, ZenonT(30) DEF CompletePartialResult
    <3> QED BY <1>u, <3>1
  <2> QED BY <1>4, <1>u, <2>1, <2>2, <2>3 DEF CameraThread, CollectDone, FinishDone, NotifyFlush
<1>5. ASSUME NEW f \in Frames, Libcamera(f) \/ MetadataAvailable(f) PROVE ListsInOrder'
  <2>1. ASSUME NEW b \in Streams, NEW d, EnterCheck(f, b, d), UNCHANGED pendingRequests
        PROVE  ListsInOrder'
    <3>1. \A s \in Streams : pendingStreamBuffers'[s] = pendingStreamBuffers[s]
            \/ pendingStreamBuffers'[s] = RemoveFirst(pendingStreamBuffers[s], f)
      BY <2>1 DEF EnterCheck
    <3>2. ASSUME NEW s \in Streams PROVE Sorted(pendingStreamBuffers'[s])
      <4>1. Sorted(RemoveFirst(pendingStreamBuffers[s], f)) BY <1>t, SortedRemoveFirst
      <4> QED BY <1>t, <3>1, <4>1
    <3> QED BY <1>t, <2>1, <3>2 DEF ListsInOrder
  <2>2. ASSUME NEW b \in Streams, NEW ok \in BOOLEAN, NEW failed \in SUBSET Streams,
               BufferComplete(f, b, ok, failed)
        PROVE  ListsInOrder'
    <3>1. UNCHANGED pendingRequests /\ (UNCHANGED lists \/ \E d : EnterCheck(f, b, d))
      BY <2>2, Zenon DEF BufferComplete
    <3> QED BY <1>u, <2>1, <3>1
  <2>3. ASSUME NEW s \in Streams, NEW ok \in BOOLEAN, StreamProcessingComplete(f, s, ok)
        PROVE  ListsInOrder'
    <3>1. /\ UNCHANGED pendingRequests
          /\ UNCHANGED lists \/ \E d : EnterCheck(f, desc[f].src[s], d)
      BY <2>3, Zenon DEF StreamProcessingComplete
    <3>2. desc[f].src[s] \in Streams
      BY <2>3 DEF StreamProcessingComplete, RefInv, OwnerInv, FrameInv, Coherent
    <3> QED BY <1>u, <2>1, <3>1, <3>2
  <2> QED BY <1>5, <1>u, <2>2, <2>3 DEF Libcamera, RequestComplete, MetadataAvailable
<1> QED BY <1>1, <1>2, <1>3, <1>4, <1>5 DEF Next

LEMMA NextOrder ==
  ASSUME RefInv, Next
  PROVE  NextIsSubmitted'
<1> USE DEF device, lists, framework
<1>t. /\ cap \in [pc : {"idle", "prepared", "pushing", "queueing"}, frame : 0..MaxRequests]
      /\ NextIsSubmitted
  BY DEF RefInv, OrderInv, OwnerInv, FlushInv, TypeOK, ThreadTypeOK, NextIsSubmitted
<1>u. ASSUME UNCHANGED <<cap, nextFrame>> PROVE NextIsSubmitted' BY <1>t, <1>u DEF NextIsSubmitted
<1>1. CASE Framework
  <2>1. CASE RejectRequest BY <2>1 DEF RejectRequest, MayCapture, NextIsSubmitted
  <2>2. ASSUME NEW S \in SUBSET Streams, NEW lost \in SUBSET Direct, PrepareRequest(S, lost)
        PROVE  NextIsSubmitted'
    BY <2>2 DEF PrepareRequest, NextIsSubmitted
  <2> QED BY <1>1, <1>u, <2>1, <2>2 DEF Framework, Open, CallControl
<1>2. CASE ControlThread
  BY <1>2, <1>u DEF ControlThread, FlushBegin, FlushCheck, FlushStop, FlushEnd,
       FlushReturn, CloseReturn, ConfigureStreams
<1>3. CASE CaptureThread
  BY <1>3, <1>t DEF CaptureThread, AbortRequest, EnsureStarted, StartFails, PushRequest,
       QueueRequest, NextIsSubmitted
<1>4. CASE CameraThread
  <2>1. CASE CompletePartialResult
    <3>1. UNCHANGED <<cap, nextFrame>> BY <2>1, ZenonT(30) DEF CompletePartialResult
    <3> QED BY <1>u, <3>1
  <2> QED BY <1>4, <1>u, <2>1 DEF CameraThread, CollectReady, CollectDone, FinishFront,
         FinishDone, NotifyFlush
<1>5. ASSUME NEW f \in Frames, Libcamera(f) \/ MetadataAvailable(f) PROVE NextIsSubmitted'
  <2>1. UNCHANGED <<cap, nextFrame>>
    BY <1>5, ZenonT(30) DEF Libcamera, BufferComplete, StreamProcessingComplete, RequestComplete,
       MetadataAvailable
  <2> QED BY <1>u, <2>1
<1> QED BY <1>1, <1>2, <1>3, <1>4, <1>5 DEF Next

-----------------------------------------------------------------------------
(* The ready results stay in the order of the requests. *)

LEMMA ReadyQuiet ==
  ASSUME RefInv, UNCHANGED desc, cam'.ready = cam.ready
  PROVE  ReadyInOrder'
<1>1. ReadyInOrder BY DEF RefInv, OrderInv
<1>2. \A f, b : ResultBuffers(f, b)' = ResultBuffers(f, b) BY DEF ResultBuffers
<1>3. \A g, s, j : Settled(g, s, j)' <=> Settled(g, s, j) BY DEF Settled, Alive
<1> QED BY <1>1, <1>2, <1>3 DEF ReadyInOrder

(* What a step may do to one descriptor while the ready results stay. *)
LEMMA ReadyByDescriptor ==
  ASSUME RefInv, OwnerInv', NEW f \in Frames, NEW d, desc' = [desc EXCEPT ![f] = d],
         cam'.ready = cam.ready,
         Alive(f) /\ d.life = "pending" =>
           /\ d.streams = desc[f].streams /\ d.src = desc[f].src
           /\ \A s \in d.streams :
                /\ desc[f].partial[d.src[s]] = "completed" => d.partial[d.src[s]] = "completed"
                /\ desc[f].bufStatus[s] = "Error" => d.bufStatus[s] = "Error"
                /\ <<f, d.src[s]>> \in Collected => d.bufStatus[s] = desc[f].bufStatus[s],
         ~Alive(f) /\ d.life = "pending" => \A h \in Frames : Alive(h) => ~(f < h)
  PROVE  ReadyInOrder'
<1>1. desc'[f] = d /\ \A g \in Frames : g # f => desc'[g] = desc[g] BY Types DEF RefInv
<1> SUFFICES ASSUME NEW j \in 1..Len(cam.ready), NEW x \in Frames, NEW y \in Streams,
                    cam.ready[j] = <<x, y>>,
                    NEW s \in desc'[x].streams, desc'[x].src[s] = y, desc'[x].bufStatus[s] # "Error",
                    NEW g \in Frames, g < x
             PROVE  Settled(g, s, j)'
  <2>1. \A j \in 1..Len(cam.ready) : \E x \in Frames, y \in Streams : cam.ready[j] = <<x, y>>
    <3>1. cam.ready \in Seq(Frames \X Streams) BY Types DEF RefInv, Results
    <3> QED BY <3>1
  <2> QED BY <2>1 DEF ReadyInOrder, ResultBuffers
<1>2. <<x, y>> \in Collected
  <2>1. cam.ready \in Seq(Results) BY Types DEF RefInv
  <2> QED BY <2>1 DEF Collected, ToSet
<1>4. Alive(x) /\ Alive(x)'
  <2>1. Alive(x) BY <1>2 DEF RefInv, OwnerInv, ResultInv
  <2>2. <<x, y>> \in Collected' BY <1>2 DEF Collected
  <2>3. ResultInv' BY DEF OwnerInv
  <2>4. Alive(x)' BY <2>2, <2>3 DEF ResultInv
  <2> QED BY <2>1, <2>4
<1>5. /\ desc'[x].streams = desc[x].streams /\ desc'[x].src = desc[x].src
      /\ s \in desc[x].streams /\ desc[x].src[s] = y
  <2>2. CASE x = f BY <1>1, <1>4, <2>2 DEF Alive
  <2>3. CASE x # f BY <1>1, <2>3
  <2> QED BY <2>2, <2>3
<1>6. s \in ResultBuffers(x, y) BY <1>5 DEF ResultBuffers
<1>7. desc[x].bufStatus[s] # "Error"
  <2>1. CASE x = f
    <3>1. Alive(f) /\ d.life = "pending" /\ s \in d.streams /\ d.src[s] = y
      BY <1>1, <1>4, <1>5, <2>1 DEF Alive
    <3>2. d.bufStatus[s] = desc[f].bufStatus[s] BY <1>2, <2>1, <3>1
    <3> QED BY <1>1, <2>1, <3>2
  <2>2. CASE x # f BY <1>1, <2>2
  <2> QED BY <2>1, <2>2
<1>8. Settled(g, s, j)
  <2>1. ReadyInOrder BY DEF RefInv, OrderInv
  <2>2. cam.ready[j][1] = x /\ cam.ready[j][2] = y OBVIOUS
  <2> QED BY <1>6, <1>7, <2>1, <2>2 DEF ReadyInOrder
<1>9. CASE g # f BY <1>1, <1>8, <1>9 DEF Settled, Alive
<1>10. CASE g = f
  <2> SUFFICES ASSUME d.life = "pending", s \in d.streams PROVE Settled(g, s, j)'
    BY <1>1, <1>10 DEF Settled, Alive
  <2>1. Alive(f) BY <1>4, <1>10
  <2>2. /\ d.streams = desc[f].streams /\ d.src = desc[f].src
        /\ desc[f].partial[d.src[s]] = "completed" => d.partial[d.src[s]] = "completed"
        /\ desc[f].bufStatus[s] = "Error" => d.bufStatus[s] = "Error"
    BY <2>1
  <2>3. \/ desc[f].partial[d.src[s]] = "completed" \/ desc[f].bufStatus[s] = "Error"
        \/ \E i \in 1..(j - 1) : cam.ready[i] = <<f, d.src[s]>>
    BY <1>8, <1>10, <2>1, <2>2 DEF Settled
  <2> QED BY <1>1, <1>10, <2>2, <2>3 DEF Settled
<1> QED BY <1>9, <1>10

(* A descriptor whose images and their states do not change. *)
LEMMA ReadyKept ==
  ASSUME RefInv, OwnerInv', NEW f \in Frames, NEW d, desc' = [desc EXCEPT ![f] = d],
         cam'.ready = cam.ready, d.life = desc[f].life, d.streams = desc[f].streams,
         d.src = desc[f].src, d.partial = desc[f].partial, d.bufStatus = desc[f].bufStatus
  PROVE  ReadyInOrder'
<1>1. d.life = "pending" => Alive(f) BY DEF Alive
<1> QED BY <1>1, ReadyByDescriptor

(* A new request is later than any that has a result. *)
LEMMA SubmitReady ==
  ASSUME RefInv, OwnerInv', Framework \/ ControlThread \/ CaptureThread
  PROVE  ReadyInOrder'
<1> USE DEF device, lists, framework
<1>1. ASSUME NEW S \in SUBSET Streams, NEW lost \in SUBSET Direct, PrepareRequest(S, lost)
      PROVE  ReadyInOrder'
  <2> DEFINE d == NewDescriptor("prepared", S, SourceBuffers(S, lost))
  <2>1. desc' = [desc EXCEPT ![nextFrame] = d] /\ nextFrame \in Frames /\ UNCHANGED cam
    BY <1>1 DEF PrepareRequest, MayCapture
  <2>2. d.life = "prepared" BY DEF NewDescriptor
  <2> HIDE DEF d
  <2> QED BY <2>1, <2>2, ReadyByDescriptor
<1>2. CASE Open \/ RejectRequest \/ (\E op \in ControlOps : CallControl(op)) \/ ControlThread
           \/ EnsureStarted
  BY <1>2, ReadyQuiet DEF Open, RejectRequest, CallControl, ControlThread, FlushBegin, FlushCheck,
     FlushStop, FlushEnd, FlushReturn, CloseReturn, ConfigureStreams, EnsureStarted
<1>3. CASE AbortRequest \/ StartFails
  <2> DEFINE d == Blank("freed")
  <2>1. desc' = [desc EXCEPT ![cap.frame] = d] /\ cap.pc = "prepared" /\ UNCHANGED cam
    BY <1>3 DEF AbortRequest, StartFails
  <2>2. d.life = "freed" /\ cap.frame \in Frames BY <2>1, Types DEF RefInv, Blank, NewDescriptor
  <2> HIDE DEF d
  <2> QED BY <2>1, <2>2, ReadyByDescriptor
<1>4. CASE PushRequest
  <2> DEFINE f == cap.frame
             d == [desc[f] EXCEPT !.life = "pending"]
  <2>1. desc' = [desc EXCEPT ![f] = d] /\ cap.pc = "pushing" /\ UNCHANGED cam
    BY <1>4 DEF PushRequest
  <2>2. f \in Frames /\ desc[f].life = "prepared" BY <2>1, Types DEF RefInv, OwnerInv, FrameInv
  <2>3. \A h \in Frames : Alive(h) => h < f BY <2>1, SubmittedIsLater
  <2>4. Frames \subseteq Nat BY Types DEF RefInv
  <2> HIDE DEF f, d
  <2>5. ~Alive(f) /\ \A h \in Frames : Alive(h) => ~(f < h)
    BY <2>2, <2>3, <2>4 DEF Alive
  <2> QED BY <2>1, <2>2, <2>5, ReadyByDescriptor
<1>5. CASE QueueRequest
  <2> DEFINE f == cap.frame
             d == [desc[f] EXCEPT !.queued = desc[f].fbs # {}]
  <2>1. desc' = [desc EXCEPT ![f] = d] /\ cap.pc = "queueing" /\ UNCHANGED cam
    BY <1>5 DEF QueueRequest
  <2>2. f \in Frames BY <2>1, Types DEF RefInv
  <2>3. /\ d.life = desc[f].life /\ d.streams = desc[f].streams /\ d.src = desc[f].src
        /\ d.partial = desc[f].partial /\ d.bufStatus = desc[f].bufStatus
    BY <2>2, Types DEF Descriptor, RefInv
  <2> HIDE DEF f, d
  <2> QED BY <2>1, <2>2, <2>3, ReadyKept
<1> QED BY <1>1, <1>2, <1>3, <1>4, <1>5 DEF Framework, CaptureThread

(* A result that enters is not yet ready. *)
LEMMA EnterCheckKeepsReady ==
  ASSUME RefInv, NEW f, NEW b, NEW d, EnterCheck(f, b, d) \/ UNCHANGED cam
  PROVE  cam'.ready = cam.ready
<1>1. cam \in [pc : {"idle", "collecting", "sending", "finishing", "notifying"},
               iter : Nat, ready : Seq(Results)]
  BY DEF RefInv, OwnerInv, FlushInv, TypeOK, ThreadTypeOK
<1> QED BY <1>1 DEF EnterCheck

(* An image that completes, or is processed, is in no ready result. *)
LEMMA BufferReady ==
  ASSUME RefInv, OwnerInv', NEW f \in Frames, NEW b \in Streams, NEW ok \in BOOLEAN,
         NEW failed \in SUBSET Streams, BufferComplete(f, b, ok, failed)
  PROVE  ReadyInOrder'
<1> DEFINE mine   == ResultBuffers(f, b)
           todo   == IF ok THEN mine \ Direct ELSE {}
           errors == IF ok THEN failed ELSE mine
           d      == [desc[f] EXCEPT
                        !.fbs = @ \ {b},
                        !.partial[b] = "open",
                        !.toProcess = @ \cup (todo \ failed),
                        !.meta = IF todo \cap Jpeg # {} THEN @ \cup {b} ELSE @,
                        !.bufStatus = [s \in Streams |-> IF s \in errors THEN "Error" ELSE @[s]]]
<1>1. /\ desc' = [desc EXCEPT ![f] = d] /\ desc[f].queued /\ b \in desc[f].fbs /\ failed \subseteq todo
      /\ EnterCheck(f, b, d) \/ UNCHANGED cam
  BY DEF BufferComplete
<1>2. errors \subseteq mine BY <1>1
<1>3. mine = {s \in desc[f].streams : desc[f].src[s] = b} BY DEF ResultBuffers
<1> HIDE DEF mine, todo, errors
<1>t. desc[f] \in Descriptor BY Types DEF RefInv
<1>4. /\ d.life = desc[f].life /\ d.streams = desc[f].streams /\ d.src = desc[f].src
      /\ d.partial = [desc[f].partial EXCEPT ![b] = "open"]
      /\ d.bufStatus = [s \in Streams |-> IF s \in errors THEN "Error" ELSE desc[f].bufStatus[s]]
  BY <1>t DEF Descriptor
<1>5. desc[f].partial \in [Streams -> {"none", "open", "completed"}] /\ desc[f].streams \subseteq Streams
  BY <1>t DEF Descriptor
<1>6. \A c \in Streams : c # b => d.partial[c] = desc[f].partial[c] BY <1>4, <1>5
<1>7. cam'.ready = cam.ready BY <1>1, EnterCheckKeepsReady
<1> HIDE DEF d
<1>8. Coherent(desc[f]) BY DEF RefInv, OwnerInv, FrameInv
<1>9. Alive(f) /\ desc[f].partial[b] = "none"
  <2>1. f \in ToSet(pendingRequests) BY <1>1 DEF RefInv, OwnerInv, FlushInv, QueueInv
  <2>2. Alive(f) BY <2>1 DEF RefInv, OwnerInv, ListInv
  <2> QED BY <1>1, <1>8, <2>2 DEF Coherent
<1>10. <<f, b>> \notin Collected BY <1>9 DEF RefInv, OwnerInv, ResultInv
<1>11. ASSUME NEW s \in d.streams
       PROVE  /\ desc[f].partial[d.src[s]] = "completed" => d.partial[d.src[s]] = "completed"
              /\ desc[f].bufStatus[s] = "Error" => d.bufStatus[s] = "Error"
              /\ <<f, d.src[s]>> \in Collected => d.bufStatus[s] = desc[f].bufStatus[s]
  <2>1. s \in Streams /\ d.src[s] \in Streams BY <1>4, <1>5, <1>8 DEF Coherent
  <2>2. d.bufStatus[s] = IF s \in errors THEN "Error" ELSE desc[f].bufStatus[s] BY <1>4, <2>1
  <2>3. CASE d.src[s] = b BY <1>9, <1>10, <2>2, <2>3
  <2>4. CASE d.src[s] # b
    <3>1. s \notin errors BY <1>2, <1>3, <1>4, <2>4
    <3> QED BY <1>6, <2>1, <2>2, <2>4, <3>1
  <2> QED BY <2>3, <2>4
<1> QED BY <1>1, <1>4, <1>7, <1>9, <1>11, ReadyByDescriptor

LEMMA ProcessingReady ==
  ASSUME RefInv, OwnerInv', NEW f \in Frames, NEW s \in Streams, NEW ok \in BOOLEAN,
         StreamProcessingComplete(f, s, ok)
  PROVE  ReadyInOrder'
<1> DEFINE st == IF ok THEN "Success" ELSE "Error"
           d == [desc[f] EXCEPT !.toProcess = @ \ {s}, !.bufStatus[s] = st]
<1>1. /\ desc' = [desc EXCEPT ![f] = d] /\ s \in desc[f].toProcess
      /\ (\E b : EnterCheck(f, b, d)) \/ UNCHANGED cam
  BY DEF StreamProcessingComplete
<1> HIDE DEF st
<1>t. desc[f] \in Descriptor BY Types DEF RefInv
<1>2. /\ d.life = desc[f].life /\ d.streams = desc[f].streams /\ d.src = desc[f].src
      /\ d.partial = desc[f].partial
      /\ \A t \in Streams : t # s => d.bufStatus[t] = desc[f].bufStatus[t]
  BY <1>t DEF Descriptor
<1>3. cam'.ready = cam.ready BY <1>1, EnterCheckKeepsReady
<1> HIDE DEF d
<1>4. /\ desc[f].life = "pending" /\ s \in desc[f].streams /\ desc[f].src[s] \in Streams
  BY <1>1 DEF RefInv, OwnerInv, FrameInv, Coherent
<1>5. desc[f].bufStatus[s] # "Error"
  <2>1. AnswerOK(desc[f], asked[f], returned[f], notified[f], f \in ToSet(finals))
    BY DEF RefInv, AnswerInv
  <2> QED BY <1>1, <1>4, <2>1 DEF AnswerOK
<1>6. <<f, desc[f].src[s]>> \notin Collected BY <1>1, <1>4 DEF RefInv, OwnerInv, ResultInv
<1>7. ASSUME NEW t \in d.streams
      PROVE  /\ desc[f].bufStatus[t] = "Error" => d.bufStatus[t] = "Error"
             /\ <<f, d.src[t]>> \in Collected => d.bufStatus[t] = desc[f].bufStatus[t]
  <2>1. t \in Streams BY <1>2, <1>t DEF Descriptor
  <2>2. CASE t = s BY <1>2, <1>5, <1>6, <2>2
  <2>3. CASE t # s BY <1>2, <2>1, <2>3
  <2> QED BY <2>2, <2>3
<1>8. Alive(f) BY <1>4 DEF Alive
<1> QED BY <1>1, <1>2, <1>3, <1>7, <1>8, ReadyByDescriptor

LEMMA LibcameraReady ==
  ASSUME RefInv, OwnerInv', NEW f \in Frames, Libcamera(f) \/ MetadataAvailable(f)
  PROVE  ReadyInOrder'
<1>t. desc[f] \in Descriptor BY Types DEF RefInv
<1>1. ASSUME NEW st \in {"Success", "Cancelled"}, RequestComplete(f, st)
      PROVE  ReadyInOrder'
  <2> DEFINE done == AllCompleted(desc[f])
             d == [desc[f] EXCEPT !.queued = FALSE, !.status = st, !.completed = done]
             pc == IF done THEN "finishing" ELSE "idle"
  <2>1. desc' = [desc EXCEPT ![f] = d] /\ cam' = [cam EXCEPT !.pc = pc]
    BY <1>1 DEF RequestComplete
  <2> HIDE DEF done, pc
  <2>2. /\ d.life = desc[f].life /\ d.streams = desc[f].streams /\ d.src = desc[f].src
        /\ d.partial = desc[f].partial /\ d.bufStatus = desc[f].bufStatus
    BY <1>t DEF Descriptor
  <2> HIDE DEF d
  <2>3. cam'.ready = cam.ready BY <2>1 DEF RefInv, OwnerInv, FlushInv, TypeOK, ThreadTypeOK
  <2> QED BY <2>1, <2>2, <2>3, ReadyKept
<1>2. CASE MetadataAvailable(f)
  <2> DEFINE d == [desc[f] EXCEPT !.nextIndex = @ + 1]
  <2>1. desc' = [desc EXCEPT ![f] = d] /\ UNCHANGED cam BY <1>2 DEF MetadataAvailable
  <2>2. /\ d.life = desc[f].life /\ d.streams = desc[f].streams /\ d.src = desc[f].src
        /\ d.partial = desc[f].partial /\ d.bufStatus = desc[f].bufStatus
    BY <1>t DEF Descriptor
  <2> HIDE DEF d
  <2> QED BY <2>1, <2>2, ReadyKept
<1> QED BY <1>1, <1>2, BufferReady, ProcessingReady DEF Libcamera

(* A result is collected when its good buffers are the first of their lists:
   what earlier requests have in those streams is settled.                   *)
LEMMA CollectReadyInOrder ==
  ASSUME RefInv, CollectReady
  PROVE  ReadyInOrder'
<1> DEFINE q == cam.ready
<1>1. PICK f \in Frames, b \in Streams :
        /\ UNCHANGED desc /\ cam'.ready = Append(cam.ready, <<f, b>>)
        /\ \A s \in ResultBuffers(f, b) : desc[f].bufStatus[s] # "Error" =>
             pendingStreamBuffers[s] # <<>> /\ Head(pendingStreamBuffers[s]) = f
  <2>1. NextReady \in ReadyAt /\ NextReady \in 1..Len(pendingPartialResults)
    BY NextReadyType DEF CollectReady, RefInv, OwnerInv, FlushInv
  <2> DEFINE i == NextReady
             r == pendingPartialResults[i]
  <2>2. UNCHANGED desc /\ cam' = [cam EXCEPT !.iter = i, !.ready = Append(@, r)]
    BY DEF CollectReady
  <2>3. \A s \in ResultBuffers(r[1], r[2]) : desc[r[1]].bufStatus[s] # "Error" =>
          pendingStreamBuffers[s] # <<>> /\ Head(pendingStreamBuffers[s]) = r[1]
    BY <2>1 DEF ReadyAt, Ready
  <2> HIDE DEF i
  <2>4. cam'.ready = Append(cam.ready, r)
    BY <2>2 DEF RefInv, OwnerInv, FlushInv, TypeOK, ThreadTypeOK
  <2>5. r \in Results
    <3>1. pendingPartialResults \in Seq(Results) BY Types DEF RefInv
    <3> QED BY <2>1, <3>1 DEF i
  <2>6. r[1] \in Frames /\ r[2] \in Streams /\ r = <<r[1], r[2]>> BY <2>5 DEF Results
  <2> QED BY <2>2, <2>3, <2>4, <2>6
<1>2. PICK m \in Nat :
      /\ q \in Seq(Results) /\ m = Len(q) /\ Len(cam'.ready) = m + 1
      /\ \A i \in 1..m : cam'.ready[i] = q[i]
      /\ cam'.ready[m + 1] = <<f, b>>
  <2>1. q \in Seq(Results) BY Types DEF RefInv
  <2>2. <<f, b>> \in Results BY DEF Results
  <2> QED BY <1>1, <2>1, <2>2, AppendProperties
<1>3. \A x, y : ResultBuffers(x, y)' = ResultBuffers(x, y) BY <1>1 DEF ResultBuffers
<1>4. ReadyInOrder BY DEF RefInv, OrderInv
<1>5. ASSUME NEW j \in 1..m, NEW g, NEW s, Settled(g, s, j) PROVE Settled(g, s, j)'
  <2>1. \A i \in 1..(j - 1) : cam'.ready[i] = q[i] BY <1>2
  <2> QED BY <1>1, <1>5, <2>1 DEF Settled, Alive
<1>6. ASSUME NEW s \in ResultBuffers(f, b), desc[f].bufStatus[s] # "Error",
             NEW g \in Frames, g < f
      PROVE  Settled(g, s, m + 1)'
  <2> SUFFICES ASSUME Alive(g), s \in desc[g].streams,
                      desc[g].partial[desc[g].src[s]] # "completed", desc[g].bufStatus[s] # "Error"
               PROVE  \E i \in 1..m : q[i] = <<g, desc[g].src[s]>>
    <3>1. ASSUME NEW i \in 1..m, q[i] = <<g, desc[g].src[s]>>
          PROVE  Settled(g, s, m + 1)'
      <4>1. i \in 1..((m + 1) - 1) /\ cam'.ready[i] = <<g, desc'[g].src[s]>> BY <1>1, <1>2, <3>1
      <4> QED BY <4>1 DEF Settled
    <3>2. desc' = desc BY <1>1
    <3> HIDE DEF q
    <3> QED BY <3>1, <3>2 DEF Settled, Alive
  <2>1. s \in Streams /\ desc[g].src[s] \in Streams
    <3>1. desc[g].streams \subseteq Streams BY Types DEF RefInv, Descriptor
    <3> QED BY <3>1 DEF RefInv, OwnerInv, FrameInv, Coherent
  <2>2. g \notin ToSet(pendingStreamBuffers[s])
    <3>1. pendingStreamBuffers[s] \in Seq(Frames) /\ Sorted(pendingStreamBuffers[s])
          /\ Frames \in SUBSET Nat
      BY <2>1, Types DEF RefInv, OrderInv
    <3>2. \A h \in ToSet(pendingStreamBuffers[s]) : f <= h
      BY <1>1, <1>6, <3>1, SortedHead
    <3> QED BY <1>6, <3>1, <3>2
  <2>3. ~Waits(g, s) BY <2>1, <2>2 DEF RefInv, OwnerInv, ListInv
  <2>4. <<g, desc[g].src[s]>> \in Collected BY <2>3 DEF Waits
  <2> QED BY <1>2, <2>4 DEF Collected, ToSet
<1> SUFFICES ASSUME NEW j \in 1..(m + 1), NEW x, NEW y, cam'.ready[j] = <<x, y>>,
                    NEW s \in ResultBuffers(x, y), desc[x].bufStatus[s] # "Error",
                    NEW g \in Frames, g < x
             PROVE  Settled(g, s, j)'
  <2>1. \A j \in 1..(m + 1) : \E x, y : cam'.ready[j] = <<x, y>>
    <3>1. \A r \in Results : \E x, y : r = <<x, y>> BY DEF Results
    <3>2. \A i \in 1..m : q[i] \in Results BY <1>2
    <3>3. \A j \in 1..(m + 1) : j \in 1..m \/ j = m + 1 BY <1>2
    <3> HIDE DEF q
    <3> QED BY <1>2, <3>1, <3>2, <3>3
  <2>2. SUFFICES ASSUME NEW j \in 1..(m + 1),
                        NEW s \in ResultBuffers(cam'.ready[j][1], cam'.ready[j][2]),
                        desc[cam'.ready[j][1]].bufStatus[s] # "Error",
                        NEW g \in Frames, g < cam'.ready[j][1]
                 PROVE  Settled(g, s, j)'
    <3>1. desc' = desc BY <1>1
    <3>2. Len(cam'.ready) = m + 1 BY <1>2
    <3> QED BY <1>3, <3>1, <3>2 DEF ReadyInOrder
  <2>3. PICK x, y : cam'.ready[j] = <<x, y>> BY <2>1
  <2>4. cam'.ready[j][1] = x /\ cam'.ready[j][2] = y BY <2>3
  <2> QED BY <2>2, <2>3, <2>4
<1>7. CASE j \in 1..m
  <2>1. q[j] = <<x, y>> BY <1>2, <1>7
  <2>2. q[j][1] = x /\ q[j][2] = y BY <2>1
  <2>3. Settled(g, s, j) BY <1>2, <1>4, <1>7, <2>2 DEF ReadyInOrder
  <2> QED BY <1>5, <1>7, <2>3
<1>8. CASE j = m + 1
  <2>1. x = f /\ y = b BY <1>2, <1>8
  <2> QED BY <1>6, <1>8, <2>1
<1>9. j \in 1..m \/ j = m + 1 BY <1>2
<1> QED BY <1>7, <1>8, <1>9

(* Sending the first result leaves the order of the others. *)
LEMMA SendReady ==
  ASSUME RefInv, CompletePartialResult
  PROVE  ReadyInOrder'
<1> DEFINE q == cam.ready
           r == Head(q)
<1>1. PICK m \in Nat :
      /\ q \in Seq(Results) /\ m = Len(q) /\ m > 0 /\ r = q[1] /\ Len(Tail(q)) = m - 1
      /\ \A i \in 1..(m - 1) : Tail(q)[i] = q[i + 1]
      /\ \A i \in 1..m : q[i] \in Results /\ q[i] \in Collected
  <2>1. cam.pc = "sending" BY ZenonT(30) DEF CompletePartialResult
  <2>2. q \in Seq(Results) /\ q # <<>>
    BY <2>1, Types DEF RefInv, OwnerInv, FlushInv, TypeOK, ThreadTypeOK
  <2>3. Len(q) \in Nat /\ Len(q) # 0 BY <2>2, EmptySeq
  <2>4. \A i \in 1..Len(q) : q[i] \in Results /\ q[i] \in Collected BY <2>2 DEF Collected, ToSet
  <2>5. r = q[1] /\ Len(Tail(q)) = Len(q) - 1 /\ \A i \in 1..(Len(q) - 1) : Tail(q)[i] = q[i + 1]
    BY <2>2, <2>3, HeadTailProperties
  <2> QED BY <2>2, <2>3, <2>4, <2>5
<1>2. PICK f \in Frames, b \in Streams : q[1] = <<f, b>>
  <2>1. q[1] \in Results BY <1>1
  <2> QED BY <2>1 DEF Results
<1>3. PICK e :
        /\ desc' = [desc EXCEPT ![f] = e] /\ cam'.ready = Tail(q)
        /\ e.life = desc[f].life /\ e.streams = desc[f].streams /\ e.src = desc[f].src
        /\ e.bufStatus = desc[f].bufStatus
        /\ e.partial = [desc[f].partial EXCEPT ![b] = "completed"]
  <2> DEFINE d == [desc[f] EXCEPT !.partial[b] = "completed",
                                  !.nextIndex = IF b \in desc[f].meta THEN @ + 1 ELSE @]
             last == IsLast(d)
             e == [d EXCEPT !.completed = last]
             rest == Tail(q)
             pc == IF last THEN "finishing" ELSE IF rest = <<>> THEN "idle" ELSE "sending"
  <2>1. Head(cam.ready)[1] = f /\ Head(cam.ready)[2] = b BY <1>1, <1>2
  <2>2. desc' = [desc EXCEPT ![f] = e] /\ cam' = [cam EXCEPT !.ready = rest, !.pc = pc]
    BY <2>1, ZenonT(60) DEF CompletePartialResult
  <2> HIDE DEF pc, rest, last
  <2>3. cam'.ready = rest BY <2>2 DEF RefInv, OwnerInv, FlushInv, TypeOK, ThreadTypeOK
  <2>4. desc[f] \in Descriptor BY Types DEF RefInv
  <2>5. /\ e.life = desc[f].life /\ e.streams = desc[f].streams /\ e.src = desc[f].src
        /\ e.bufStatus = desc[f].bufStatus
        /\ e.partial = [desc[f].partial EXCEPT ![b] = "completed"]
    BY <2>4 DEF Descriptor
  <2> QED BY <2>2, <2>3, <2>5 DEF rest
<1> HIDE DEF r
<1>4. desc'[f] = e /\ \A g \in Frames : g # f => desc'[g] = desc[g]
  BY <1>3, Types DEF RefInv
<1>5. \A g \in Frames : /\ desc'[g].life = desc[g].life /\ desc'[g].streams = desc[g].streams
                        /\ desc'[g].src = desc[g].src /\ desc'[g].bufStatus = desc[g].bufStatus
  BY <1>3, <1>4
<1>6. e.partial[b] = "completed" /\ \A c \in Streams : c # b => e.partial[c] = desc[f].partial[c]
  <2>1. desc[f].partial \in [Streams -> {"none", "open", "completed"}]
    BY Types DEF RefInv, Descriptor
  <2> QED BY <1>3, <2>1
<1>7. \A g \in Frames : \A c \in Streams :
        desc[g].partial[c] = "completed" => desc'[g].partial[c] = "completed"
  BY <1>4, <1>6
<1>8. ReadyInOrder BY DEF RefInv, OrderInv
<1> SUFFICES ASSUME NEW j \in 1..(m - 1), NEW x \in Frames, NEW y \in Streams, q[j + 1] = <<x, y>>,
                    NEW s \in ResultBuffers(x, y), desc[x].bufStatus[s] # "Error",
                    NEW g \in Frames, g < x, Alive(g), s \in desc[g].streams
             PROVE  \/ desc'[g].partial[desc[g].src[s]] = "completed"
                    \/ desc[g].bufStatus[s] = "Error"
                    \/ \E i \in 1..(j - 1) : cam'.ready[i] = <<g, desc[g].src[s]>>
  <2>1. \A j \in 1..(m - 1) : \E x \in Frames, y \in Streams : q[j + 1] = <<x, y>> /\ cam'.ready[j] = <<x, y>>
    <3>1. \A j \in 1..(m - 1) : j + 1 \in 1..m BY <1>1
    <3>2. \A j \in 1..(m - 1) : q[j + 1] \in Frames \X Streams BY <1>1, <3>1 DEF Results
    <3>3. \A j \in 1..(m - 1) : cam'.ready[j] = q[j + 1] BY <1>1, <1>3
    <3> HIDE DEF q
    <3> QED BY <3>2, <3>3
  <2>2. Len(cam'.ready) = m - 1 BY <1>1, <1>3
  <2>3. \A x \in Frames : \A y : ResultBuffers(x, y)' = ResultBuffers(x, y) BY <1>5 DEF ResultBuffers
  <2> HIDE DEF q
  <2>4. SUFFICES ASSUME NEW j \in 1..(m - 1),
                        NEW s \in desc'[cam'.ready[j][1]].streams,
                        desc'[cam'.ready[j][1]].src[s] = cam'.ready[j][2],
                        desc'[cam'.ready[j][1]].bufStatus[s] # "Error",
                        NEW g \in Frames, g < cam'.ready[j][1]
                 PROVE  Settled(g, s, j)'
    BY <2>2 DEF ReadyInOrder, ResultBuffers
  <2>5. PICK x \in Frames, y \in Streams : q[j + 1] = <<x, y>> /\ cam'.ready[j] = <<x, y>>
    BY <2>1
  <2>6. cam'.ready[j][1] = x /\ cam'.ready[j][2] = y BY <2>5
  <2>7. s \in ResultBuffers(x, y) BY <1>5, <2>4, <2>6 DEF ResultBuffers
  <2>8. desc[x].bufStatus[s] # "Error" /\ g < x BY <1>5, <2>4, <2>6
  <2>9. Alive(g)' /\ s \in desc'[g].streams => Alive(g) /\ s \in desc[g].streams
    BY <1>5 DEF Alive
  <2>10. ASSUME Alive(g), s \in desc[g].streams
         PROVE  \/ desc'[g].partial[desc[g].src[s]] = "completed"
                \/ desc[g].bufStatus[s] = "Error"
                \/ \E i \in 1..(j - 1) : cam'.ready[i] = <<g, desc[g].src[s]>>
    BY <2>5, <2>7, <2>8, <2>10, ZenonT(30)
  <2> QED BY <1>5, <2>9, <2>10 DEF Settled
<1>9. j + 1 \in 1..m BY <1>1
<1>10. Settled(g, s, j + 1)
  <2>1. q[j + 1][1] = x /\ q[j + 1][2] = y OBVIOUS
  <2> QED BY <1>1, <1>8, <1>9, <2>1 DEF ReadyInOrder
<1>11. desc[g].src[s] \in Streams BY DEF RefInv, OwnerInv, FrameInv, Coherent
<1> HIDE DEF q
<1>12. \/ desc[g].partial[desc[g].src[s]] = "completed" \/ desc[g].bufStatus[s] = "Error"
       \/ \E i \in 1..j : q[i] = <<g, desc[g].src[s]>>
  <2>1. (j + 1) - 1 = j BY <1>9
  <2> QED BY <1>10, <2>1 DEF Settled, q
<1>13. ASSUME NEW i \in 1..j, q[i] = <<g, desc[g].src[s]>>
       PROVE  \/ desc'[g].partial[desc[g].src[s]] = "completed"
              \/ \E k \in 1..(j - 1) : cam'.ready[k] = <<g, desc[g].src[s]>>
  <2>1. CASE i = 1 BY <1>2, <1>4, <1>6, <1>13, <2>1
  <2>2. CASE i # 1
    <3>1. i - 1 \in 1..(j - 1) /\ i - 1 \in 1..(m - 1) /\ (i - 1) + 1 = i BY <1>1, <2>2
    <3>2. cam'.ready[i - 1] = q[i] BY <1>1, <1>3, <3>1
    <3> QED BY <1>13, <3>1, <3>2
  <2> QED BY <2>1, <2>2
<1> QED BY <1>7, <1>11, <1>12, <1>13

LEMMA CameraReady ==
  ASSUME RefInv, OwnerInv', CameraThread
  PROVE  ReadyInOrder'
<1>1. CASE CollectDone \/ FinishDone \/ NotifyFlush
  <2>1. /\ UNCHANGED desc
        /\ \/ \E pc : cam' = [cam EXCEPT !.pc = pc]
           \/ \E pc : cam' = [cam EXCEPT !.pc = pc, !.iter = 1]
    BY <1>1 DEF CollectDone, FinishDone, NotifyFlush, device
  <2>2. cam'.ready = cam.ready BY <2>1 DEF RefInv, OwnerInv, FlushInv, TypeOK, ThreadTypeOK
  <2> QED BY <2>1, <2>2, ReadyQuiet
<1>2. CASE FinishFront
  <2> DEFINE f == Head(pendingRequests)
             d == Blank("freed")
  <2>1. desc' = [desc EXCEPT ![f] = d] /\ UNCHANGED cam /\ pendingRequests # <<>>
    BY <1>2 DEF FinishFront, FrontCompleted
  <2>2. f \in Frames
    <3>1. pendingRequests \in Seq(Frames) BY Types DEF RefInv
    <3> QED BY <2>1, <3>1, TailElements
  <2>3. d.life = "freed" BY DEF Blank, NewDescriptor
  <2> HIDE DEF d, f
  <2> QED BY <2>1, <2>2, <2>3, ReadyByDescriptor
<1> QED BY <1>1, <1>2, CollectReadyInOrder, SendReady DEF CameraThread

-----------------------------------------------------------------------------
(* The refinement. *)

LEMMA RefStep ==
  ASSUME RefInv, OwnerInv', [Next]_vars
  PROVE  RefInv' /\ [Contract!Next]_(Contract!vars)
<1>1. CASE UNCHANGED vars
  <2>1. UNCHANGED <<desc, asked, returned, finals, notified>> BY <1>1 DEF vars, device, framework
  <2>2. AnswerInv' /\ [Contract!Next]_(Contract!vars) BY <2>1, AnswerQuiet
  <2>3. ReadyInOrder' BY <1>1, ReadyQuiet DEF vars, device
  <2>4. OrderInv' BY <1>1, <2>3 DEF RefInv, OrderInv, vars, device, lists
  <2> QED BY <2>2, <2>4 DEF RefInv
<1>2. CASE Next
  <2>1. AnswerInv' /\ [Contract!Next]_(Contract!vars)
    BY <1>2, FrameworkAnswer, CaptureAnswer, CameraAnswer, LibcameraAnswer DEF Next
  <2>2. ReadyInOrder' BY <1>2, SubmitReady, CameraReady, LibcameraReady DEF Next
  <2>3. OrderInv'
    BY <1>2, <2>2, ListsOrder, NextOrder DEF OrderInv, ListsInOrder, NextIsSubmitted
  <2> QED BY <2>1, <2>3 DEF RefInv
<1> QED BY <1>1, <1>2

LEMMA RefInit ==
  ASSUME Init
  PROVE  AnswerInv /\ OrderInv /\ Contract!Init
<1>1. \A f \in Frames : desc[f] = Blank("absent")
  BY DEF Init
<1>2. Blank("absent").life = "absent" BY DEF Blank, NewDescriptor
<1>3. /\ asked = [f \in Frames |-> {}] /\ notified = [f \in Frames |-> {}] /\ finals = <<>>
      /\ returned = [f \in Frames |-> [s \in Streams |-> <<>>]]
  BY DEF Init
<1>4. ToSet(<<>>) = {} /\ Sorted(<<>>) BY DEF ToSet, Sorted
<1>5. AnswerInv BY <1>1, <1>2, <1>3, <1>4 DEF AnswerInv, AnswerOK
<1>6. OrderInv
  <2>1. cam.ready = <<>> /\ cap.pc = "idle" /\ pendingRequests = <<>>
        /\ \A s \in Streams : pendingStreamBuffers[s] = <<>>
    BY DEF Init
  <2>2. ReadyInOrder BY <2>1 DEF ReadyInOrder
  <2> QED BY <1>4, <2>1, <2>2 DEF OrderInv
<1>7. Contract!Init
  <2>1. [f \in Frames |-> notified[f] \cap Streams] = [f \in Frames |-> {}] BY <1>3
  <2>2. {f \in Frames : "REQUEST" \in notified[f]} = {} BY <1>3
  <2> QED BY <1>3, <2>1, <2>2 DEF Contract!Init, Contract!Frames, Frames
<1> QED BY <1>5, <1>6, <1>7

(* The device keeps CaptureContract, whatever the streams and their mapping and
   however many requests: good buffers of a stream come back in the order of
   the requests, each one once, and a request is answered once, after its
   buffers and in order.  Assumed is that every buffer a request names can be
   had, as for NothingDangles.                                               *)
THEOREM DeviceKeepsContract ==
  ASSUME ~GetBufferCanFail
  PROVE  Spec => ImplementsContract
<1>1. Init => OwnerInv BY OwnerInit
<1>2. Init => AnswerInv /\ OrderInv /\ Contract!Init BY RefInit
<1>3. RefInv /\ OwnerInv' /\ [Next]_vars => RefInv' /\ [Contract!Next]_(Contract!vars)
  BY RefStep
<1>4. Spec => []OwnerInv BY OwnerInvariant
<1>5. RefInv <=> OwnerInv /\ AnswerInv /\ OrderInv BY DEF RefInv
<1> QED BY <1>1, <1>2, <1>3, <1>4, <1>5, PTL DEF Spec, ImplementsContract, Contract!Spec
=============================================================================
