---------------------------- MODULE CameraDevice ----------------------------
(***************************************************************************)
(* The life of a capture request inside CameraDevice, the object of the    *)
(* libcamera Android HAL that stands between the camera framework and a    *)
(* libcamera::Camera (external/libcamera/src/android/camera_device.cpp).   *)
(*                                                                         *)
(* Four kinds of thread meet here.  The capture thread of the framework    *)
(* calls processCaptureRequest (variable cap).  A control thread of the    *)
(* framework opens, flushes, configures and closes the device (ctl).  The  *)
(* camera manager thread delivers the signals of libcamera and the results *)
(* of post-processing (cam); it runs one handler at a time.  The workers   *)
(* of the post-processors run beside all of them.  They share state_,      *)
(* guarded by stateMutex_, and the three lists of pending things, guarded  *)
(* by pendingRequestMutex_.  One action is what a thread does between two  *)
(* points where another thread can get in.                                 *)
(*                                                                         *)
(* A request is named by its frame number: the framework numbers requests  *)
(* in the order it submits them.  A StreamBuffer is named by its frame and *)
(* stream, a partial result by its frame and the frame buffer (the stream  *)
(* it was queued on) whose completion created it.                          *)
(***************************************************************************)
EXTENDS Integers, SequencesExt

CONSTANTS
  Streams,              \* the configured streams
  Mapped,               \* those produced from another stream's buffer ...
  Internal,             \* ... and those produced from an internal buffer
  Source,               \* the Direct stream each Mapped stream is made from
  NoBuffer,             \* a null FrameBuffer pointer
  Jpeg,                 \* the streams whose results carry JPEG metadata
  ControlOps,           \* bound: what the control thread calls ("flush" ...)
  MaxRequests,          \* bound: number of requests the framework submits
  MetadataFrames,       \* bound: the requests that libcamera emits early metadata for ...
  MaxMetadata,          \* ... and the packs before it emits no more
  MaxMetadataPackIndex, \* index of the final result
  StartCanFail,         \* may camera_->start() fail?
  GetBufferCanFail      \* may CameraStream::getBuffer() return null?

Direct == Streams \ (Mapped \cup Internal)

ASSUME StreamAssumption ==
  /\ Mapped \subseteq Streams /\ Internal \subseteq Streams /\ Jpeg \subseteq Streams
  /\ Mapped \cap Internal = {} /\ Jpeg \cap Direct = {}
  /\ Source \in [Mapped -> Direct] /\ NoBuffer \notin Streams

(* The marks of ERROR_REQUEST and ERROR_RESULT, notified beside streams. *)
ASSUME MarkAssumption == {"REQUEST", "RESULT"} \cap Streams = {}

ASSUME BoundAssumption ==
  /\ ControlOps \subseteq {"flush", "configure", "close"}
  /\ MaxRequests \in Nat /\ MaxMetadata \in Nat /\ MaxMetadataPackIndex \in Nat
  /\ MetadataFrames \subseteq Nat
  /\ {StartCanFail, GetBufferCanFail} \subseteq BOOLEAN

Frames == 1..MaxRequests

VARIABLES
  (* CameraDevice *)
  opened,                 \* opened_
  configured,             \* streams_ is not empty, config_ is set, and whether the
                          \* framework was told that the last configuration is good
  state,                  \* state_
  pendingRequests,        \* pendingRequests_
  pendingStreamBuffers,   \* pendingStreamBuffers_
  pendingPartialResults,  \* pendingPartialResults_
  desc,                   \* the Camera3RequestDescriptor of each frame
  (* the threads *)
  nextFrame, cap,         \* the capture thread
  ctl,                    \* the control thread
  cam,                    \* the camera manager thread
  (* libcamera and what the framework has been told *)
  running,                \* camera_ has been started
  asked, returned, finals, indices, notified

device    == <<opened, configured, state, pendingRequests, pendingStreamBuffers,
               pendingPartialResults, desc>>
framework == <<asked, returned, finals, indices, notified>>
lists     == <<pendingRequests, pendingStreamBuffers, pendingPartialResults>>
vars      == <<device, nextFrame, cap, ctl, cam, running, framework>>

(* A Camera3RequestDescriptor together with its libcamera::Request.  src is
   the frame buffer each stream's image comes from (frameBuffer or srcBuffer),
   fbs the frame buffers libcamera still holds, partial the state of the
   result created by each frame buffer, toProcess the union of the results'
   pendingBuffersToProcess_, meta the results that carry metadata.          *)
Descriptor ==
  [life      : {"absent", "prepared", "pending", "freed"},
   streams   : SUBSET Streams,
   src       : [Streams -> Streams \cup {NoBuffer}],
   status    : {"Pending", "Success", "Cancelled"},
   completed : BOOLEAN,
   nextIndex : Nat,
   bufStatus : [Streams -> {"Success", "Error"}],
   partial   : [Streams -> {"none", "open", "completed"}],
   toProcess : SUBSET Streams,
   meta      : SUBSET Streams,
   queued    : BOOLEAN,
   fbs       : SUBSET Streams]

NewDescriptor(life, S, src) ==
  [life |-> life, streams |-> S, src |-> src, status |-> "Pending",
   completed |-> FALSE, nextIndex |-> 1,
   bufStatus |-> [s \in Streams |-> "Success"],
   partial |-> [s \in Streams |-> "none"],
   toProcess |-> {}, meta |-> {}, queued |-> FALSE,
   fbs |-> {src[s] : s \in S} \ {NoBuffer}]

Blank(life) == NewDescriptor(life, {}, [s \in Streams |-> NoBuffer])

Results == Frames \X Streams

Init ==
  /\ opened = FALSE /\ state = "Stopped" /\ running = FALSE
  /\ configured = [streams |-> FALSE, config |-> FALSE, good |-> FALSE]
  /\ pendingRequests = <<>> /\ pendingPartialResults = <<>>
  /\ pendingStreamBuffers = [s \in Streams |-> <<>>]
  /\ desc = [f \in Frames |-> Blank("absent")]
  /\ nextFrame = 1 /\ cap = [pc |-> "idle", frame |-> 0]
  /\ ctl = [pc |-> "idle", op |-> "none"]
  /\ cam = [pc |-> "idle", iter |-> 1, ready |-> <<>>]
  /\ asked = [f \in Frames |-> {}]
  /\ returned = [f \in Frames |-> [s \in Streams |-> <<>>]]
  /\ finals = <<>>
  /\ indices = [f \in Frames |-> <<>>]
  /\ notified = [f \in Frames |-> {}]

(* Mutant of StateMutexFree: the capture thread drops stateMutex_ after its
   test of state_.                                                           *)
StateMutexFreeEarly == TRUE

(* The mutexes, read off the threads that hold them across steps. *)
StateMutexFree          == cap.pc \notin {"pushing", "queueing"}
PendingRequestMutexFree == cam.pc \notin {"collecting", "finishing"}

-----------------------------------------------------------------------------
(* The control thread: open, flush, configure_streams, close. *)

(* CameraDevice::open; acquiring the camera may fail, which undoes opened_. *)
Open ==
  /\ ctl.pc = "idle" /\ ~opened
  /\ opened' \in BOOLEAN
  /\ UNCHANGED <<configured, state, lists, desc, nextFrame, cap, ctl, cam, running, framework>>

(* The framework may flush while a request is being submitted, but it does
   not configure or close the device then.                                  *)
CallControl(op) ==
  /\ ctl.pc = "idle" /\ opened
  /\ op # "flush" => cap.pc = "idle"
  /\ ctl' = [pc |-> "flush", op |-> op]
  /\ UNCHANGED <<device, nextFrame, cap, cam, running, framework>>

(* flushAndStop: the test of state_ and the move to Flushing. *)
FlushBegin ==
  /\ ctl.pc = "flush" /\ StateMutexFree
  /\ \/ /\ state # "Running"
        /\ ctl' = [ctl EXCEPT !.pc = "return"]
        /\ UNCHANGED state
     \/ /\ state = "Running"
        /\ state' = "Flushing"
        /\ ctl' = [ctl EXCEPT !.pc = "check"]
  /\ UNCHANGED <<opened, configured, lists, desc, nextFrame, cap, cam, running, framework>>

(* Mutant of FlushCheck: the camera is stopped without waiting. *)
FlushCheckNoWait ==
  /\ ctl.pc = "check" /\ PendingRequestMutexFree
  /\ ctl' = [ctl EXCEPT !.pc = "stop"]
  /\ UNCHANGED <<device, nextFrame, cap, cam, running, framework>>

(* pendingRequestsCv_.wait tests its predicate and sleeps until notified. *)
FlushCheck ==
  /\ ctl.pc = "check" /\ PendingRequestMutexFree
  /\ ctl' = [ctl EXCEPT !.pc = IF pendingRequests = <<>> THEN "stop" ELSE "wait"]
  /\ UNCHANGED <<device, nextFrame, cap, cam, running, framework>>

FlushStop ==
  /\ ctl.pc = "stop"
  /\ running' = FALSE
  /\ ctl' = [ctl EXCEPT !.pc = "stopped"]
  /\ UNCHANGED <<device, nextFrame, cap, cam, framework>>

FlushEnd ==
  /\ ctl.pc = "stopped" /\ StateMutexFree
  /\ state' = "Stopped"
  /\ ctl' = [ctl EXCEPT !.pc = "return"]
  /\ UNCHANGED <<opened, configured, lists, desc, nextFrame, cap, cam, running, framework>>

FlushReturn ==
  /\ ctl.pc = "return" /\ ctl.op = "flush"
  /\ ctl' = [pc |-> "idle", op |-> "none"]
  /\ UNCHANGED <<device, nextFrame, cap, cam, running, framework>>

CloseReturn ==
  /\ ctl.pc = "return" /\ ctl.op = "close"
  /\ opened' = FALSE
  /\ configured' = [configured EXCEPT !.good = FALSE]
  /\ ctl' = [pc |-> "idle", op |-> "none"]
  /\ UNCHANGED <<state, lists, desc, nextFrame, cap, cam, running, framework>>

(* The rest of configureStreams.  It may fail before streams_ is cleared,
   with streams_ empty, or with streams_ filled, each time with the old
   config_; otherwise config_ is replaced, and the camera is started if it is
   stopped.  The lists it asserts to be empty are cleared.                   *)
ConfigureStreams ==
  /\ ctl.pc = "return" /\ ctl.op = "configure" /\ StateMutexFree
  /\ ctl' = [pc |-> "idle", op |-> "none"]
  /\ pendingStreamBuffers' = [s \in Streams |-> <<>>]
  /\ \/ /\ \E filled \in BOOLEAN :
              configured' = [configured EXCEPT !.streams = filled, !.good = FALSE]
        /\ UNCHANGED <<state, running>>
     \/ /\ configured' = [streams |-> TRUE, config |-> TRUE, good |-> TRUE]
        /\ state' = IF state = "Stopped" THEN "Running" ELSE state
        /\ running' = (running \/ state = "Stopped")
     \/ /\ StartCanFail /\ state = "Stopped"
        /\ configured' = [streams |-> TRUE, config |-> TRUE, good |-> FALSE]
        /\ UNCHANGED <<state, running>>
  /\ UNCHANGED <<opened, pendingRequests, pendingPartialResults, desc, nextFrame, cap, cam,
                 framework>>

ControlThread ==
  \/ FlushBegin \/ FlushCheck \/ FlushStop \/ FlushEnd
  \/ FlushReturn \/ CloseReturn \/ ConfigureStreams

-----------------------------------------------------------------------------
(* The capture thread: processCaptureRequest. *)

MayCapture ==
  /\ cap.pc = "idle" /\ opened /\ nextFrame \in Frames
  /\ ctl.op \in {"none", "flush"}
  /\ configured.good

IsValidRequest == configured.streams /\ configured.config

(* The frame buffer each stream is made from: a Direct or Internal stream
   has its own; a Mapped stream shares the one of its source, or takes an
   internal one from the source's pool, which lost cannot provide.          *)
SourceBuffers(S, lost) ==
  [s \in Streams |->
     IF s \notin S THEN NoBuffer
     ELSE IF s \notin Mapped THEN s
     ELSE IF Source[s] \in lost \ S THEN NoBuffer
     ELSE Source[s]]

(* The descriptor, its frame buffers and its controls, without any lock. *)
PrepareRequest(S, lost) ==
  /\ MayCapture /\ IsValidRequest /\ S # {}
  /\ lost # {} => GetBufferCanFail
  /\ desc' = [desc EXCEPT ![nextFrame] = NewDescriptor("prepared", S, SourceBuffers(S, lost))]
  /\ cap' = [pc |-> "prepared", frame |-> nextFrame]
  /\ nextFrame' = nextFrame + 1
  /\ UNCHANGED <<opened, configured, state, lists, ctl, cam, running, framework>>

(* A request that isValidRequest, a missing Internal buffer or processControls
   turns down leaves nothing behind.                                        *)
RejectRequest ==
  /\ MayCapture
  /\ nextFrame' = nextFrame + 1
  /\ UNCHANGED <<device, cap, ctl, cam, running, framework>>

(* abortRequest: ERROR_REQUEST, then every buffer at once with an error. *)
AbortRequest ==
  LET f == cap.frame IN
  /\ cap.pc = "prepared" /\ state = "Flushing"
  /\ notified' = [notified EXCEPT ![f] = @ \cup {"REQUEST"}]
  /\ returned' = [returned EXCEPT ![f] =
       [s \in Streams |-> IF s \in desc[f].streams THEN Append(@[s], "error") ELSE @[s]]]
  /\ asked' = [asked EXCEPT ![f] = desc[f].streams]
  /\ desc' = [desc EXCEPT ![f] = Blank("freed")]
  /\ cap' = [pc |-> "idle", frame |-> 0]
  /\ UNCHANGED <<opened, configured, state, lists, nextFrame, ctl, cam, running, finals, indices>>

(* A stopped camera is started again; stateMutex_ is kept from here on. *)
EnsureStarted ==
  /\ cap.pc = "prepared" /\ state # "Flushing"
  /\ state' = "Running" /\ running' = (running \/ state = "Stopped")
  /\ cap' = [cap EXCEPT !.pc = "pushing"]
  /\ UNCHANGED <<opened, configured, lists, desc, nextFrame, ctl, cam, framework>>

StartFails ==
  /\ cap.pc = "prepared" /\ state = "Stopped" /\ StartCanFail
  /\ desc' = [desc EXCEPT ![cap.frame] = Blank("freed")]
  /\ cap' = [pc |-> "idle", frame |-> 0]
  /\ UNCHANGED <<opened, configured, state, lists, nextFrame, ctl, cam, running, framework>>

(* The descriptor and its buffers join the pending lists. *)
PushRequest ==
  LET f == cap.frame IN
  /\ cap.pc = "pushing" /\ PendingRequestMutexFree
  /\ pendingStreamBuffers' =
       [s \in Streams |-> IF s \in desc[f].streams THEN Append(pendingStreamBuffers[s], f)
                          ELSE pendingStreamBuffers[s]]
  /\ pendingRequests' = Append(pendingRequests, f)
  /\ desc' = [desc EXCEPT ![f].life = "pending"]
  /\ asked' = [asked EXCEPT ![f] = desc[f].streams]
  /\ cap' = [cap EXCEPT !.pc = "queueing"]
  /\ UNCHANGED <<opened, configured, state, pendingPartialResults, nextFrame, ctl, cam, running,
                 returned, finals, indices, notified>>

(* camera_->queueRequest, whose result is ignored: libcamera does not take a
   request without buffers.                                                 *)
QueueRequest ==
  /\ cap.pc = "queueing"
  /\ desc' = [desc EXCEPT ![cap.frame].queued = desc[cap.frame].fbs # {}]
  /\ cap' = [pc |-> "idle", frame |-> 0]
  /\ UNCHANGED <<opened, configured, state, lists, nextFrame, ctl, cam, running, framework>>

CaptureThread == AbortRequest \/ EnsureStarted \/ StartFails \/ PushRequest \/ QueueRequest

-----------------------------------------------------------------------------
(* The camera manager thread.  A handler ends by entering the loop of
   checkAndCompleteReadyPartialResults ("collecting"), by entering the loop of
   completeRequestDescriptor ("finishing"), or at once.                     *)

ResultBuffers(f, b) == {s \in desc[f].streams : desc[f].src[s] = b}

(* Mutant of AllCompleted: open partial results are not looked at. *)
AllCompletedUnchecked(d) == TRUE

AllCompleted(d) == \A b \in Streams : d.partial[b] # "open"

(* setBufferStatus: an error is announced. *)
Announce(f, E) == notified' = [notified EXCEPT ![f] = @ \cup E]

(* Mutants of EnterCheck: failed buffers stay in their list; every buffer of
   the result leaves its list.                                               *)
EnterCheckKeepsErrors(f, b, d) ==
  /\ pendingPartialResults' = <<<<f, b>>>> \o pendingPartialResults
  /\ cam' = [cam EXCEPT !.pc = "collecting", !.iter = 1]
  /\ UNCHANGED pendingStreamBuffers
EnterCheckRemovesAll(f, b, d) ==
  /\ pendingPartialResults' = <<<<f, b>>>> \o pendingPartialResults
  /\ pendingStreamBuffers' =
       [s \in Streams |-> IF s \in ResultBuffers(f, b)
                          THEN RemoveFirst(pendingStreamBuffers[s], f) ELSE pendingStreamBuffers[s]]
  /\ cam' = [cam EXCEPT !.pc = "collecting", !.iter = 1]

(* The part of checkAndCompleteReadyPartialResults before its loop: the result
   is put in front, and its failed buffers leave their stream's list.        *)
EnterCheck(f, b, d) ==
  /\ pendingPartialResults' = <<<<f, b>>>> \o pendingPartialResults
  /\ pendingStreamBuffers' =
       [s \in Streams |->
          IF s \in ResultBuffers(f, b) /\ d.bufStatus[s] = "Error"
          THEN RemoveFirst(pendingStreamBuffers[s], f) ELSE pendingStreamBuffers[s]]
  /\ cam' = [cam EXCEPT !.pc = "collecting", !.iter = 1]

(* bufferComplete for the frame buffer b of request f, captured without error
   when ok; post-processing cannot be started for the streams in failed.     *)
BufferComplete(f, b, ok, failed) ==
  LET mine   == ResultBuffers(f, b)
      todo   == IF ok THEN mine \ Direct ELSE {}
      errors == IF ok THEN failed ELSE mine
      d      == [desc[f] EXCEPT
                   !.fbs = @ \ {b},
                   !.partial[b] = "open",
                   !.toProcess = @ \cup (todo \ failed),
                   !.meta = IF todo \cap Jpeg # {} THEN @ \cup {b} ELSE @,
                   !.bufStatus = [s \in Streams |-> IF s \in errors THEN "Error" ELSE @[s]]]
  IN
  /\ cam.pc = "idle"
  /\ desc[f].queued /\ b \in desc[f].fbs /\ failed \subseteq todo
  /\ desc' = [desc EXCEPT ![f] = d]
  /\ Announce(f, errors)
  /\ IF todo \subseteq failed
     THEN EnterCheck(f, b, d)
     ELSE UNCHANGED <<pendingPartialResults, pendingStreamBuffers, cam>>
  /\ UNCHANGED <<opened, configured, state, pendingRequests, nextFrame, cap, ctl, running,
                 asked, returned, finals, indices>>

(* streamProcessingComplete, delegated by a post-processor's worker. *)
StreamProcessingComplete(f, s, ok) ==
  LET b == desc[f].src[s]
      d == [desc[f] EXCEPT !.toProcess = @ \ {s},
                           !.bufStatus[s] = IF ok THEN "Success" ELSE "Error"]
  IN
  /\ cam.pc = "idle" /\ s \in desc[f].toProcess
  /\ desc' = [desc EXCEPT ![f] = d]
  /\ Announce(f, IF ok THEN {} ELSE {s})
  /\ IF d.toProcess \cap ResultBuffers(f, b) = {}
     THEN EnterCheck(f, b, d)
     ELSE UNCHANGED <<pendingPartialResults, pendingStreamBuffers, cam>>
  /\ UNCHANGED <<opened, configured, state, pendingRequests, nextFrame, cap, ctl, running,
                 asked, returned, finals, indices>>

(* Mutant of MetadataAvailable: the index is used without being advanced. *)
MetadataAvailableSameIndex(f) ==
  /\ f \in MetadataFrames /\ cam.pc = "idle"
  /\ desc[f].queued /\ desc[f].status = "Pending" /\ Len(indices[f]) < MaxMetadata
  /\ indices' = [indices EXCEPT ![f] = Append(@, desc[f].nextIndex)]
  /\ UNCHANGED <<device, nextFrame, cap, ctl, cam, running, asked, returned, finals, notified>>

(* metadataAvailable: a result with metadata and no buffer is sent at once.
   libcamera emits it only while the request is not complete.               *)
MetadataAvailable(f) ==
  /\ f \in MetadataFrames /\ cam.pc = "idle"
  /\ desc[f].queued /\ desc[f].status = "Pending" /\ desc[f].nextIndex <= MaxMetadata
  /\ desc' = [desc EXCEPT ![f].nextIndex = @ + 1]
  /\ indices' = [indices EXCEPT ![f] = Append(@, desc[f].nextIndex)]
  /\ UNCHANGED <<opened, configured, state, lists, nextFrame, cap, ctl, cam, running,
                 asked, returned, finals, notified>>

(* requestComplete: the final result is made; the request is finished here
   only if no partial result is open.  In the Immediately mode set by the
   constructor libcamera completes requests in any order.                    *)
RequestComplete(f, status) ==
  LET done == AllCompleted(desc[f]) IN
  /\ cam.pc = "idle"
  /\ desc[f].queued /\ desc[f].fbs = {}
  /\ desc' = [desc EXCEPT ![f] = [@ EXCEPT !.queued = FALSE, !.status = status,
                                           !.completed = done]]
  /\ cam' = [cam EXCEPT !.pc = IF done THEN "finishing" ELSE "idle"]
  /\ UNCHANGED <<opened, configured, state, lists, nextFrame, cap, ctl, running, framework>>

(* Mutant of Ready: a result is sent as soon as it is complete. *)
ReadyAtOnce(r) == TRUE

(* A result is ready when its valid buffers are all at the front. *)
Ready(r) ==
  \A s \in ResultBuffers(r[1], r[2]) :
     desc[r[1]].bufStatus[s] # "Error" =>
        /\ pendingStreamBuffers[s] # <<>>
        /\ Head(pendingStreamBuffers[s]) = r[1]

(* The result the nested loops take next: the first ready one at or after the
   iterator or, when this pass has no more, the first of a new pass.         *)
ReadyAt == {i \in DOMAIN pendingPartialResults : Ready(pendingPartialResults[i])}

NextReady ==
  LET ahead == {i \in ReadyAt : i >= cam.iter}
  IN  Min(IF ahead # {} THEN ahead ELSE ReadyAt)

(* It is taken off the list, and its valid buffers off their streams. *)
CollectReady ==
  LET i == NextReady
      r == pendingPartialResults[i]
  IN
  /\ cam.pc = "collecting" /\ ReadyAt # {}
  /\ pendingPartialResults' = RemoveAt(pendingPartialResults, i)
  /\ pendingStreamBuffers' =
       [s \in Streams |->
          IF s \in ResultBuffers(r[1], r[2]) /\ desc[r[1]].bufStatus[s] # "Error"
          THEN Tail(pendingStreamBuffers[s]) ELSE pendingStreamBuffers[s]]
  /\ cam' = [cam EXCEPT !.iter = i, !.ready = Append(@, r)]
  /\ UNCHANGED <<opened, configured, state, pendingRequests, desc, nextFrame, cap, ctl, running,
                 framework>>

CollectDone ==
  /\ cam.pc = "collecting" /\ ReadyAt = {}
  /\ cam' = [cam EXCEPT !.pc = IF cam.ready = <<>> THEN "idle" ELSE "sending", !.iter = 1]
  /\ UNCHANGED <<device, nextFrame, cap, ctl, running, framework>>

(* Mutant of IsLast: only requestComplete finishes a request. *)
IsLastNever(d) == FALSE

(* Once requestComplete has run, the last partial result finishes the request. *)
IsLast(d) == d.status # "Pending" /\ AllCompleted(d)

(* completePartialResultDescriptor for the next ready result. *)
CompletePartialResult ==
  LET f == Head(cam.ready)[1]
      b == Head(cam.ready)[2]
      d == [desc[f] EXCEPT !.partial[b] = "completed",
                           !.nextIndex = IF b \in desc[f].meta THEN @ + 1 ELSE @]
      last == IsLast(d)
      rest == Tail(cam.ready)
  IN
  /\ cam.pc = "sending"
  /\ desc' = [desc EXCEPT ![f] = [d EXCEPT !.completed = last]]
  /\ returned' = [returned EXCEPT ![f] =
       [s \in Streams |-> IF s \in ResultBuffers(f, b)
                          THEN Append(@[s], IF d.bufStatus[s] = "Error" THEN "error" ELSE "ok")
                          ELSE @[s]]]
  /\ indices' = [indices EXCEPT ![f] = IF b \in desc[f].meta THEN Append(@, desc[f].nextIndex)
                                       ELSE @]
  /\ cam' = [cam EXCEPT !.ready = rest,
                        !.pc = IF last THEN "finishing"
                               ELSE IF rest = <<>> THEN "idle" ELSE "sending"]
  /\ UNCHANGED <<opened, configured, state, lists, nextFrame, cap, ctl, running,
                 asked, finals, notified>>

(* One turn of the loop of completeRequestDescriptor: the oldest pending
   request is answered and its descriptor freed.                            *)
FrontCompleted == pendingRequests # <<>> /\ desc[Head(pendingRequests)].completed

FinishFront ==
  LET f == Head(pendingRequests) IN
  /\ cam.pc = "finishing" /\ FrontCompleted
  /\ finals' = Append(finals, f)
  /\ indices' = [indices EXCEPT ![f] = Append(@, MaxMetadataPackIndex)]
  /\ notified' = [notified EXCEPT ![f] =
                    IF desc[f].status = "Cancelled" THEN @ \cup {"RESULT"} ELSE @]
  /\ pendingRequests' = Tail(pendingRequests)
  /\ desc' = [desc EXCEPT ![f] = Blank("freed")]
  /\ UNCHANGED <<opened, configured, state, pendingStreamBuffers, pendingPartialResults,
                 nextFrame, cap, ctl, cam, running, asked, returned>>

(* Mutant of AfterFinish: one turn too many over the ready results. *)
AfterFinishTooFar == "sending"

AfterFinish == IF cam.ready = <<>> THEN "idle" ELSE "sending"

FinishDone ==
  /\ cam.pc = "finishing" /\ ~FrontCompleted
  /\ cam' = [cam EXCEPT !.pc = IF pendingRequests = <<>> THEN "notifying" ELSE AfterFinish]
  /\ UNCHANGED <<device, nextFrame, cap, ctl, running, framework>>

(* Mutant of NotifyFlush: nobody is notified. *)
NotifyFlushNobody ==
  /\ cam.pc = "notifying"
  /\ cam' = [cam EXCEPT !.pc = AfterFinish]
  /\ UNCHANGED <<device, nextFrame, cap, ctl, running, framework>>

(* pendingRequestsCv_.notify_one wakes the flushing thread if it sleeps. *)
NotifyFlush ==
  /\ cam.pc = "notifying"
  /\ cam' = [cam EXCEPT !.pc = AfterFinish]
  /\ ctl' = IF ctl.pc = "wait" THEN [ctl EXCEPT !.pc = "check"] ELSE ctl
  /\ UNCHANGED <<device, nextFrame, cap, running, framework>>

CameraThread ==
  \/ CollectReady \/ CollectDone \/ CompletePartialResult \/ FinishFront \/ FinishDone \/ NotifyFlush

-----------------------------------------------------------------------------

Framework ==
  \/ Open
  \/ \E op \in ControlOps : CallControl(op)
  \/ RejectRequest
  \/ \E S \in SUBSET Streams : \E lost \in SUBSET Direct : PrepareRequest(S, lost)

Libcamera(f) ==
  \/ \E b \in Streams, ok \in BOOLEAN, failed \in SUBSET Streams : BufferComplete(f, b, ok, failed)
  \/ \E s \in Streams, ok \in BOOLEAN : StreamProcessingComplete(f, s, ok)
  \/ \E status \in {"Success", "Cancelled"} : RequestComplete(f, status)

Next ==
  \/ Framework \/ ControlThread \/ CaptureThread \/ CameraThread
  \/ \E f \in Frames : Libcamera(f) \/ MetadataAvailable(f)

Spec == Init /\ [][Next]_vars

(* Fairness: every thread that has something to do is scheduled, libcamera
   completes what it was given and a post-processor's worker reports back.
   Nothing obliges the framework to call, or libcamera to emit metadata.    *)
Fairness ==
  /\ WF_vars(ControlThread) /\ WF_vars(CaptureThread) /\ WF_vars(CameraThread)
  /\ \A f \in Frames : WF_vars(Libcamera(f))

FairSpec == Spec /\ Fairness

-----------------------------------------------------------------------------
(* Properties *)

DeviceTypeOK ==
  /\ opened \in BOOLEAN
  /\ configured \in [streams : BOOLEAN, config : BOOLEAN, good : BOOLEAN]
  /\ state \in {"Stopped", "Flushing", "Running"}
  /\ running \in BOOLEAN
  /\ pendingRequests \in Seq(Frames)
  /\ pendingStreamBuffers \in [Streams -> Seq(Frames)]
  /\ pendingPartialResults \in Seq(Results)
  /\ desc \in [Frames -> Descriptor]

ThreadTypeOK ==
  /\ nextFrame \in 1..(MaxRequests + 1)
  /\ cap \in [pc : {"idle", "prepared", "pushing", "queueing"}, frame : 0..MaxRequests]
  /\ cap.pc # "idle" => cap.frame \in Frames
  /\ ctl \in [pc : {"idle", "flush", "check", "wait", "stop", "stopped", "return"},
              op : {"none", "flush", "configure", "close"}]
  /\ cam \in [pc : {"idle", "collecting", "sending", "finishing", "notifying"},
              iter : Nat, ready : Seq(Results)]
  /\ cam.pc = "sending" => cam.ready # <<>>

FrameworkTypeOK ==
  /\ asked \in [Frames -> SUBSET Streams]
  /\ returned \in [Frames -> [Streams -> Seq({"ok", "error"})]]
  /\ finals \in Seq(Frames)
  /\ indices \in [Frames -> Seq(Nat)]
  /\ notified \in [Frames -> SUBSET (Streams \cup {"REQUEST", "RESULT"})]

TypeOK == DeviceTypeOK /\ ThreadTypeOK /\ FrameworkTypeOK

(* The framework sees what CaptureContract promises: the buffers of a stream
   come back in the order of the requests unless they failed, each one once,
   and a request is answered once, after its buffers and in order.           *)
Contract == INSTANCE CaptureContract
              WITH failed  <- [f \in Frames |-> notified[f] \cap Streams],
                   aborted <- {f \in Frames : "REQUEST" \in notified[f]}

ImplementsContract == Contract!Spec

(* Descriptors are owned by pendingRequests_ and freed when they are popped;
   everything else holds raw pointers to them.  No list, result, post-processor
   or thread ever holds one to a descriptor that is gone; and while a good
   buffer waits in a result, the list of its stream holds its descriptor, as
   checkAndCompleteReadyPartialResults asserts when it takes the front.      *)
NoDanglingReference ==
  LET alive == {f \in Frames : desc[f].life = "pending"}
  IN  /\ ToSet(pendingRequests) = alive
      /\ \A s \in Streams : ToSet(pendingStreamBuffers[s]) \subseteq alive
      /\ \A r \in ToSet(pendingPartialResults) \cup ToSet(cam.ready) :
            r[1] \in alive /\ desc[r[1]].partial[r[2]] = "open"
      /\ \A r \in ToSet(pendingPartialResults) : \A s \in ResultBuffers(r[1], r[2]) :
            desc[r[1]].bufStatus[s] # "Error" => r[1] \in ToSet(pendingStreamBuffers[s])
      /\ cap.pc = "queueing" => cap.frame \in alive

(* configureStreams asserts after flushAndStop that nothing is pending. *)
NothingPendingAtConfigure ==
  ctl.pc = "return" /\ ctl.op = "configure" =>
    /\ pendingRequests = <<>> /\ pendingPartialResults = <<>>
    /\ \A s \in Streams : pendingStreamBuffers[s] = <<>>

(* libcamera holds a request, or is being handed one, only while it runs:
   camera_->stop() is called outside stateMutex_ and must not overtake a
   request that was accepted under it.                                       *)
QueuedOnlyWhileRunning ==
  (cap.pc = "queueing" \/ \E f \in Frames : desc[f].queued) => running

(* The indices of the metadata packs of a request grow, and the final result
   carries the largest (the partial_result contract of the HAL).             *)
PackIndicesGrow ==
  \A f \in Frames : \A i, j \in DOMAIN indices[f] : i < j => indices[f][i] < indices[f][j]

(* Once Flushing is set under stateMutex_, no request joins the pending ones
   until the flush is over: otherwise it might never end.                    *)
FlushingAcceptsNothing ==
  [][state = "Flushing" => Len(pendingRequests') <= Len(pendingRequests)]_vars

(* A call of flushAndStop returns: the requests it waits for all complete,
   and the thread that completes the last one wakes it.                      *)
FlushReturns == ctl.pc = "flush" ~> ctl.pc = "idle"

(* Every request that was accepted gets its final result. *)
RequestsAreAnswered ==
  \A f \in Frames : desc[f].life = "pending" ~> f \in ToSet(finals)

(* "If no buffer has been added for them because their corresponding direct
   source stream is not part of this particular request, add one here": every
   stream of a request that goes to libcamera has a frame buffer in it.      *)
StreamsHaveBuffers ==
  cap.pc \in {"pushing", "queueing"} =>
    \A s \in desc[cap.frame].streams : desc[cap.frame].src[s] \in desc[cap.frame].fbs
=============================================================================
