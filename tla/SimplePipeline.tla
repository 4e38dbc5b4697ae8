--------------------------- MODULE SimplePipeline ---------------------------
(***************************************************************************)
(* The simple pipeline handler (libcamera, pipeline/simple/simple.cpp)     *)
(* while a camera streams, alone, with a hardware converter or with the    *)
(* software ISP (converter_softisp.cpp).                                   *)
(*                                                                         *)
(* Without a converter the buffer of a request is captured to directly.    *)
(* With one, internal buffers free-wheel through the video device: a good  *)
(* frame is converted into the buffers of the oldest request in            *)
(* converterQueue_, and its buffer then goes back for capture.  The        *)
(* software ISP converts within queueBuffers(); a hardware converter       *)
(* answers later, one signal per buffer.                                   *)
(*                                                                         *)
(* The slots all run on the thread of the pipeline handler and are one     *)
(* step each; the order of requests, frames, conversions, stops and starts *)
(* is left to chance.  PipelineHandler, the V4L2 devices and the hardware  *)
(* converter are not part of the repository.                               *)
(***************************************************************************)
EXTENDS Integers, Sequences, FiniteSets, SequencesExt

CONSTANTS
  Requests,             \* the requests the application allocated, and reuses
  Streams,              \* streams_, each with one buffer per request
  kNumInternalBuffers   \* capture buffers allocated when the converter is used

ASSUME BufferAssumption == kNumInternalBuffers \in Nat \ {0}
ASSUME RequestAssumption ==
  /\ IsFiniteSet(Requests) /\ Requests \cap (1..kNumInternalBuffers) = {}
  /\ Streams # {}

VARIABLES
  softIsp,         \* softIsp_: the converter is the software ISP
  useConverter,    \* useConverter_
  streaming,       \* the camera runs
  video,           \* the buffers queued to video_: internal ones (by number), or
                   \* without the converter the requests they belong to
  converterQueue,  \* converterQueue_, by the request its buffers belong to
  inputs,          \* the internal buffers a hardware converter has in hand ...
  outputs,         \* ... and for each stream the requests whose buffer it has
  queuedRequests,  \* PipelineHandler: the requests the camera holds, in order
  pending,         \* per request, its streams whose buffer is not complete
  lost             \* the request and the buffer the converter turned down

converter == <<inputs, outputs>>
requests  == <<queuedRequests, pending>>
vars == <<softIsp, useConverter, streaming, video, converterQueue, converter, requests, lost>>

InternalBuffers == 1..kNumInternalBuffers

Init ==
  /\ softIsp \in BOOLEAN
  /\ useConverter = FALSE /\ streaming = FALSE
  /\ video = <<>> /\ converterQueue = <<>> /\ queuedRequests = <<>>
  /\ inputs = <<>> /\ outputs = [s \in Streams |-> <<>>]
  /\ pending = [r \in Requests |-> {}] /\ lost = {}

-----------------------------------------------------------------------------
(* PipelineHandler::completeBuffer and completeRequest: what remains of queue,
   the requests the camera holds, when those with buffers in left remain: the
   application gets back the others up to the first that is pending.        *)
Held(queue, left) ==
  LET waiting == {i \in DOMAIN queue : left[queue[i]] # {}}
  IN  IF waiting = {} THEN <<>> ELSE SubSeq(queue, Min(waiting), Len(queue))

Complete(left) ==
  /\ pending' = left
  /\ queuedRequests' = Held(queuedRequests, left)

(* All buffers of the requests in done are complete. *)
Without(done) == [r \in Requests |-> IF r \in done THEN {} ELSE pending[r]]

-----------------------------------------------------------------------------
(* The application, through Camera. *)

(* Without conversion a camera has one stream. *)
Configure(conversion) ==
  /\ ~streaming
  /\ useConverter' = conversion
  /\ UNCHANGED <<softIsp, streaming, video, converterQueue, converter, requests, lost>>

(* start(): the internal buffers are queued for capture once the device
   streams.  A start that fails undoes what it did and changes nothing here.
   PipelineHandler::stop has asserted that no request is held.               *)
Start ==
  /\ ~streaming /\ queuedRequests = <<>>
  /\ streaming' = TRUE
  /\ video' = IF useConverter THEN [i \in InternalBuffers |-> i] ELSE <<>>
  /\ UNCHANGED <<softIsp, useConverter, converterQueue, converter, requests, lost>>

(* queueRequestDevice() with the converter: the buffers wait for a frame. *)
QueueConversion(r, S) ==
  /\ streaming /\ useConverter /\ r \notin ToSet(queuedRequests)
  /\ pending' = [pending EXCEPT ![r] = S]
  /\ queuedRequests' = Append(queuedRequests, r)
  /\ converterQueue' = Append(converterQueue, r)
  /\ UNCHANGED <<softIsp, useConverter, streaming, video, converter, lost>>

(* ... and without it, the buffer is captured to. *)
QueueCapture(r, s) ==
  /\ streaming /\ ~useConverter /\ r \notin ToSet(queuedRequests)
  /\ pending' = [pending EXCEPT ![r] = {s}]
  /\ queuedRequests' = Append(queuedRequests, r)
  /\ video' = Append(video, r)
  /\ UNCHANGED <<softIsp, useConverter, streaming, converterQueue, converter, lost>>

(* The video device refuses the buffer: the request is cancelled at once, and
   given back after those before it.                                        *)
QueueCaptureFails(r) ==
  /\ streaming /\ ~useConverter /\ r \notin ToSet(queuedRequests)
  /\ queuedRequests' = Held(Append(queuedRequests, r), pending)
  /\ UNCHANGED <<softIsp, useConverter, streaming, video, converterQueue, converter, pending, lost>>

-----------------------------------------------------------------------------
(* bufferReady(): a frame was captured, or failed, in the oldest buffer. *)

FrameReady == streaming /\ video # <<>>

(* No converter: the buffer and its request are complete either way. *)
CaptureComplete ==
  /\ FrameReady /\ ~useConverter
  /\ video' = Tail(video)
  /\ Complete(Without({Head(video)}))
  /\ UNCHANGED <<softIsp, useConverter, streaming, converterQueue, converter, lost>>

(* A frame that nobody waits for, good or not: its buffer goes back. *)
FrameUnused ==
  /\ FrameReady /\ useConverter /\ converterQueue = <<>>
  /\ video' = Append(Tail(video), Head(video))
  /\ UNCHANGED <<softIsp, useConverter, streaming, converterQueue, converter, requests, lost>>

(* Mutant: the internal buffer of a frame with an error is kept. *)
FrameWithoutRequeue ==
  /\ FrameReady /\ useConverter /\ converterQueue # <<>>
  /\ video' = Tail(video)
  /\ Complete(Without({Head(converterQueue)}))
  /\ converterQueue' = Tail(converterQueue)
  /\ UNCHANGED <<softIsp, useConverter, streaming, converter, lost>>

(* A frame with an error is not converted: its buffer goes back and the oldest
   request is complete with what it has.  Nor is there more to see of one that
   the software ISP converts, which emits inputBufferReady and, also when an
   output could not be written, outputBufferReady for every output.          *)
FrameWithoutConversion ==
  /\ FrameReady /\ useConverter /\ converterQueue # <<>>
  /\ video' = Append(Tail(video), Head(video))
  /\ Complete(Without({Head(converterQueue)}))
  /\ converterQueue' = Tail(converterQueue)
  /\ UNCHANGED <<softIsp, useConverter, streaming, converter, lost>>

(* A hardware converter takes the frame and, per stream, an output. *)
HandToConverter(r) ==
  /\ FrameReady /\ useConverter /\ ~softIsp
  /\ video' = Tail(video)
  /\ inputs' = Append(inputs, Head(video))
  /\ outputs' = [s \in Streams |-> IF s \in pending[r] THEN Append(outputs[s], r) ELSE outputs[s]]

(* Mutant: without the pop() after queueBuffers(). *)
QueueBuffersNoPop ==
  /\ converterQueue # <<>> /\ HandToConverter(Head(converterQueue))
  /\ UNCHANGED <<softIsp, useConverter, streaming, converterQueue, requests, lost>>

(* A good frame is handed over with the buffers of the oldest request. *)
QueueBuffers ==
  /\ converterQueue # <<>> /\ HandToConverter(Head(converterQueue))
  /\ converterQueue' = Tail(converterQueue)
  /\ UNCHANGED <<softIsp, useConverter, streaming, requests, lost>>

(* The converter turns the frame down and emits nothing (the software ISP when
   the frame cannot be mapped).  Its result is ignored: the capture buffer and
   the request are nowhere any more.  Bound: once per behaviour.             *)
QueueBuffersFails ==
  /\ FrameReady /\ useConverter /\ converterQueue # <<>> /\ lost = {}
  /\ lost' = {Head(video), Head(converterQueue)}
  /\ video' = Tail(video)
  /\ converterQueue' = Tail(converterQueue)
  /\ UNCHANGED <<softIsp, useConverter, streaming, converter, requests>>

-----------------------------------------------------------------------------
(* The signals of a hardware converter: it gives inputs back in order, and the
   outputs of each stream in order.                                          *)

(* converterInputDone() *)
ConverterInputDone ==
  /\ inputs # <<>>
  /\ video' = Append(video, Head(inputs))
  /\ inputs' = Tail(inputs)
  /\ UNCHANGED <<softIsp, useConverter, streaming, converterQueue, outputs, requests, lost>>

(* Mutant: the buffer is completed, its request is not. *)
ConverterOutputDoneNoRequest(s) ==
  /\ outputs[s] # <<>>
  /\ pending' = [pending EXCEPT ![Head(outputs[s])] = @ \ {s}]
  /\ outputs' = [outputs EXCEPT ![s] = Tail(@)]
  /\ UNCHANGED <<softIsp, useConverter, streaming, video, converterQueue, inputs, queuedRequests,
                 lost>>

(* converterOutputDone(): the last buffer completes the request. *)
ConverterOutputDone(s) ==
  /\ outputs[s] # <<>>
  /\ Complete([pending EXCEPT ![Head(outputs[s])] = @ \ {s}])
  /\ outputs' = [outputs EXCEPT ![s] = Tail(@)]
  /\ UNCHANGED <<softIsp, useConverter, streaming, video, converterQueue, inputs, lost>>

(* The devices stop, with n frames cancelled.  The converter has given back its
   outputs, and each cancelled frame completes a request: the one it belongs
   to, or the first in converterQueue_, which is not emptied.                *)
CancelFrames(n) ==
  LET converted == UNION {ToSet(outputs[s]) : s \in Streams}
      served    == {converterQueue[i] : i \in 1..n \cap DOMAIN converterQueue}
      captured  == IF useConverter THEN {} ELSE ToSet(video)
  IN /\ streaming /\ streaming' = FALSE
     /\ video' = <<>> /\ inputs' = <<>> /\ outputs' = [s \in Streams |-> <<>>]
     /\ Complete(Without(converted \cup served \cup captured))
     /\ converterQueue' = SubSeq(converterQueue, n + 1, Len(converterQueue))
     /\ UNCHANGED <<softIsp, useConverter, lost>>

(* Mutant: the converter stops after the video device. *)
StopConverterLast == CancelFrames(IF useConverter THEN Len(video) ELSE 0)

(* stopDevice(): the converter stops first, and its inputs are queued for
   capture again before streamOff() cancels every frame.                     *)
Stop == CancelFrames(IF useConverter THEN Len(video) + Len(inputs) ELSE 0)

-----------------------------------------------------------------------------
Device ==
  \/ CaptureComplete \/ FrameWithoutConversion \/ QueueBuffers \/ QueueBuffersFails
  \/ ConverterInputDone \/ \E s \in Streams : ConverterOutputDone(s)

Next ==
  \/ \E conversion \in BOOLEAN : Configure(conversion)
  \/ Start
  \/ \E r \in Requests :
       \/ \E S \in (SUBSET Streams) \ {{}} : QueueConversion(r, S)
       \/ \E s \in Streams : QueueCapture(r, s)
       \/ QueueCaptureFails(r)
  \/ FrameUnused
  \/ Device
  \/ Stop

Spec == Init /\ [][Next]_vars

(* While the camera streams, the video device fills the buffers it has and the
   converter converts.                                                       *)
FairSpec == Spec /\ WF_vars(Device)

-----------------------------------------------------------------------------
TypeOK ==
  /\ {softIsp, useConverter, streaming} \subseteq BOOLEAN
  /\ video \in Seq(IF useConverter THEN InternalBuffers ELSE Requests)
  /\ inputs \in Seq(InternalBuffers)
  /\ converterQueue \in Seq(Requests) /\ queuedRequests \in Seq(Requests)
  /\ outputs \in [Streams -> Seq(Requests)]
  /\ pending \in [Requests -> SUBSET Streams]
  /\ lost \subseteq Requests \cup InternalBuffers

(* When the camera has stopped, every request went back to the application
   ("make sure no requests are pending", as PipelineHandler::stop asserts),
   although stopDevice completes no more requests than there are frames to
   cancel; and converterQueue_, which it does not empty, has none left for the
   next start.  Not so after a conversion that the converter turned down.    *)
StopLeavesNothing ==
  ~streaming /\ lost = {} => queuedRequests = <<>> /\ converterQueue = <<>>

Occurs(x, seq) == Cardinality({i \in DOMAIN seq : seq[i] = x})

(* A buffer that is not complete waits in exactly one place for the frame or
   the conversion that completes it, and one that is complete in none.       *)
WaitsOnce ==
  streaming =>
    \A r \in Requests :
      LET waiting == Occurs(r, converterQueue) + Occurs(r, video) + Cardinality({r} \cap lost) IN
      \A s \in Streams : IF s \in pending[r] THEN waiting + Occurs(r, outputs[s]) = 1
                         ELSE Occurs(r, outputs[s]) = 0 /\ (pending[r] = {} => waiting = 0)

(* "Requeue the internal buffer for capture": while the converter is in use
   every internal buffer is in the video device or in one conversion, once;
   a conversion that is turned down keeps its buffer from it.                *)
InternalBuffersCirculate ==
  streaming /\ useConverter =>
    \A b \in InternalBuffers : Occurs(b, video) + Occurs(b, inputs) + Cardinality({b} \cap lost) = 1

(* Every request the camera takes goes back to the application, unless a
   conversion was turned down.                                               *)
RequestsReturn ==
  \A r \in Requests :
    r \in ToSet(queuedRequests) ~> r \notin ToSet(queuedRequests) \/ lost # {}
=============================================================================
