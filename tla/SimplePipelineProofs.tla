------------------------ MODULE SimplePipelineProofs ------------------------
(***************************************************************************)
(* Stopping the simple pipeline: stopDevice() completes one request for    *)
(* every capture buffer it gets back, which is enough when the application *)
(* has no more requests than there are internal buffers.                   *)
(*                                                                         *)
(* While it streams, and without that bound: nothing waits in two places,  *)
(* and no internal buffer is in two or in none.                            *)
(***************************************************************************)
EXTENDS SimplePipeline, DataLemmas, FiniteSetTheorems

(* A stopped camera has no buffers, ... *)
Idle ==
  /\ ~streaming => video = <<>> /\ \A s \in Streams : outputs[s] = <<>>
  /\ ~(streaming /\ useConverter) => inputs = <<>>

(* ... and one that streams through a converter has every internal buffer. *)
Conserved == streaming /\ useConverter => Len(video) + Len(inputs) = kNumInternalBuffers

(* What is not complete is held, and somewhere on its way; what is on its way
   is not complete, and in one list only.                                    *)
OnItsWay ==
  \A r \in Requests : \A s \in pending[r] :
    /\ r \in ToSet(queuedRequests)
    /\ \/ r \in ToSet(converterQueue)
       \/ r \in ToSet(outputs[s])
       \/ ~useConverter /\ r \in ToSet(video)

Lists ==
  /\ IsInjective(converterQueue)
  /\ \A s \in Streams : IsInjective(outputs[s])
  /\ \A r \in ToSet(converterQueue) :
       pending[r] # {} /\ \A s \in Streams : r \notin ToSet(outputs[s])
  /\ \A s \in Streams : \A r \in ToSet(outputs[s]) : s \in pending[r]
  /\ ~useConverter => converterQueue = <<>> /\ \A s \in Streams : outputs[s] = <<>>

(* None of it survives a frame that the converter turned down. *)
Flow == lost = {} => Conserved /\ OnItsWay /\ Lists

IInv == TypeOK /\ Idle /\ StopLeavesNothing /\ Flow

-----------------------------------------------------------------------------
(* What PipelineHandler keeps when requests complete. *)
LEMMA HeldRequests ==
  ASSUME NEW q \in Seq(Requests), NEW left \in [Requests -> SUBSET Streams]
  PROVE  /\ Held(q, left) \in Seq(Requests)
         /\ \A r \in ToSet(q) : left[r] # {} => r \in ToSet(Held(q, left))
         /\ (\A r \in ToSet(q) : left[r] = {}) => Held(q, left) = <<>>
<1> DEFINE waiting == {i \in DOMAIN q : left[q[i]] # {}}
<1>0. DOMAIN q = 1..Len(q) /\ Len(q) \in Nat OBVIOUS
<1>1. ASSUME NEW r \in ToSet(q), left[r] # {} PROVE \E i \in waiting : q[i] = r
  BY <1>1 DEF ToSet
<1>2. CASE waiting = {}
  <2>1. Held(q, left) = <<>> BY <1>2 DEF Held
  <2> QED BY <1>1, <1>2, <2>1
<1>3. CASE waiting # {}
  <2> DEFINE m == Min(waiting)
  <2>0. waiting \in SUBSET Nat BY <1>0
  <2>1. m \in waiting /\ \A i \in waiting : m <= i
    <3> HIDE DEF waiting
    <3> QED BY <1>3, <2>0, MinInSet
  <2>2. Held(q, left) = SubSeq(q, m, Len(q)) BY <1>3 DEF Held
  <2> HIDE DEF m
  <2>3. Held(q, left) \in Seq(Requests) /\ ToSet(Held(q, left)) = {q[i] : i \in m..Len(q)}
    <3>1. m \in 1..(Len(q) + 1) BY <1>0, <2>1
    <3> QED BY <2>2, <3>1, SuffixElements
  <2>4. ASSUME NEW r \in ToSet(q), left[r] # {} PROVE r \in ToSet(Held(q, left))
    <3>1. PICK i \in waiting : q[i] = r BY <1>1, <2>4
    <3>2. i \in m..Len(q) BY <1>0, <2>1, <3>1
    <3> QED BY <2>3, <3>1, <3>2
  <2>5. \E r \in ToSet(q) : left[r] # {} BY <2>1 DEF ToSet
  <2> QED BY <2>3, <2>4, <2>5
<1> QED BY <1>2, <1>3

LEMMA InjectiveLength ==
  ASSUME NEW T, NEW q \in Seq(T), IsFiniteSet(T), IsInjective(q)
  PROVE  Len(q) <= Cardinality(T) /\ Cardinality(T) \in Nat
<1>1. q \in Injection(1..Len(q), T)
  <2>1. q \in [1..Len(q) -> T] OBVIOUS
  <2> QED BY <2>1 DEF Injection, IsInjective
<1>2. Cardinality(1..Len(q)) = Len(q)
  <2>1. Len(q) \in Nat OBVIOUS
  <2>2. ASSUME NEW n \in Nat PROVE Cardinality(1..n) = n BY FS_Interval
  <2> QED BY <2>1, <2>2
<1> QED BY <1>1, <1>2, FS_Injection, FS_CardinalityType

-----------------------------------------------------------------------------
LEMMA ServedRequests ==
  ASSUME TypeOK, NEW left \in [Requests -> SUBSET Streams], Complete(left)
  PROVE  pending' = left /\ queuedRequests' \in Seq(Requests)
BY HeldRequests DEF Complete, TypeOK

LEMMA TypeStep ==
  ASSUME TypeOK, Idle, Next
  PROVE  TypeOK'
<1> USE DEF TypeOK, converter, requests
<1>1. ASSUME NEW c \in BOOLEAN, Configure(c) PROVE TypeOK'
  <2>1. video = <<>> BY <1>1 DEF Configure, Idle
  <2> QED BY <1>1, <2>1 DEF Configure
<1>2. CASE Start
  <2>1. [i \in InternalBuffers |-> i] \in Seq(InternalBuffers)
    BY BufferAssumption DEF InternalBuffers
  <2> QED BY <1>2, <2>1 DEF Start
<1>3. ASSUME NEW r \in Requests, NEW S \in SUBSET Streams, QueueConversion(r, S) PROVE TypeOK'
  BY <1>3 DEF QueueConversion
<1>4. ASSUME NEW r \in Requests, NEW s \in Streams, QueueCapture(r, s) PROVE TypeOK'
  BY <1>4 DEF QueueCapture
<1>5. ASSUME NEW r \in Requests, QueueCaptureFails(r) PROVE TypeOK'
  <2>1. Append(queuedRequests, r) \in Seq(Requests) OBVIOUS
  <2>2. queuedRequests' \in Seq(Requests) BY <1>5, <2>1, HeldRequests DEF QueueCaptureFails
  <2> QED BY <1>5, <2>2 DEF QueueCaptureFails
<1>6. ASSUME NEW done PROVE Without(done) \in [Requests -> SUBSET Streams]
  BY DEF Without
<1>7. CASE FrameUnused BY <1>7 DEF FrameUnused, FrameReady
<1>8. CASE CaptureComplete
  <2>1. Without({Head(video)}) \in [Requests -> SUBSET Streams]
    BY <1>6
  <2>2. pending' \in [Requests -> SUBSET Streams] /\ queuedRequests' \in Seq(Requests)
    BY <1>8, <2>1, ServedRequests DEF CaptureComplete
  <2> QED BY <1>8, <2>2 DEF CaptureComplete, FrameReady
<1>9. CASE FrameWithoutConversion
  <2>1. Without({Head(converterQueue)}) \in [Requests -> SUBSET Streams]
    BY <1>6
  <2>2. pending' \in [Requests -> SUBSET Streams] /\ queuedRequests' \in Seq(Requests)
    BY <1>9, <2>1, ServedRequests DEF FrameWithoutConversion
  <2> QED BY <1>9, <2>2 DEF FrameWithoutConversion, FrameReady
<1>10. CASE QueueBuffers
  BY <1>10 DEF QueueBuffers, HandToConverter, FrameReady
<1>11. CASE QueueBuffersFails
  BY <1>11 DEF QueueBuffersFails, FrameReady
<1>12. CASE ConverterInputDone
  <2>1. useConverter BY <1>12 DEF ConverterInputDone, Idle
  <2> QED BY <1>12, <2>1 DEF ConverterInputDone
<1>13. ASSUME NEW s \in Streams, ConverterOutputDone(s) PROVE TypeOK'
  <2>1. [pending EXCEPT ![Head(outputs[s])] = @ \ {s}] \in [Requests -> SUBSET Streams]
    BY <1>13 DEF ConverterOutputDone
  <2>2. pending' \in [Requests -> SUBSET Streams] /\ queuedRequests' \in Seq(Requests)
    BY <1>13, <2>1, ServedRequests DEF ConverterOutputDone
  <2> QED BY <1>13, <2>2 DEF ConverterOutputDone
<1>14. CASE Stop
  <2>1. PICK n \in Nat : CancelFrames(n) BY <1>14, BufferAssumption DEF Stop
  <2>2. pending' \in [Requests -> SUBSET Streams] /\ queuedRequests' \in Seq(Requests)
    BY <1>6, <2>1, ServedRequests DEF CancelFrames
  <2>3. SubSeq(converterQueue, n + 1, Len(converterQueue)) \in Seq(Requests)
    BY SubSeqProperties
  <2>4. <<>> \in Seq(InternalBuffers) /\ <<>> \in Seq(Requests) OBVIOUS
  <2>5. video' \in Seq(IF useConverter' THEN InternalBuffers ELSE Requests)
    BY <2>1, <2>4 DEF CancelFrames
  <2>6. converterQueue' \in Seq(Requests) /\ streaming' \in BOOLEAN
    BY <2>1, <2>3 DEF CancelFrames
  <2> QED BY <2>1, <2>2, <2>4, <2>5, <2>6 DEF CancelFrames
<1> QED BY <1>1, <1>2, <1>3, <1>4, <1>5, <1>7, <1>8, <1>9, <1>10, <1>11, <1>12, <1>13, <1>14
        DEF Next, Device

LEMMA IdleStep ==
  ASSUME TypeOK, Idle, Next
  PROVE  Idle'
<1> USE DEF TypeOK, Idle, converter, requests
<1>1. ASSUME NEW c \in BOOLEAN, Configure(c) PROVE Idle' BY <1>1 DEF Configure
<1>2. CASE Start BY <1>2 DEF Start
<1>3. ASSUME NEW r \in Requests, NEW S \in SUBSET Streams, QueueConversion(r, S) PROVE Idle'
  BY <1>3 DEF QueueConversion
<1>4. ASSUME NEW r \in Requests, NEW s \in Streams, QueueCapture(r, s) PROVE Idle'
  BY <1>4 DEF QueueCapture
<1>5. ASSUME NEW r \in Requests, QueueCaptureFails(r) PROVE Idle'
  BY <1>5 DEF QueueCaptureFails
<1>6. CASE FrameUnused BY <1>6 DEF FrameUnused, FrameReady
<1>7. CASE CaptureComplete BY <1>7 DEF CaptureComplete, FrameReady
<1>8. CASE FrameWithoutConversion BY <1>8 DEF FrameWithoutConversion, FrameReady
<1>9. CASE QueueBuffers BY <1>9 DEF QueueBuffers, HandToConverter, FrameReady
<1>10. CASE QueueBuffersFails BY <1>10 DEF QueueBuffersFails, FrameReady
<1>11. CASE ConverterInputDone BY <1>11 DEF ConverterInputDone
<1>12. ASSUME NEW s \in Streams, ConverterOutputDone(s) PROVE Idle'
  BY <1>12 DEF ConverterOutputDone
<1>13. CASE Stop
  <2>1. PICK n : CancelFrames(n) BY <1>13 DEF Stop
  <2> QED BY <2>1 DEF CancelFrames
<1> QED BY <1>1, <1>2, <1>3, <1>4, <1>5, <1>6, <1>7, <1>8, <1>9, <1>10, <1>11, <1>12, <1>13
        DEF Next, Device

(* Without the frame that was turned down, the buffers stay in circulation. *)
LEMMA ConservedStep ==
  ASSUME TypeOK, Idle, Next, lost' = {}, Conserved
  PROVE  Conserved'
<1> USE DEF TypeOK, Conserved, converter, requests
<1>1. ASSUME NEW c \in BOOLEAN, Configure(c) PROVE Conserved' BY <1>1 DEF Configure
<1>2. CASE Start
  <2>1. Len([i \in InternalBuffers |-> i]) = kNumInternalBuffers
    BY BufferAssumption DEF InternalBuffers
  <2>2. useConverter => inputs' = <<>> BY <1>2 DEF Start, Idle
  <2> QED BY <1>2, <2>1, <2>2, BufferAssumption DEF Start
<1>3. ASSUME NEW r \in Requests, NEW S \in SUBSET Streams, QueueConversion(r, S) PROVE Conserved'
  BY <1>3 DEF QueueConversion
<1>4. ASSUME NEW r \in Requests, NEW s \in Streams, QueueCapture(r, s) PROVE Conserved'
  BY <1>4 DEF QueueCapture
<1>5. ASSUME NEW r \in Requests, QueueCaptureFails(r) PROVE Conserved'
  BY <1>5 DEF QueueCaptureFails
<1>a. ASSUME useConverter, video # <<>>
      PROVE  /\ Len(Tail(video)) = Len(video) - 1
             /\ Len(Append(Tail(video), Head(video))) = Len(video)
  <2>1. video \in Seq(InternalBuffers) BY <1>a
  <2> QED BY <1>a, <2>1
<1>6. CASE FrameUnused BY <1>6, <1>a DEF FrameUnused, FrameReady
<1>7. CASE CaptureComplete BY <1>7 DEF CaptureComplete, FrameReady
<1>8. CASE FrameWithoutConversion BY <1>8, <1>a DEF FrameWithoutConversion, FrameReady
<1>9. CASE QueueBuffers
  <2>1. Len(Append(inputs, Head(video))) = Len(inputs) + 1 OBVIOUS
  <2>2. Len(video) \in Nat /\ Len(inputs) \in Nat OBVIOUS
  <2> QED BY <1>9, <1>a, <2>1, <2>2 DEF QueueBuffers, HandToConverter, FrameReady
<1>10. CASE QueueBuffersFails BY <1>10 DEF QueueBuffersFails
<1>11. CASE ConverterInputDone
  <2>1. Len(Tail(inputs)) = Len(inputs) - 1 BY <1>11 DEF ConverterInputDone
  <2>2. Len(Append(video, Head(inputs))) = Len(video) + 1 OBVIOUS
  <2>3. Len(video) \in Nat /\ Len(inputs) \in Nat OBVIOUS
  <2> QED BY <1>11, <2>1, <2>2, <2>3 DEF ConverterInputDone
<1>12. ASSUME NEW s \in Streams, ConverterOutputDone(s) PROVE Conserved'
  BY <1>12 DEF ConverterOutputDone
<1>13. CASE Stop
  <2>1. PICK n : CancelFrames(n) BY <1>13 DEF Stop
  <2> QED BY <2>1 DEF CancelFrames
<1> QED BY <1>1, <1>2, <1>3, <1>4, <1>5, <1>6, <1>7, <1>8, <1>9, <1>10, <1>11, <1>12, <1>13
        DEF Next, Device

LEMMA ListsStep ==
  ASSUME TypeOK, Idle, StopLeavesNothing, Next, ~Stop, lost = {}, lost' = {},
         OnItsWay, Lists
  PROVE  OnItsWay' /\ Lists'
<1> USE DEF TypeOK, OnItsWay, Lists, converter, requests
<1>t. /\ ToSet(converterQueue) \subseteq Requests /\ ToSet(queuedRequests) \subseteq Requests
      /\ \A s \in Streams : ToSet(outputs[s]) \subseteq Requests
  BY DEF ToSet
<1>e. /\ ToSet(<<>>) = {} /\ IsInjective(<<>>) BY DEF ToSet, IsInjective
<1>p. ASSUME NEW left \in [Requests -> SUBSET Streams], Complete(left)
      PROVE  /\ pending' = left
             /\ \A r \in ToSet(queuedRequests) : left[r] # {} => r \in ToSet(queuedRequests')
  BY <1>p, HeldRequests DEF Complete
<1>w. ASSUME NEW done
      PROVE  /\ Without(done) \in [Requests -> SUBSET Streams]
             /\ \A r \in Requests : Without(done)[r] = IF r \in done THEN {} ELSE pending[r]
  BY DEF Without
<1>c. converterQueue # <<>> =>
        /\ ToSet(converterQueue) = {Head(converterQueue)} \cup ToSet(Tail(converterQueue))
        /\ Head(converterQueue) \in Requests
        /\ IsInjective(Tail(converterQueue))
        /\ Head(converterQueue) \notin ToSet(Tail(converterQueue))
  BY TailElements, TailKeepsInjective
<1>1. ASSUME NEW c \in BOOLEAN, Configure(c) PROVE OnItsWay' /\ Lists'
  <2>1. queuedRequests = <<>> /\ converterQueue = <<>> /\ \A s \in Streams : outputs[s] = <<>>
    BY <1>1 DEF Configure, StopLeavesNothing, Idle
  <2>2. \A r \in Requests : pending[r] = {} BY <1>e, <2>1
  <2> QED BY <1>1, <1>e, <2>1, <2>2 DEF Configure
<1>2. CASE Start
  <2>1. \A r \in Requests : pending[r] = {} BY <1>2, <1>e DEF Start
  <2> QED BY <1>2, <2>1 DEF Start
<1>q. ASSUME NEW r \in Requests, r \notin ToSet(queuedRequests)
      PROVE  /\ pending[r] = {} /\ r \notin ToSet(converterQueue)
             /\ \A s \in Streams : r \notin ToSet(outputs[s])
             /\ ToSet(Append(queuedRequests, r)) = ToSet(queuedRequests) \cup {r}
             /\ Append(queuedRequests, r) \in Seq(Requests)
  BY <1>q, AppendElements
<1>3. ASSUME NEW r \in Requests, NEW S \in (SUBSET Streams) \ {{}}, QueueConversion(r, S)
      PROVE  OnItsWay' /\ Lists'
  <2>1. /\ ToSet(converterQueue') = ToSet(converterQueue) \cup {r}
        /\ ToSet(queuedRequests') = ToSet(queuedRequests) \cup {r}
        /\ IsInjective(converterQueue')
    BY <1>3, <1>q, AppendElements, AppendKeepsInjective DEF QueueConversion
  <2>2. OnItsWay' BY <1>3, <1>q, <2>1 DEF QueueConversion
  <2>3. \A x \in Requests : pending'[x] = IF x = r THEN S ELSE pending[x]
    BY <1>3 DEF QueueConversion
  <2>4. UNCHANGED outputs /\ useConverter' /\ r \notin ToSet(queuedRequests)
    BY <1>3 DEF QueueConversion
  <2>5. Lists'
    <3>1. /\ IsInjective(converterQueue') /\ \A s \in Streams : IsInjective(outputs'[s])
          /\ useConverter' = TRUE
      BY <2>1, <2>4
    <3>2. ASSUME NEW x \in ToSet(converterQueue')
          PROVE  pending'[x] # {} /\ \A s \in Streams : x \notin ToSet(outputs'[s])
      <4>1. CASE x = r
        <5>1. S # {} OBVIOUS
        <5> QED BY <1>q, <2>3, <2>4, <4>1, <5>1
      <4>2. CASE x # r
        <5>1. x \in ToSet(converterQueue) /\ x \in Requests BY <1>t, <2>1, <4>2
        <5> QED BY <2>3, <2>4, <4>2, <5>1
      <4> QED BY <4>1, <4>2
    <3>3. ASSUME NEW s \in Streams, NEW x \in ToSet(outputs'[s]) PROVE s \in pending'[x]
      BY <1>t, <1>q, <2>3, <2>4
    <3> QED BY <3>1, <3>2, <3>3
  <2> QED BY <2>2, <2>5
<1>4. ASSUME NEW r \in Requests, NEW s \in Streams, QueueCapture(r, s) PROVE OnItsWay' /\ Lists'
  <2>1. /\ ToSet(video') = ToSet(video) \cup {r}
        /\ ToSet(queuedRequests') = ToSet(queuedRequests) \cup {r}
    BY <1>4, <1>q, AppendElements DEF QueueCapture
  <2>2. OnItsWay' BY <1>4, <1>q, <2>1 DEF QueueCapture
  <2>3. Lists' BY <1>4, <1>e DEF QueueCapture
  <2> QED BY <2>2, <2>3
<1>5. ASSUME NEW r \in Requests, QueueCaptureFails(r) PROVE OnItsWay' /\ Lists'
  <2> DEFINE queue == Append(queuedRequests, r)
  <2>1. queue \in Seq(Requests) /\ ToSet(queuedRequests) \subseteq ToSet(queue)
    BY <1>5, <1>q DEF QueueCaptureFails
  <2> HIDE DEF queue
  <2>2. \A x \in ToSet(queue) : pending[x] # {} => x \in ToSet(Held(queue, pending))
    BY <2>1, HeldRequests
  <2>3. queuedRequests' = Held(queue, pending) BY <1>5 DEF QueueCaptureFails, queue
  <2> QED BY <1>5, <2>1, <2>2, <2>3 DEF QueueCaptureFails
<1>6. CASE FrameUnused
  BY <1>6 DEF FrameUnused, FrameReady
<1>7. CASE CaptureComplete
  <2>1. ~useConverter /\ video # <<>> BY <1>7 DEF CaptureComplete, FrameReady
  <2>2. ToSet(video) = {Head(video)} \cup ToSet(video')
    BY <1>7, <2>1, TailElements DEF CaptureComplete
  <2>3. OnItsWay' BY <1>7, <1>p, <1>w, <2>2 DEF CaptureComplete
  <2>4. Lists' BY <1>7, <1>e, <2>1 DEF CaptureComplete
  <2> QED BY <2>3, <2>4
<1>8. CASE FrameWithoutConversion
  <2>1. useConverter /\ converterQueue # <<>> /\ converterQueue' = Tail(converterQueue)
    BY <1>8 DEF FrameWithoutConversion
  <2> DEFINE r == Head(converterQueue)
  <2>2. /\ r \in Requests /\ IsInjective(converterQueue') /\ r \notin ToSet(converterQueue')
        /\ ToSet(converterQueue) = {r} \cup ToSet(converterQueue')
    BY <1>c, <2>1
  <2>3. /\ \A x \in Requests : pending'[x] = IF x = r THEN {} ELSE pending[x]
        /\ \A x \in ToSet(queuedRequests) : pending'[x] # {} => x \in ToSet(queuedRequests')
    BY <1>8, <1>p, <1>w DEF FrameWithoutConversion
  <2>4. UNCHANGED <<useConverter, outputs>> BY <1>8 DEF FrameWithoutConversion
  <2> HIDE DEF r
  <2>5. OnItsWay' BY <1>t, <2>1, <2>2, <2>3, <2>4
  <2>6. Lists' BY <1>t, <2>1, <2>2, <2>3, <2>4
  <2> QED BY <2>5, <2>6
<1>9. CASE QueueBuffers
  <2> DEFINE r == Head(converterQueue)
  <2>1. /\ useConverter /\ converterQueue # <<>> /\ r \in Requests
        /\ converterQueue' = Tail(converterQueue)
    BY <1>9, <1>c DEF QueueBuffers, HandToConverter
  <2>2. /\ r \notin ToSet(converterQueue')
        /\ ToSet(converterQueue) = {r} \cup ToSet(converterQueue')
        /\ IsInjective(converterQueue')
    BY <1>c, <2>1
  <2>3. ASSUME NEW s \in Streams
        PROVE  /\ ToSet(outputs'[s]) = ToSet(outputs[s]) \cup (IF s \in pending[r] THEN {r} ELSE {})
               /\ IsInjective(outputs'[s])
    BY <1>9, <2>1, <2>2, AppendElements, AppendKeepsInjective DEF QueueBuffers, HandToConverter
  <2>4. UNCHANGED <<queuedRequests, pending, useConverter>>
    BY <1>9 DEF QueueBuffers
  <2> HIDE DEF r
  <2>5. OnItsWay' BY <2>1, <2>2, <2>3, <2>4
  <2>6. Lists' BY <1>t, <2>1, <2>2, <2>3, <2>4
  <2> QED BY <2>5, <2>6
<1>10. CASE QueueBuffersFails BY <1>10 DEF QueueBuffersFails
<1>11. CASE ConverterInputDone
  <2>1. useConverter BY <1>11 DEF ConverterInputDone, Idle
  <2> QED BY <1>11, <2>1 DEF ConverterInputDone
<1>12. ASSUME NEW s \in Streams, ConverterOutputDone(s) PROVE OnItsWay' /\ Lists'
  <2> DEFINE r == Head(outputs[s])
             left == [pending EXCEPT ![r] = @ \ {s}]
  <2>1. /\ outputs[s] # <<>> /\ r \in Requests
        /\ ToSet(outputs[s]) = {r} \cup ToSet(outputs'[s])
        /\ IsInjective(outputs'[s]) /\ r \notin ToSet(outputs'[s])
        /\ \A t \in Streams \ {s} : outputs'[t] = outputs[t]
    BY <1>12, TailElements, TailKeepsInjective DEF ConverterOutputDone
  <2>2. left \in [Requests -> SUBSET Streams] BY <2>1
  <2>3. /\ pending' = left
        /\ \A x \in ToSet(queuedRequests) : left[x] # {} => x \in ToSet(queuedRequests')
    BY <1>12, <1>p, <2>2 DEF ConverterOutputDone
  <2>4. UNCHANGED <<useConverter, converterQueue, video>> BY <1>12 DEF ConverterOutputDone
  <2>5. r \notin ToSet(converterQueue) /\ useConverter BY <2>1, <1>e
  <2>6. \A x \in Requests : pending'[x] = IF x = r THEN pending[x] \ {s} ELSE pending[x]
    BY <2>1, <2>3
  <2> HIDE DEF r, left
  <2>7. OnItsWay'
    <3> SUFFICES ASSUME NEW x \in Requests, NEW t \in pending'[x]
                 PROVE  /\ x \in ToSet(queuedRequests')
                        /\ x \in ToSet(converterQueue) \/ x \in ToSet(outputs'[t])
      BY <2>4
    <3>1. t \in Streams /\ t \in pending[x] /\ (x = r => t # s) BY <2>6
    <3>2. x \in ToSet(queuedRequests') BY <2>3, <3>1
    <3>3. x \in ToSet(converterQueue) \/ x \in ToSet(outputs[t]) BY <2>5, <3>1
    <3>4. t = s => x # r BY <3>1
    <3> QED BY <2>1, <3>1, <3>2, <3>3, <3>4
  <2>8. Lists' BY <1>t, <2>1, <2>4, <2>5, <2>6
  <2> QED BY <2>7, <2>8
<1> QED BY <1>1, <1>2, <1>3, <1>4, <1>5, <1>6, <1>7, <1>8, <1>9, <1>10, <1>11, <1>12
        DEF Next, Device

(* Every request that is not complete gets the buffer of a cancelled frame. *)
LEMMA StopStep ==
  ASSUME Cardinality(Requests) <= kNumInternalBuffers,
         TypeOK, Idle, Stop, Conserved, OnItsWay, Lists
  PROVE  /\ queuedRequests' = <<>> /\ converterQueue' = <<>>
         /\ \A r \in Requests : pending'[r] = {}
         /\ \A s \in Streams : outputs'[s] = <<>>
<1> USE DEF TypeOK, OnItsWay, Lists, Conserved
<1> DEFINE n == IF useConverter THEN Len(video) + Len(inputs) ELSE 0
           converted == UNION {ToSet(outputs[s]) : s \in Streams}
           served    == {converterQueue[i] : i \in 1..n \cap DOMAIN converterQueue}
           captured  == IF useConverter THEN {} ELSE ToSet(video)
           left      == Without(converted \cup served \cup captured)
<1>1. /\ Complete(left) /\ streaming /\ \A s \in Streams : outputs'[s] = <<>>
      /\ converterQueue' = SubSeq(converterQueue, n + 1, Len(converterQueue))
  BY DEF Stop, CancelFrames
<1>2. n \in Nat /\ Len(converterQueue) \in Nat /\ Len(converterQueue) <= n
  <2>1. CASE useConverter
    <3>1. n = kNumInternalBuffers BY <1>1, <2>1
    <3>2. Len(converterQueue) <= Cardinality(Requests) /\ Cardinality(Requests) \in Nat
      BY InjectiveLength, RequestAssumption
    <3> QED BY <3>1, <3>2, BufferAssumption
  <2>2. CASE ~useConverter BY <2>2
  <2> QED BY <2>1, <2>2
<1>3. ToSet(converterQueue) \subseteq served
  <2> HIDE DEF n
  <2>1. DOMAIN converterQueue = 1..Len(converterQueue) OBVIOUS
  <2> QED BY <1>2, <2>1 DEF ToSet
<1>4. ASSUME NEW r \in Requests, NEW s \in pending[r]
      PROVE  r \in converted \cup served \cup captured
  <2>1. CASE r \in ToSet(converterQueue) BY <1>3, <2>1
  <2>2. CASE r \in ToSet(outputs[s]) BY <2>2
  <2>3. CASE ~useConverter /\ r \in ToSet(video) BY <2>3
  <2> QED BY <2>1, <2>2, <2>3
<1>5. /\ left \in [Requests -> SUBSET Streams]
      /\ \A r \in Requests : left[r] = {}
  <2> HIDE DEF converted, served, captured
  <2>1. \A r \in Requests : r \notin converted \cup served \cup captured => pending[r] = {}
    BY <1>4
  <2> QED BY <2>1 DEF Without
<1> HIDE DEF n, left
<1>6. queuedRequests' = <<>> /\ pending' = left
  <2>1. \A r \in ToSet(queuedRequests) : left[r] = {} BY <1>5 DEF ToSet
  <2> QED BY <1>1, <1>5, <2>1, HeldRequests DEF Complete
<1>7. converterQueue' = <<>> BY <1>1, <1>2, SubSeqEmpty
<1> QED BY <1>1, <1>5, <1>6, <1>7

-----------------------------------------------------------------------------
LEMMA InvariantInit == Init => IInv
<1> SUFFICES ASSUME Init PROVE IInv OBVIOUS
<1>1. ToSet(<<>>) = {} /\ IsInjective(<<>>) BY DEF ToSet, IsInjective
<1>2. /\ \A T : <<>> \in Seq(T)
      /\ [s \in Streams |-> <<>>] \in [Streams -> Seq(Requests)] OBVIOUS
<1>3. TypeOK BY <1>2 DEF Init, TypeOK
<1>4. Idle /\ StopLeavesNothing BY DEF Init, Idle, StopLeavesNothing
<1>5. Conserved /\ OnItsWay BY DEF Init, Conserved, OnItsWay
<1>6. Lists BY <1>1 DEF Init, Lists
<1> QED BY <1>3, <1>4, <1>5, <1>6 DEF IInv, Flow

LEMMA InvariantStep ==
  ASSUME Cardinality(Requests) <= kNumInternalBuffers, IInv, [Next]_vars
  PROVE  IInv'
<1> USE DEF IInv
<1>1. CASE UNCHANGED vars
  BY <1>1 DEF vars, converter, requests, TypeOK, Idle, StopLeavesNothing, Flow, Conserved,
              OnItsWay, Lists
<1>2. CASE Next
  <2>1. TypeOK' /\ Idle' BY <1>2, TypeStep, IdleStep
  <2>2. lost' = {} => lost = {}
    BY <1>2 DEF Next, Device, Configure, Start, QueueConversion, QueueCapture, QueueCaptureFails,
                FrameUnused, CaptureComplete, FrameWithoutConversion, QueueBuffers,
                QueueBuffersFails, ConverterInputDone, ConverterOutputDone, Stop, CancelFrames
  <2>3. CASE lost' # {} BY <2>1, <2>3 DEF StopLeavesNothing, Flow
  <2>4. CASE lost' = {} /\ Stop
    <3>1. /\ queuedRequests' = <<>> /\ converterQueue' = <<>>
          /\ \A r \in Requests : pending'[r] = {}
          /\ \A s \in Streams : outputs'[s] = <<>>
      BY <2>2, <2>4, StopStep DEF Flow
    <3>2. ToSet(<<>>) = {} /\ IsInjective(<<>>) BY DEF ToSet, IsInjective
    <3>3. OnItsWay' /\ Lists' BY <3>1, <3>2 DEF OnItsWay, Lists
    <3>4. StopLeavesNothing' BY <3>1 DEF StopLeavesNothing
    <3>5. Conserved' BY <1>2, <2>2, <2>4, ConservedStep DEF Flow
    <3> QED BY <2>1, <3>3, <3>4, <3>5 DEF Flow
  <2>5. CASE lost' = {} /\ ~Stop
    <3>1. OnItsWay' /\ Lists' BY <1>2, <2>2, <2>5, ListsStep DEF Flow
    <3>2. Conserved' BY <1>2, <2>2, <2>5, ConservedStep DEF Flow
    <3>3. StopLeavesNothing'
      <4>1. ASSUME NEW c \in BOOLEAN, Configure(c) PROVE StopLeavesNothing'
        BY <2>2, <2>5, <4>1 DEF Configure, requests, StopLeavesNothing
      <4>2. ASSUME ~\E c \in BOOLEAN : Configure(c) PROVE streaming'
        <5>1. CASE ConverterInputDone BY <5>1 DEF ConverterInputDone, Idle
        <5>2. ASSUME NEW s \in Streams, ConverterOutputDone(s) PROVE streaming'
          BY <5>2 DEF ConverterOutputDone, Idle
        <5>3. CASE \/ Start \/ FrameUnused \/ CaptureComplete \/ FrameWithoutConversion
                   \/ QueueBuffers \/ QueueBuffersFails
          BY <5>3 DEF Start, FrameUnused, CaptureComplete, FrameWithoutConversion, QueueBuffers,
                      HandToConverter, QueueBuffersFails, FrameReady
        <5>4. ASSUME NEW r, \/ \E S : QueueConversion(r, S) \/ \E s : QueueCapture(r, s)
                            \/ QueueCaptureFails(r)
              PROVE  streaming'
          BY <5>4 DEF QueueConversion, QueueCapture, QueueCaptureFails
        <5> QED BY <1>2, <2>5, <4>2, <5>1, <5>2, <5>3, <5>4 DEF Next, Device
      <4> QED BY <4>1, <4>2 DEF StopLeavesNothing
    <3> QED BY <2>1, <3>1, <3>2, <3>3 DEF Flow
  <2> QED BY <2>3, <2>4, <2>5
<1> QED BY <1>1, <1>2

(* Whenever the camera is stopped no request is held and converterQueue_ is
   empty, whatever the interleaving of requests, frames and conversions, if the
   application has at most kNumInternalBuffers requests.                     *)
THEOREM NothingLeftBehind ==
  ASSUME Cardinality(Requests) <= kNumInternalBuffers
  PROVE  Spec => []StopLeavesNothing
<1>1. IInv /\ [Next]_vars => IInv' BY InvariantStep
<1>2. IInv => StopLeavesNothing BY DEF IInv
<1> QED BY InvariantInit, <1>1, <1>2, PTL DEF Spec

-----------------------------------------------------------------------------
(* How often a value occurs in a list that grows at its end and shrinks at *)
(* its head.                                                               *)
LEMMA OccursNatural ==
  ASSUME NEW T, NEW q \in Seq(T), NEW x
  PROVE  /\ Occurs(x, q) \in Nat /\ IsFiniteSet({i \in DOMAIN q : q[i] = x})
         /\ x \in ToSet(q) <=> Occurs(x, q) # 0
<1> DEFINE I == {i \in DOMAIN q : q[i] = x}
<1>1. DOMAIN q = 1..Len(q) /\ Len(q) \in Nat OBVIOUS
<1>2. IsFiniteSet(1..Len(q)) BY <1>1, FS_Interval
<1>3. I \in SUBSET (1..Len(q)) BY <1>1
<1>4. IsFiniteSet(I) BY <1>2, <1>3, FS_Subset
<1>5. x \in ToSet(q) <=> I # {} BY DEF ToSet
<1> HIDE DEF I
<1>6. Cardinality(I) \in Nat /\ (Cardinality(I) = 0 <=> I = {})
  BY <1>4, FS_CardinalityType, FS_EmptySet
<1> QED BY <1>4, <1>5, <1>6 DEF Occurs, I

LEMMA OccursNowhere == \A x : Occurs(x, <<>>) = 0
BY FS_EmptySet DEF Occurs

LEMMA OccursAppend ==
  ASSUME NEW T, NEW q \in Seq(T), NEW e \in T, NEW x
  PROVE  Occurs(x, Append(q, e)) = IF x = e THEN Occurs(x, q) + 1 ELSE Occurs(x, q)
<1> DEFINE p == Append(q, e)
           I == {i \in DOMAIN q : q[i] = x}
           J == {i \in DOMAIN p : p[i] = x}
<1>1. /\ DOMAIN q = 1..Len(q) /\ DOMAIN p = 1..(Len(q) + 1) /\ Len(q) \in Nat
      /\ \A i \in 1..Len(q) : p[i] = q[i]
      /\ p[Len(q) + 1] = e
  BY AppendProperties
<1>2. IsFiniteSet(I) /\ Cardinality(I) \in Nat BY OccursNatural DEF Occurs
<1>c. Occurs(x, q) = Cardinality(I) /\ Occurs(x, p) = Cardinality(J) BY DEF Occurs
<1> HIDE DEF p
<1>3. CASE e = x
  <2>1. J = I \cup {Len(q) + 1} /\ Len(q) + 1 \notin I BY <1>1, <1>3
  <2> HIDE DEF I, J
  <2>2. Cardinality(J) = Cardinality(I) + 1 BY <1>2, <2>1, FS_AddElement
  <2> QED BY <1>c, <1>3, <2>2 DEF p
<1>4. CASE e # x
  <2>1. J = I BY <1>1, <1>4
  <2> HIDE DEF I, J
  <2> QED BY <1>c, <1>2, <1>4, <2>1 DEF p
<1> QED BY <1>3, <1>4

LEMMA OccursTail ==
  ASSUME NEW T, NEW q \in Seq(T), q # <<>>, NEW x
  PROVE  /\ Occurs(x, Tail(q)) = IF x = Head(q) THEN Occurs(x, q) - 1 ELSE Occurs(x, q)
         /\ Head(q) = x => Occurs(x, q) >= 1
<1> DEFINE t == Tail(q)
           I == {i \in DOMAIN q : q[i] = x}
           J == {i \in DOMAIN t : t[i] = x}
           K == {i \in I : i > 1}
<1>1. /\ t \in Seq(T) /\ Len(t) = Len(q) - 1 /\ Len(q) \in Nat /\ Len(q) > 0 /\ Head(q) = q[1]
      /\ \A i \in 1..Len(t) : t[i] = q[i + 1]
  BY HeadTailProperties, EmptySeq
<1>2. DOMAIN t = 1..Len(t) /\ DOMAIN q = 1..Len(q) BY <1>1
<1>3. IsFiniteSet(I) /\ Cardinality(I) \in Nat /\ IsFiniteSet(J) /\ Cardinality(J) \in Nat
  BY <1>1, OccursNatural DEF Occurs
<1>c. Occurs(x, q) = Cardinality(I) /\ Occurs(x, t) = Cardinality(J) BY DEF Occurs
<1> HIDE DEF t
<1>4. Cardinality(K) = Cardinality(J)
  <2> DEFINE f == [j \in J |-> j + 1]
  <2>1. f \in [J -> K] BY SMTT(30), <1>1, <1>2
  <2>2. \A i, j \in J : f[i] = f[j] => i = j BY <1>2
  <2>3. ASSUME NEW k \in K PROVE \E j \in J : f[j] = k
    <3>1. k - 1 \in J BY SMTT(30), <1>1, <1>2
    <3>2. k \in Nat BY <1>2
    <3> QED BY <3>1, <3>2
  <2> HIDE DEF f, K, J
  <2>4. f \in Bijection(J, K)
    <3>1. f \in Injection(J, K) BY <2>1, <2>2 DEF Injection, IsInjective
    <3>2. f \in Surjection(J, K) BY <2>1, <2>3 DEF Surjection
    <3> QED BY <3>1, <3>2 DEF Bijection
  <2>5. ExistsBijection(J, K) BY <2>4 DEF ExistsBijection
  <2> QED BY <1>3, <2>5, FS_Bijection
<1>5. CASE Head(q) = x
  <2>1. K = I \ {1} /\ 1 \in I BY <1>1, <1>2, <1>5
  <2> HIDE DEF I, J, K
  <2>2. Cardinality(K) = Cardinality(I) - 1 BY <1>3, <2>1, FS_RemoveElement
  <2>3. Cardinality(I) >= 1 BY <1>3, <1>4, <2>2
  <2> QED BY <1>c, <1>3, <1>4, <1>5, <2>2, <2>3 DEF t
<1>6. CASE Head(q) # x
  <2>1. K = I BY <1>1, <1>2, <1>6
  <2> HIDE DEF I, J, K
  <2> QED BY <1>c, <1>3, <1>4, <1>6, <2>1 DEF t
<1> QED BY <1>5, <1>6

(* A value that occurs once has one place. *)
LEMMA OccursOnce ==
  ASSUME NEW T, NEW q \in Seq(T), NEW x, Occurs(x, q) = 1,
         NEW i \in DOMAIN q, NEW j \in DOMAIN q, q[i] = x, q[j] = x
  PROVE  i = j
<1> DEFINE I == {k \in DOMAIN q : q[k] = x}
<1>1. IsFiniteSet(I) /\ Cardinality(I) = 1 BY OccursNatural DEF Occurs
<1>2. i \in I /\ j \in I OBVIOUS
<1> HIDE DEF I
<1> QED BY <1>1, <1>2, FS_Singleton

LEMMA OccursInSet ==
  ASSUME NEW S, NEW x
  PROVE  Cardinality({x} \cap S) = IF x \in S THEN 1 ELSE 0
<1>1. CASE x \in S
  <2>1. {x} \cap S = {x} BY <1>1
  <2> QED BY <1>1, <2>1, FS_Singleton
<1>2. CASE x \notin S
  <2>1. {x} \cap S = {} BY <1>2
  <2> QED BY <1>2, <2>1, FS_EmptySet
<1> QED BY <1>1, <1>2

-----------------------------------------------------------------------------
(* What a stopped camera keeps for the next start: a request with a buffer  *)
(* that is not complete is held, those in converterQueue_ are of that kind, *)
(* and so is the one a converter turned down.                              *)
HeldUntilDone   == \A r \in Requests : pending[r] # {} => r \in ToSet(queuedRequests)
QueuedIsPending == \A r \in ToSet(converterQueue) : pending[r] # {}
LostIsPending   ==
  /\ \A r \in lost \cap Requests : pending[r] # {}
  /\ lost # {} => lost \cap Requests # {}

CountInv ==
  /\ TypeOK /\ Idle /\ WaitsOnce /\ InternalBuffersCirculate
  /\ HeldUntilDone /\ QueuedIsPending /\ LostIsPending

(* The numbers that WaitsOnce adds. *)
LEMMA Numbers ==
  ASSUME TypeOK, NEW x
  PROVE  /\ Occurs(x, converterQueue) \in Nat
         /\ Occurs(x, video) \in Nat /\ Occurs(x, inputs) \in Nat
         /\ Cardinality({x} \cap lost) = IF x \in lost THEN 1 ELSE 0
         /\ \A s \in Streams : Occurs(x, outputs[s]) \in Nat
BY OccursNatural, OccursInSet DEF TypeOK

(* A request that waits somewhere waits nowhere else. *)
LEMMA WaitsHere ==
  ASSUME TypeOK, WaitsOnce, streaming, NEW r \in Requests
  PROVE  /\ r \in ToSet(converterQueue) =>
              /\ pending[r] # {} /\ Occurs(r, converterQueue) = 1 /\ Occurs(r, video) = 0
              /\ r \notin lost /\ \A s \in Streams : Occurs(r, outputs[s]) = 0
         /\ r \in ToSet(video) =>
              /\ pending[r] # {} /\ Occurs(r, converterQueue) = 0 /\ Occurs(r, video) = 1
              /\ r \notin lost /\ \A s \in Streams : Occurs(r, outputs[s]) = 0
         /\ \A s \in Streams : r \in ToSet(outputs[s]) =>
              /\ s \in pending[r] /\ Occurs(r, converterQueue) = 0 /\ Occurs(r, video) = 0
              /\ r \notin lost /\ Occurs(r, outputs[s]) = 1
<1> DEFINE Q == Occurs(r, converterQueue)
           V == Occurs(r, video)
           L == Cardinality({r} \cap lost)
           O(s) == Occurs(r, outputs[s])
<1>1. Q \in Nat /\ V \in Nat /\ L \in {0, 1} /\ (r \in lost <=> L = 1) /\ \A s \in Streams : O(s) \in Nat
  BY Numbers
<1>2. /\ r \in ToSet(converterQueue) <=> Q # 0
      /\ r \in ToSet(video) <=> V # 0
      /\ \A s \in Streams : r \in ToSet(outputs[s]) <=> O(s) # 0
  BY OccursNatural DEF TypeOK
<1>3. \A s \in Streams : IF s \in pending[r] THEN Q + V + L + O(s) = 1
                         ELSE O(s) = 0 /\ (pending[r] = {} => Q + V + L = 0)
  BY DEF WaitsOnce
<1>4. pending[r] \subseteq Streams /\ Streams # {} BY RequestAssumption DEF TypeOK
<1> HIDE DEF Q, V, L, O
<1>5. pending[r] = {} => Q + V + L = 0 BY <1>3, <1>4
<1>6. ASSUME Q # 0 \/ V # 0
      PROVE  /\ pending[r] # {} /\ Q + V = 1 /\ L = 0 /\ \A s \in Streams : O(s) = 0
  <2>1. pending[r] # {} BY <1>1, <1>5, <1>6
  <2>2. PICK s \in Streams : s \in pending[r] BY <1>4, <2>1
  <2>3. Q + V = 1 /\ L = 0 BY <1>1, <1>3, <1>6, <2>2
  <2>4. \A t \in Streams : O(t) = 0 BY <1>1, <1>3, <2>3
  <2> QED BY <2>1, <2>3, <2>4
<1>7. ASSUME NEW s \in Streams, O(s) # 0 PROVE s \in pending[r] /\ Q = 0 /\ V = 0 /\ L = 0 /\ O(s) = 1
  BY <1>1, <1>3, <1>7
<1>8. /\ Q # 0 => pending[r] # {} /\ Q = 1 /\ V = 0 /\ L = 0 /\ \A s \in Streams : O(s) = 0
      /\ V # 0 => pending[r] # {} /\ Q = 0 /\ V = 1 /\ L = 0 /\ \A s \in Streams : O(s) = 0
  BY <1>1, <1>6
<1>9. \A s \in Streams : O(s) # 0 => s \in pending[r] /\ Q = 0 /\ V = 0 /\ L = 0 /\ O(s) = 1
  BY <1>7
<1>10. L = 0 => r \notin lost BY <1>1
<1> QED BY <1>2, <1>8, <1>9, <1>10 DEF Q, V, L, O

(* What an action does to the places where requests wait leaves each of     *)
(* them one place.                                                         *)
LEMMA WaitsStep ==
  ASSUME CountInv, Next
  PROVE  WaitsOnce'
<1> USE DEF CountInv, converter, requests
<1>n. \A r \in Requests :
        /\ Occurs(r, converterQueue) \in Nat /\ Occurs(r, video) \in Nat
        /\ \A s \in Streams : Occurs(r, outputs[s]) \in Nat
  BY Numbers
<1>l. \A r \in Requests : Cardinality({r} \cap lost) = IF r \in lost THEN 1 ELSE 0
  BY Numbers
<1>t. /\ converterQueue \in Seq(Requests) /\ pending \in [Requests -> SUBSET Streams]
      /\ \A s \in Streams : outputs[s] \in Seq(Requests)
      /\ useConverter => video \in Seq(InternalBuffers)
      /\ ~useConverter => video \in Seq(Requests)
      /\ inputs \in Seq(InternalBuffers)
  BY DEF TypeOK
<1>d. Requests \cap InternalBuffers = {} /\ Streams # {} BY RequestAssumption DEF InternalBuffers
<1>1. ASSUME NEW c \in BOOLEAN, Configure(c) PROVE WaitsOnce' BY <1>1 DEF Configure, WaitsOnce
<1>2. CASE Start
  <2>1. queuedRequests = <<>> /\ ToSet(<<>>) = {} BY <1>2 DEF Start, ToSet
  <2>2. \A r \in Requests : pending[r] = {} BY <2>1 DEF HeldUntilDone
  <2>3. lost = {} BY <2>2 DEF LostIsPending
  <2>4. \A r \in Requests : r \notin ToSet(converterQueue) BY <2>2 DEF QueuedIsPending
  <2>5. \A r \in Requests : Occurs(r, converterQueue) = 0 BY <1>t, <2>4, OccursNatural
  <2>6. \A r \in Requests : \A s \in Streams : Occurs(r, outputs[s]) = 0
    BY <1>2, OccursNowhere DEF Start, Idle
  <2>7. \A r \in Requests : Occurs(r, video') = 0
    <3>1. CASE useConverter
      <4>1. video' \in Seq(InternalBuffers) /\ ToSet(video') \subseteq InternalBuffers
        BY <1>2, <3>1, BufferAssumption DEF Start, InternalBuffers, ToSet
      <4> QED BY <4>1, <1>d, OccursNatural
    <3>2. CASE ~useConverter BY <1>2, <3>2, OccursNowhere DEF Start
    <3> QED BY <3>1, <3>2
  <2>8. \A r \in Requests : Cardinality({r} \cap lost) = 0 BY <2>3, <1>l
  <2>9. UNCHANGED <<converterQueue, outputs, pending, lost>> BY <1>2 DEF Start
  <2> QED BY <2>2, <2>5, <2>6, <2>7, <2>8, <2>9 DEF WaitsOnce
<1>q. ASSUME NEW r \in Requests, r \notin ToSet(queuedRequests), streaming
      PROVE  /\ pending[r] = {} /\ Occurs(r, converterQueue) = 0 /\ Occurs(r, video) = 0
             /\ Cardinality({r} \cap lost) = 0 /\ \A s \in Streams : Occurs(r, outputs[s]) = 0
  <2>1. pending[r] = {} BY <1>q DEF HeldUntilDone
  <2>2. ASSUME NEW s \in Streams
        PROVE  /\ Occurs(r, converterQueue) + Occurs(r, video) + Cardinality({r} \cap lost) = 0
               /\ Occurs(r, outputs[s]) = 0
    BY <1>q, <2>1 DEF WaitsOnce
  <2>3. Cardinality({r} \cap lost) \in Nat BY <1>l
  <2>4. Occurs(r, converterQueue) \in Nat /\ Occurs(r, video) \in Nat BY <1>n
  <2>5. PICK u \in Streams : TRUE BY <1>d
  <2>6. Occurs(r, converterQueue) + Occurs(r, video) + Cardinality({r} \cap lost) = 0
    BY <2>2, <2>5
  <2>7. Occurs(r, converterQueue) = 0 /\ Occurs(r, video) = 0 /\ Cardinality({r} \cap lost) = 0
    BY <2>3, <2>4, <2>6
  <2> QED BY <2>1, <2>2, <2>7
<1>3. ASSUME NEW r \in Requests, NEW S \in (SUBSET Streams) \ {{}}, QueueConversion(r, S)
      PROVE  WaitsOnce'
  <2>1. streaming /\ r \notin ToSet(queuedRequests) /\ UNCHANGED <<streaming, video, outputs, lost>>
    BY <1>3 DEF QueueConversion
  <2>2. \A x \in Requests : Occurs(x, converterQueue') =
          IF x = r THEN Occurs(x, converterQueue) + 1 ELSE Occurs(x, converterQueue)
    BY <1>3, <1>t, OccursAppend DEF QueueConversion
  <2>3. \A x \in Requests : pending'[x] = IF x = r THEN S ELSE pending[x]
    BY <1>3, <1>t DEF QueueConversion
  <2> SUFFICES ASSUME NEW x \in Requests, NEW s \in Streams
               PROVE  LET w == Occurs(x, converterQueue') + Occurs(x, video)
                               + Cardinality({x} \cap lost)
                      IN  IF s \in pending'[x] THEN w + Occurs(x, outputs[s]) = 1
                          ELSE Occurs(x, outputs[s]) = 0 /\ (pending'[x] = {} => w = 0)
    BY <2>1 DEF WaitsOnce
  <2>4. CASE x = r
    <3>1. S # {} /\ pending'[x] = S BY <2>3, <2>4
    <3> QED BY <1>q, <2>1, <2>2, <2>4, <3>1
  <2>5. CASE x # r
    <3>1. pending'[x] = pending[x] /\ Occurs(x, converterQueue') = Occurs(x, converterQueue)
      BY <2>2, <2>3, <2>5, <1>n
    <3> QED BY <2>1, <3>1 DEF WaitsOnce
  <2> QED BY <2>4, <2>5
<1>4. ASSUME NEW r \in Requests, NEW s \in Streams, QueueCapture(r, s) PROVE WaitsOnce'
  <2>1. /\ streaming /\ r \notin ToSet(queuedRequests) /\ ~useConverter
        /\ UNCHANGED <<streaming, converterQueue, outputs, lost>>
    BY <1>4 DEF QueueCapture
  <2>2. \A x \in Requests : Occurs(x, video') = IF x = r THEN Occurs(x, video) + 1 ELSE Occurs(x, video)
    BY <1>4, <1>t, <2>1, OccursAppend DEF QueueCapture
  <2>3. \A x \in Requests : pending'[x] = IF x = r THEN {s} ELSE pending[x]
    BY <1>4, <1>t DEF QueueCapture
  <2> SUFFICES ASSUME NEW x \in Requests, NEW u \in Streams
               PROVE  LET w == Occurs(x, converterQueue) + Occurs(x, video')
                               + Cardinality({x} \cap lost)
                      IN  IF u \in pending'[x] THEN w + Occurs(x, outputs[u]) = 1
                          ELSE Occurs(x, outputs[u]) = 0 /\ (pending'[x] = {} => w = 0)
    BY <2>1 DEF WaitsOnce
  <2>4. CASE x = r
    <3>1. pending'[x] # {} BY <2>3, <2>4
    <3> QED BY <1>q, <2>1, <2>2, <2>4, <3>1
  <2>5. CASE x # r
    <3>1. pending'[x] = pending[x] /\ Occurs(x, video') = Occurs(x, video)
      BY <2>2, <2>3, <2>5, <1>n
    <3> QED BY <2>1, <3>1 DEF WaitsOnce
  <2> QED BY <2>4, <2>5
<1>5. ASSUME NEW r \in Requests, QueueCaptureFails(r) PROVE WaitsOnce'
  BY <1>5 DEF QueueCaptureFails, WaitsOnce
<1>r. ASSUME video # <<>>, useConverter, NEW r \in Requests
      PROVE  /\ Occurs(r, Append(Tail(video), Head(video))) = Occurs(r, video)
             /\ Occurs(r, Tail(video)) = Occurs(r, video)
  <2>1. Head(video) \in InternalBuffers /\ Tail(video) \in Seq(InternalBuffers)
    BY <1>t, <1>r, TailElements
  <2>2. Head(video) # r BY <2>1, <1>d
  <2>3. Occurs(r, Tail(video)) = Occurs(r, video) BY <1>t, <1>r, <1>n, <1>d, <2>2, OccursTail, Numbers
  <2>4. Occurs(r, Append(Tail(video), Head(video))) = Occurs(r, Tail(video))
    BY <2>1, <2>2, OccursAppend
  <2> QED BY <2>3, <2>4
<1>6. CASE FrameUnused
  <2>1. UNCHANGED <<streaming, converterQueue, outputs, pending, lost>> BY <1>6 DEF FrameUnused
  <2>2. \A r \in Requests : Occurs(r, video') = Occurs(r, video)
    BY <1>6, <1>r DEF FrameUnused, FrameReady
  <2> QED BY <2>1, <2>2 DEF WaitsOnce
<1>w. ASSUME NEW done, Complete(Without(done))
      PROVE  \A r \in Requests : pending'[r] = IF r \in done THEN {} ELSE pending[r]
  BY <1>w DEF Complete, Without
<1>7. CASE CaptureComplete
  <2> DEFINE h == Head(video)
  <2>1. /\ ~useConverter /\ video # <<>> /\ streaming /\ video' = Tail(video)
        /\ UNCHANGED <<streaming, converterQueue, outputs, lost>>
    BY <1>7 DEF CaptureComplete, FrameReady
  <2>2. h \in Requests /\ h \in ToSet(video) BY <1>t, <2>1, TailElements
  <2>3. \A r \in Requests : Occurs(r, video') = IF r = h THEN Occurs(r, video) - 1 ELSE Occurs(r, video)
    BY <1>t, <2>1, OccursTail
  <2>4. \A r \in Requests : pending'[r] = IF r = h THEN {} ELSE pending[r]
    BY <1>7, <1>w DEF CaptureComplete
  <2>5. /\ Occurs(h, converterQueue) = 0 /\ Occurs(h, video) = 1 /\ h \notin lost
        /\ \A s \in Streams : Occurs(h, outputs[s]) = 0
    BY <2>1, <2>2, WaitsHere
  <2> HIDE DEF h
  <2> SUFFICES ASSUME NEW x \in Requests, NEW u \in Streams
               PROVE  LET w == Occurs(x, converterQueue) + Occurs(x, video')
                               + Cardinality({x} \cap lost)
                      IN  IF u \in pending'[x] THEN w + Occurs(x, outputs[u]) = 1
                          ELSE Occurs(x, outputs[u]) = 0 /\ (pending'[x] = {} => w = 0)
    BY <2>1 DEF WaitsOnce
  <2>6. CASE x = h
    <3>1. /\ pending'[x] = {} /\ Cardinality({x} \cap lost) = 0 /\ Occurs(x, converterQueue) = 0
          /\ Occurs(x, outputs[u]) = 0
      BY <1>l, <2>4, <2>5, <2>6
    <3>2. Occurs(x, video') = 0 BY <2>3, <2>5, <2>6
    <3> QED BY <3>1, <3>2
  <2>7. CASE x # h
    <3>1. pending'[x] = pending[x] /\ Occurs(x, video') = Occurs(x, video)
      BY <2>3, <2>4, <2>7, <1>n
    <3> QED BY <2>1, <3>1 DEF WaitsOnce
  <2> QED BY <2>6, <2>7
<1>h. converterQueue # <<>> =>
        /\ Head(converterQueue) \in Requests /\ Head(converterQueue) \in ToSet(converterQueue)
        /\ \A r \in Requests : Occurs(r, Tail(converterQueue)) =
             IF r = Head(converterQueue) THEN Occurs(r, converterQueue) - 1 ELSE Occurs(r, converterQueue)
  BY <1>t, TailElements, OccursTail
<1>8. CASE FrameWithoutConversion
  <2> DEFINE h == Head(converterQueue)
  <2>1. /\ useConverter /\ video # <<>> /\ streaming /\ converterQueue # <<>>
        /\ converterQueue' = Tail(converterQueue)
        /\ video' = Append(Tail(video), Head(video))
        /\ UNCHANGED <<streaming, outputs, lost>>
    BY <1>8 DEF FrameWithoutConversion, FrameReady
  <2>2. /\ h \in Requests /\ h \in ToSet(converterQueue)
        /\ \A r \in Requests : Occurs(r, converterQueue') = IF r = h THEN Occurs(r, converterQueue) - 1 ELSE Occurs(r, converterQueue)
    BY <1>h, <2>1
  <2>3. \A r \in Requests : Occurs(r, video') = Occurs(r, video) BY <1>r, <2>1
  <2>4. \A r \in Requests : pending'[r] = IF r = h THEN {} ELSE pending[r]
    BY <1>8, <1>w DEF FrameWithoutConversion
  <2>5. /\ Occurs(h, converterQueue) = 1 /\ Occurs(h, video) = 0 /\ h \notin lost
        /\ \A s \in Streams : Occurs(h, outputs[s]) = 0
    BY <2>1, <2>2, WaitsHere
  <2> HIDE DEF h
  <2> SUFFICES ASSUME NEW x \in Requests, NEW u \in Streams
               PROVE  LET w == Occurs(x, converterQueue') + Occurs(x, video')
                               + Cardinality({x} \cap lost)
                      IN  IF u \in pending'[x] THEN w + Occurs(x, outputs[u]) = 1
                          ELSE Occurs(x, outputs[u]) = 0 /\ (pending'[x] = {} => w = 0)
    BY <2>1 DEF WaitsOnce
  <2>6. CASE x = h
    <3>1. /\ pending'[x] = {} /\ Cardinality({x} \cap lost) = 0 /\ Occurs(x, video') = 0
          /\ Occurs(x, outputs[u]) = 0
      BY <1>l, <2>3, <2>4, <2>5, <2>6
    <3>2. Occurs(x, converterQueue') = 0 BY <2>2, <2>5, <2>6
    <3> QED BY <3>1, <3>2
  <2>7. CASE x # h
    <3>1. /\ pending'[x] = pending[x] /\ Occurs(x, video') = Occurs(x, video)
          /\ Occurs(x, converterQueue') = Occurs(x, converterQueue)
      BY <2>2, <2>3, <2>4, <2>7, <1>n
    <3> QED BY <2>1, <3>1 DEF WaitsOnce
  <2> QED BY <2>6, <2>7
<1>9. CASE QueueBuffers
  <2> DEFINE h == Head(converterQueue)
  <2>1. /\ useConverter /\ video # <<>> /\ streaming /\ converterQueue # <<>>
        /\ converterQueue' = Tail(converterQueue) /\ video' = Tail(video)
        /\ \A s \in Streams :
             outputs'[s] = IF s \in pending[h] THEN Append(outputs[s], h) ELSE outputs[s]
        /\ UNCHANGED <<streaming, pending, lost>>
    BY <1>9 DEF QueueBuffers, HandToConverter, FrameReady
  <2>2. /\ h \in Requests /\ h \in ToSet(converterQueue)
        /\ \A r \in Requests : Occurs(r, converterQueue') = IF r = h THEN Occurs(r, converterQueue) - 1 ELSE Occurs(r, converterQueue)
    BY <1>h, <2>1
  <2>3. \A r \in Requests : Occurs(r, video') = Occurs(r, video) BY <1>r, <2>1
  <2>4. /\ pending[h] # {} /\ Occurs(h, converterQueue) = 1 /\ Occurs(h, video) = 0 /\ h \notin lost
        /\ \A s \in Streams : Occurs(h, outputs[s]) = 0
    BY <2>1, <2>2, WaitsHere
  <2> HIDE DEF h
  <2>5. \A r \in Requests : \A s \in Streams : Occurs(r, outputs'[s]) =
          IF r = h /\ s \in pending[h] THEN Occurs(r, outputs[s]) + 1 ELSE Occurs(r, outputs[s])
    <3> SUFFICES ASSUME NEW r \in Requests, NEW s \in Streams
                 PROVE  Occurs(r, outputs'[s]) =
                          IF r = h /\ s \in pending[h] THEN Occurs(r, outputs[s]) + 1 ELSE Occurs(r, outputs[s])
      OBVIOUS
    <3>1. Occurs(r, Append(outputs[s], h)) = IF r = h THEN Occurs(r, outputs[s]) + 1 ELSE Occurs(r, outputs[s])
      BY <1>t, <2>2, OccursAppend
    <3> QED BY <1>n, <2>1, <3>1
  <2> SUFFICES ASSUME NEW x \in Requests, NEW u \in Streams
               PROVE  LET w == Occurs(x, converterQueue') + Occurs(x, video')
                               + Cardinality({x} \cap lost)
                      IN  IF u \in pending[x] THEN w + Occurs(x, outputs'[u]) = 1
                          ELSE Occurs(x, outputs'[u]) = 0 /\ (pending[x] = {} => w = 0)
    BY <2>1 DEF WaitsOnce
  <2>6. CASE x = h
    <3>1. pending[x] # {} /\ Cardinality({x} \cap lost) = 0 /\ Occurs(x, video') = 0
      BY <1>l, <2>3, <2>4, <2>6
    <3>2. Occurs(x, converterQueue') = 0 BY <2>2, <2>4, <2>6
    <3>3. Occurs(x, outputs'[u]) = IF u \in pending[x] THEN 1 ELSE 0 BY <2>4, <2>5, <2>6
    <3> QED BY <3>1, <3>2, <3>3
  <2>7. CASE x # h
    <3>1. /\ Occurs(x, video') = Occurs(x, video) /\ Occurs(x, outputs'[u]) = Occurs(x, outputs[u])
          /\ Occurs(x, converterQueue') = Occurs(x, converterQueue)
      BY <2>2, <2>3, <2>5, <2>7, <1>n
    <3> QED BY <2>1, <3>1 DEF WaitsOnce
  <2> QED BY <2>6, <2>7
<1>10. CASE QueueBuffersFails
  <2> DEFINE h == Head(converterQueue)
  <2>1. /\ useConverter /\ video # <<>> /\ streaming /\ converterQueue # <<>>
        /\ converterQueue' = Tail(converterQueue) /\ video' = Tail(video)
        /\ lost = {} /\ lost' = {Head(video), h}
        /\ UNCHANGED <<streaming, pending, outputs>>
    BY <1>10 DEF QueueBuffersFails, FrameReady
  <2>2. /\ h \in Requests /\ h \in ToSet(converterQueue)
        /\ \A r \in Requests : Occurs(r, converterQueue') = IF r = h THEN Occurs(r, converterQueue) - 1 ELSE Occurs(r, converterQueue)
    BY <1>h, <2>1
  <2>3. \A r \in Requests : Occurs(r, video') = Occurs(r, video) BY <1>r, <2>1
  <2>4. /\ pending[h] # {} /\ Occurs(h, converterQueue) = 1 /\ Occurs(h, video) = 0
        /\ \A s \in Streams : Occurs(h, outputs[s]) = 0
    BY <2>1, <2>2, WaitsHere
  <2>5. Head(video) \notin Requests BY <1>t, <1>d, <2>1, TailElements
  <2> HIDE DEF h
  <2>6. \A r \in Requests : Cardinality({r} \cap lost') = IF r = h THEN 1 ELSE 0
    BY <2>1, <2>5, OccursInSet
  <2> SUFFICES ASSUME NEW x \in Requests, NEW u \in Streams
               PROVE  LET w == Occurs(x, converterQueue') + Occurs(x, video')
                               + Cardinality({x} \cap lost')
                      IN  IF u \in pending[x] THEN w + Occurs(x, outputs[u]) = 1
                          ELSE Occurs(x, outputs[u]) = 0 /\ (pending[x] = {} => w = 0)
    BY <2>1 DEF WaitsOnce
  <2>7. CASE x = h BY <1>n, <2>2, <2>3, <2>4, <2>6, <2>7
  <2>8. CASE x # h
    <3>1. /\ Occurs(x, video') = Occurs(x, video)
          /\ Cardinality({x} \cap lost') = Cardinality({x} \cap lost)
          /\ Occurs(x, converterQueue') = Occurs(x, converterQueue)
      BY <2>1, <2>2, <2>3, <2>6, <2>8, <1>n
    <3> QED BY <2>1, <3>1 DEF WaitsOnce
  <2> QED BY <2>7, <2>8
<1>11. CASE ConverterInputDone
  <2>1. /\ useConverter /\ inputs # <<>> /\ video' = Append(video, Head(inputs))
        /\ UNCHANGED <<streaming, converterQueue, outputs, pending, lost>>
    BY <1>11 DEF ConverterInputDone, Idle
  <2>2. Head(inputs) \in InternalBuffers BY <1>t, <2>1, TailElements
  <2>3. \A r \in Requests : Occurs(r, video') = Occurs(r, video)
    <3> SUFFICES ASSUME NEW r \in Requests PROVE Occurs(r, video') = Occurs(r, video) OBVIOUS
    <3>1. Head(inputs) # r BY <1>d, <2>2
    <3> QED BY <1>t, <2>1, <2>2, <3>1, OccursAppend, Numbers
  <2> QED BY <2>1, <2>3 DEF WaitsOnce
<1>12. ASSUME NEW s \in Streams, ConverterOutputDone(s) PROVE WaitsOnce'
  <2> DEFINE h == Head(outputs[s])
  <2>1. /\ streaming /\ outputs[s] # <<>>
        /\ UNCHANGED <<streaming, converterQueue, video, lost>>
        /\ outputs' = [outputs EXCEPT ![s] = Tail(@)]
        /\ pending' = [pending EXCEPT ![h] = @ \ {s}]
    BY <1>12 DEF ConverterOutputDone, Idle, Complete
  <2>2. h \in Requests /\ h \in ToSet(outputs[s]) BY <1>t, <2>1, TailElements
  <2>3. \A r \in Requests : \A t \in Streams : Occurs(r, outputs'[t]) =
          IF r = h /\ t = s THEN Occurs(r, outputs[t]) - 1 ELSE Occurs(r, outputs[t])
    <3> SUFFICES ASSUME NEW r \in Requests, NEW t \in Streams
                 PROVE  Occurs(r, outputs'[t]) = IF r = h /\ t = s THEN Occurs(r, outputs[t]) - 1 ELSE Occurs(r, outputs[t])
      OBVIOUS
    <3>1. outputs'[t] = IF t = s THEN Tail(outputs[s]) ELSE outputs[t] BY <2>1 DEF TypeOK
    <3>2. Occurs(r, Tail(outputs[s])) = IF r = h THEN Occurs(r, outputs[s]) - 1 ELSE Occurs(r, outputs[s])
      BY <1>t, <2>1, OccursTail
    <3> QED BY <1>n, <3>1, <3>2
  <2>4. \A r \in Requests : pending'[r] = IF r = h THEN pending[r] \ {s} ELSE pending[r]
    BY <1>t, <2>1, <2>2
  <2>5. /\ s \in pending[h] /\ Occurs(h, converterQueue) = 0 /\ Occurs(h, video) = 0 /\ h \notin lost
        /\ Occurs(h, outputs[s]) = 1
    BY <2>1, <2>2, WaitsHere
  <2> HIDE DEF h
  <2> SUFFICES ASSUME NEW x \in Requests, NEW u \in Streams
               PROVE  LET w == Occurs(x, converterQueue) + Occurs(x, video)
                               + Cardinality({x} \cap lost)
                      IN  IF u \in pending'[x] THEN w + Occurs(x, outputs'[u]) = 1
                          ELSE Occurs(x, outputs'[u]) = 0 /\ (pending'[x] = {} => w = 0)
    BY <2>1 DEF WaitsOnce
  <2>6. CASE x = h
    <3>2. /\ Occurs(x, converterQueue) = 0 /\ Occurs(x, video) = 0 /\ Cardinality({x} \cap lost) = 0
      BY <1>l, <2>5, <2>6
    <3>5. /\ u \in pending[x] => Occurs(x, converterQueue) + Occurs(x, video)
                                 + Cardinality({x} \cap lost) + Occurs(x, outputs[u]) = 1
          /\ u \notin pending[x] => Occurs(x, outputs[u]) = 0
      BY <2>1 DEF WaitsOnce
    <3>1. IF u \in pending[x] THEN Occurs(x, outputs[u]) = 1 ELSE Occurs(x, outputs[u]) = 0
      BY <1>n, <3>2, <3>5
    <3>3. Occurs(x, outputs'[u]) = IF u = s THEN Occurs(x, outputs[u]) - 1 ELSE Occurs(x, outputs[u])
      BY <2>2, <2>3, <2>6
    <3>4. pending'[x] = pending[x] \ {s} BY <2>2, <2>4, <2>6
    <3> QED BY <2>5, <2>6, <3>1, <3>2, <3>3, <3>4
  <2>7. CASE x # h
    <3>1. pending'[x] = pending[x] /\ Occurs(x, outputs'[u]) = Occurs(x, outputs[u])
      BY <2>3, <2>4, <2>7, <1>n
    <3> QED BY <2>1, <3>1 DEF WaitsOnce
  <2> QED BY <2>6, <2>7
<1>13. CASE Stop
  <2>1. PICK n : CancelFrames(n) BY <1>13 DEF Stop
  <2> QED BY <2>1 DEF CancelFrames, WaitsOnce
<1> QED BY <1>1, <1>2, <1>3, <1>4, <1>5, <1>6, <1>7, <1>8, <1>9, <1>10, <1>11, <1>12, <1>13
        DEF Next, Device

(* What an action takes from the video device it hands to the converter, or *)
(* back.                                                                   *)
LEMMA CirculateStep ==
  ASSUME CountInv, Next
  PROVE  InternalBuffersCirculate'
<1> USE DEF CountInv, converter, requests
<1>t. /\ converterQueue \in Seq(Requests)
      /\ useConverter => video \in Seq(InternalBuffers)
      /\ inputs \in Seq(InternalBuffers)
  BY DEF TypeOK
<1>n. \A b \in InternalBuffers :
        Occurs(b, video) \in Nat /\ Occurs(b, inputs) \in Nat
  BY Numbers
<1>d. Requests \cap InternalBuffers = {} BY RequestAssumption DEF InternalBuffers
<1>c. streaming /\ useConverter => \A b \in InternalBuffers :
        Occurs(b, video) + Occurs(b, inputs) + Cardinality({b} \cap lost) = 1
  BY DEF InternalBuffersCirculate
<1>s. ASSUME useConverter, video # <<>>
      PROVE  /\ Head(video) \in InternalBuffers /\ Tail(video) \in Seq(InternalBuffers)
             /\ Head(video) \in ToSet(video)
             /\ \A b \in InternalBuffers : Occurs(b, Tail(video)) =
                  IF b = Head(video) THEN Occurs(b, video) - 1 ELSE Occurs(b, video)
  BY <1>t, <1>s, TailElements, OccursTail
<1>b. ASSUME useConverter, video # <<>>, NEW b \in InternalBuffers
      PROVE  Occurs(b, Append(Tail(video), Head(video))) = Occurs(b, video)
  <2>1. Occurs(b, Append(Tail(video), Head(video))) =
          IF b = Head(video) THEN Occurs(b, Tail(video)) + 1 ELSE Occurs(b, Tail(video))
    BY <1>b, <1>s, OccursAppend
  <2>2. Occurs(b, video) \in Nat BY <1>n
  <2> QED BY <1>b, <1>s, <2>1, <2>2
<1>1. ASSUME NEW c \in BOOLEAN, Configure(c) PROVE InternalBuffersCirculate'
  BY <1>1 DEF Configure, InternalBuffersCirculate
<1>2. CASE Start
  <2>1. queuedRequests = <<>> /\ ToSet(<<>>) = {} /\ inputs = <<>> BY <1>2 DEF Start, ToSet, Idle
  <2>2. \A r \in Requests : pending[r] = {} BY <2>1 DEF HeldUntilDone
  <2>3. lost = {} BY <2>2 DEF LostIsPending
  <2>4. UNCHANGED <<useConverter, inputs, lost>> BY <1>2 DEF Start
  <2>5. ASSUME useConverter, NEW b \in InternalBuffers
        PROVE  Occurs(b, video') = 1 /\ Occurs(b, inputs) = 0 /\ Cardinality({b} \cap lost) = 0
    <3>1. video' = [i \in InternalBuffers |-> i] BY <1>2, <2>5 DEF Start
    <3>2. {i \in DOMAIN video' : video'[i] = b} = {b} BY <2>5, <3>1
    <3>3. Occurs(b, video') = 1 BY <3>2, FS_Singleton DEF Occurs
    <3>4. {b} \cap lost = {} BY <2>3
    <3> QED BY <2>1, <3>3, <3>4, OccursNowhere, FS_EmptySet
  <2> QED BY <2>4, <2>5 DEF InternalBuffersCirculate
<1>3. ASSUME NEW r \in Requests, NEW S \in (SUBSET Streams) \ {{}}, QueueConversion(r, S)
      PROVE  InternalBuffersCirculate'
  BY <1>3 DEF QueueConversion, InternalBuffersCirculate
<1>4. ASSUME NEW r \in Requests, NEW s \in Streams, QueueCapture(r, s)
      PROVE  InternalBuffersCirculate'
  BY <1>4 DEF QueueCapture, InternalBuffersCirculate
<1>5. ASSUME NEW r \in Requests, QueueCaptureFails(r) PROVE InternalBuffersCirculate'
  BY <1>5 DEF QueueCaptureFails, InternalBuffersCirculate
<1>6. CASE FrameUnused \/ FrameWithoutConversion
  <2>1. /\ useConverter /\ video # <<>> /\ video' = Append(Tail(video), Head(video))
        /\ UNCHANGED <<useConverter, streaming, inputs, lost>>
    BY <1>6 DEF FrameUnused, FrameWithoutConversion, FrameReady
  <2>2. \A b \in InternalBuffers : Occurs(b, video') = Occurs(b, video) BY <1>b, <2>1
  <2> QED BY <2>1, <2>2 DEF InternalBuffersCirculate
<1>7. CASE CaptureComplete
  BY <1>7 DEF CaptureComplete, InternalBuffersCirculate
<1>8. CASE QueueBuffers
  <2> DEFINE h == Head(video)
  <2>1. /\ useConverter /\ streaming /\ video # <<>> /\ video' = Tail(video)
        /\ inputs' = Append(inputs, h) /\ UNCHANGED <<useConverter, streaming, lost>>
    BY <1>8 DEF QueueBuffers, HandToConverter, FrameReady
  <2>2. \A b \in InternalBuffers :
          /\ Occurs(b, video') = IF b = h THEN Occurs(b, video) - 1 ELSE Occurs(b, video)
          /\ Occurs(b, inputs') = IF b = h THEN Occurs(b, inputs) + 1 ELSE Occurs(b, inputs)
    BY <1>t, <1>s, <2>1, OccursAppend
  <2> HIDE DEF h
  <2>3. ASSUME NEW b \in InternalBuffers
        PROVE  Occurs(b, video') + Occurs(b, inputs') + Cardinality({b} \cap lost) = 1
    <3>1. Occurs(b, video) + Occurs(b, inputs) + Cardinality({b} \cap lost) = 1 BY <1>c, <2>1
    <3>2. Occurs(b, video) \in Nat /\ Occurs(b, inputs) \in Nat /\ Cardinality({b} \cap lost) \in Nat
      BY <1>n, OccursInSet
    <3>3. CASE b = h BY <2>2, <3>1, <3>2, <3>3
    <3>4. CASE b # h BY <2>2, <3>1, <3>4
    <3> QED BY <3>3, <3>4
  <2> QED BY <2>1, <2>3 DEF InternalBuffersCirculate
<1>9. CASE QueueBuffersFails
  <2> DEFINE h == Head(video)
  <2>1. /\ useConverter /\ streaming /\ video # <<>> /\ converterQueue # <<>> /\ video' = Tail(video)
        /\ lost = {} /\ lost' = {h, Head(converterQueue)}
        /\ UNCHANGED <<useConverter, streaming, inputs>>
    BY <1>9 DEF QueueBuffersFails, FrameReady
  <2>2. \A b \in InternalBuffers :
          Occurs(b, video') = IF b = h THEN Occurs(b, video) - 1 ELSE Occurs(b, video)
    BY <1>s, <2>1
  <2>3. Head(converterQueue) \notin InternalBuffers BY <1>t, <1>d, <2>1, TailElements
  <2>4. \A b \in InternalBuffers : Cardinality({b} \cap lost') = IF b = h THEN 1 ELSE 0
    BY <2>1, <2>3, OccursInSet
  <2>5. \A b \in InternalBuffers : Cardinality({b} \cap lost) = 0 BY <2>1, OccursInSet
  <2> HIDE DEF h
  <2>6. ASSUME NEW b \in InternalBuffers
        PROVE  Occurs(b, video') + Occurs(b, inputs) + Cardinality({b} \cap lost') = 1
    <3>1. Occurs(b, video) + Occurs(b, inputs) + Cardinality({b} \cap lost) = 1 BY <1>c, <2>1
    <3>2. Occurs(b, video) \in Nat /\ Occurs(b, inputs) \in Nat BY <1>n
    <3>3. CASE b = h
      <4>1. Occurs(b, video') = Occurs(b, video) - 1 /\ Cardinality({b} \cap lost') = 1
            /\ Cardinality({b} \cap lost) = 0
        BY <2>2, <2>4, <2>5, <3>3
      <4> QED BY <3>1, <3>2, <4>1
    <3>4. CASE b # h
      <4>1. Occurs(b, video') = Occurs(b, video)
            /\ Cardinality({b} \cap lost') = Cardinality({b} \cap lost)
        BY <2>2, <2>4, <2>5, <3>4
      <4> QED BY <3>1, <4>1
    <3> QED BY <3>3, <3>4
  <2> QED BY <2>1, <2>6 DEF InternalBuffersCirculate
<1>10. CASE ConverterInputDone
  <2> DEFINE h == Head(inputs)
  <2>1. /\ useConverter /\ streaming /\ inputs # <<>> /\ video' = Append(video, h)
        /\ inputs' = Tail(inputs) /\ UNCHANGED <<useConverter, streaming, lost>>
    BY <1>10 DEF ConverterInputDone, Idle
  <2>2. h \in InternalBuffers BY <1>t, <2>1, TailElements
  <2>3. \A b \in InternalBuffers :
          /\ Occurs(b, video') = IF b = h THEN Occurs(b, video) + 1 ELSE Occurs(b, video)
          /\ Occurs(b, inputs') = IF b = h THEN Occurs(b, inputs) - 1 ELSE Occurs(b, inputs)
    BY <1>t, <2>1, <2>2, OccursAppend, OccursTail
  <2> HIDE DEF h
  <2>4. ASSUME NEW b \in InternalBuffers
        PROVE  Occurs(b, video') + Occurs(b, inputs') + Cardinality({b} \cap lost) = 1
    <3>1. Occurs(b, video) + Occurs(b, inputs) + Cardinality({b} \cap lost) = 1 BY <1>c, <2>1
    <3>2. Occurs(b, video) \in Nat /\ Occurs(b, inputs) \in Nat /\ Cardinality({b} \cap lost) \in Nat
      BY <1>n, OccursInSet
    <3>3. CASE b = h BY <2>3, <3>1, <3>2, <3>3
    <3>4. CASE b # h BY <2>3, <3>1, <3>4
    <3> QED BY <3>3, <3>4
  <2> QED BY <2>1, <2>4 DEF InternalBuffersCirculate
<1>11. ASSUME NEW s \in Streams, ConverterOutputDone(s) PROVE InternalBuffersCirculate'
  BY <1>11 DEF ConverterOutputDone, InternalBuffersCirculate
<1>12. CASE Stop
  <2>1. PICK n : CancelFrames(n) BY <1>12 DEF Stop
  <2> QED BY <2>1 DEF CancelFrames, InternalBuffersCirculate
<1> QED BY <1>1, <1>2, <1>3, <1>4, <1>5, <1>6, <1>7, <1>8, <1>9, <1>10, <1>11, <1>12
        DEF Next, Device

(* A request that completes is none of those that a stop would leave. *)
LEMMA HeldStep ==
  ASSUME CountInv, Next
  PROVE  HeldUntilDone' /\ QueuedIsPending' /\ LostIsPending'
<1> USE DEF CountInv, converter, requests
<1>t. /\ converterQueue \in Seq(Requests) /\ pending \in [Requests -> SUBSET Streams]
      /\ queuedRequests \in Seq(Requests) /\ \A s \in Streams : outputs[s] \in Seq(Requests)
      /\ useConverter => video \in Seq(InternalBuffers)
      /\ ~useConverter => video \in Seq(Requests)
  BY DEF TypeOK
<1>d. Requests \cap InternalBuffers = {} /\ Streams # {} BY RequestAssumption DEF InternalBuffers
<1>h. ASSUME NEW left \in [Requests -> SUBSET Streams],
             \A r \in Requests : left[r] \subseteq pending[r], Complete(left)
      PROVE  HeldUntilDone'
  <2>1. \A r \in Requests : left[r] # {} => r \in ToSet(queuedRequests) BY <1>h DEF HeldUntilDone
  <2> QED BY <1>h, <1>t, <2>1, HeldRequests DEF Complete, HeldUntilDone
<1>w. ASSUME NEW done
      PROVE  /\ Without(done) \in [Requests -> SUBSET Streams]
             /\ \A r \in Requests : Without(done)[r] = IF r \in done THEN {} ELSE pending[r]
  BY <1>t DEF Without
<1>k. ASSUME ToSet(converterQueue') \subseteq ToSet(converterQueue), lost' = lost,
             \A r \in Requests :
               r \in ToSet(converterQueue') \/ r \in lost => pending'[r] = pending[r]
      PROVE  QueuedIsPending' /\ LostIsPending'
  <2>1. ToSet(converterQueue) \subseteq Requests BY <1>t DEF ToSet
  <2> QED BY <1>k, <2>1 DEF QueuedIsPending, LostIsPending
<1>a. ASSUME NEW q \in Seq(Requests), NEW r \in Requests
      PROVE  ToSet(Append(q, r)) = ToSet(q) \cup {r}
  BY <1>a, AppendElements
<1>1. CASE UNCHANGED <<queuedRequests, pending, converterQueue, lost>>
  BY <1>1 DEF HeldUntilDone, QueuedIsPending, LostIsPending
<1>3. ASSUME NEW r \in Requests, NEW S \in (SUBSET Streams) \ {{}}, QueueConversion(r, S)
      PROVE  HeldUntilDone' /\ QueuedIsPending' /\ LostIsPending'
  <2>1. /\ \A x \in Requests : pending'[x] = IF x = r THEN S ELSE pending[x]
        /\ ToSet(queuedRequests') = ToSet(queuedRequests) \cup {r}
        /\ ToSet(converterQueue') = ToSet(converterQueue) \cup {r} /\ lost' = lost
    BY <1>3, <1>t, <1>a DEF QueueConversion
  <2>2. ToSet(converterQueue) \subseteq Requests BY <1>t DEF ToSet
  <2> QED BY <2>1, <2>2 DEF HeldUntilDone, QueuedIsPending, LostIsPending
<1>4. ASSUME NEW r \in Requests, NEW s \in Streams, QueueCapture(r, s)
      PROVE  HeldUntilDone' /\ QueuedIsPending' /\ LostIsPending'
  <2>1. /\ \A x \in Requests : pending'[x] = IF x = r THEN {s} ELSE pending[x]
        /\ ToSet(queuedRequests') = ToSet(queuedRequests) \cup {r}
        /\ converterQueue' = converterQueue /\ lost' = lost
    BY <1>4, <1>t, <1>a DEF QueueCapture
  <2>2. ToSet(converterQueue) \subseteq Requests BY <1>t DEF ToSet
  <2> QED BY <2>1, <2>2 DEF HeldUntilDone, QueuedIsPending, LostIsPending
<1>5. ASSUME NEW r \in Requests, QueueCaptureFails(r)
      PROVE  HeldUntilDone' /\ QueuedIsPending' /\ LostIsPending'
  <2>1. /\ queuedRequests' = Held(Append(queuedRequests, r), pending)
        /\ UNCHANGED <<pending, converterQueue, lost>>
    BY <1>5 DEF QueueCaptureFails
  <2>2. Append(queuedRequests, r) \in Seq(Requests) BY <1>t
  <2>3. \A x \in Requests : pending[x] # {} => x \in ToSet(Append(queuedRequests, r))
    BY <1>t, <1>a DEF HeldUntilDone
  <2>4. HeldUntilDone' BY <1>t, <2>1, <2>2, <2>3, HeldRequests DEF HeldUntilDone
  <2> QED BY <2>1, <2>4 DEF QueuedIsPending, LostIsPending
<1>7. CASE CaptureComplete
  <2> DEFINE h == Head(video)
  <2>1. /\ ~useConverter /\ video # <<>> /\ streaming /\ Complete(Without({h}))
        /\ UNCHANGED <<converterQueue, lost>>
    BY <1>7 DEF CaptureComplete, FrameReady
  <2>2. h \in Requests /\ h \in ToSet(video) BY <1>t, <2>1, TailElements
  <2>3. h \notin ToSet(converterQueue) /\ h \notin lost
    <3>1. Occurs(h, converterQueue) = 0 /\ h \notin lost BY <2>1, <2>2, WaitsHere
    <3> QED BY <1>t, <3>1, OccursNatural
  <2>4. HeldUntilDone' BY <1>h, <1>w, <2>1
  <2>5. \A r \in Requests : pending'[r] = IF r = h THEN {} ELSE pending[r]
    BY <1>w, <2>1 DEF Complete
  <2> QED BY <1>k, <2>1, <2>3, <2>4, <2>5
<1>q. ASSUME converterQueue # <<>>, streaming
      PROVE  /\ Head(converterQueue) \in Requests /\ Head(converterQueue) \in ToSet(converterQueue)
             /\ Head(converterQueue) \notin ToSet(Tail(converterQueue))
             /\ ToSet(Tail(converterQueue)) \subseteq ToSet(converterQueue)
             /\ Head(converterQueue) \notin lost /\ pending[Head(converterQueue)] # {}
  <2> DEFINE h == Head(converterQueue)
  <2>1. /\ h \in Requests /\ h \in ToSet(converterQueue) /\ Tail(converterQueue) \in Seq(Requests)
        /\ ToSet(Tail(converterQueue)) \subseteq ToSet(converterQueue)
    BY <1>t, <1>q, TailElements
  <2>2. Occurs(h, converterQueue) = 1 /\ h \notin lost /\ pending[h] # {} BY <1>q, <2>1, WaitsHere
  <2>3. Occurs(h, Tail(converterQueue)) = Occurs(h, converterQueue) - 1 BY <1>t, <1>q, OccursTail
  <2>4. Occurs(h, Tail(converterQueue)) = 0 BY <2>2, <2>3
  <2>5. h \notin ToSet(Tail(converterQueue)) BY <2>1, <2>4, OccursNatural
  <2> QED BY <2>1, <2>2, <2>5
<1>8. CASE FrameWithoutConversion
  <2> DEFINE h == Head(converterQueue)
  <2>1. /\ streaming /\ converterQueue # <<>> /\ converterQueue' = Tail(converterQueue)
        /\ Complete(Without({h})) /\ lost' = lost
    BY <1>8 DEF FrameWithoutConversion, FrameReady
  <2>2. HeldUntilDone' BY <1>h, <1>w, <2>1
  <2>3. \A r \in Requests : pending'[r] = IF r = h THEN {} ELSE pending[r]
    BY <1>w, <2>1 DEF Complete
  <2> QED BY <1>k, <1>q, <2>1, <2>2, <2>3
<1>9. CASE QueueBuffers
  <2>1. /\ streaming /\ converterQueue # <<>> /\ converterQueue' = Tail(converterQueue)
        /\ UNCHANGED <<pending, queuedRequests, lost>>
    BY <1>9 DEF QueueBuffers, HandToConverter, FrameReady
  <2>2. HeldUntilDone' BY <2>1 DEF HeldUntilDone
  <2> QED BY <1>k, <1>q, <2>1, <2>2
<1>10. CASE QueueBuffersFails
  <2> DEFINE h == Head(converterQueue)
  <2>1. /\ streaming /\ converterQueue # <<>> /\ converterQueue' = Tail(converterQueue)
        /\ useConverter /\ video # <<>> /\ lost' = {Head(video), h}
        /\ UNCHANGED <<pending, queuedRequests>>
    BY <1>10 DEF QueueBuffersFails, FrameReady
  <2>2. HeldUntilDone' BY <2>1 DEF HeldUntilDone
  <2>3. Head(video) \notin Requests BY <1>t, <1>d, <2>1, TailElements
  <2>4. lost' \cap Requests = {h} /\ pending[h] # {} BY <1>q, <2>1, <2>3
  <2>5. LostIsPending' BY <2>1, <2>4 DEF LostIsPending
  <2>6. QueuedIsPending' BY <1>q, <2>1 DEF QueuedIsPending
  <2> QED BY <2>2, <2>5, <2>6
<1>12. ASSUME NEW s \in Streams, ConverterOutputDone(s)
       PROVE  HeldUntilDone' /\ QueuedIsPending' /\ LostIsPending'
  <2> DEFINE h == Head(outputs[s])
             left == [pending EXCEPT ![h] = @ \ {s}]
  <2>1. streaming /\ outputs[s] # <<>> /\ Complete(left) /\ UNCHANGED <<converterQueue, lost>>
    BY <1>12 DEF ConverterOutputDone, Idle
  <2>2. h \in Requests /\ h \in ToSet(outputs[s]) BY <1>t, <2>1, TailElements
  <2>3. h \notin ToSet(converterQueue) /\ h \notin lost
    <3>1. Occurs(h, converterQueue) = 0 /\ h \notin lost BY <2>1, <2>2, WaitsHere
    <3> QED BY <1>t, <3>1, OccursNatural
  <2>4. /\ left \in [Requests -> SUBSET Streams]
        /\ \A r \in Requests : left[r] = IF r = h THEN pending[r] \ {s} ELSE pending[r]
    BY <1>t, <2>2
  <2> HIDE DEF h, left
  <2>5. HeldUntilDone' BY <1>h, <2>1, <2>4
  <2>6. \A r \in Requests : r # h => pending'[r] = pending[r] BY <2>1, <2>4 DEF Complete
  <2> QED BY <1>k, <2>1, <2>3, <2>5, <2>6
<1>13. CASE Stop
  <2> DEFINE n == IF useConverter THEN Len(video) + Len(inputs) ELSE 0
             converted == UNION {ToSet(outputs[s]) : s \in Streams}
             served    == {converterQueue[i] : i \in 1..n \cap DOMAIN converterQueue}
             captured  == IF useConverter THEN {} ELSE ToSet(video)
             done      == converted \cup served \cup captured
             rest      == SubSeq(converterQueue, n + 1, Len(converterQueue))
  <2>1. streaming /\ Complete(Without(done)) /\ converterQueue' = rest /\ lost' = lost
    BY <1>13 DEF Stop, CancelFrames
  <2>2. n \in Nat BY DEF TypeOK
  <2>3. HeldUntilDone' BY <1>h, <1>w, <2>1
  <2>4. \A r \in Requests : r \notin done => pending'[r] = pending[r] BY <1>w, <2>1 DEF Complete
  <2>5. DOMAIN converterQueue = 1..Len(converterQueue) /\ Len(converterQueue) \in Nat BY <1>t
  <2> HIDE DEF n
  <2>6. ASSUME NEW r \in ToSet(rest)
        PROVE  \E i \in (n + 1)..Len(converterQueue) : converterQueue[i] = r
    <3>1. CASE n + 1 \in 1..(Len(converterQueue) + 1) BY <1>t, <3>1, <2>6, SuffixElements
    <3>2. CASE n + 1 > Len(converterQueue)
      <4>1. rest = <<>> BY <2>2, <2>5, <3>2, SubSeqEmpty
      <4>2. ToSet(<<>>) = {} BY DEF ToSet
      <4> QED BY <2>6, <4>1, <4>2
    <3> QED BY <2>2, <2>5, <3>1, <3>2
  <2>7. ToSet(rest) \subseteq ToSet(converterQueue) BY <2>2, <2>5, <2>6 DEF ToSet
  <2>8. ASSUME NEW r \in Requests, r \in converted \cup captured
        PROVE  r \notin ToSet(converterQueue) /\ r \notin lost
    <3>1. Occurs(r, converterQueue) = 0 /\ r \notin lost BY <2>1, <2>8, WaitsHere
    <3> QED BY <1>t, <3>1, OccursNatural
  <2>9. ASSUME NEW r \in served PROVE r \in Requests /\ r \notin ToSet(rest) /\ r \notin lost
    <3>1. PICK i \in DOMAIN converterQueue : i \in 1..n /\ converterQueue[i] = r BY <2>9
    <3>2. r \in Requests /\ r \in ToSet(converterQueue) BY <1>t, <3>1 DEF ToSet
    <3>3. Occurs(r, converterQueue) = 1 /\ r \notin lost BY <2>1, <3>2, WaitsHere
    <3>4. ASSUME r \in ToSet(rest) PROVE FALSE
      <4>1. PICK j \in (n + 1)..Len(converterQueue) : converterQueue[j] = r BY <2>6, <3>4
      <4>2. j \in DOMAIN converterQueue /\ i # j BY <2>2, <2>5, <3>1, <4>1
      <4> QED BY <1>t, <3>1, <3>3, <4>1, <4>2, OccursOnce
    <3> QED BY <3>2, <3>3, <3>4
  <2> HIDE DEF converted, served, captured, rest
  <2>10. \A r \in Requests : r \in ToSet(rest) \/ r \in lost => r \notin done
    BY <2>7, <2>8, <2>9
  <2> HIDE DEF done
  <2> QED BY <1>k, <2>1, <2>3, <2>4, <2>7, <2>10
<1> QED
  <2>1. CASE \/ \E c \in BOOLEAN : Configure(c)
             \/ Start \/ FrameUnused \/ ConverterInputDone
    BY <1>1, <2>1 DEF Configure, Start, FrameUnused, ConverterInputDone
  <2> QED BY <1>3, <1>4, <1>5, <1>7, <1>8, <1>9, <1>10, <1>12, <1>13, <2>1 DEF Next, Device

LEMMA CountInit == Init => CountInv
<1> SUFFICES ASSUME Init PROVE CountInv OBVIOUS
<1>1. ToSet(<<>>) = {} BY DEF ToSet
<1>2. TypeOK /\ Idle BY InvariantInit DEF IInv
<1>3. WaitsOnce /\ InternalBuffersCirculate BY DEF Init, WaitsOnce, InternalBuffersCirculate
<1>4. HeldUntilDone /\ QueuedIsPending /\ LostIsPending
  BY <1>1 DEF Init, HeldUntilDone, QueuedIsPending, LostIsPending
<1> QED BY <1>2, <1>3, <1>4 DEF CountInv

LEMMA CountStep ==
  ASSUME CountInv, [Next]_vars
  PROVE  CountInv'
<1>1. CASE UNCHANGED vars
  BY <1>1 DEF vars, converter, requests, CountInv, TypeOK, Idle, WaitsOnce,
              InternalBuffersCirculate, HeldUntilDone, QueuedIsPending, LostIsPending
<1>2. CASE Next
  <2>1. TypeOK' /\ Idle' BY <1>2, TypeStep, IdleStep DEF CountInv
  <2>2. WaitsOnce' BY <1>2, WaitsStep
  <2>3. InternalBuffersCirculate' BY <1>2, CirculateStep
  <2>4. HeldUntilDone' /\ QueuedIsPending' /\ LostIsPending' BY <1>2, HeldStep
  <2> QED BY <2>1, <2>2, <2>3, <2>4 DEF CountInv
<1> QED BY <1>1, <1>2

(* While the camera streams, a buffer that is not complete waits in exactly
   one place for what completes it and one that is complete in none, however
   many requests the application reuses and whatever was turned down.        *)
THEOREM BuffersWaitOnce == Spec => []WaitsOnce
<1>1. CountInv /\ [Next]_vars => CountInv' BY CountStep
<1>2. CountInv => WaitsOnce BY DEF CountInv
<1> QED BY CountInit, <1>1, <1>2, PTL DEF Spec

(* While the converter is in use, every internal buffer is queued for capture,
   converted or was turned down, and never in two of these at once.          *)
THEOREM BuffersCirculate == Spec => []InternalBuffersCirculate
<1>1. CountInv /\ [Next]_vars => CountInv' BY CountStep
<1>2. CountInv => InternalBuffersCirculate BY DEF CountInv
<1> QED BY CountInit, <1>1, <1>2, PTL DEF Spec
=============================================================================
