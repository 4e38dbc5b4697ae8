--------------------------- MODULE CaptureContract ---------------------------
(***************************************************************************)
(* What the Android HAL promises the camera framework about the answers to *)
(* its capture requests, as the comments of camera_device.cpp state it:    *)
(* "buffers for a given stream must be returned in FIFO order", except     *)
(* that "error buffers do not have to follow the strict ordering"; the     *)
(* final result of each request comes in submission order, after all of    *)
(* its partial results.                                                    *)
(***************************************************************************)
EXTENDS Integers, SequencesExt

CONSTANTS Streams, MaxRequests

Frames == 1..MaxRequests

VARIABLES
  asked,      \* the streams each request wants a buffer of
  failed,     \* the buffers announced as failed with ERROR_BUFFER
  returned,   \* the statuses its buffers came back with, per stream
  aborted,    \* the requests given back with ERROR_REQUEST
  finals      \* the requests answered with a final result, in order

vars == <<asked, failed, returned, aborted, finals>>

TypeOK ==
  /\ asked \in [Frames -> SUBSET Streams]
  /\ failed \in [Frames -> SUBSET Streams]
  /\ returned \in [Frames -> [Streams -> Seq({"ok", "error"})]]
  /\ aborted \in SUBSET Frames
  /\ finals \in Seq(Frames)

Owed(f) == {s \in asked[f] : returned[f][s] = <<>>}

Init ==
  /\ asked = [f \in Frames |-> {}]
  /\ failed = [f \in Frames |-> {}]
  /\ returned = [f \in Frames |-> [s \in Streams |-> <<>>]]
  /\ aborted = {} /\ finals = <<>>

Fresh(f) == \A g \in Frames : g >= f => asked[g] = {}

(* A request is accepted, in the order of the frame numbers ... *)
Accept(f, S) ==
  /\ Fresh(f) /\ S # {}
  /\ asked' = [asked EXCEPT ![f] = S]
  /\ UNCHANGED <<failed, returned, aborted, finals>>

(* ... or given back at once with all its buffers in error. *)
Abort(f, S) ==
  /\ Fresh(f) /\ S # {}
  /\ asked' = [asked EXCEPT ![f] = S]
  /\ returned' = [returned EXCEPT ![f] = [s \in Streams |-> IF s \in S THEN <<"error">> ELSE <<>>]]
  /\ aborted' = aborted \cup {f}
  /\ UNCHANGED <<failed, finals>>

(* Some buffers of f that are not yet returned are announced as failed. *)
Announce(f, S) ==
  /\ S # {} /\ S \subseteq Owed(f) \ failed[f]
  /\ failed' = [failed EXCEPT ![f] = @ \cup S]
  /\ UNCHANGED <<asked, returned, aborted, finals>>

(* Buffers of f come back: a good one only when every earlier request has its
   buffer of that stream back or was told that it failed.                    *)
ReturnBuffers(f, S) ==
  /\ S # {} /\ S \subseteq Owed(f)
  /\ \A g \in Frames : g < f => (S \ failed[f]) \cap Owed(g) \subseteq failed[g]
  /\ returned' = [returned EXCEPT ![f] =
       [s \in Streams |-> IF s \notin S THEN @[s]
                          ELSE IF s \in failed[f] THEN <<"error">> ELSE <<"ok">>]]
  /\ UNCHANGED <<asked, failed, aborted, finals>>

(* f is answered: it owes nothing, and all accepted before it are answered. *)
Accepted == {f \in Frames : asked[f] # {}} \ aborted

Finish(f) ==
  /\ f \in Accepted \ ToSet(finals) /\ Owed(f) = {}
  /\ \A g \in Accepted : g < f => g \in ToSet(finals)
  /\ finals' = Append(finals, f)
  /\ UNCHANGED <<asked, failed, returned, aborted>>

Next ==
  \E f \in Frames :
    \/ \E S \in SUBSET Streams : Accept(f, S) \/ Abort(f, S)
    \/ \E S \in SUBSET Streams : Announce(f, S) \/ ReturnBuffers(f, S)
    \/ Finish(f)

Spec == Init /\ [][Next]_vars

-----------------------------------------------------------------------------
(* What the framework can rely on *)

(* When a good buffer has come back, every earlier request has its buffer of
   that stream back or knows that it failed: good buffers of a stream come in
   the order of the requests.                                                *)
GoodBuffersInOrder ==
  \A f, g \in Frames : \A s \in Streams :
     f < g /\ s \in asked[f] /\ returned[g][s] = <<"ok">> =>
        returned[f][s] # <<>> \/ s \in failed[f]

(* The answered requests are an increasing sequence, nothing is owed for them,
   and no accepted request before them is left out.                          *)
FinalsInOrder ==
  /\ \A i, j \in DOMAIN finals : i < j => finals[i] < finals[j]
  /\ \A f \in ToSet(finals) :
       /\ f \in Accepted /\ Owed(f) = {}
       /\ \A g \in Accepted : g < f => g \in ToSet(finals)

(* A buffer is returned at most once, and only if it was asked for. *)
ReturnedOnce ==
  \A f \in Frames : \A s \in Streams :
     /\ Len(returned[f][s]) <= 1
     /\ returned[f][s] # <<>> => s \in asked[f]
=============================================================================
