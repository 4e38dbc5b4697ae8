------------------------ MODULE CaptureContractProofs ------------------------
(***************************************************************************)
(* The consequences of CaptureContract, for any streams and any number of  *)
(* requests.                                                               *)
(***************************************************************************)
EXTENDS CaptureContract, TLAPS

(* An aborted request was asked for, and only requests that were asked for
   have failed buffers: what Fresh needs to say that nothing is known of f.  *)
OnlyAsked ==
  /\ \A f \in aborted : asked[f] # {}
  /\ \A f \in Frames : failed[f] \subseteq asked[f]

IInv == TypeOK /\ OnlyAsked /\ ReturnedOnce /\ GoodBuffersInOrder /\ FinalsInOrder

LEMMA InitIInv == Init => IInv
<1> SUFFICES ASSUME Init PROVE IInv OBVIOUS
<1> USE DEF Init
<1>1. TypeOK BY DEF TypeOK
<1>2. OnlyAsked /\ ReturnedOnce /\ GoodBuffersInOrder
  BY DEF OnlyAsked, ReturnedOnce, GoodBuffersInOrder
<1>3. FinalsInOrder BY DEF FinalsInOrder, ToSet
<1> QED BY <1>1, <1>2, <1>3 DEF IInv

(* A fresh request is later than every request that was asked for. *)
LEMMA FreshIsLater ==
  ASSUME NEW f \in Frames, Fresh(f), NEW g \in Frames, asked[g] # {}
  PROVE  g < f
  BY DEF Fresh, Frames

LEMMA AcceptStep ==
  ASSUME IInv, NEW f \in Frames, NEW S \in SUBSET Streams, Accept(f, S)
  PROVE  IInv'
<1> USE DEF Accept
<1> HIDE DEF Fresh
<1>0. asked' = [asked EXCEPT ![f] = S] /\ Fresh(f) /\ asked[f] = {} /\ S # {}
  BY DEF Fresh, Frames
<1>1. TypeOK' BY DEF IInv, TypeOK
<1>2. OnlyAsked' BY <1>0 DEF IInv, TypeOK, OnlyAsked
<1>3. ReturnedOnce' BY <1>0 DEF IInv, TypeOK, ReturnedOnce
<1>4. GoodBuffersInOrder'
  <2> SUFFICES ASSUME NEW e \in Frames, NEW g \in Frames, NEW s \in Streams,
                      e < g, s \in asked'[e], returned[g][s] = <<"ok">>
               PROVE  returned[e][s] # <<>> \/ s \in failed[e]
    BY DEF GoodBuffersInOrder
  <2>1. s \in asked[g] BY DEF IInv, ReturnedOnce
  <2>2. g < f BY <1>0, <2>1, FreshIsLater
  <2>3. s \in asked[e] BY <1>0, <2>2 DEF Frames, IInv, TypeOK
  <2> QED BY <2>3 DEF IInv, GoodBuffersInOrder
<1>5. FinalsInOrder'
  <2>1. Accepted' = Accepted \cup {f}
    BY <1>0 DEF Accepted, IInv, TypeOK, OnlyAsked
  <2>2. \A g \in Accepted : g < f BY <1>0, FreshIsLater DEF Accepted
  <2>3. \A g \in Accepted : Owed(g)' = Owed(g)
    BY <1>0 DEF Accepted, Owed, IInv, TypeOK
  <2> QED BY <2>1, <2>2, <2>3 DEF IInv, FinalsInOrder, Accepted, Frames
<1> QED BY <1>1, <1>2, <1>3, <1>4, <1>5 DEF IInv

(* An abort touches only a fresh request, whose buffers are all in error. *)
LEMMA AbortStep ==
  ASSUME IInv, NEW f \in Frames, NEW S \in SUBSET Streams, Abort(f, S)
  PROVE  IInv'
<1> DEFINE back == [s \in Streams |-> IF s \in S THEN <<"error">> ELSE <<>>]
<1>0. /\ asked' = [asked EXCEPT ![f] = S] /\ Fresh(f) /\ asked[f] = {} /\ S # {}
      /\ returned' = [returned EXCEPT ![f] = back]
      /\ aborted' = aborted \cup {f} /\ failed' = failed /\ finals' = finals
  BY DEF Abort, Fresh, Frames
<1>a. back \in [Streams -> Seq({"ok", "error"})] OBVIOUS
<1>b. \A s \in Streams : back[s] # <<"ok">> /\ Len(back[s]) <= 1 /\ (back[s] # <<>> => s \in S)
  OBVIOUS
<1>c. returned'[f] = back /\ \A g \in Frames : g # f => returned'[g] = returned[g]
  BY <1>0 DEF IInv, TypeOK
<1>d. asked'[f] = S /\ \A g \in Frames : g # f => asked'[g] = asked[g]
  BY <1>0 DEF IInv, TypeOK
<1> HIDE DEF back
<1>1. TypeOK' BY <1>0, <1>a DEF IInv, TypeOK
<1>2. OnlyAsked' BY <1>0, <1>d DEF IInv, TypeOK, OnlyAsked
<1>3. ReturnedOnce' BY <1>b, <1>c, <1>d DEF IInv, ReturnedOnce
<1>4. GoodBuffersInOrder'
  <2> SUFFICES ASSUME NEW e \in Frames, NEW g \in Frames, NEW s \in Streams,
                      e < g, s \in asked'[e], returned'[g][s] = <<"ok">>
               PROVE  returned'[e][s] # <<>> \/ s \in failed'[e]
    BY DEF GoodBuffersInOrder
  <2>1. g # f BY <1>b, <1>c
  <2>2. s \in asked[g] BY <1>c, <2>1 DEF IInv, ReturnedOnce
  <2>3. g < f BY <1>0, <2>2, FreshIsLater
  <2>4. e # f BY <2>3 DEF Frames
  <2> QED BY <1>0, <1>c, <1>d, <2>1, <2>4 DEF IInv, GoodBuffersInOrder
<1>5. FinalsInOrder'
  <2>1. Accepted' = Accepted
    BY <1>0, <1>d DEF Accepted
  <2>2. f \notin Accepted BY <1>0 DEF Accepted
  <2>3. \A g \in Accepted : Owed(g)' = Owed(g)
    BY <1>c, <1>d, <2>2 DEF Accepted, Owed
  <2> QED BY <1>0, <2>1, <2>3 DEF IInv, FinalsInOrder
<1> QED BY <1>1, <1>2, <1>3, <1>4, <1>5 DEF IInv

LEMMA AnnounceStep ==
  ASSUME IInv, NEW f \in Frames, NEW S \in SUBSET Streams, Announce(f, S)
  PROVE  IInv'
<1>0. /\ failed' = [failed EXCEPT ![f] = @ \cup S] /\ S \subseteq asked[f]
      /\ UNCHANGED <<asked, returned, aborted, finals>>
  BY DEF Announce, Owed
<1>1. TypeOK' BY <1>0 DEF IInv, TypeOK
<1>2. OnlyAsked' BY <1>0 DEF IInv, TypeOK, OnlyAsked
<1>3. ReturnedOnce' BY <1>0 DEF IInv, ReturnedOnce
<1>4. GoodBuffersInOrder' BY <1>0 DEF IInv, TypeOK, GoodBuffersInOrder
<1>5. FinalsInOrder' BY <1>0 DEF IInv, FinalsInOrder, Accepted, Owed
<1> QED BY <1>1, <1>2, <1>3, <1>4, <1>5 DEF IInv

(* The guard of ReturnBuffers is what keeps good buffers in order. *)
LEMMA ReturnStep ==
  ASSUME IInv, NEW f \in Frames, NEW S \in SUBSET Streams, ReturnBuffers(f, S)
  PROVE  IInv'
<1>0. /\ S # {} /\ S \subseteq Owed(f)
      /\ \A g \in Frames : g < f => (S \ failed[f]) \cap Owed(g) \subseteq failed[g]
      /\ UNCHANGED <<asked, failed, aborted, finals>>
  BY DEF ReturnBuffers
<1> DEFINE ok == <<"ok">>
           error == <<"error">>
<1>c. /\ ok # <<>> /\ error # <<>> /\ Len(ok) = 1 /\ Len(error) = 1
      /\ ok \in Seq({"ok", "error"}) /\ error \in Seq({"ok", "error"})
  OBVIOUS
<1>e. ok # error
  <2>1. ok[1] # error[1] OBVIOUS
  <2> QED BY <2>1
<1>f. returned' = [returned EXCEPT ![f] =
        [s \in Streams |-> IF s \notin S THEN @[s] ELSE IF s \in failed[f] THEN error ELSE ok]]
  BY DEF ReturnBuffers
<1> HIDE DEF ok, error
<1>a. /\ returned' \in [Frames -> [Streams -> Seq({"ok", "error"})]]
      /\ \A g \in Frames : g # f => returned'[g] = returned[g]
      /\ \A s \in Streams : s \notin S => returned'[f][s] = returned[f][s]
      /\ \A s \in S : returned'[f][s] = IF s \in failed[f] THEN error ELSE ok
  BY <1>c, <1>f DEF IInv, TypeOK
<1>b. \A s \in S : returned'[f][s] # <<>> /\ Len(returned'[f][s]) = 1 BY <1>a, <1>c
<1>d. asked \in [Frames -> SUBSET Streams] /\ S \subseteq asked[f]
  BY <1>0 DEF Owed, IInv, TypeOK
<1>1. TypeOK' BY <1>0, <1>a DEF IInv, TypeOK
<1>2. OnlyAsked' BY <1>0 DEF IInv, OnlyAsked
<1>3. ReturnedOnce'
  <2> SUFFICES ASSUME NEW g \in Frames, NEW s \in Streams
               PROVE  /\ Len(returned'[g][s]) <= 1
                      /\ returned'[g][s] # <<>> => s \in asked[g]
    BY <1>0 DEF ReturnedOnce
  <2>1. CASE g = f /\ s \in S
    <3>1. s \in asked[f] /\ Len(returned'[f][s]) = 1 BY <1>b, <1>d, <2>1
    <3> QED BY <2>1, <3>1
  <2>2. CASE ~(g = f /\ s \in S) BY <1>a, <2>2 DEF IInv, ReturnedOnce
  <2> QED BY <2>1, <2>2
<1>4. GoodBuffersInOrder'
  <2> SUFFICES ASSUME NEW e \in Frames, NEW g \in Frames, NEW s \in Streams,
                      e < g, s \in asked[e], returned'[g][s] = ok
               PROVE  returned'[e][s] # <<>> \/ s \in failed[e]
    BY <1>0 DEF GoodBuffersInOrder, ok
  <2>1. returned[e][s] # <<>> => returned'[e][s] # <<>> BY <1>a, <1>b
  <2>2. CASE g = f /\ s \in S
    <3>1. s \notin failed[f] BY <1>a, <1>e, <2>2
    <3>2. s \in Owed(e) => s \in failed[e] BY <1>0, <2>2, <3>1
    <3> QED BY <2>1, <3>2 DEF Owed
  <2>3. CASE ~(g = f /\ s \in S)
    <3>1. returned[g][s] = ok BY <1>a, <2>3
    <3> QED BY <2>1, <3>1 DEF IInv, GoodBuffersInOrder, ok
  <2> QED BY <2>2, <2>3
<1>5. FinalsInOrder'
  <2>1. Accepted' = Accepted BY <1>0 DEF Accepted
  <2>2. \A g \in Frames : Owed(g)' \subseteq Owed(g)
    <3> SUFFICES ASSUME NEW g \in Frames, NEW s \in asked[g], returned'[g][s] = <<>>
                 PROVE  returned[g][s] = <<>>
      BY <1>0 DEF Owed
    <3> QED BY <1>a, <1>b, <1>d
  <2>3. Accepted \subseteq Frames BY DEF Accepted
  <2> QED BY <1>0, <2>1, <2>2, <2>3 DEF IInv, FinalsInOrder
<1> QED BY <1>1, <1>2, <1>3, <1>4, <1>5 DEF IInv

LEMMA FinishStep ==
  ASSUME IInv, NEW f \in Frames, Finish(f)
  PROVE  IInv'
<1>0. /\ f \in Accepted \ ToSet(finals) /\ Owed(f) = {}
      /\ \A g \in Accepted : g < f => g \in ToSet(finals)
      /\ finals' = Append(finals, f)
      /\ UNCHANGED <<asked, failed, returned, aborted>>
  BY DEF Finish
<1>1. TypeOK' BY <1>0 DEF IInv, TypeOK
<1>2. OnlyAsked' BY <1>0 DEF IInv, OnlyAsked
<1>3. ReturnedOnce' BY <1>0 DEF IInv, ReturnedOnce
<1>4. GoodBuffersInOrder' BY <1>0 DEF IInv, GoodBuffersInOrder
<1>5. FinalsInOrder'
  <2>a. finals \in Seq(Frames) BY DEF IInv, TypeOK
  <2>1. Accepted' = Accepted /\ \A g \in Frames : Owed(g)' = Owed(g)
    BY <1>0 DEF Accepted, Owed
  <2>2. ToSet(finals') = ToSet(finals) \cup {f} BY <1>0, <2>a DEF ToSet
  <2>3. \A g \in ToSet(finals) : g < f
    <3> SUFFICES ASSUME NEW g \in ToSet(finals), ~(g < f) PROVE FALSE OBVIOUS
    <3>1. g \in Accepted /\ g \in Frames /\ g # f
      BY <1>0 DEF IInv, FinalsInOrder, Accepted
    <3>2. f < g BY <3>1 DEF Frames
    <3>3. f \in ToSet(finals) BY <1>0, <3>2 DEF IInv, FinalsInOrder
    <3> QED BY <1>0, <3>3
  <2>4. \A i, j \in DOMAIN finals' : i < j => finals'[i] < finals'[j]
    BY <1>0, <2>a, <2>3 DEF IInv, FinalsInOrder, ToSet
  <2>5. \A g \in ToSet(finals') :
          /\ g \in Accepted /\ Owed(g) = {}
          /\ \A h \in Accepted : h < g => h \in ToSet(finals')
    BY <1>0, <2>2 DEF IInv, FinalsInOrder
  <2>6. Accepted \subseteq Frames BY DEF Accepted
  <2> QED BY <2>1, <2>4, <2>5, <2>6 DEF FinalsInOrder
<1> QED BY <1>1, <1>2, <1>3, <1>4, <1>5 DEF IInv

LEMMA StutterStep == ASSUME IInv, UNCHANGED vars PROVE IInv'
<1> USE DEF vars
<1>1. TypeOK' BY DEF IInv, TypeOK
<1>2. OnlyAsked' /\ ReturnedOnce' /\ GoodBuffersInOrder'
  BY DEF IInv, OnlyAsked, ReturnedOnce, GoodBuffersInOrder
<1>3. FinalsInOrder' BY DEF IInv, FinalsInOrder, Accepted, Owed
<1> QED BY <1>1, <1>2, <1>3 DEF IInv

(* The framework can rely on the order of good buffers and of final results
   and on every buffer coming back once, however many requests and streams
   there are.                                                                *)
THEOREM ContractInvariant == Spec => [](GoodBuffersInOrder /\ FinalsInOrder /\ ReturnedOnce)
<1>1. Init => IInv BY InitIInv
<1>2. IInv /\ [Next]_vars => IInv'
  <2> SUFFICES ASSUME IInv, [Next]_vars PROVE IInv' OBVIOUS
  <2>1. ASSUME NEW f \in Frames, NEW S \in SUBSET Streams, Accept(f, S)
        PROVE  IInv'
    BY <2>1, AcceptStep
  <2>2. ASSUME NEW f \in Frames, NEW S \in SUBSET Streams, Abort(f, S)
        PROVE  IInv'
    BY <2>2, AbortStep
  <2>3. ASSUME NEW f \in Frames, NEW S \in SUBSET Streams, Announce(f, S)
        PROVE  IInv'
    BY <2>3, AnnounceStep
  <2>4. ASSUME NEW f \in Frames, NEW S \in SUBSET Streams, ReturnBuffers(f, S)
        PROVE  IInv'
    BY <2>4, ReturnStep
  <2>5. ASSUME NEW f \in Frames, Finish(f) PROVE IInv' BY <2>5, FinishStep
  <2>6. CASE UNCHANGED vars BY <2>6, StutterStep
  <2> QED BY <2>1, <2>2, <2>3, <2>4, <2>5, <2>6 DEF Next
<1>3. IInv => GoodBuffersInOrder /\ FinalsInOrder /\ ReturnedOnce BY DEF IInv
<1> QED BY <1>1, <1>2, <1>3, PTL DEF Spec
=============================================================================
