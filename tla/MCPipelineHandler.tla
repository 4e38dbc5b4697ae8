------------------------- MODULE MCPipelineHandler -------------------------
(***************************************************************************)
(* The simple pipeline handler, for TLC: a camera that streams             *)
(* (SimplePipeline), and the cameras that share a media device             *)
(* (MediaPipelines).  They share no state, and a behaviour shows one of    *)
(* them.                                                                   *)
(***************************************************************************)
EXTENDS SimplePipeline, MediaPipelines

CONSTANTS
  Parts,             \* those to show, of "streaming" and "pipelines"
  r1, r2, r3, viewfinder, still,
  s1, s2, a, x, v1, v2

VARIABLE part

ThreeRequests == {r1, r2, r3}
TwoStreams    == {viewfinder, still}

-----------------------------------------------------------------------------
(* Two sensors, a bridge a with one sink and two source pads, a subdev x with
   two of each, two video nodes, and any selection of links and of routes in x. *)
EntityPads == (s1 :> <<<<s1, 0>>>>) @@ (s2 :> <<<<s2, 0>>>>)
  @@ (a :> <<<<a, 0>>, <<a, 1>>, <<a, 2>>>>)
  @@ (x :> <<<<x, 0>>, <<x, 1>>, <<x, 2>>, <<x, 3>>>>)
  @@ (v1 :> <<<<v1, 0>>>>) @@ (v2 :> <<<<v2, 0>>>>)

Link(p, q) == [source |-> p, sink |-> q]
Fixed    == <<Link(<<s1, 0>>, <<a, 0>>), Link(<<x, 2>>, <<v1, 0>>)>>
Optional == <<Link(<<s2, 0>>, <<x, 1>>), Link(<<s2, 0>>, <<a, 0>>), Link(<<a, 1>>, <<x, 0>>),
              Link(<<a, 2>>, <<x, 1>>), Link(<<a, 2>>, <<v2, 0>>), Link(<<x, 3>>, <<v2, 0>>)>>
Route(i, j) == [sink |-> <<x, i>>, source |-> <<x, j>>]
Tables   == {<<>>, <<Route(0, 2), Route(1, 3)>>, <<Route(0, 3), Route(1, 2)>>, <<Route(1, 2)>>,
             <<Route(0, 2), Route(0, 3), Route(1, 3)>>}

SmallGraphs ==
  {[pads |-> EntityPads, sources |-> {<<s1, 0>>, <<s2, 0>>, <<a, 1>>, <<a, 2>>, <<x, 2>>, <<x, 3>>},
    links |-> Fixed \o SelectSeq(Optional, LAMBDA l : l \in links), immutable |-> {Fixed[1]},
    routes |-> routes, sensors |-> {s1, s2}, isps |-> isps, videos |-> {v1, v2},
    names |-> <<a, s1, s2>>] :
   links \in SUBSET ToSet(Optional), routes \in Tables, isps \in {{}, {a}}}

-----------------------------------------------------------------------------
(* The state of a part that a behaviour does not show. *)
NoStreaming == Init /\ softIsp = FALSE
NoPipelines ==
  /\ graph = [pads |-> <<>>, sources |-> {}, links |-> <<>>, immutable |-> {}, routes |-> <<>>,
              sensors |-> {}, isps |-> {}, videos |-> {}, names |-> <<>>]
  /\ entities = <<>> /\ enabled = {} /\ owners = <<>>
  /\ configured = {} /\ running = {}

InitParts ==
  /\ part \in Parts
  /\ IF part = "streaming" THEN Init ELSE NoStreaming
  /\ IF part = "pipelines" THEN PipelinesInit ELSE NoPipelines

NextParts ==
  \/ part = "streaming" /\ Next /\ UNCHANGED <<part, pipelinesVars>>
  \/ part = "pipelines" /\ PipelinesNext /\ UNCHANGED <<part, vars>>

SpecParts     == InitParts /\ [][NextParts]_<<part, vars, pipelinesVars>>
FairSpecParts == SpecParts /\ WF_vars(Device)
=============================================================================
