--------------------------- MODULE MediaPipelines ---------------------------
(***************************************************************************)
(* Cameras of one simple pipeline handler that share a media device:       *)
(* configuring a camera sets up the links on its pipeline, starting it     *)
(* acquires the pads.  All calls run on the thread of the pipeline         *)
(* handler; which camera is called next is up to the applications.         *)
(***************************************************************************)
EXTENDS MediaGraph

CONSTANT Graphs   \* the media graphs of a device, with the names of its entities in order

ASSUME GraphAssumption == \A g \in Graphs : IsGraph(g)

VARIABLES
  graph,       \* the media graph of the device
  entities,    \* per camera, which is named like its sensor, its entities_
  enabled,     \* the links that are enabled
  configured,  \* the cameras that are configured
  running,     \* the cameras that run
  owners       \* EntityData::owners of all entities: the camera per owned pad

pipelinesVars == <<graph, entities, enabled, configured, running, owners>>

Cameras == DOMAIN entities

(* The pads a camera's pipeline passes through. *)
PadsOf(c) ==
  UNION {{entities[c][i].sink, entities[c][i].source} : i \in DOMAIN entities[c]} \ {null}

-----------------------------------------------------------------------------
(* The links on the pads of an entity in a pipeline; an entity that supports
   routing may serve others with its other pads.                             *)
LinksAt(g, step) ==
  LET pads == IF step.supportsRouting
              THEN Selected(g.pads[step.entity], {step.sink, step.source})
              ELSE g.pads[step.entity]
  IN  FlattenSeq([k \in DOMAIN pads |-> LinksOf(g, pads[k])])

Unwanted(g, step, sinkLink) ==
  Selected(LinksAt(g, step), ToSet(g.links) \ ({sinkLink} \cup g.immutable))

(* The calls of MediaLink::setEnabled that setupLinks() considers: on every
   entity all other links are disabled before the one to it is enabled.      *)
LinkWrites(g, pipeline) ==
  LET EntityWrites(step, sinkLink) ==
        LET off == Unwanted(g, step, sinkLink)
        IN  [k \in DOMAIN off |-> [link |-> off[k], on |-> FALSE]]
              \o <<[link |-> sinkLink, on |-> TRUE]>>
  IN  FlattenSeq([i \in 1..(Len(pipeline) - 1) |->
                    EntityWrites(pipeline[i+1], pipeline[i].link)])

(* Mutant: the result of setEnabled() is ignored. *)
WriteIgnoresErrors(links, busy, writes) ==
  LET Apply(s, w) ==
        IF {w.link.source, w.link.sink} \cap busy # {} THEN s
        ELSE [s EXCEPT !.links = IF w.on THEN @ \cup {w.link} ELSE @ \ {w.link}]
  IN  FoldLeft(Apply, [ok |-> TRUE, links |-> links], writes)

(* The kernel refuses to change a link between pads that stream, ... *)
SetEnabled(s, w, busy) ==
  IF ~s.ok \/ (w.link \in s.links) = w.on THEN s
  ELSE IF {w.link.source, w.link.sink} \cap busy # {} THEN [s EXCEPT !.ok = FALSE]
  ELSE [s EXCEPT !.links = IF w.on THEN @ \cup {w.link} ELSE @ \ {w.link}]

(* ... and no link is changed after one that failed. *)
Write(links, busy, writes) ==
  FoldLeft(LAMBDA s, w : SetEnabled(s, w, busy), [ok |-> TRUE, links |-> links], writes)

(* match(): every sensor with a pipeline becomes a camera, and init() sets up
   the links of one after the other; a device without cameras is no device.  *)
PipelinesInit ==
  /\ graph \in Graphs
  /\ entities = [s \in {t \in LocateSensors(graph) : Pipeline(graph, t) # <<>>} |-> Pipeline(graph, s)]
  /\ Cameras # {}
  /\ LET cameras == Selected(graph.names, Cameras)
         writes  == [i \in DOMAIN cameras |-> LinkWrites(graph, entities[cameras[i]])]
     IN  enabled = Write(graph.immutable, {}, FlattenSeq(writes)).links
  /\ configured = {} /\ running = {}
  /\ owners = <<>>

-----------------------------------------------------------------------------
(* configure(): the links, then the formats. *)
ConfigureCamera(c) ==
  LET set == Write(enabled, DOMAIN owners, LinkWrites(graph, entities[c])) IN
  /\ c \notin running
  /\ configured' = configured \cup {c}
  /\ UNCHANGED <<graph, entities, running, owners>>
  /\ set.ok /\ enabled' = set.links

(* A call that fails leaves what was done before it: the camera is configured
   if it was, with the links that were changed by then.                      *)
ConfigureCameraFails(c) ==
  LET writes == LinkWrites(graph, entities[c]) IN
  /\ c \notin running
  /\ \E n \in 0..Len(writes) : enabled' = Write(enabled, DOMAIN owners, SubSeq(writes, 1, n)).links
  /\ UNCHANGED <<graph, entities, configured, running, owners>>

(* Mutant: only the source pads are looked at. *)
ContendedSources(c) ==
  \E p \in PadsOf(c) \cap graph.sources \cap DOMAIN owners : owners[p] # c

Contended(c) == \E p \in PadsOf(c) \cap DOMAIN owners : owners[p] # c

(* acquirePipeline(): all pads or none. *)
AcquirePipeline(c) ==
  /\ ~Contended(c)
  /\ owners' = [p \in DOMAIN owners \cup PadsOf(c) |-> IF p \in PadsOf(c) THEN c ELSE owners[p]]

(* releasePipeline() *)
ReleasePipeline(c) ==
  owners' = [p \in DOMAIN owners \ PadsOf(c) |-> owners[p]]

(* start().  When it finds the pipeline contended, or releases it again because
   a device fails, nothing has changed in the end.                           *)
StartCamera(c) ==
  /\ c \in configured \ running
  /\ AcquirePipeline(c)
  /\ running' = running \cup {c}
  /\ UNCHANGED <<graph, entities, enabled, configured>>

(* stopDevice() *)
StopCamera(c) ==
  /\ c \in running
  /\ ReleasePipeline(c)
  /\ running' = running \ {c}
  /\ UNCHANGED <<graph, entities, enabled, configured>>

PipelinesNext ==
  \E c \in Cameras :
    ConfigureCamera(c) \/ ConfigureCameraFails(c) \/ StartCamera(c) \/ StopCamera(c)

PipelinesSpec == PipelinesInit /\ [][PipelinesNext]_pipelinesVars

-----------------------------------------------------------------------------
PipelinesTypeOK ==
  /\ graph \in Graphs
  /\ enabled \subseteq ToSet(graph.links) /\ graph.immutable \subseteq enabled
  /\ configured \subseteq Cameras /\ running \subseteq Cameras
  /\ DOMAIN owners \subseteq UNION {ToSet(graph.pads[e]) : e \in DOMAIN graph.pads}
  /\ \A p \in DOMAIN owners : owners[p] \in Cameras

(* "It does so by using a breadth-first search to find the shortest path": on a
   device without routing a camera exists whenever its sensor has a way to a
   video node, and it takes one of the shortest.                             *)
ShortestPath ==
  graph.routes = <<>> =>
    \A s \in LocateSensors(graph) :
      LET options == Options(graph, s, 4) IN
      /\ s \in Cameras <=> options # {}
      /\ s \in Cameras =>
           /\ LinksAlong(entities[s]) \in options
           /\ \A o \in options : Len(o) >= Len(entities[s]) - 1

(* "Two cameras are considered to be mutually exclusive if they share common
   pads": those that run share none, and the pads they own are those that
   releasePipeline() asserts they own; nobody else owns a pad.               *)
PadsAreExclusive ==
  /\ \A c, d \in running : c # d => PadsOf(c) \cap PadsOf(d) = {}
  /\ \A c \in running : \A p \in PadsOf(c) : p \in DOMAIN owners /\ owners[p] = c
  /\ DOMAIN owners = UNION {PadsOf(c) : c \in running}

(* Once a camera is configured every link on its pipeline is enabled, and no
   other one, unless immutable, on the entities behind the sensor; where they
   support routing, on their pads.                                           *)
PipelineLinked(c) ==
  LET on == ToSet(LinksAlong(entities[c]))
      touched == UNION {ToSet(LinksAt(graph, e)) : e \in ToSet(Tail(entities[c]))}
  IN  on \subseteq enabled /\ enabled \cap touched \subseteq on \cup graph.immutable

ConfiguredIsLinked == [][\A c \in Cameras : ConfigureCamera(c) => PipelineLinked(c)']_pipelinesVars

(* "This is guaranteed to produce a valid path on devices with one only option":
   where the sensors have one way each at most, their cameras take it.       *)
SingleOptionFound ==
  LET Ways(s) == Options(graph, s, 4) IN
  (\A s \in LocateSensors(graph) : Cardinality(Ways(s)) <= 1) =>
    \A s \in LocateSensors(graph) :
      Ways(s) # {} => s \in Cameras /\ LinksAlong(entities[s]) \in Ways(s)

=============================================================================
