----------------------------- MODULE MediaGraph -----------------------------
(***************************************************************************)
(* How the simple pipeline handler finds the way from a camera sensor to a *)
(* video capture node (pipeline/simple/simple.cpp, SimpleCameraData).      *)
(*                                                                         *)
(* A media graph g is a record of                                          *)
(*   pads       per entity the sequence of its pads, <<entity, index>>     *)
(*   sources    the pads that are source pads                              *)
(*   links      the links in the order in which they were created          *)
(*   immutable  the links that are always enabled                          *)
(*   routes     the active routes of the subdevs that support routing      *)
(*   sensors, isps, videos   the entities with these functions             *)
(* The media device that discovers it is not part of the repository.       *)
(***************************************************************************)
EXTENDS Integers, Sequences, FiniteSets, SequencesExt, FiniteSetsExt, Selection

CONSTANT null   \* the null pointer

EntityOf(pad) == pad[1]

(* What the kernel guarantees: a link leads from a source pad to a sink pad, and
   a route through one entity from a sink pad to a source pad.               *)
IsGraph(g) ==
  LET pads  == UNION {ToSet(g.pads[e]) : e \in DOMAIN g.pads}
      sinks == pads \ g.sources
  IN  /\ IsFiniteSet(DOMAIN g.pads) /\ g.sensors \subseteq DOMAIN g.pads
      /\ \A e \in DOMAIN g.pads : g.pads[e] \in Seq({e} \X Nat)
      /\ g.sources \subseteq pads
      /\ g.links \in Seq([source : g.sources, sink : sinks])
      /\ g.routes \in Seq([source : g.sources, sink : sinks])
      /\ \A r \in ToSet(g.routes) : EntityOf(r.source) = EntityOf(r.sink)

LinksOf(g, pad) == Selected(g.links, {l \in ToSet(g.links) : pad \in {l.source, l.sink}})

SourcePads(g, entity) == Selected(g.pads[entity], g.sources)

(* The source pads that active routes connect to the sink pad, in the order of
   the routing table.                                                        *)
RoutedSourcePads(g, sink) ==
  LET active == Selected(g.routes, {r \in ToSet(g.routes) : r.sink = sink})
  IN  [i \in DOMAIN active |-> active[i].source]

-----------------------------------------------------------------------------
(* locateSensors(): a sensor whose first link leads to an ISP stands back for
   it, and one without links is left out.                                    *)
LocateSensors(g) ==
  {LET remote == EntityOf(out[1].sink) IN IF remote \in g.isps THEN remote ELSE EntityOf(out[1].source) :
     out \in {FlattenSeq([i \in DOMAIN SourcePads(g, s) |-> LinksOf(g, SourcePads(g, s)[i])]) :
                s \in g.sensors} \ {<<>>}}

(* The ways on from an entity that was reached at sink.  Without an active
   route from it, all source pads count.                                     *)
Onward(g, entity, sink) ==
  LET routed == IF sink = null THEN <<>> ELSE RoutedSourcePads(g, sink)
      pads   == IF routed = <<>> THEN SourcePads(g, entity) ELSE routed
      Ways(pad) == LET out == LinksOf(g, pad) IN
                   [k \in DOMAIN out |-> [entity |-> entity, supportsRouting |-> routed # <<>>,
                                          sink |-> sink, source |-> pad, link |-> out[k]]]
  IN  FlattenSeq([i \in DOMAIN pads |-> Ways(pads[i])])

(* Mutant: a later way to an entity replaces the first one. *)
ConsiderLast(search, way) ==
  LET next == EntityOf(way.link.sink) IN
  IF next \in search.visited THEN search
  ELSE [search EXCEPT !.queue = Append(@, [entity |-> next, sink |-> way.link.sink]),
                      !.parents = [e \in DOMAIN @ \cup {next} |-> IF e = next THEN way ELSE @[e]]]

(* An entity that was not visited yet is queued, and remembers where it was
   reached from first.                                                       *)
Consider(search, way) ==
  LET next == EntityOf(way.link.sink) IN
  IF next \in search.visited THEN search
  ELSE [search EXCEPT !.queue = Append(@, [entity |-> next, sink |-> way.link.sink]),
                      !.parents = [e \in DOMAIN @ \cup {next} |-> IF e \in DOMAIN @ THEN @[e] ELSE way]]

(* One round of the search; it ends at the first video node. *)
Visit(g, search) ==
  LET at == Head(search.queue) IN
  IF at.entity \in g.videos
  THEN [search EXCEPT !.video = at]
  ELSE FoldLeft(Consider,
                [search EXCEPT !.queue = Tail(@), !.visited = @ \cup {at.entity}],
                Onward(g, at.entity, at.sink))

(* The breadth-first search from a sensor.  Bound: it takes fewer rounds than
   the graphs that are checked have links, twice over.                       *)
Search(g, sensor) ==
  LET rounds == 2 * Len(g.links) + 1
      search[n \in 0..rounds] ==
        IF n = 0 THEN [queue |-> <<[entity |-> sensor, sink |-> null]>>, visited |-> {},
                       parents |-> <<>>, video |-> null]
        ELSE LET s == search[n-1] IN
             IF s.video # null \/ s.queue = <<>> THEN s ELSE Visit(g, s)
  IN  search[rounds]

(* The entities_ of a camera: how its sensor is connected, and what follows, to
   the video node; empty when none was found.                                *)
Pipeline(g, sensor) ==
  LET s == Search(g, sensor)
      video == [entity |-> s.video.entity, supportsRouting |-> FALSE, sink |-> s.video.sink,
                source |-> null, link |-> null]
      back[n \in 0..Cardinality(s.visited)] ==
        IF n = 0 THEN <<video>>
        ELSE LET path == back[n-1] IN
             IF path[1].entity \in DOMAIN s.parents THEN <<s.parents[path[1].entity]>> \o path
             ELSE path
  IN  IF s.video = null THEN <<>> ELSE back[Cardinality(s.visited)]

-----------------------------------------------------------------------------
(* For reference: a route is a sequence of links, each from the entity that the
   one before leads to, and where an entity has a routing table, along one of
   its routes; those of at most n links from a sensor, and those of them that
   end at a video node.                                                      *)
Follows(g, l, m) ==
  /\ EntityOf(l.sink) = EntityOf(m.source)
  /\ EntityOf(l.sink) \notin g.videos
  /\ (\E r \in ToSet(g.routes) : EntityOf(r.sink) = EntityOf(l.sink)) =>
       [sink |-> l.sink, source |-> m.source] \in ToSet(g.routes)

Options(g, sensor, n) ==
  LET walks[k \in 1..n] ==
        IF k = 1 THEN {<<l>> : l \in {m \in ToSet(g.links) : EntityOf(m.source) = sensor}}
        ELSE LET shorter == walks[k-1] IN
             shorter \cup UNION {{Append(w, l) : l \in {m \in ToSet(g.links) : Follows(g, Last(w), m)}}
                                  : w \in shorter}
  IN  {w \in walks[n] : EntityOf(Last(w).sink) \in g.videos}

LinksAlong(pipeline) == [i \in 1..(Len(pipeline) - 1) |-> pipeline[i].link]
=============================================================================
