------------------------ MODULE MediaPipelinesProofs ------------------------
(***************************************************************************)
(* Proofs about MediaPipelines, for any media graphs: cameras that run     *)
(* share no pad, and what is configured is linked.                         *)
(***************************************************************************)
EXTENDS MediaPipelines, DataLemmas

LEMMA ExclusiveStep ==
  ASSUME PadsAreExclusive, [PipelinesNext]_pipelinesVars
  PROVE  PadsAreExclusive'
<1> USE DEF PadsAreExclusive
<1>1. ASSUME UNCHANGED <<entities, running, owners>> PROVE PadsAreExclusive'
  <2>1. \A d : PadsOf(d)' = PadsOf(d) BY <1>1 DEF PadsOf
  <2> QED BY <1>1, <2>1
<1>2. ASSUME NEW c, StartCamera(c) PROVE PadsAreExclusive'
  <2>1. /\ c \notin running /\ running' = running \cup {c} /\ UNCHANGED entities
        /\ owners' = [p \in DOMAIN owners \cup PadsOf(c) |-> IF p \in PadsOf(c) THEN c ELSE owners[p]]
        /\ \A p \in PadsOf(c) \cap DOMAIN owners : owners[p] = c
    BY <1>2 DEF StartCamera, AcquirePipeline, Contended
  <2>2. \A d : PadsOf(d)' = PadsOf(d) BY <2>1 DEF PadsOf
  <2>3. ASSUME NEW d \in running PROVE d # c /\ PadsOf(c) \cap PadsOf(d) = {}
    BY <2>1
  <2>4. DOMAIN owners' = DOMAIN owners \cup PadsOf(c) BY <2>1
  <2>5. \A d \in running' : \A p \in PadsOf(d) : p \in DOMAIN owners' /\ owners'[p] = d
    BY <2>1, <2>3, <2>4
  <2> QED BY <2>1, <2>2, <2>3, <2>4, <2>5
<1>3. ASSUME NEW c, StopCamera(c) PROVE PadsAreExclusive'
  <2>1. /\ c \in running /\ running' = running \ {c} /\ UNCHANGED entities
        /\ owners' = [p \in DOMAIN owners \ PadsOf(c) |-> owners[p]]
    BY <1>3 DEF StopCamera, ReleasePipeline
  <2>2. \A d : PadsOf(d)' = PadsOf(d) BY <2>1 DEF PadsOf
  <2>3. ASSUME NEW d \in running' PROVE PadsOf(c) \cap PadsOf(d) = {}
    BY <2>1
  <2>4. DOMAIN owners' = DOMAIN owners \ PadsOf(c) BY <2>1
  <2>5. \A d \in running' : \A p \in PadsOf(d) : p \in DOMAIN owners' /\ owners'[p] = d
    BY <2>1, <2>3, <2>4
  <2> QED BY <2>1, <2>2, <2>3, <2>4, <2>5
<1> QED
  BY <1>1, <1>2, <1>3 DEF PipelinesNext, pipelinesVars, ConfigureCamera, ConfigureCameraFails

(* Cameras that run at the same time have no pad in common, and every pad that
   releasePipeline() gives back is owned by the camera that gives it back.   *)
THEOREM ExclusiveAccess == PipelinesSpec => []PadsAreExclusive
<1>1. PipelinesInit => PadsAreExclusive
  <2> SUFFICES ASSUME PipelinesInit PROVE PadsAreExclusive OBVIOUS
  <2>1. running = {} /\ owners = <<>> BY DEF PipelinesInit
  <2> QED BY <2>1 DEF PadsAreExclusive
<1> QED BY <1>1, ExclusiveStep, PTL DEF PipelinesSpec

-----------------------------------------------------------------------------
(* Writes of links.  The kernel goes from one of its states to another, *)
Writes(L) == [link : L, on : BOOLEAN]

WriteStates(L) == [ok : BOOLEAN, links : SUBSET L]

LEMMA SetEnabledType ==
  ASSUME NEW L, NEW s \in WriteStates(L), NEW w \in Writes(L), NEW busy
  PROVE  /\ SetEnabled(s, w, busy) \in WriteStates(L)
         /\ SetEnabled(s, w, busy).ok =>
              /\ s.ok
              /\ (w.link \in SetEnabled(s, w, busy).links) = w.on
              /\ \A l : l # w.link => (l \in SetEnabled(s, w, busy).links <=> l \in s.links)
<1>1. /\ s = [ok |-> s.ok, links |-> s.links] /\ s.ok \in BOOLEAN /\ s.links \in SUBSET L
      /\ w.link \in L /\ w.on \in BOOLEAN
  BY DEF WriteStates, Writes
<1>2. CASE ~s.ok \/ (w.link \in s.links) = w.on
  <2>1. SetEnabled(s, w, busy) = s BY <1>2 DEF SetEnabled
  <2> QED BY <1>1, <1>2, <2>1
<1> DEFINE x == SetEnabled(s, w, busy)
<1>3. CASE ~(~s.ok \/ (w.link \in s.links) = w.on) /\ {w.link.source, w.link.sink} \cap busy # {}
  <2>1. x = [s EXCEPT !.ok = FALSE] BY <1>3, Zenon DEF SetEnabled
  <2> HIDE DEF x
  <2>2. x = [ok |-> FALSE, links |-> s.links] BY <1>1, <2>1
  <2>3. x \in WriteStates(L) /\ ~x.ok BY <1>1, <2>2 DEF WriteStates
  <2> QED BY <2>3 DEF x
<1>4. CASE ~(~s.ok \/ (w.link \in s.links) = w.on) /\ ~({w.link.source, w.link.sink} \cap busy # {})
  <2> DEFINE to == IF w.on THEN s.links \cup {w.link} ELSE s.links \ {w.link}
  <2>1. x = [s EXCEPT !.links = to] BY <1>4, Zenon DEF SetEnabled
  <2>2. to \in SUBSET L /\ (w.link \in to) = w.on /\ \A l : l # w.link => (l \in to <=> l \in s.links)
    BY <1>1
  <2> HIDE DEF to, x
  <2>3. x = [ok |-> s.ok, links |-> to] BY <1>1, <2>1
  <2>4. x \in WriteStates(L) /\ x.ok = s.ok /\ x.links = to BY <1>1, <2>2, <2>3 DEF WriteStates
  <2> QED BY <1>4, <2>2, <2>4 DEF x
<1> QED BY <1>2, <1>3, <1>4

(* ... one write after the other. *)
Runs(h, ws, start, busy) ==
  h[0] = start /\ \A n \in 1..Len(ws) : h[n] = SetEnabled(h[n - 1], ws[n], busy)

LEMMA WriteRuns ==
  ASSUME NEW L, NEW links \in SUBSET L, NEW busy, NEW ws \in Seq(Writes(L))
  PROVE  \E h \in [0..Len(ws) -> WriteStates(L)] :
           /\ Runs(h, ws, [ok |-> TRUE, links |-> links], busy)
           /\ h[Len(ws)] = Write(links, busy, ws)
<1> DEFINE N == Len(ws)
           R == WriteStates(L)
           X == Writes(L)
           start == [ok |-> TRUE, links |-> links]
           Turn == [p \in R \X X |-> SetEnabled(p[1], p[2], busy)]
           Is(g) == g = [s \in SUBSET (DOMAIN ws) |->
                           IF s = {} THEN start
                           ELSE LET x == Max(s) IN SetEnabled(g[s \ {x}], ws[x], busy)]
<1>0. N \in Nat /\ DOMAIN ws = 1..N /\ ws \in [1..N -> X]
  <2>1. ws \in Seq(X) OBVIOUS
  <2> HIDE DEF X
  <2> QED BY <2>1
<1>1. start \in R BY DEF WriteStates
<1>2. \A a \in R, v \in X : SetEnabled(a, v, busy) \in R BY SetEnabledType
<1> HIDE DEF R, X
<1>3. Turn \in [R \X X -> R] BY <1>2
<1>4. \A a \in R, v \in X : Turn[<<a, v>>] = SetEnabled(a, v, busy)
  <2> TAKE a \in R, v \in X
  <2>1. <<a, v>> \in R \X X /\ <<a, v>>[1] = a /\ <<a, v>>[2] = v OBVIOUS
  <2> QED BY <2>1
<1> HIDE DEF N, Turn, start
<1>5. PICK it \in [SUBSET (1..N) -> R] : IsFold(it, N, start, Turn, ws)
  BY <1>0, <1>1, <1>3, FoldExists
<1>6. ASSUME NEW s \in SUBSET (1..N), s # {}
      PROVE  it[s] = SetEnabled(it[s \ {Max(s)}], ws[Max(s)], busy)
  <2>1. Max(s) \in 1..N BY <1>0, <1>6, MaxInSet
  <2>2. s \ {Max(s)} \in SUBSET (1..N) OBVIOUS
  <2>3. it[s \ {Max(s)}] \in R /\ ws[Max(s)] \in X BY <1>0, <2>1, <2>2
  <2>4. it[s] = Turn[<<it[s \ {Max(s)}], ws[Max(s)]>>] BY <1>5, <1>6 DEF IsFold
  <2> QED BY <2>3, <2>4, <1>4
<1>7. Is(it)
  <2>1. it[{}] = start BY <1>5 DEF IsFold
  <2>2. it = [s \in SUBSET (1..N) |->
                IF s = {} THEN start ELSE SetEnabled(it[s \ {Max(s)}], ws[Max(s)], busy)]
    BY <1>6, <2>1
  <2> QED BY <2>2, <1>0, Zenon
<1> DEFINE iter == CHOOSE g : Is(g)
<1>8. Is(iter)
  <2> HIDE DEF Is
  <2> QED BY <1>7, Zenon
<1>9. Write(links, busy, ws) = iter[DOMAIN ws] BY Zenon DEF Write, FoldLeft, MapThenFoldSet, start
<1> HIDE DEF iter
<1>10. iter = [s \in SUBSET (1..N) |->
                IF s = {} THEN start ELSE SetEnabled(iter[s \ {Max(s)}], ws[Max(s)], busy)]
  BY <1>8, <1>0, Zenon
<1> HIDE DEF Is
<1> DEFINE h == [n \in 0..N |-> iter[1..n]]
<1>11. h[0] = start
  <2>1. 1..0 = {} /\ {} \in SUBSET (1..N) OBVIOUS
  <2> QED BY <1>0, <1>10, <2>1
<1>12. ASSUME NEW n \in 1..N PROVE h[n] = SetEnabled(h[n - 1], ws[n], busy)
  <2>0. n \in Nat /\ n > 0 /\ n \in 0..N /\ n - 1 \in 0..N /\ 1..n \in SUBSET (1..N) BY <1>0
  <2>1. Max(1..n) = n /\ (1..n) \ {n} = 1..(n - 1) /\ 1..n # {} BY <2>0, FoldPrefix
  <2>2. iter[1..n] = SetEnabled(iter[1..(n - 1)], ws[n], busy) BY <1>10, <2>0, <2>1
  <2> QED BY <2>0, <2>2
<1>13. h[N] = Write(links, busy, ws) BY <1>0, <1>9
<1>14. \A n \in 0..N : h[n] \in R
  <2> HIDE DEF h
  <2> DEFINE Z == {n \in Nat : n <= N => h[n] \in R}
  <2>1. 0 \in Z BY <1>1, <1>11
  <2>2. ASSUME NEW n \in Nat, n \in Z PROVE n + 1 \in Z
    <3> SUFFICES ASSUME n + 1 <= N PROVE h[n + 1] \in R OBVIOUS
    <3>1. n + 1 \in 1..N /\ (n + 1) - 1 = n /\ h[n] \in R BY <1>0, <2>2
    <3>2. h[n + 1] = SetEnabled(h[n], ws[n + 1], busy) BY <1>12, <3>1
    <3>3. ws[n + 1] \in X BY <1>0, <3>1
    <3> QED BY <1>2, <3>1, <3>2, <3>3
  <2> HIDE DEF Z
  <2>3. Nat \subseteq Z BY <2>1, <2>2, InductionOnNat
  <2> QED BY <1>0, <2>3 DEF Z
<1>15. h \in [0..N -> R]
  <2>1. h = [n \in 0..N |-> h[n]] OBVIOUS
  <2> HIDE DEF h
  <2> QED BY <1>14, <2>1
<1> HIDE DEF h
<1>16. Runs(h, ws, start, busy) BY <1>11, <1>12 DEF Runs, N
<1> QED BY <1>13, <1>15, <1>16 DEF N, R, start

LastSays(ws, i) ==
  \A j \in 1..Len(ws) : j > i /\ ws[j].link = ws[i].link => ws[j].on = ws[i].on

(* The last write of a link says whether it is enabled in the end, if none
   failed.                                                                  *)
LEMMA LastWriteTells ==
  ASSUME NEW L, NEW links \in SUBSET L, NEW busy, NEW ws \in Seq(Writes(L)),
         Write(links, busy, ws).ok,
         NEW i \in 1..Len(ws),
         LastSays(ws, i)
  PROVE  (ws[i].link \in Write(links, busy, ws).links) = ws[i].on
<1> DEFINE N == Len(ws)
           l == ws[i].link
           W == WriteStates(L)
<1>0. N \in Nat /\ i \in 1..N /\ \A n \in 1..N : ws[n] \in Writes(L)
  <2> DEFINE X == Writes(L)
  <2>1. ws \in Seq(X) OBVIOUS
  <2> HIDE DEF X
  <2>2. N \in Nat /\ \A n \in 1..N : ws[n] \in X BY <2>1
  <2> QED BY <2>2 DEF X
<1>1. PICK h \in [0..N -> W] :
        /\ Runs(h, ws, [ok |-> TRUE, links |-> links], busy)
        /\ h[N] = Write(links, busy, ws)
  BY WriteRuns
<1>2. ASSUME NEW n \in 1..N, h[n].ok
      PROVE  /\ h[n - 1].ok /\ (ws[n].link \in h[n].links) = ws[n].on
             /\ ws[n].link # l => (l \in h[n].links <=> l \in h[n - 1].links)
  <2>1. n - 1 \in 0..N /\ h[n - 1] \in W BY <1>0
  <2>2. h[n] = SetEnabled(h[n - 1], ws[n], busy) BY <1>1 DEF Runs
  <2> HIDE DEF l
  <2> QED BY <1>0, <1>2, <2>1, <2>2, SetEnabledType
<1> HIDE DEF N, W
<1> DEFINE Z == {k \in Nat : \A n \in 0..N : n + k = N => h[n].ok}
<1>3. 0 \in Z
  <2>1. h[N].ok BY <1>1
  <2> QED BY <1>0, <2>1
<1>4. ASSUME NEW k \in Nat, k \in Z PROVE k + 1 \in Z
  <2> SUFFICES ASSUME NEW n \in 0..N, n + (k + 1) = N PROVE h[n].ok OBVIOUS
  <2>1. n + 1 \in 1..N /\ n + 1 \in 0..N /\ (n + 1) + k = N /\ (n + 1) - 1 = n BY <1>0
  <2>2. h[n + 1].ok BY <1>4, <2>1
  <2> QED BY <1>2, <2>1, <2>2
<1>5. \A n \in 0..N : h[n].ok
  <2> TAKE n \in 0..N
  <2> HIDE DEF Z
  <2>1. N - n \in Nat /\ n + (N - n) = N BY <1>0
  <2>2. N - n \in Z BY <1>3, <1>4, <2>1, InductionOnNat
  <2> QED BY <2>1, <2>2 DEF Z
<1> HIDE DEF Z
<1> DEFINE V == {k \in Nat : i + k <= N => (l \in h[i + k].links) = ws[i].on}
<1>6. 0 \in V
  <2>1. i \in 1..N /\ i \in 0..N /\ i + 0 = i BY <1>0
  <2>2. (l \in h[i].links) = ws[i].on BY <1>2, <1>5, <2>1
  <2> QED BY <2>1, <2>2
<1>7. ASSUME NEW k \in Nat, k \in V PROVE k + 1 \in V
  <2> SUFFICES ASSUME i + (k + 1) <= N PROVE (l \in h[i + (k + 1)].links) = ws[i].on OBVIOUS
  <2> DEFINE n == i + (k + 1)
  <2>1. n \in 1..N /\ n \in 0..N /\ n > i /\ n - 1 = i + k /\ i + k <= N BY <1>0
  <2> HIDE DEF n
  <2>2. (l \in h[n - 1].links) = ws[i].on BY <1>7, <2>1
  <2>3. h[n].ok BY <1>5, <2>1
  <2>4. CASE ws[n].link = l
    <3>1. ws[n].on = ws[i].on BY <2>1, <2>4 DEF N, LastSays
    <3> QED BY <1>2, <2>1, <2>3, <2>4, <3>1 DEF n
  <2>5. CASE ws[n].link # l
    <3>1. l \in h[n].links <=> l \in h[n - 1].links BY <1>2, <2>1, <2>3, <2>5
    <3> QED BY <2>2, <3>1 DEF n
  <2> QED BY <2>4, <2>5
<1> HIDE DEF V
<1>8. N - i \in Nat /\ i + (N - i) = N BY <1>0
<1>9. N - i \in V BY <1>6, <1>7, <1>8, InductionOnNat
<1> QED BY <1>1, <1>8, <1>9 DEF V
-----------------------------------------------------------------------------
(* Media graphs. *)
Pads(g) == UNION {ToSet(g.pads[e]) : e \in DOMAIN g.pads}

LinkBetween(g, l, from, to) ==
  /\ l \in ToSet(g.links)
  /\ EntityOf(l.source) = from /\ EntityOf(l.sink) = to

LEMMA SeqOfElements ==
  ASSUME NEW T, NEW q \in Seq(T)
  PROVE  q \in Seq(ToSet(q)) /\ ToSet(q) \subseteq T
<1>1. DOMAIN q = 1..Len(q) /\ Len(q) \in Nat OBVIOUS
<1>2. ToSet(q) = {q[i] : i \in DOMAIN q} BY DEF ToSet
<1>3. \A i \in 1..Len(q) : q[i] \in ToSet(q) /\ q[i] \in T BY <1>1, <1>2
<1>4. q = [i \in 1..Len(q) |-> q[i]] BY <1>1
<1> QED BY <1>1, <1>2, <1>3, <1>4

(* A link leads from a source pad to another pad. *)
LEMMA GraphLinks ==
  ASSUME NEW g, IsGraph(g), NEW l \in ToSet(g.links)
  PROVE  /\ g.links \in Seq(ToSet(g.links))
         /\ l.source \in g.sources /\ l.sink \in Pads(g) \ g.sources
         /\ EntityOf(l.source) \in DOMAIN g.pads /\ EntityOf(l.sink) \in DOMAIN g.pads
<1> DEFINE P == Pads(g)
           K == [source : g.sources, sink : P \ g.sources]
<1>1. g.links \in Seq(K) /\ g.sources \subseteq P BY DEF IsGraph, Pads
<1>2. \A e \in DOMAIN g.pads : g.pads[e] \in Seq({e} \X Nat) BY DEF IsGraph
<1>3. \A p \in P : EntityOf(p) \in DOMAIN g.pads
  <2> SUFFICES ASSUME NEW e \in DOMAIN g.pads, NEW p \in ToSet(g.pads[e])
               PROVE  EntityOf(p) = e
    BY DEF Pads
  <2>1. p \in {e} \X Nat BY <1>2, SeqOfElements
  <2> QED BY <2>1 DEF EntityOf
<1> HIDE DEF K
<1>4. g.links \in Seq(ToSet(g.links)) /\ l \in K BY <1>1, SeqOfElements
<1>5. l.source \in g.sources /\ l.sink \in P \ g.sources BY <1>4 DEF K
<1> QED BY <1>1, <1>3, <1>4, <1>5

LEMMA GraphPads ==
  ASSUME NEW g, IsGraph(g), NEW e \in DOMAIN g.pads
  PROVE  /\ g.pads[e] \in Seq({p \in Pads(g) : EntityOf(p) = e})
         /\ ToSet(g.pads[e]) \subseteq {p \in Pads(g) : EntityOf(p) = e}
<1>1. g.pads[e] \in Seq({e} \X Nat) BY DEF IsGraph
<1>2. g.pads[e] \in Seq(ToSet(g.pads[e])) /\ ToSet(g.pads[e]) \subseteq {e} \X Nat
  BY <1>1, SeqOfElements
<1>3. \A p \in ToSet(g.pads[e]) : p \in Pads(g) /\ EntityOf(p) = e BY <1>2 DEF Pads, EntityOf
<1> DEFINE S == {p \in Pads(g) : EntityOf(p) = e}
<1>4. ToSet(g.pads[e]) \subseteq S BY <1>3
<1> HIDE DEF S
<1>5. g.pads[e] \in Seq(S) BY <1>2, <1>4
<1> QED BY <1>4, <1>5 DEF S

(* The links of a pad have it at one end, those of a source pad begin there. *)
LEMMA LinksOfType ==
  ASSUME NEW g, IsGraph(g), NEW pad
  PROVE  /\ LinksOf(g, pad) \in Seq(ToSet(g.links))
         /\ \A l : l \in ToSet(LinksOf(g, pad)) <=>
                     l \in ToSet(g.links) /\ pad \in {l.source, l.sink}
         /\ pad \in g.sources => \A l \in ToSet(LinksOf(g, pad)) : l.source = pad
<1> DEFINE K == ToSet(g.links)
           S == {l \in K : pad \in {l.source, l.sink}}
           q == LinksOf(g, pad)
<1>1. g.links \in Seq(K)
  <2> DEFINE Z == [source : g.sources, sink : Pads(g) \ g.sources]
  <2>1. g.links \in Seq(Z) BY DEF IsGraph, Pads
  <2> HIDE DEF Z
  <2> QED BY <2>1, SeqOfElements
<1>2. q = Selected(g.links, S) BY DEF LinksOf
<1> HIDE DEF q, S, K
<1>3. q \in Seq(K) /\ ToSet(q) = ToSet(g.links) \cap S BY <1>1, <1>2, SelectedElements
<1>4. \A l : l \in ToSet(q) <=> l \in K /\ pad \in {l.source, l.sink} BY <1>3 DEF S, K
<1>5. \A l \in K : pad \in {l.source, l.sink} /\ pad \in g.sources => l.source = pad
  BY GraphLinks DEF K
<1> QED BY <1>3, <1>4, <1>5 DEF q, K

(* A step of a way on from e takes a link that begins there. *)
StepsFrom(g, e) ==
  {w \in [entity : {e}, supportsRouting : BOOLEAN, sink : Pads(g) \cup {null}, source : Pads(g),
          link : ToSet(g.links)] : EntityOf(w.link.source) = e}

LEMMA SourcePadsType ==
  ASSUME NEW g, IsGraph(g), NEW e \in DOMAIN g.pads
  PROVE  SourcePads(g, e) \in Seq({p \in Pads(g) : p \in g.sources /\ EntityOf(p) = e})
<1> DEFINE S == {p \in Pads(g) : EntityOf(p) = e}
           O == {p \in Pads(g) : p \in g.sources /\ EntityOf(p) = e}
           q == SourcePads(g, e)
<1>1. g.pads[e] \in Seq(S) /\ ToSet(g.pads[e]) \subseteq S BY GraphPads
<1>2. q = Selected(g.pads[e], g.sources) BY DEF SourcePads
<1>3. S \cap g.sources = O OBVIOUS
<1> HIDE DEF S, O, q
<1>4. q \in Seq(S) /\ ToSet(q) = ToSet(g.pads[e]) \cap g.sources BY <1>1, <1>2, SelectedElements
<1>5. ToSet(q) \subseteq O BY <1>1, <1>3, <1>4
<1>6. q \in Seq(ToSet(q)) BY <1>4, SeqOfElements
<1>7. q \in Seq(O) BY <1>5, <1>6
<1> QED BY <1>7 DEF q, O

LEMMA RoutedType ==
  ASSUME NEW g, IsGraph(g), NEW sink
  PROVE  RoutedSourcePads(g, sink) \in
           Seq({p \in Pads(g) : p \in g.sources /\ EntityOf(p) = EntityOf(sink)})
<1> DEFINE K == [source : g.sources, sink : Pads(g) \ g.sources]
           S == {r \in ToSet(g.routes) : r.sink = sink}
           O == {p \in Pads(g) : p \in g.sources /\ EntityOf(p) = EntityOf(sink)}
           a == Selected(g.routes, S)
<1>1. /\ g.routes \in Seq(K) /\ g.sources \subseteq Pads(g)
      /\ \A r \in ToSet(g.routes) : EntityOf(r.source) = EntityOf(r.sink)
  BY DEF IsGraph, Pads
<1>2. RoutedSourcePads(g, sink) = [i \in DOMAIN a |-> a[i].source] BY DEF RoutedSourcePads
<1> HIDE DEF a
<1>3. a \in Seq(K) /\ ToSet(a) = ToSet(g.routes) \cap S
  <2> HIDE DEF K, S
  <2> QED BY <1>1, SelectedElements DEF a
<1>4. Len(a) \in Nat /\ DOMAIN a = 1..Len(a) /\ \A i \in 1..Len(a) : a[i] \in K /\ a[i] \in ToSet(a)
  <2> HIDE DEF K
  <2> QED BY <1>3 DEF ToSet
<1>5. \A i \in 1..Len(a) : a[i].source \in O BY <1>1, <1>3, <1>4
<1> HIDE DEF O
<1>6. [i \in 1..Len(a) |-> a[i].source] \in Seq(O) BY <1>4, <1>5
<1> QED BY <1>2, <1>4, <1>6 DEF O

LEMMA OnwardType ==
  ASSUME NEW g, IsGraph(g), NEW e \in DOMAIN g.pads, NEW sink \in Pads(g) \cup {null},
         sink # null => EntityOf(sink) = e
  PROVE  Onward(g, e, sink) \in Seq(StepsFrom(g, e))
<1> DEFINE O == {p \in Pads(g) : p \in g.sources /\ EntityOf(p) = e}
           routed == IF sink = null THEN <<>> ELSE RoutedSourcePads(g, sink)
           pads == IF routed = <<>> THEN SourcePads(g, e) ELSE routed
           Way(pad, l) == [entity |-> e, supportsRouting |-> routed # <<>>, sink |-> sink,
                           source |-> pad, link |-> l]
           Ways(pad) == [k \in DOMAIN LinksOf(g, pad) |-> Way(pad, LinksOf(g, pad)[k])]
           qs == [i \in DOMAIN pads |-> Ways(pads[i])]
           W == StepsFrom(g, e)
<1>1. Onward(g, e, sink) = FlattenSeq(qs) BY DEF Onward
<1>2. pads \in Seq(O)
  <2>1. SourcePads(g, e) \in Seq(O) BY SourcePadsType
  <2>2. sink # null => RoutedSourcePads(g, sink) \in Seq(O) BY RoutedType
  <2> HIDE DEF O
  <2> QED BY <2>1, <2>2
<1> DEFINE routing == routed # <<>>
<1>3. routing \in BOOLEAN OBVIOUS
<1> HIDE DEF pads, routed
<1>4. ASSUME NEW pad \in O PROVE Ways(pad) \in Seq(W)
  <2> DEFINE out == LinksOf(g, pad)
  <2>1. out \in Seq(ToSet(g.links)) /\ \A l \in ToSet(out) : l.source = pad BY LinksOfType
  <2>2. Ways(pad) = [k \in DOMAIN out |-> Way(pad, out[k])] OBVIOUS
  <2> HIDE DEF out
  <2>3. Len(out) \in Nat /\ DOMAIN out = 1..Len(out)
        /\ \A k \in 1..Len(out) : out[k] \in ToSet(g.links) /\ out[k] \in ToSet(out)
    BY <2>1 DEF ToSet
  <2>4. \A k \in 1..Len(out) : Way(pad, out[k]) \in W
    <3> TAKE k \in 1..Len(out)
    <3>1. out[k] \in ToSet(g.links) /\ out[k].source = pad BY <2>1, <2>3
    <3> QED BY <1>3, <3>1 DEF StepsFrom
  <2> HIDE DEF Way, W
  <2> QED BY <2>2, <2>3, <2>4
<1> HIDE DEF Ways, W, O
<1>5. qs \in Seq(Seq(W))
  <2>1. Len(pads) \in Nat /\ DOMAIN pads = 1..Len(pads) /\ \A i \in 1..Len(pads) : pads[i] \in O
    BY <1>2
  <2>2. \A i \in 1..Len(pads) : Ways(pads[i]) \in Seq(W) BY <1>4, <2>1
  <2> DEFINE Z == Seq(W)
  <2> HIDE DEF Z
  <2>3. qs = [i \in 1..Len(pads) |-> Ways(pads[i])] BY <2>1
  <2>4. qs \in Seq(Z) BY <2>1, <2>2, <2>3 DEF Z
  <2> QED BY <2>4 DEF Z
<1> HIDE DEF qs
<1>6. FlattenSeq(qs) \in Seq(W) BY <1>5, Flattened
<1> QED BY <1>1, <1>6 DEF W

-----------------------------------------------------------------------------
(* The search.  What is queued are entities with the pad they were reached at, *)
Items(g) ==
  {i \in [entity : DOMAIN g.pads, sink : Pads(g) \cup {null}] :
     i.sink # null => EntityOf(i.sink) = i.entity}

Steps(g) == UNION {StepsFrom(g, e) : e \in DOMAIN g.pads}

(* a parent is an entity that was visited, with a link from it, *)
CameFrom(g, s) ==
  \A e \in DOMAIN s.parents :
    /\ s.parents[e].entity \in s.visited
    /\ LinkBetween(g, s.parents[e].link, s.parents[e].entity, e)

(* and was visited earlier. *)
Ranked(s, rank, b) ==
  /\ rank \in [s.visited -> 0..b]
  /\ \A e \in s.visited \cap DOMAIN s.parents : rank[s.parents[e].entity] < rank[e]

Searches(g) ==
  {s \in [queue : Seq(Items(g)), visited : SUBSET DOMAIN g.pads,
          parents : UNION {[P -> Steps(g)] : P \in SUBSET DOMAIN g.pads},
          video : Items(g) \cup {null}] :
     CameFrom(g, s) /\ \E b \in Nat : \E rank : Ranked(s, rank, b)}

LEMMA SearchParts ==
  ASSUME NEW g, NEW q \in Seq(Items(g)), NEW V \in SUBSET DOMAIN g.pads,
         NEW P \in SUBSET DOMAIN g.pads, NEW p \in [P -> Steps(g)],
         NEW v \in Items(g) \cup {null},
         \A e \in P : p[e].entity \in V /\ LinkBetween(g, p[e].link, p[e].entity, e),
         NEW b \in Nat, NEW rank \in [V -> 0..b],
         \A e \in V \cap P : rank[p[e].entity] < rank[e]
  PROVE  [queue |-> q, visited |-> V, parents |-> p, video |-> v] \in Searches(g)
<1> DEFINE s == [queue |-> q, visited |-> V, parents |-> p, video |-> v]
           F == UNION {[D -> Steps(g)] : D \in SUBSET DOMAIN g.pads}
           I == Items(g)
           Q == Seq(I)
           R == [queue : Q, visited : SUBSET DOMAIN g.pads, parents : F, video : I \cup {null}]
<1>1. p \in F /\ DOMAIN p = P OBVIOUS
<1> HIDE DEF F, I
<1>2. q \in Q /\ v \in I \cup {null} BY DEF I
<1> HIDE DEF Q
<1>3. s \in R BY <1>1, <1>2
<1>4. s.queue = q /\ s.visited = V /\ s.parents = p /\ s.video = v OBVIOUS
<1> HIDE DEF s, R
<1>5. CameFrom(g, s) BY <1>1, <1>4 DEF CameFrom
<1>6. Ranked(s, rank, b) BY <1>1, <1>4 DEF Ranked
<1>7. s \in Searches(g) BY <1>3, <1>5, <1>6 DEF Searches, R, F, Q, I
<1> QED BY <1>7 DEF s

LEMMA SearchHas ==
  ASSUME NEW g, NEW s \in Searches(g)
  PROVE  /\ s = [queue |-> s.queue, visited |-> s.visited, parents |-> s.parents, video |-> s.video]
         /\ s.queue \in Seq(Items(g)) /\ s.visited \in SUBSET DOMAIN g.pads
         /\ DOMAIN s.parents \in SUBSET DOMAIN g.pads
         /\ s.parents \in [DOMAIN s.parents -> Steps(g)]
         /\ s.video \in Items(g) \cup {null}
         /\ CameFrom(g, s) /\ \E b \in Nat : \E rank : Ranked(s, rank, b)
<1> DEFINE F == UNION {[D -> Steps(g)] : D \in SUBSET DOMAIN g.pads}
           I == Items(g)
           Q == Seq(I)
           R == [queue : Q, visited : SUBSET DOMAIN g.pads, parents : F, video : I \cup {null}]
<1>1. s \in R /\ CameFrom(g, s) /\ \E b \in Nat : \E rank : Ranked(s, rank, b)
  BY DEF Searches
<1> HIDE DEF F, Q, I
<1>2. /\ s = [queue |-> s.queue, visited |-> s.visited, parents |-> s.parents, video |-> s.video]
      /\ s.queue \in Q /\ s.visited \in SUBSET DOMAIN g.pads /\ s.parents \in F
      /\ s.video \in I \cup {null}
  BY <1>1
<1>3. DOMAIN s.parents \in SUBSET DOMAIN g.pads /\ s.parents \in [DOMAIN s.parents -> Steps(g)]
  BY <1>2 DEF F
<1> QED BY <1>1, <1>2, <1>3 DEF Q, I

LEMMA ConsiderType ==
  ASSUME NEW g, IsGraph(g), NEW e \in DOMAIN g.pads, NEW s \in Searches(g), e \in s.visited,
         NEW w \in StepsFrom(g, e)
  PROVE  Consider(s, w) \in Searches(g) /\ e \in Consider(s, w).visited
<1> DEFINE next == EntityOf(w.link.sink)
           P == DOMAIN s.parents
           item == [entity |-> next, sink |-> w.link.sink]
           q2 == Append(s.queue, item)
           p2 == [d \in P \cup {next} |-> IF d \in P THEN s.parents[d] ELSE w]
           x == Consider(s, w)
           y == [queue |-> q2, visited |-> s.visited, parents |-> p2, video |-> s.video]
<1>1. CASE next \in s.visited BY <1>1 DEF Consider
<1>2. CASE next \notin s.visited
  <2>1. x = [s EXCEPT !.queue = q2, !.parents = p2] BY <1>2 DEF Consider
  <2>2. /\ s = [queue |-> s.queue, visited |-> s.visited, parents |-> s.parents, video |-> s.video]
        /\ s.queue \in Seq(Items(g)) /\ s.visited \in SUBSET DOMAIN g.pads
        /\ P \in SUBSET DOMAIN g.pads /\ s.parents \in [P -> Steps(g)]
        /\ s.video \in Items(g) \cup {null}
        /\ CameFrom(g, s)
    BY SearchHas
  <2>3. w.entity = e /\ w.link \in ToSet(g.links) /\ EntityOf(w.link.source) = e /\ w \in Steps(g)
    BY DEF StepsFrom, Steps
  <2>4. w.link.sink \in Pads(g) /\ next \in DOMAIN g.pads BY <2>3, GraphLinks
  <2>5. item \in Items(g) BY <2>4 DEF Items
  <2> HIDE DEF item
  <2>6. q2 \in Seq(Items(g)) BY <2>2, <2>5
  <2>7. LinkBetween(g, w.link, e, next) BY <2>3 DEF LinkBetween
  <2> HIDE DEF next
  <2>8. /\ DOMAIN p2 = P \cup {next}
        /\ \A d \in P \cup {next} : p2[d] = IF d \in P THEN s.parents[d] ELSE w
        /\ p2 = [d \in DOMAIN p2 |-> p2[d]]
    OBVIOUS
  <2> HIDE DEF q2, p2, x
  <2>9. x = y BY <2>1, <2>2
  <2> DEFINE P2 == P \cup {next}
  <2>10. p2 \in [P2 -> Steps(g)] /\ P2 \in SUBSET DOMAIN g.pads
    <3>1. \A d \in P2 : p2[d] \in Steps(g) BY <2>2, <2>3, <2>8
    <3> QED BY <2>2, <2>4, <2>8, <3>1
  <2>11. \A d \in P2 : p2[d] = IF d \in P THEN s.parents[d] ELSE w BY <2>8
  <2>12. \A d \in P2 : p2[d].entity \in s.visited /\ LinkBetween(g, p2[d].link, p2[d].entity, d)
    <3> TAKE d \in P2
    <3>1. CASE d \in P BY <2>2, <2>11, <3>1 DEF CameFrom
    <3>2. CASE d \notin P
      <4>1. p2[d] = w /\ d = next BY <2>11, <3>2
      <4> QED BY <2>3, <2>7, <4>1
    <3> QED BY <3>1, <3>2
  <2>13. PICK b \in Nat : \E rank : Ranked(s, rank, b) BY SearchHas
  <2>14. PICK rank : Ranked(s, rank, b) BY <2>13
  <2>15. rank \in [s.visited -> 0..b] /\ \A d \in s.visited \cap P : rank[s.parents[d].entity] < rank[d]
    BY <2>14 DEF Ranked
  <2>16. \A d \in s.visited \cap P2 : rank[p2[d].entity] < rank[d]
    <3> TAKE d \in s.visited \cap P2
    <3>1. d \in P BY <1>2
    <3> QED BY <2>11, <2>15, <3>1
  <2> HIDE DEF P, P2
  <2>17. y \in Searches(g)
    <3> HIDE DEF y
    <3> QED BY <2>2, <2>6, <2>10, <2>12, <2>15, <2>16, SearchParts DEF y
  <2>18. x.visited = s.visited BY <2>9
  <2> QED BY <2>9, <2>17, <2>18 DEF x
<1> QED BY <1>1, <1>2

LEMMA FoldConsiderType ==
  ASSUME NEW g, IsGraph(g), NEW e \in DOMAIN g.pads, NEW base \in Searches(g), e \in base.visited,
         NEW ws \in Seq(StepsFrom(g, e))
  PROVE  FoldLeft(Consider, base, ws) \in Searches(g)
<1> DEFINE N == Len(ws)
           T == {s \in Searches(g) : e \in s.visited}
           X == StepsFrom(g, e)
           Turn == [p \in T \X X |-> Consider(p[1], p[2])]
           Is(f) == f = [s \in SUBSET (DOMAIN ws) |->
                           IF s = {} THEN base
                           ELSE LET x == Max(s) IN Consider(f[s \ {x}], ws[x])]
<1> HIDE DEF X
<1>0. N \in Nat /\ DOMAIN ws = 1..N /\ ws \in [1..N -> X] BY DEF X
<1>1. base \in T OBVIOUS
<1>2. \A a \in T, v \in X : Consider(a, v) \in T BY ConsiderType DEF X
<1> HIDE DEF T
<1>3. Turn \in [T \X X -> T] BY <1>2
<1>4. \A a \in T, v \in X : Turn[<<a, v>>] = Consider(a, v)
  <2> TAKE a \in T, v \in X
  <2>1. <<a, v>> \in T \X X /\ <<a, v>>[1] = a /\ <<a, v>>[2] = v OBVIOUS
  <2> QED BY <2>1
<1> HIDE DEF N, Turn
<1>5. PICK it \in [SUBSET (1..N) -> T] : IsFold(it, N, base, Turn, ws)
  BY <1>0, <1>1, <1>3, FoldExists
<1>6. ASSUME NEW s \in SUBSET (1..N), s # {}
      PROVE  it[s] = Consider(it[s \ {Max(s)}], ws[Max(s)])
  <2>1. Max(s) \in 1..N BY <1>0, <1>6, MaxInSet
  <2>2. s \ {Max(s)} \in SUBSET (1..N) OBVIOUS
  <2>3. it[s \ {Max(s)}] \in T /\ ws[Max(s)] \in X BY <1>0, <2>1, <2>2
  <2>4. it[s] = Turn[<<it[s \ {Max(s)}], ws[Max(s)]>>] BY <1>5, <1>6 DEF IsFold
  <2> QED BY <2>3, <2>4, <1>4
<1>7. Is(it)
  <2>1. it[{}] = base BY <1>5 DEF IsFold
  <2>2. it = [s \in SUBSET (1..N) |->
                IF s = {} THEN base ELSE Consider(it[s \ {Max(s)}], ws[Max(s)])]
    BY <1>6, <2>1
  <2> QED BY <2>2, <1>0, Zenon
<1> DEFINE iter == CHOOSE f : Is(f)
<1>8. Is(iter)
  <2> HIDE DEF Is
  <2> QED BY <1>7, Zenon
<1>9. FoldLeft(Consider, base, ws) = iter[DOMAIN ws] BY Zenon DEF FoldLeft, MapThenFoldSet
<1> HIDE DEF iter
<1>10. iter = [s \in SUBSET (1..N) |->
                IF s = {} THEN base ELSE Consider(iter[s \ {Max(s)}], ws[Max(s)])]
  BY <1>8, <1>0, Zenon
<1> HIDE DEF Is
<1>11. iter[1..0] = base
  <2>1. 1..0 = {} /\ {} \in SUBSET (1..N) OBVIOUS
  <2> QED BY <1>10, <2>1
<1>12. ASSUME NEW n \in 1..N PROVE iter[1..n] = Consider(iter[1..(n - 1)], ws[n])
  <2>0. n \in Nat /\ n > 0 /\ 1..n \in SUBSET (1..N) BY <1>0
  <2>1. Max(1..n) = n /\ (1..n) \ {n} = 1..(n - 1) /\ 1..n # {} BY <2>0, FoldPrefix
  <2> QED BY <1>10, <2>0, <2>1
<1> DEFINE Z == {n \in Nat : n <= N => iter[1..n] \in T}
<1>13. 0 \in Z BY <1>1, <1>11
<1>14. ASSUME NEW n \in Nat, n \in Z PROVE n + 1 \in Z
  <2> SUFFICES ASSUME n + 1 <= N PROVE iter[1..(n + 1)] \in T OBVIOUS
  <2>1. n + 1 \in 1..N /\ (n + 1) - 1 = n /\ iter[1..n] \in T BY <1>0, <1>14
  <2>2. iter[1..(n + 1)] = Consider(iter[1..n], ws[n + 1]) BY <1>12, <2>1
  <2>3. ws[n + 1] \in X BY <1>0, <2>1
  <2> QED BY <1>2, <2>1, <2>2, <2>3
<1> HIDE DEF Z
<1>15. N \in Z BY <1>0, <1>13, <1>14, InductionOnNat
<1>16. iter[1..N] \in T BY <1>0, <1>15 DEF Z
<1> QED BY <1>0, <1>9, <1>16 DEF T

LEMMA VisitType ==
  ASSUME NEW g, IsGraph(g), NEW s \in Searches(g), s.queue # <<>>
  PROVE  Visit(g, s) \in Searches(g)
<1> DEFINE at == Head(s.queue)
           P == DOMAIN s.parents
           I == Items(g)
           e == at.entity
<1>1. /\ s = [queue |-> s.queue, visited |-> s.visited, parents |-> s.parents, video |-> s.video]
      /\ s.queue \in Seq(I) /\ s.visited \in SUBSET DOMAIN g.pads
      /\ P \in SUBSET DOMAIN g.pads /\ s.parents \in [P -> Steps(g)]
      /\ s.video \in I \cup {null}
      /\ CameFrom(g, s)
  BY SearchHas
<1> HIDE DEF I
<1>2. at \in I /\ Tail(s.queue) \in Seq(I) BY <1>1, HeadTailProperties
<1>3. e \in DOMAIN g.pads /\ at.sink \in Pads(g) \cup {null} /\ (at.sink # null => EntityOf(at.sink) = e)
  BY <1>2 DEF I, Items
<1>4. \A d \in P : s.parents[d].entity \in s.visited
                    /\ LinkBetween(g, s.parents[d].link, s.parents[d].entity, d)
  BY <1>1 DEF CameFrom
<1>5. PICK b \in Nat : \E r : Ranked(s, r, b) BY SearchHas
<1>6. PICK r : Ranked(s, r, b) BY <1>5
<1>7. r \in [s.visited -> 0..b] /\ \A d \in s.visited \cap P : r[s.parents[d].entity] < r[d]
  BY <1>6 DEF Ranked
<1> DEFINE x == Visit(g, s)
<1>8. CASE e \in g.videos
  <2> DEFINE y == [queue |-> s.queue, visited |-> s.visited, parents |-> s.parents, video |-> at]
  <2>1. x = [s EXCEPT !.video = at] BY <1>8 DEF Visit
  <2> HIDE DEF x, at
  <2>2. x = y BY <1>1, <2>1
  <2>3. at \in I \cup {null} BY <1>2
  <2> HIDE DEF P
  <2>4. y \in Searches(g)
    <3> HIDE DEF y
    <3> QED BY <1>1, <1>4, <1>7, <2>3, SearchParts DEF y, I
  <2> QED BY <2>2, <2>4 DEF x
<1>9. CASE e \notin g.videos
  <2> DEFINE V == s.visited \cup {e}
             t == Tail(s.queue)
             base == [s EXCEPT !.queue = t, !.visited = V]
             y == [queue |-> t, visited |-> V, parents |-> s.parents, video |-> s.video]
             ws == Onward(g, e, at.sink)
             c == b + 1
             rank == [d \in V |-> IF d \in s.visited THEN r[d] ELSE c]
  <2>1. x = FoldLeft(Consider, base, ws) BY <1>9 DEF Visit
  <2>2. ws \in Seq(StepsFrom(g, e)) BY <1>3, OnwardType
  <2>3. t \in Seq(I) /\ V \in SUBSET DOMAIN g.pads /\ e \in V BY <1>1, <1>2, <1>3
  <2>4. c \in Nat /\ rank \in [V -> 0..c] BY <1>7
  <2> HIDE DEF c
  <2>5. \A d \in V \cap P : rank[s.parents[d].entity] < rank[d]
    <3> TAKE d \in V \cap P
    <3>1. s.parents[d].entity \in s.visited /\ r[s.parents[d].entity] \in 0..b
      BY <1>4, <1>7
    <3>2. rank[s.parents[d].entity] = r[s.parents[d].entity] BY <3>1
    <3>3. CASE d \in s.visited
      <4>1. rank[d] = r[d] BY <3>3
      <4> QED BY <1>7, <3>2, <3>3, <4>1
    <3>4. CASE d \notin s.visited
      <4>1. rank[d] = c BY <3>4
      <4> QED BY <3>1, <3>2, <4>1 DEF c
    <3> QED BY <3>3, <3>4
  <2>6. \A d \in P : s.parents[d].entity \in V
                      /\ LinkBetween(g, s.parents[d].link, s.parents[d].entity, d)
    BY <1>4
  <2> HIDE DEF rank, V, t, ws, x, at
  <2>b. base = [s EXCEPT !.queue = t, !.visited = V] OBVIOUS
  <2> HIDE DEF base
  <2>7. base = y BY <1>1, <2>b
  <2> HIDE DEF P
  <2>8. y \in Searches(g)
    <3> HIDE DEF y
    <3> QED BY <1>1, <2>3, <2>4, <2>5, <2>6, SearchParts DEF y, I
  <2>9. e \in base.visited BY <2>3, <2>7
  <2> HIDE DEF y, e
  <2> QED BY <1>3, <2>1, <2>2, <2>7, <2>8, <2>9, FoldConsiderType DEF x
<1> QED BY <1>8, <1>9

SearchNext(g, s) == IF s.video # null \/ s.queue = <<>> THEN s ELSE Visit(g, s)

LEMMA SearchType ==
  ASSUME NEW g, IsGraph(g), NEW sensor \in DOMAIN g.pads
  PROVE  Search(g, sensor) \in Searches(g)
<1> DEFINE N == 2 * Len(g.links) + 1
           R == Searches(g)
           start == [queue |-> <<[entity |-> sensor, sink |-> null]>>, visited |-> {},
                     parents |-> <<>>, video |-> null]
           Turn == [p \in R \X Nat |-> SearchNext(g, p[1])]
           Is(f) == f = [n \in 0..N |->
                           IF n = 0 THEN start
                           ELSE IF f[n - 1].video # null \/ f[n - 1].queue = <<>> THEN f[n - 1]
                                ELSE Visit(g, f[n - 1])]
<1>0. N \in Nat
  <2>1. g.links \in Seq(ToSet(g.links))
    <3> DEFINE K == [source : g.sources, sink : Pads(g) \ g.sources]
    <3>1. g.links \in Seq(K) BY DEF IsGraph, Pads
    <3> HIDE DEF K
    <3> QED BY <3>1, SeqOfElements
  <2> QED BY <2>1
<1>1. start \in R
  <2> DEFINE item == [entity |-> sensor, sink |-> null]
             I == Items(g)
             q == <<item>>
             p == <<>>
             v == null
             rank == [d \in {} |-> 0]
  <2>1. item \in I BY DEF Items
  <2> HIDE DEF item, I
  <2>2. q \in Seq(I) BY <2>1
  <2>3. p \in [{} -> Steps(g)] OBVIOUS
  <2>4. v \in I \cup {null} /\ {} \in SUBSET DOMAIN g.pads OBVIOUS
  <2>5. rank \in [{} -> 0..0] /\ 0 \in Nat OBVIOUS
  <2> HIDE DEF q, p, v, rank
  <2>6. [queue |-> q, visited |-> {}, parents |-> p, video |-> v] \in R
    BY <2>2, <2>3, <2>4, <2>5, SearchParts DEF I
  <2> QED BY <2>6 DEF q, p, v, item
<1>2. \A s \in R : SearchNext(g, s) \in R BY VisitType DEF SearchNext
<1> HIDE DEF R, start
<1>3. Turn \in [R \X Nat -> R] BY <1>2
<1>4. PICK f : Iterates(f, N, R, start, Turn)
  <2> HIDE DEF N, Turn
  <2> QED BY <1>0, <1>1, <1>3, IterationExists
<1>5. \A k \in 0..(N - 1) : f[k + 1] = Turn[<<f[k], k>>]
  <2> HIDE DEF N, Turn
  <2> QED BY <1>4 DEF Iterates
<1>6. f \in [0..N -> R] /\ f[0] = start
  <2> HIDE DEF N, Turn
  <2> QED BY <1>4 DEF Iterates
<1> HIDE DEF N
<1>7. ASSUME NEW n \in 1..N PROVE f[n] = SearchNext(g, f[n - 1])
  <2>1. n - 1 \in 0..(N - 1) /\ (n - 1) + 1 = n /\ n - 1 \in Nat /\ n - 1 \in 0..N BY <1>0
  <2>2. f[n] = Turn[<<f[n - 1], n - 1>>]
    <3> HIDE DEF Turn
    <3> QED BY <1>5, <2>1
  <2>3. <<f[n - 1], n - 1>> \in R \X Nat BY <1>6, <2>1
  <2> QED BY <2>1, <2>2, <2>3
<1>8. Is(f)
  <2>1. \A n \in 0..N : f[n] = IF n = 0 THEN start ELSE SearchNext(g, f[n - 1])
    BY <1>0, <1>6, <1>7
  <2>2. f = [n \in 0..N |-> IF n = 0 THEN start ELSE SearchNext(g, f[n - 1])]
    BY <1>6, <2>1
  <2> QED BY <2>2, Zenon DEF SearchNext
<1> DEFINE search == CHOOSE h : Is(h)
<1>9. Is(search)
  <2> HIDE DEF Is
  <2> QED BY <1>8, Zenon
<1>10. Search(g, sensor) = search[N] BY Zenon DEF Search, N, start
<1> HIDE DEF search
<1>11. search = [n \in 0..N |-> IF n = 0 THEN start ELSE SearchNext(g, search[n - 1])]
  BY <1>9, Zenon DEF SearchNext
<1> HIDE DEF Is, Turn
<1> DEFINE Z == {n \in Nat : n <= N => search[n] \in R}
<1>12. 0 \in Z BY <1>0, <1>1, <1>11
<1>13. ASSUME NEW n \in Nat, n \in Z PROVE n + 1 \in Z
  <2> SUFFICES ASSUME n + 1 <= N PROVE search[n + 1] \in R OBVIOUS
  <2>1. n + 1 \in 0..N /\ n + 1 # 0 /\ (n + 1) - 1 = n /\ search[n] \in R BY <1>0, <1>13
  <2>2. search[n + 1] = SearchNext(g, search[n]) BY <1>11, <2>1
  <2> QED BY <1>2, <2>1, <2>2
<1> HIDE DEF Z
<1>14. N \in Z BY <1>0, <1>12, <1>13, InductionOnNat
<1> QED BY <1>0, <1>10, <1>14 DEF Z, R

-----------------------------------------------------------------------------
(* Pipelines.  Each step of a pipeline takes a link to the next, and no entity
   is on it twice.                                                          *)
PathSteps(g) ==
  [entity : DOMAIN g.pads, supportsRouting : BOOLEAN, sink : Pads(g) \cup {null},
   source : Pads(g) \cup {null}, link : ToSet(g.links) \cup {null}]

Linked(g, path) ==
  /\ path \in Seq(PathSteps(g)) /\ Len(path) > 0
  /\ \A i \in 1..(Len(path) - 1) :
       LinkBetween(g, path[i].link, path[i].entity, path[i + 1].entity)

Rising(rank, path) ==
  \A i, j \in 1..Len(path) : i < j => rank[path[i].entity] < rank[path[j].entity]

Chained(g, path) ==
  /\ Linked(g, path)
  /\ \A i, j \in 1..Len(path) : i < j => path[i].entity # path[j].entity

LEMMA PathStep ==
  ASSUME NEW g, NEW path, Linked(g, path), NEW rank \in [DOMAIN g.pads -> Nat],
         Rising(rank, path), NEW w \in PathSteps(g),
         LinkBetween(g, w.link, w.entity, path[1].entity),
         rank[w.entity] < rank[path[1].entity]
  PROVE  Linked(g, <<w>> \o path) /\ Rising(rank, <<w>> \o path)
<1> DEFINE p == <<w>> \o path
           S == PathSteps(g)
           N == Len(path)
<1>0. path \in Seq(S) /\ N \in Nat /\ N > 0 BY DEF Linked
<1>1. \A x \in S : x.entity \in DOMAIN g.pads BY DEF PathSteps
<1> HIDE DEF S
<1>2. /\ p \in Seq(S) /\ Len(p) = N + 1 /\ p[1] = w
      /\ \A i \in 1..N : p[i + 1] = path[i]
  BY <1>0 DEF S
<1>w. w \in S BY DEF S
<1> HIDE DEF p
<1>3. \A i \in 1..(Len(p) - 1) : LinkBetween(g, p[i].link, p[i].entity, p[i + 1].entity)
  <2> TAKE i \in 1..(Len(p) - 1)
  <2>1. CASE i = 1
    <3>1. 1 \in 1..N /\ p[1 + 1] = path[1] BY <1>0, <1>2
    <3> QED BY <1>2, <2>1, <3>1
  <2>2. CASE i # 1
    <3>1. i - 1 \in 1..(N - 1) /\ i - 1 \in 1..N /\ (i - 1) + 1 = i /\ i \in 1..N BY <1>0, <1>2, <2>2
    <3>2. p[i] = path[i - 1] BY <1>2, <3>1
    <3>3. p[i + 1] = path[i] BY <1>2, <3>1
    <3>4. LinkBetween(g, path[i - 1].link, path[i - 1].entity, path[i].entity)
      BY <3>1 DEF Linked, N
    <3> QED BY <3>2, <3>3, <3>4
  <2> QED BY <2>1, <2>2
<1>4. \A j \in 1..N : path[j] \in S /\ rank[path[j].entity] \in Nat
  <2> TAKE j \in 1..N
  <2>1. path[j] \in S BY <1>0
  <2> QED BY <1>1, <2>1
<1>5. \A j \in 1..N : rank[w.entity] < rank[path[j].entity]
  <2> TAKE j \in 1..N
  <2>0. rank[w.entity] \in Nat BY <1>1, <1>w
  <2>1. 1 \in 1..N /\ (j = 1 \/ 1 < j) BY <1>0
  <2>2. j = 1 \/ rank[path[1].entity] < rank[path[j].entity] BY <2>1 DEF Rising, N
  <2> QED BY <1>4, <2>0, <2>1, <2>2
<1>6. ASSUME NEW i \in 1..Len(p), NEW j \in 1..Len(p), i < j
      PROVE  rank[p[i].entity] < rank[p[j].entity]
  <2>1. j - 1 \in 1..N /\ (j - 1) + 1 = j BY <1>0, <1>2, <1>6
  <2>2. p[j] = path[j - 1] BY <1>2, <2>1
  <2>3. CASE i = 1 BY <1>2, <1>5, <2>1, <2>2, <2>3
  <2>4. CASE i # 1
    <3>1. i - 1 \in 1..N /\ (i - 1) + 1 = i /\ i - 1 < j - 1 BY <1>0, <1>2, <1>6, <2>4
    <3>2. p[i] = path[i - 1] BY <1>2, <3>1
    <3>3. rank[path[i - 1].entity] < rank[path[j - 1].entity] BY <2>1, <3>1 DEF Rising, N
    <3> QED BY <2>2, <3>2, <3>3
  <2> QED BY <2>3, <2>4
<1>7. Linked(g, p) BY <1>0, <1>2, <1>3 DEF Linked, S
<1>8. Rising(rank, p) BY <1>6 DEF Rising
<1> QED BY <1>7, <1>8 DEF p

BackStep(s, path) ==
  IF path[1].entity \in DOMAIN s.parents THEN <<s.parents[path[1].entity]>> \o path ELSE path

LEMMA PipelineType ==
  ASSUME NEW g, IsGraph(g), NEW sensor \in DOMAIN g.pads, Pipeline(g, sensor) # <<>>
  PROVE  Chained(g, Pipeline(g, sensor))
<1> DEFINE s == Search(g, sensor)
           video == [entity |-> s.video.entity, supportsRouting |-> FALSE, sink |-> s.video.sink,
                     source |-> null, link |-> null]
           N == Cardinality(s.visited)
           Is(f) == f = [n \in 0..N |->
                           IF n = 0 THEN <<video>>
                           ELSE IF f[n - 1][1].entity \in DOMAIN s.parents
                                THEN <<s.parents[f[n - 1][1].entity]>> \o f[n - 1] ELSE f[n - 1]]
           back == CHOOSE f : Is(f)
           E == DOMAIN g.pads
<1>1. s \in Searches(g) BY SearchType
<1>2. s.video # null /\ Pipeline(g, sensor) = back[N] BY Zenon DEF Pipeline
<1> DEFINE start == <<video>>
<1>3. start = <<video>> OBVIOUS
<1> HIDE DEF s
<1>4. /\ s.visited \in SUBSET E /\ DOMAIN s.parents \in SUBSET E
      /\ s.parents \in [DOMAIN s.parents -> Steps(g)]
      /\ s.video \in Items(g) \cup {null}
      /\ CameFrom(g, s)
  BY <1>1, SearchHas
<1>5. PICK b \in Nat : \E r : Ranked(s, r, b) BY <1>1, SearchHas
<1>6. PICK r : Ranked(s, r, b) BY <1>5
<1>7. r \in [s.visited -> 0..b] /\ \A d \in s.visited \cap DOMAIN s.parents : r[s.parents[d].entity] < r[d]
  BY <1>6 DEF Ranked
<1> DEFINE c == b + 1
           rank == [d \in E |-> IF d \in s.visited THEN r[d] ELSE c]
<1>8. c \in Nat /\ rank \in [E -> Nat] BY <1>7
<1>9. N \in Nat
  <2>1. IsFiniteSet(E) BY DEF IsGraph
  <2> QED BY <1>4, <2>1, FS_Subset, FS_CardinalityType
<1>10. \A d \in DOMAIN s.parents :
         /\ s.parents[d] \in PathSteps(g) /\ d \in E
         /\ s.parents[d].entity \in s.visited
         /\ LinkBetween(g, s.parents[d].link, s.parents[d].entity, d)
  <2>1. Steps(g) \subseteq PathSteps(g) BY DEF Steps, StepsFrom, PathSteps
  <2> QED BY <1>4, <2>1 DEF CameFrom
<1>11. \A d \in DOMAIN s.parents : rank[s.parents[d].entity] < rank[d]
  <2> TAKE d \in DOMAIN s.parents
  <2> HIDE DEF c
  <2>1. s.parents[d].entity \in s.visited /\ s.parents[d].entity \in E
        /\ r[s.parents[d].entity] \in 0..b
    BY <1>4, <1>7, <1>10
  <2>2. rank[s.parents[d].entity] = r[s.parents[d].entity] BY <2>1
  <2>3. CASE d \in s.visited
    <3>1. rank[d] = r[d] BY <1>4, <2>3
    <3> QED BY <1>7, <2>2, <2>3, <3>1
  <2>4. CASE d \notin s.visited
    <3>1. rank[d] = c BY <1>10, <2>4
    <3> QED BY <2>1, <2>2, <3>1 DEF c
  <2> QED BY <2>3, <2>4
<1> HIDE DEF rank, c
<1> DEFINE R == {p \in Seq(PathSteps(g)) : Linked(g, p) /\ Rising(rank, p)}
           Turn == [p \in R \X Nat |-> BackStep(s, p[1])]
<1>12. start \in R
  <2>1. s.video \in Items(g) BY <1>2, <1>4 DEF s
  <2>2. s.video.entity \in E /\ s.video.sink \in Pads(g) \cup {null} BY <2>1 DEF Items
  <2>3. video \in PathSteps(g) BY <2>2 DEF PathSteps
  <2> DEFINE S == PathSteps(g)
  <2> HIDE DEF video, S
  <2>4. <<video>> \in Seq(S) /\ Len(<<video>>) = 1 BY <2>3 DEF S
  <2> HIDE DEF start
  <2>5. start \in Seq(S) /\ Len(start) = 1 BY <1>3, <2>4
  <2>6. Linked(g, start) BY <2>5 DEF Linked, S
  <2>7. Rising(rank, start) BY <2>5 DEF Rising
  <2> QED BY <2>5, <2>6, <2>7 DEF S
<1>13. \A p \in R : BackStep(s, p) \in R
  <2> SUFFICES ASSUME NEW p \in R, p[1].entity \in DOMAIN s.parents
               PROVE  <<s.parents[p[1].entity]>> \o p \in R
    BY DEF BackStep
  <2> DEFINE w == s.parents[p[1].entity]
  <2>1. w \in PathSteps(g) /\ LinkBetween(g, w.link, w.entity, p[1].entity)
        /\ rank[w.entity] < rank[p[1].entity]
    BY <1>10, <1>11
  <2> HIDE DEF w
  <2>2. Linked(g, <<w>> \o p) /\ Rising(rank, <<w>> \o p) BY <1>8, <2>1, PathStep
  <2> QED BY <2>2 DEF w, Linked
<1> HIDE DEF R, start, video
<1>14. Turn \in [R \X Nat -> R] BY <1>13
<1>15. PICK f : Iterates(f, N, R, start, Turn)
  <2> HIDE DEF N, Turn
  <2> QED BY <1>9, <1>12, <1>14, IterationExists
<1>16. /\ f \in [0..N -> R] /\ f[0] = start
       /\ \A k \in 0..(N - 1) : f[k + 1] = Turn[<<f[k], k>>]
  <2> HIDE DEF N, Turn
  <2> QED BY <1>15 DEF Iterates
<1> HIDE DEF N
<1>17. ASSUME NEW n \in 1..N PROVE f[n] = BackStep(s, f[n - 1])
  <2>1. n - 1 \in 0..(N - 1) /\ (n - 1) + 1 = n /\ n - 1 \in Nat /\ n - 1 \in 0..N BY <1>9
  <2>2. f[n] = Turn[<<f[n - 1], n - 1>>]
    <3> HIDE DEF Turn
    <3> QED BY <1>16, <2>1
  <2>3. <<f[n - 1], n - 1>> \in R \X Nat BY <1>16, <2>1
  <2> QED BY <2>1, <2>2, <2>3
<1>18. Is(f)
  <2>1. \A n \in 0..N : f[n] = IF n = 0 THEN start ELSE BackStep(s, f[n - 1])
    BY <1>9, <1>16, <1>17
  <2>2. f = [n \in 0..N |-> IF n = 0 THEN start ELSE BackStep(s, f[n - 1])]
    BY <1>16, <2>1
  <2> QED BY <2>2, Zenon DEF BackStep, start
<1>19. Is(back)
  <2> HIDE DEF Is
  <2> QED BY <1>18, Zenon
<1>20. Pipeline(g, sensor) = back[N] BY <1>2 DEF N, s, video
<1> HIDE DEF back
<1>21. back = [n \in 0..N |-> IF n = 0 THEN start ELSE BackStep(s, back[n - 1])]
  BY <1>19, Zenon DEF BackStep, start
<1> HIDE DEF Is, Turn
<1> DEFINE Z == {n \in Nat : n <= N => back[n] \in R}
<1>22. 0 \in Z BY <1>9, <1>12, <1>21
<1>23. ASSUME NEW n \in Nat, n \in Z PROVE n + 1 \in Z
  <2> SUFFICES ASSUME n + 1 <= N PROVE back[n + 1] \in R OBVIOUS
  <2>1. n + 1 \in 0..N /\ n + 1 # 0 /\ (n + 1) - 1 = n /\ back[n] \in R BY <1>9, <1>23
  <2>2. back[n + 1] = BackStep(s, back[n]) BY <1>21, <2>1
  <2> QED BY <1>13, <2>1, <2>2
<1> HIDE DEF Z
<1>24. N \in Z BY <1>9, <1>22, <1>23, InductionOnNat
<1>25. Pipeline(g, sensor) \in R BY <1>9, <1>20, <1>24 DEF Z
<1> DEFINE path == Pipeline(g, sensor)
<1> HIDE DEF path
<1>26. path \in Seq(PathSteps(g)) /\ Linked(g, path) /\ Rising(rank, path) BY <1>25 DEF R, path
<1>27. ASSUME NEW i \in 1..Len(path), NEW j \in 1..Len(path), i < j
       PROVE  path[i].entity # path[j].entity
  <2>1. rank[path[i].entity] < rank[path[j].entity] BY <1>26, <1>27 DEF Rising
  <2> DEFINE S == PathSteps(g)
  <2>2. \A x \in S : x.entity \in E BY DEF PathSteps
  <2> HIDE DEF S
  <2>3. path[i] \in S /\ path[j] \in S BY <1>26 DEF S
  <2>4. rank[path[i].entity] \in Nat BY <1>8, <2>2, <2>3
  <2> QED BY <2>1, <2>4
<1>28. Chained(g, path) BY <1>26, <1>27 DEF Chained
<1> QED BY <1>28 DEF path

-----------------------------------------------------------------------------
(* What setupLinks() writes: for each step of the pipeline but the first, the
   other links at its entity are disabled before the link to it is enabled.  *)
LEMMA LinksAtType ==
  ASSUME NEW g, IsGraph(g), NEW step \in PathSteps(g)
  PROVE  /\ LinksAt(g, step) \in Seq(ToSet(g.links))
         /\ \A l \in ToSet(LinksAt(g, step)) : step.entity \in {EntityOf(l.source), EntityOf(l.sink)}
<1> DEFINE S == {p \in Pads(g) : EntityOf(p) = step.entity}
           K == ToSet(g.links)
           pads == IF step.supportsRouting
                   THEN Selected(g.pads[step.entity], {step.sink, step.source})
                   ELSE g.pads[step.entity]
           qs == [k \in DOMAIN pads |-> LinksOf(g, pads[k])]
<1>1. LinksAt(g, step) = FlattenSeq(qs) BY DEF LinksAt
<1>2. pads \in Seq(S)
  <2>1. step.entity \in DOMAIN g.pads BY DEF PathSteps
  <2>2. g.pads[step.entity] \in Seq(S) BY <2>1, GraphPads
  <2> HIDE DEF S
  <2> DEFINE some == Selected(g.pads[step.entity], {step.sink, step.source})
  <2>3. some \in Seq(S) BY <2>2, SelectedElements
  <2> HIDE DEF some
  <2> QED BY <2>2, <2>3 DEF some
<1> HIDE DEF pads, S
<1>3. Len(pads) \in Nat /\ DOMAIN pads = 1..Len(pads) /\ \A k \in 1..Len(pads) : pads[k] \in S
  BY <1>2
<1>4. \A k \in 1..Len(pads) : LinksOf(g, pads[k]) \in Seq(K) BY LinksOfType
<1> DEFINE Z == Seq(K)
<1> HIDE DEF K, Z
<1>5. qs \in Seq(Z) /\ Len(qs) = Len(pads)
  <2>1. \A k \in 1..Len(pads) : LinksOf(g, pads[k]) \in Z BY <1>4 DEF Z
  <2> QED BY <1>3, <2>1
<1>6. \A k \in 1..Len(pads) : qs[k] = LinksOf(g, pads[k]) BY <1>3
<1> HIDE DEF qs
<1>7. qs \in Seq(Seq(K)) BY <1>5 DEF Z
<1>8. /\ FlattenSeq(qs) \in Seq(K)
      /\ ToSet(FlattenSeq(qs)) = UNION {ToSet(qs[i]) : i \in 1..Len(qs)}
  BY <1>7, FlattenedElements
<1>9. ASSUME NEW l \in ToSet(LinksAt(g, step))
      PROVE  step.entity \in {EntityOf(l.source), EntityOf(l.sink)}
  <2>1. PICK i \in 1..Len(pads) : l \in ToSet(LinksOf(g, pads[i])) BY <1>1, <1>5, <1>6, <1>8
  <2>2. pads[i] \in {l.source, l.sink} BY <2>1, LinksOfType
  <2>3. EntityOf(pads[i]) = step.entity BY <1>3 DEF S
  <2> QED BY <2>2, <2>3
<1> QED BY <1>1, <1>8, <1>9 DEF K

LEMMA UnwantedType ==
  ASSUME NEW g, IsGraph(g), NEW step \in PathSteps(g), NEW sinkLink
  PROVE  /\ Unwanted(g, step, sinkLink) \in Seq(ToSet(g.links))
         /\ \A l : l \in ToSet(Unwanted(g, step, sinkLink)) <=>
                     l \in ToSet(LinksAt(g, step)) /\ l # sinkLink /\ l \notin g.immutable
<1> DEFINE K == ToSet(g.links)
           q == LinksAt(g, step)
           S == K \ ({sinkLink} \cup g.immutable)
<1>1. q \in Seq(K) BY LinksAtType
<1>2. Unwanted(g, step, sinkLink) = Selected(q, S) BY DEF Unwanted
<1> HIDE DEF K, q, S
<1>3. Selected(q, S) \in Seq(K) /\ ToSet(Selected(q, S)) = ToSet(q) \cap S BY <1>1, SelectedElements
<1>4. ToSet(q) \subseteq K BY <1>1, SeqOfElements
<1> QED BY <1>2, <1>3, <1>4 DEF S, K, q

(* The writes at one entity. *)
Block(g, step, sinkLink) ==
  LET off == Unwanted(g, step, sinkLink)
  IN  [k \in DOMAIN off |-> [link |-> off[k], on |-> FALSE]]
        \o <<[link |-> sinkLink, on |-> TRUE]>>

LEMMA BlockType ==
  ASSUME NEW g, IsGraph(g), NEW step \in PathSteps(g), NEW sinkLink \in ToSet(g.links)
  PROVE  LET off == Unwanted(g, step, sinkLink)
             q   == Block(g, step, sinkLink)
         IN  /\ q \in Seq(Writes(ToSet(g.links))) /\ Len(off) \in Nat /\ Len(q) = Len(off) + 1
             /\ \A k \in 1..Len(off) : q[k].link = off[k] /\ q[k].on = FALSE
             /\ q[Len(off) + 1].link = sinkLink /\ q[Len(off) + 1].on = TRUE
<1> DEFINE off == Unwanted(g, step, sinkLink)
           Off(k) == [link |-> off[k], on |-> FALSE]
           a == [k \in DOMAIN off |-> Off(k)]
           last == [link |-> sinkLink, on |-> TRUE]
           X == Writes(ToSet(g.links))
           q == a \o <<last>>
<1>1. off \in Seq(ToSet(g.links)) BY UnwantedType
<1>2. Block(g, step, sinkLink) = q BY DEF Block
<1> HIDE DEF off
<1>3. Len(off) \in Nat /\ DOMAIN off = 1..Len(off)
      /\ \A k \in 1..Len(off) : off[k] \in ToSet(g.links)
  BY <1>1
<1>4. \A k \in 1..Len(off) : Off(k) \in X /\ Off(k).link = off[k] /\ Off(k).on = FALSE
  BY <1>3 DEF Writes
<1>5. last \in X /\ last.link = sinkLink /\ last.on = TRUE BY DEF Writes
<1> HIDE DEF Off, last, X
<1>6. a \in Seq(X) /\ Len(a) = Len(off) /\ \A k \in 1..Len(off) : a[k] = Off(k)
  BY <1>3, <1>4
<1> HIDE DEF a
<1>7. /\ q \in Seq(X) /\ Len(q) = Len(off) + 1
      /\ \A k \in 1..Len(off) : q[k] = Off(k)
      /\ q[Len(off) + 1] = last
  BY <1>3, <1>5, <1>6
<1> HIDE DEF q
<1> QED BY <1>2, <1>3, <1>4, <1>5, <1>7 DEF off, X

(* The places where the parts of a sequence end rise. *)
LEMMA FollowRises ==
  ASSUME NEW T, NEW qs \in Seq(Seq(T)), NEW n \in Nat, n <= Len(qs), NEW q, NEW at,
         Follow(q, qs, n, at), NEW a \in 0..n, NEW b \in 0..n, a <= b
  PROVE  at[a] <= at[b]
<1> DEFINE Z == {k \in Nat : a + k <= n => at[a] <= at[a + k]}
<1>1. at \in [0..n -> Nat] /\ \A m \in 1..n : at[m] = at[m - 1] + Len(qs[m]) BY DEF Follow
<1>2. 0 \in Z
  <2>1. a + 0 = a /\ at[a] \in Nat BY <1>1
  <2> QED BY <2>1
<1>3. ASSUME NEW k \in Nat, k \in Z PROVE k + 1 \in Z
  <2> SUFFICES ASSUME a + (k + 1) <= n PROVE at[a] <= at[a + (k + 1)] OBVIOUS
  <2> DEFINE m == a + (k + 1)
  <2>1. m \in 1..n /\ m - 1 = a + k /\ m - 1 \in 0..n /\ m \in 1..Len(qs) BY DEF Follow
  <2>2. at[a] <= at[m - 1] BY <1>3, <2>1
  <2> HIDE DEF m
  <2>3. Len(qs[m]) \in Nat
    <3>1. qs[m] \in Seq(T) BY <2>1
    <3> QED BY <3>1
  <2>4. at[m] = at[m - 1] + Len(qs[m]) /\ at[m - 1] \in Nat /\ at[a] \in Nat BY <1>1, <2>1
  <2>5. at[a] <= at[m] BY <2>2, <2>3, <2>4
  <2> QED BY <2>5 DEF m
<1> HIDE DEF Z
<1>4. b - a \in Nat /\ a + (b - a) = b /\ b <= n OBVIOUS
<1>5. b - a \in Z BY <1>2, <1>3, <1>4, InductionOnNat
<1> QED BY <1>4, <1>5 DEF Z

(* The writes of the steps in their order: at[m] is the place of the last one for
   the m-th link of the pipeline, which enables it.                         *)
Ordered(g, path, ws, at) ==
  LET M == Len(path) - 1
  IN  /\ at \in [0..M -> Nat]
      /\ \A a, b \in 0..M : a <= b => at[a] <= at[b]
      /\ \A m \in 1..M : /\ at[m] \in 1..Len(ws)
                          /\ ws[at[m]].link = path[m].link /\ ws[at[m]].on = TRUE
      /\ \A m \in 1..M : \A l \in ToSet(Unwanted(g, path[m + 1], path[m].link)) :
           \E j \in 1..Len(ws) : ws[j].link = l /\ ws[j].on = FALSE
      /\ \A j \in 1..Len(ws) : \E m \in 1..M :
           /\ j > at[m - 1] /\ j <= at[m]
           /\ \/ ws[j].on = TRUE /\ ws[j].link = path[m].link
              \/ ws[j].on = FALSE /\ ws[j].link \in ToSet(Unwanted(g, path[m + 1], path[m].link))

LEMMA LinkWritesOrdered ==
  ASSUME NEW g, IsGraph(g), NEW path, Linked(g, path)
  PROVE  /\ LinkWrites(g, path) \in Seq(Writes(ToSet(g.links)))
         /\ \E at : Ordered(g, path, LinkWrites(g, path), at)
<1> DEFINE M == Len(path) - 1
           B(i) == Block(g, path[i + 1], path[i].link)
           off(i) == Unwanted(g, path[i + 1], path[i].link)
           qs == [i \in 1..M |-> B(i)]
           X == Writes(ToSet(g.links))
           ws == LinkWrites(g, path)
           Q == Seq(X)
<1>1. ws = FlattenSeq(qs) BY DEF LinkWrites, Block
<1>2. path \in Seq(PathSteps(g)) /\ M \in Nat
      /\ \A i \in 1..M : LinkBetween(g, path[i].link, path[i].entity, path[i + 1].entity)
  <2>1. path \in Seq(PathSteps(g)) /\ Len(path) > 0 BY DEF Linked
  <2>2. Len(path) \in Nat
    <3> DEFINE S == PathSteps(g)
    <3>1. path \in Seq(S) BY <2>1
    <3> HIDE DEF S
    <3> QED BY <3>1
  <2> QED BY <2>1, <2>2 DEF Linked
<1>3. ASSUME NEW i \in 1..M PROVE path[i + 1] \in PathSteps(g) /\ path[i].link \in ToSet(g.links)
  <2>1. path[i].link \in ToSet(g.links) BY <1>2 DEF LinkBetween
  <2>2. i + 1 \in 1..Len(path) BY <1>2
  <2> DEFINE S == PathSteps(g)
  <2>3. path \in Seq(S) BY <1>2
  <2> HIDE DEF S
  <2>4. path[i + 1] \in S BY <2>2, <2>3
  <2> QED BY <2>1, <2>4 DEF S
<1>4. ASSUME NEW i \in 1..M
      PROVE  /\ B(i) \in Q /\ Len(off(i)) \in Nat /\ Len(B(i)) = Len(off(i)) + 1
             /\ \A k \in 1..Len(off(i)) : B(i)[k].link = off(i)[k] /\ B(i)[k].on = FALSE
             /\ B(i)[Len(off(i)) + 1].link = path[i].link /\ B(i)[Len(off(i)) + 1].on = TRUE
  BY <1>3, BlockType
<1>5. ASSUME NEW i \in 1..M
      PROVE  DOMAIN off(i) = 1..Len(off(i))
  <2>1. off(i) \in Seq(ToSet(g.links)) BY <1>3, UnwantedType
  <2> QED BY <2>1
<1> DEFINE n == [i \in 1..M |-> Len(off(i))]
<1>r. \A i \in 1..M : qs[i] = B(i) /\ n[i] = Len(off(i)) OBVIOUS
<1>s. qs = [i \in 1..M |-> qs[i]] OBVIOUS
<1> HIDE DEF qs, n, B, Q, off
<1>a. \A i \in 1..M : qs[i] \in Q /\ n[i] \in Nat /\ Len(qs[i]) = n[i] + 1
  <2> TAKE i \in 1..M
  <2>1. B(i) \in Q /\ Len(off(i)) \in Nat /\ Len(B(i)) = Len(off(i)) + 1 BY <1>4, Zenon
  <2>2. qs[i] = B(i) /\ n[i] = Len(off(i)) BY <1>r, Zenon
  <2> QED BY <2>1, <2>2, Zenon
<1>b. \A i \in 1..M : \A k \in 1..n[i] : qs[i][k].link = off(i)[k] /\ qs[i][k].on = FALSE
  <2> TAKE i \in 1..M
  <2>1. \A k \in 1..Len(off(i)) : B(i)[k].link = off(i)[k] /\ B(i)[k].on = FALSE BY <1>4, Zenon
  <2>2. qs[i] = B(i) /\ n[i] = Len(off(i)) BY <1>r, Zenon
  <2> TAKE k \in 1..n[i]
  <2>3. k \in 1..Len(off(i)) BY <2>2
  <2>4. B(i)[k].link = off(i)[k] /\ B(i)[k].on = FALSE BY <2>1, <2>3, Zenon
  <2> QED BY <2>2, <2>4, Zenon
<1>c. \A i \in 1..M : qs[i][n[i] + 1].link = path[i].link /\ qs[i][n[i] + 1].on = TRUE
  <2> TAKE i \in 1..M
  <2>1. B(i)[Len(off(i)) + 1].link = path[i].link /\ B(i)[Len(off(i)) + 1].on = TRUE
    BY <1>4, Zenon
  <2>2. qs[i] = B(i) /\ n[i] = Len(off(i)) BY <1>r, Zenon
  <2> QED BY <2>1, <2>2, Zenon
<1>d. \A i \in 1..M : DOMAIN off(i) = 1..n[i] BY <1>5, <1>r, Zenon
<1>6. qs \in Seq(Q) /\ Len(qs) = M
  <2>1. \A i \in 1..M : qs[i] \in Q BY <1>a
  <2>2. M \in Nat BY <1>2
  <2> HIDE DEF M
  <2> QED BY <1>s, <2>1, <2>2
<1> HIDE DEF M, ws, X
<1>7. ws \in Seq(X) /\ \E at : Follow(ws, qs, M, at) BY <1>1, <1>6, Flattened DEF Q
<1>8. PICK at : Follow(ws, qs, M, at) BY <1>7
<1>9. /\ at \in [0..M -> Nat]
      /\ \A m \in 1..M : /\ at[m] = at[m - 1] + Len(qs[m])
                          /\ \A k \in 1..Len(qs[m]) : /\ at[m - 1] + k \in 1..Len(ws)
                                                       /\ ws[at[m - 1] + k] = qs[m][k]
      /\ \A i \in 1..Len(ws) : \E m \in 1..M : i > at[m - 1] /\ i <= at[m]
  BY <1>8 DEF Follow
<1>10. \A a, b \in 0..M : a <= b => at[a] <= at[b]
  <2>1. M <= Len(qs) /\ qs \in Seq(Seq(X)) BY <1>2, <1>6 DEF Q
  <2> QED BY <1>2, <1>8, <2>1, FollowRises
<1>e. ASSUME NEW m \in 1..M, NEW k \in 1..(n[m] + 1)
      PROVE  at[m - 1] + k \in 1..Len(ws) /\ ws[at[m - 1] + k] = qs[m][k]
  <2>1. k \in 1..Len(qs[m]) BY <1>a
  <2> QED BY <1>9, <2>1
<1>11. ASSUME NEW m \in 1..M
       PROVE  at[m] \in 1..Len(ws) /\ ws[at[m]].link = path[m].link /\ ws[at[m]].on = TRUE
  <2> DEFINE k == n[m] + 1
  <2>1. k \in 1..(n[m] + 1) /\ k = Len(qs[m]) BY <1>a
  <2>2. at[m] = at[m - 1] + k BY <1>9, <2>1
  <2>3. qs[m][k].link = path[m].link /\ qs[m][k].on = TRUE BY <1>c
  <2> HIDE DEF k
  <2>4. at[m] \in 1..Len(ws) /\ ws[at[m]] = qs[m][k] BY <1>e, <2>1, <2>2
  <2> QED BY <2>3, <2>4
<1>12. ASSUME NEW m \in 1..M, NEW l \in ToSet(off(m))
       PROVE  \E j \in 1..Len(ws) : ws[j].link = l /\ ws[j].on = FALSE
  <2>1. PICK k \in 1..n[m] : l = off(m)[k]
    <3>1. DOMAIN off(m) = 1..n[m] BY <1>d
    <3> QED BY <3>1 DEF ToSet
  <2>2. k \in 1..(n[m] + 1)
    <3>1. n[m] \in Nat BY <1>a
    <3> QED BY <3>1
  <2>3. at[m - 1] + k \in 1..Len(ws) /\ ws[at[m - 1] + k] = qs[m][k] BY <1>e, <2>2
  <2>4. qs[m][k].link = l /\ qs[m][k].on = FALSE BY <1>b, <2>1
  <2> QED BY <2>3, <2>4
<1>13. ASSUME NEW j \in 1..Len(ws)
       PROVE  \E m \in 1..M :
                /\ j > at[m - 1] /\ j <= at[m]
                /\ \/ ws[j].on = TRUE /\ ws[j].link = path[m].link
                   \/ ws[j].on = FALSE /\ ws[j].link \in ToSet(off(m))
  <2>1. PICK m \in 1..M : j > at[m - 1] /\ j <= at[m] BY <1>9
  <2>2. PICK a \in Nat : a = at[m - 1]
    <3>1. m - 1 \in 0..M BY <1>2
    <3> QED BY <1>9, <3>1
  <2>3. at[m] = a + (n[m] + 1) /\ n[m] \in Nat
    <3>1. n[m] \in Nat /\ Len(qs[m]) = n[m] + 1 BY <1>a
    <3>2. at[m] = a + Len(qs[m]) BY <1>9, <2>2
    <3> QED BY <3>1, <3>2
  <2> DEFINE k == j - a
  <2>4. k \in 1..(n[m] + 1) /\ a + k = j
    <3>1. Len(ws) \in Nat BY <1>7
    <3> QED BY <2>1, <2>2, <2>3, <3>1
  <2> HIDE DEF k
  <2>5. ws[j] = qs[m][k] BY <1>e, <2>2, <2>4
  <2>6. CASE k \in 1..n[m]
    <3>1. qs[m][k].link = off(m)[k] /\ qs[m][k].on = FALSE BY <1>b, <2>6
    <3>2. DOMAIN off(m) = 1..n[m] BY <1>d
    <3>3. off(m)[k] \in ToSet(off(m)) BY <2>6, <3>2 DEF ToSet
    <3> QED BY <2>1, <2>5, <3>1, <3>3
  <2>7. CASE k \notin 1..n[m]
    <3>1. k = n[m] + 1 BY <2>3, <2>4, <2>7
    <3>2. qs[m][k].link = path[m].link /\ qs[m][k].on = TRUE BY <1>c, <3>1
    <3> QED BY <2>1, <2>5, <3>2
  <2> QED BY <2>6, <2>7
<1>14. Ordered(g, path, ws, at) BY <1>9, <1>10, <1>11, <1>12, <1>13 DEF Ordered, M, off
<1> QED BY <1>7, <1>14 DEF ws, X

(* When no write failed, the links of the pipeline are enabled: none is disabled
   after it was enabled, as later steps are at other entities.  And every other
   link at an entity behind the sensor is disabled, unless it is immutable, and
   not enabled again.                                                       *)
LEMMA WritesLink ==
  ASSUME NEW g, IsGraph(g), NEW path, Chained(g, path), NEW links, NEW busy,
         Write(links, busy, LinkWrites(g, path)).ok
  PROVE  LET on == ToSet(LinksAlong(path))
             after == Write(links, busy, LinkWrites(g, path)).links
             touched == UNION {ToSet(LinksAt(g, e)) : e \in ToSet(Tail(path))}
         IN  on \subseteq after /\ after \cap touched \subseteq on \cup g.immutable
<1> DEFINE M == Len(path) - 1
           ws == LinkWrites(g, path)
           S == PathSteps(g)
           K == ToSet(g.links)
           L == K \cup links
           X == Writes(L)
           on == ToSet(LinksAlong(path))
           after == Write(links, busy, ws).links
           off(i) == Unwanted(g, path[i + 1], path[i].link)
<1>1. PICK at : Ordered(g, path, ws, at) BY LinkWritesOrdered DEF Chained
<1>2. path \in Seq(S) /\ Len(path) > 0
      /\ \A i \in 1..M : LinkBetween(g, path[i].link, path[i].entity, path[i + 1].entity)
  BY DEF Chained, Linked
<1>3. M \in Nat /\ \A i \in 1..Len(path) : path[i] \in S
  <2> HIDE DEF S
  <2> QED BY <1>2
<1>4. /\ at \in [0..M -> Nat]
      /\ \A a, b \in 0..M : a <= b => at[a] <= at[b]
      /\ \A m \in 1..M : at[m] \in 1..Len(ws) /\ ws[at[m]].link = path[m].link /\ ws[at[m]].on = TRUE
      /\ \A m \in 1..M : \A l \in ToSet(off(m)) : \E j \in 1..Len(ws) : ws[j].link = l /\ ws[j].on = FALSE
      /\ \A j \in 1..Len(ws) : \E m \in 1..M :
           /\ j > at[m - 1] /\ j <= at[m]
           /\ \/ ws[j].on = TRUE /\ ws[j].link = path[m].link
              \/ ws[j].on = FALSE /\ ws[j].link \in ToSet(off(m))
  BY <1>1 DEF Ordered
<1>5. ws \in Seq(X) /\ links \in SUBSET L
  <2>1. ws \in Seq(Writes(ToSet(g.links))) BY LinkWritesOrdered DEF Chained
  <2> DEFINE W == Writes(ToSet(g.links))
  <2>2. W \subseteq X BY DEF Writes
  <2>3. ws \in Seq(W) BY <2>1
  <2> HIDE DEF W, X, ws
  <2>4. ws \in Seq(X) BY <2>2, <2>3
  <2> QED BY <2>4 DEF ws
<1>6. on = {path[i].link : i \in 1..M}
  <2>1. LinksAlong(path) = [i \in 1..M |-> path[i].link] BY DEF LinksAlong
  <2> QED BY <2>1 DEF ToSet
<1>7. ASSUME NEW i \in 1..Len(ws), LastSays(ws, i)
      PROVE  (ws[i].link \in after) = ws[i].on
  <2>1. Write(links, busy, ws).ok OBVIOUS
  <2>2. ws \in Seq(Writes(L)) /\ links \in SUBSET L BY <1>5
  <2> HIDE DEF ws, L
  <2> QED BY <1>7, <2>1, <2>2, LastWriteTells
<1>o. \A i \in 1..M : \A l \in ToSet(off(i)) :
        /\ path[i + 1].entity \in {EntityOf(l.source), EntityOf(l.sink)}
        /\ l # path[i].link /\ l \notin g.immutable
  <2> TAKE i \in 1..M
  <2>1. path[i + 1] \in S BY <1>3
  <2> QED BY <2>1, UnwantedType, LinksAtType
<1>u. \A i \in 1..M : \A l \in ToSet(LinksAt(g, path[i + 1])) :
        l # path[i].link /\ l \notin g.immutable => l \in ToSet(off(i))
  <2> TAKE i \in 1..M
  <2>1. path[i + 1] \in S BY <1>3
  <2> QED BY <2>1, UnwantedType
<1> HIDE DEF ws, off, after, on, K, L, X
<1>8. ASSUME NEW m \in 1..M PROVE path[m].link \in after
  <2> DEFINE i == at[m]
  <2>1. i \in 1..Len(ws) /\ ws[i].link = path[m].link /\ ws[i].on = TRUE BY <1>4
  <2>2. ASSUME NEW j \in 1..Len(ws), j > i, ws[j].link = path[m].link PROVE ws[j].on = TRUE
    <3>1. PICK n \in 1..M :
            /\ j > at[n - 1] /\ j <= at[n]
            /\ \/ ws[j].on = TRUE /\ ws[j].link = path[n].link
               \/ ws[j].on = FALSE /\ ws[j].link \in ToSet(off(n))
      BY <1>4
    <3>2. m < n
      <4> SUFFICES ASSUME n <= m PROVE FALSE BY <1>3
      <4>1. m \in 0..M /\ n \in 0..M BY <1>3
      <4>2. at[n] <= at[m] /\ at[n] \in Nat /\ at[m] \in Nat BY <1>4, <4>1
      <4>3. j \in Nat BY <2>1
      <4> QED BY <2>2, <3>1, <4>2, <4>3
    <3>3. ASSUME ws[j].link \in ToSet(off(n)) PROVE FALSE
      <4>1. path[n + 1].entity \in {EntityOf(path[m].link.source), EntityOf(path[m].link.sink)}
        BY <1>o, <2>2, <3>3
      <4>2. path[n + 1].entity \in {path[m].entity, path[m + 1].entity}
        BY <1>2, <4>1 DEF LinkBetween
      <4>3. /\ n + 1 \in 1..Len(path) /\ m \in 1..Len(path) /\ m + 1 \in 1..Len(path)
            /\ m < n + 1 /\ m + 1 < n + 1
        <5>1. Len(path) = M + 1
          <6> HIDE DEF S
          <6> QED BY <1>2
        <5> HIDE DEF M
        <5> QED BY <1>3, <3>2, <5>1
      <4> QED BY <4>2, <4>3 DEF Chained
    <3> QED BY <3>1, <3>3
  <2> HIDE DEF i
  <2>3. (ws[i].link \in after) = ws[i].on BY <1>7, <2>1, <2>2 DEF LastSays
  <2> QED BY <2>1, <2>3
<1>9. ASSUME NEW e \in ToSet(Tail(path)), NEW l \in ToSet(LinksAt(g, e)),
             l \notin on, l \notin g.immutable
      PROVE  l \notin after
  <2>1. PICK i \in 1..M : e = path[i + 1]
    <3> HIDE DEF S
    <3>1. path # <<>> /\ path \in Seq(S) BY <1>2
    <3>2. /\ Tail(path) \in Seq(S) /\ Len(Tail(path)) = M
          /\ \A i \in 1..Len(Tail(path)) : Tail(path)[i] = path[i + 1]
      BY <3>1, HeadTailProperties
    <3>3. DOMAIN Tail(path) = 1..M /\ \A i \in 1..M : Tail(path)[i] = path[i + 1] BY <3>2
    <3> QED BY <3>3 DEF ToSet
  <2>2. l # path[i].link BY <1>6, <1>9
  <2>3. l \in ToSet(off(i)) BY <1>u, <1>9, <2>1, <2>2
  <2>4. PICK j \in 1..Len(ws) : ws[j].link = l /\ ws[j].on = FALSE BY <1>4, <2>3
  <2>5. ASSUME NEW k \in 1..Len(ws), ws[k].link = l PROVE ws[k].on = FALSE
    <3>1. PICK n \in 1..M : \/ ws[k].on = TRUE /\ ws[k].link = path[n].link
                            \/ ws[k].on = FALSE /\ ws[k].link \in ToSet(off(n))
      BY <1>4
    <3>2. ws[k].link # path[n].link BY <1>6, <1>9, <2>5
    <3> QED BY <3>1, <3>2
  <2>6. (ws[j].link \in after) = ws[j].on BY <1>7, <2>4, <2>5 DEF LastSays
  <2> QED BY <2>4, <2>6
<1>10. on \subseteq after BY <1>6, <1>8
<1>11. after \cap UNION {ToSet(LinksAt(g, e)) : e \in ToSet(Tail(path))} \subseteq on \cup g.immutable
  BY <1>9
<1> QED BY <1>10, <1>11 DEF on, after, ws

-----------------------------------------------------------------------------
(* Cameras are sensors, or the ISPs behind them, *)
LEMMA SensorType ==
  ASSUME NEW g, IsGraph(g), NEW s \in LocateSensors(g)
  PROVE  s \in DOMAIN g.pads
<1> DEFINE Out(t) == FlattenSeq([i \in DOMAIN SourcePads(g, t) |-> LinksOf(g, SourcePads(g, t)[i])])
           K == ToSet(g.links)
<1>1. PICK out \in {Out(t) : t \in g.sensors} \ {<<>>} :
        s = IF EntityOf(out[1].sink) \in g.isps THEN EntityOf(out[1].sink) ELSE EntityOf(out[1].source)
  BY DEF LocateSensors
<1>2. PICK t \in g.sensors : out = Out(t) BY <1>1
<1>3. out \in Seq(K)
  <2> DEFINE q == SourcePads(g, t)
             qs == [i \in DOMAIN q |-> LinksOf(g, q[i])]
             O == {p \in Pads(g) : p \in g.sources /\ EntityOf(p) = t}
             Z == Seq(K)
  <2>1. t \in DOMAIN g.pads BY DEF IsGraph
  <2>2. q \in Seq(O) BY <2>1, SourcePadsType
  <2>3. \A p : LinksOf(g, p) \in Z BY LinksOfType
  <2>4. out = FlattenSeq(qs) BY <1>2
  <2> HIDE DEF q, O, Z
  <2>5. Len(q) \in Nat /\ DOMAIN q = 1..Len(q) BY <2>2
  <2>6. qs \in Seq(Z) BY <2>3, <2>5
  <2> HIDE DEF qs
  <2> QED BY <2>4, <2>6, Flattened DEF Z
<1> HIDE DEF Out, K
<1>4. out[1] \in K BY <1>1, <1>3, EmptySeq
<1>5. EntityOf(out[1].source) \in DOMAIN g.pads /\ EntityOf(out[1].sink) \in DOMAIN g.pads
  BY <1>4, GraphLinks DEF K
<1> QED BY <1>1, <1>5

(* and have pipelines of the device's graph. *)
Matched ==
  graph \in Graphs /\ \A c \in Cameras : Chained(graph, entities[c])

LEMMA MatchedHolds == PipelinesSpec => []Matched
<1>1. PipelinesInit => Matched
  <2> SUFFICES ASSUME PipelinesInit PROVE Matched OBVIOUS
  <2> DEFINE C == {t \in LocateSensors(graph) : Pipeline(graph, t) # <<>>}
  <2>1. graph \in Graphs /\ entities = [s \in C |-> Pipeline(graph, s)] BY DEF PipelinesInit
  <2>2. IsGraph(graph) BY <2>1, GraphAssumption
  <2>3. ASSUME NEW c \in C PROVE Chained(graph, Pipeline(graph, c))
    <3>1. c \in LocateSensors(graph) /\ Pipeline(graph, c) # <<>> OBVIOUS
    <3> QED BY <2>2, <3>1, SensorType, PipelineType
  <2> HIDE DEF C
  <2> QED BY <2>1, <2>3 DEF Matched, Cameras
<1>2. Matched /\ [PipelinesNext]_pipelinesVars => Matched'
  <2> SUFFICES ASSUME Matched, [PipelinesNext]_pipelinesVars PROVE Matched' OBVIOUS
  <2>1. UNCHANGED <<graph, entities>>
    BY DEF PipelinesNext, pipelinesVars, ConfigureCamera, ConfigureCameraFails, StartCamera, StopCamera
  <2> QED BY <2>1 DEF Matched, Cameras
<1> QED BY <1>1, <1>2, PTL DEF PipelinesSpec

(* When a camera has been configured, every link of its pipeline is enabled and
   no other one at the entities on its way that is not immutable, whatever
   another camera set up before, and whatever the device's graph is.        *)
THEOREM ConfiguredPathIsLinked == PipelinesSpec => ConfiguredIsLinked
<1>1. ASSUME Matched, NEW c \in Cameras, ConfigureCamera(c) PROVE PipelineLinked(c)'
  <2> DEFINE w == Write(enabled, DOMAIN owners, LinkWrites(graph, entities[c]))
             on == ToSet(LinksAlong(entities[c]))
             touched == UNION {ToSet(LinksAt(graph, e)) : e \in ToSet(Tail(entities[c]))}
  <2>1. w.ok /\ enabled' = w.links /\ graph' = graph /\ entities' = entities
    BY <1>1 DEF ConfigureCamera
  <2>2. IsGraph(graph) /\ Chained(graph, entities[c]) BY <1>1, GraphAssumption DEF Matched
  <2>3. on \subseteq w.links /\ w.links \cap touched \subseteq on \cup graph.immutable
    BY <2>1, <2>2, WritesLink
  <2> QED BY <2>1, <2>3 DEF PipelineLinked
<1>2. Matched /\ [PipelinesNext]_pipelinesVars => [\A c \in Cameras : ConfigureCamera(c) => PipelineLinked(c)']_pipelinesVars
  BY <1>1
<1>3. [][Matched /\ [PipelinesNext]_pipelinesVars]_pipelinesVars => ConfiguredIsLinked
  BY <1>2, PTL DEF ConfiguredIsLinked
<1> QED BY <1>3, MatchedHolds, PTL DEF PipelinesSpec
=============================================================================
