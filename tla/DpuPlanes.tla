------------------------------ MODULE DpuPlanes ------------------------------
(***************************************************************************)
(* How the virtual planes of the DPU driver get their fetch pipes (SSPPs): *)
(* dpu_assign_plane_resources and what it calls in dpu_plane.c and         *)
(* dpu_rm.c, and what a commit then writes to the multirect registers      *)
(* (dpu_hw_sspp.c).                                                        *)
(*                                                                         *)
(* A plane is fetched in up to Stages stages, one per pair of mixers of    *)
(* its CRTC, each by one rectangle or, when it is wide, by two.  An SSPP   *)
(* fetches one rectangle alone, or two rectangles (multirect): both halves *)
(* of a plane, or two planes that follow each other in the stack.  Two     *)
(* rectangles are fetched side by side (parallel) or one below the other   *)
(* (time multiplexed).                                                     *)
(*                                                                         *)
(* Rectangles are abstract: a plane covers some of the rows and columns of *)
(* a coarse grid, whose lines are further apart than multirect asks for.   *)
(* A layout says what a check asks of a plane:                             *)
(*   rects  number of rectangles in each stage of a CRTC that has n stages *)
(*   needs  subset of {"yuv", "scale", "rot90"}                            *)
(*   wide   compressed, and wider than half a line                         *)
(*   rows, cols   the part of the grid it covers                           *)
(***************************************************************************)
EXTENDS DpuCrtcs, Integers, FiniteSets, SequencesExt

CONSTANTS
  Planes,               \* numbers: the order in which a commit updates planes
  Stages,               \* STAGES_PER_PLANE
  Sspps, NoSspp,        \* the SSPPs, numbered; a null pointer
  TypeOf,               \* "DMA", "RGB" or "VIG"
  Scalers, Cscs, Rotators, SmartDmas,  \* those that scale, convert, rotate, do multirect
  Layouts, NoLayout     \* what a plane may be asked to show; a hidden plane's

PlaneAssumption ==
  /\ Free \notin CRTCs /\ NoSspp \notin Sspps
  /\ Planes \subseteq Nat /\ IsFiniteSet(Planes) /\ Sspps \subseteq Nat /\ Stages \in Nat \ {0}
  /\ TypeOf \in [Sspps -> {"DMA", "RGB", "VIG"}]
  /\ \A l \in Layouts : /\ \A n \in 1..Stages : l.rects[n] \in [1..n -> 0..2]
                        /\ l.wide \in BOOLEAN
                        /\ l.needs \subseteq {"yuv", "scale", "rot90"}

VARIABLES
  owner,      \* sspp_to_crtc_id
  crtcOf,     \* the CRTC a plane is visible on, or Free
  layout,     \* what each plane is asked to show
  rects,      \* pipe_cfg: number of rectangles of each plane in each stage
  pipe,       \* pipe: the left and right pipe of each plane in each stage
  opmode,     \* the SSPP_MULTIRECT_OPMODE registers
  toUpdate    \* the planes a commit has not updated yet

planesVars == <<owner, crtcOf, layout, rects, pipe, opmode, toUpdate>>

Indices == {"SOLO", "RECT_0", "RECT_1"}
Modes   == {"NONE", "PARALLEL", "TIME_MX"}
Pipes   == [sspp : Sspps \cup {NoSspp}, index : Indices, mode : Modes]

Pipe(s, index, mode) == [sspp |-> s, index |-> index, mode |-> mode]
Solo(s)  == Pipe(s, "SOLO", "NONE")

NoPipes == [i \in 1..Stages |-> <<Solo(NoSspp), Solo(NoSspp)>>]

(* The pipes of plane p in use: their rectangle has a width. *)
Used(p) == {u \in (1..Stages) \X (1..2) : u[2] <= rects[p][u[1]]}

-----------------------------------------------------------------------------
(* Mutant: an SSPP is taken although another CRTC has it. *)
CandidatesOfOthers(own, needs, type) ==
  {s \in Sspps : /\ TypeOf[s] = type
                 /\ "scale" \in needs => s \in Scalers
                 /\ "yuv" \in needs => s \in Cscs
                 /\ "rot90" \in needs => s \in Rotators}

(* dpu_rm_try_sspp: the SSPPs of a type that are free and can do it. *)
Candidates(own, needs, type) ==
  {s \in Sspps : /\ own[s] = Free /\ TypeOf[s] = type
                 /\ "scale" \in needs => s \in Scalers
                 /\ "yuv" \in needs => s \in Cscs
                 /\ "rot90" \in needs => s \in Rotators}

(* dpu_rm_reserve_sspp: the first candidate of the simplest type, or none. *)
ReserveSspp(own, needs) ==
  LET dma == IF needs \cap {"scale", "yuv"} = {} THEN Candidates(own, needs, "DMA") ELSE {}
      rgb == IF "yuv" \notin needs THEN Candidates(own, needs, "RGB") ELSE {}
      vig == Candidates(own, needs, "VIG")
      best == IF dma # {} THEN dma ELSE IF rgb # {} THEN rgb ELSE vig
  IN  IF best = {} THEN NoSspp ELSE CHOOSE s \in best : \A r \in best : s <= r

(* dpu_plane_is_multirect_capable.  A rotated plane is YUV here: it passes  *)
(* dpu_plane_check_inline_rotation in no other format.                     *)
MultirectCapable(l) == l.needs = {}

(* dpu_plane_is_parallel_capable: not more than half a line of UBWC. *)
ParallelCapable(l) == ~l.wide

MultirectParallelCapable(s, l) == s \in SmartDmas /\ MultirectCapable(l) /\ ParallelCapable(l)

(* dpu_plane_try_multirect_parallel: the two halves of SSPP s. *)
InParallel(s) == <<Pipe(s, "RECT_0", "PARALLEL"), Pipe(s, "RECT_1", "PARALLEL")>>

(* dpu_plane_get_single_pipe_in_stage *)
Single(cfg, p, i) == cfg[p][i] = 1

(* drm_rect tests of dpu_plane_try_multirect_shared, on the grid. *)
Beside(l, m) == l.cols \cap m.cols = {}
Above(l, m)  == l.rows \cap m.rows = {}

(* Mutant: the test that q has not been joined is missing. *)
SharedModeJoined(a, cfg, show, p, q, i) ==
  IF \/ ~Single(cfg, p, i) \/ ~Single(cfg, q, i)
     \/ ~MultirectCapable(show[p]) \/ ~MultirectCapable(show[q])
     \/ a.pipe[q][i][1].sspp \notin SmartDmas
  THEN "NONE"
  ELSE IF ParallelCapable(show[p]) /\ ParallelCapable(show[q]) /\ Beside(show[p], show[q])
  THEN "PARALLEL"
  ELSE IF Above(show[p], show[q]) THEN "TIME_MX" ELSE "NONE"

(* The mode in which plane p can join plane q on its SSPP, or NONE: both    *)
(* have one rectangle in the stage, and q's has not been joined yet.       *)
SharedMode(a, cfg, show, p, q, i) ==
  IF \/ ~Single(cfg, p, i) \/ ~Single(cfg, q, i)
     \/ a.pipe[q][i][1].mode # "NONE"
     \/ ~MultirectCapable(show[p]) \/ ~MultirectCapable(show[q])
     \/ a.pipe[q][i][1].sspp \notin SmartDmas
  THEN "NONE"
  ELSE IF ParallelCapable(show[p]) /\ ParallelCapable(show[q]) /\ Beside(show[p], show[q])
  THEN "PARALLEL"
  ELSE IF Above(show[p], show[q]) THEN "TIME_MX" ELSE "NONE"

(* dpu_plane_assign_resource_in_stage, for a plane that shares no SSPP.  A  *)
(* split rectangle goes to the two halves of one SSPP if it can, and to a  *)
(* second SSPP otherwise.                                                  *)
AssignInStage(a, cfg, show, p, i) ==
  LET needs  == show[p].needs
      left   == ReserveSspp(a.owner, needs)
      own    == [a.owner EXCEPT ![left] = a.crtc]
      right  == ReserveSspp(own, needs)
  IN  IF cfg[p][i] = 0 THEN a
      ELSE IF left = NoSspp THEN [a EXCEPT !.ok = FALSE]
      ELSE IF Single(cfg, p, i) THEN
        [a EXCEPT !.owner = own, !.pipe[p][i][1] = Solo(left)]
      ELSE IF MultirectParallelCapable(left, show[p]) THEN
        [a EXCEPT !.owner = own, !.pipe[p][i] = InParallel(left)]
      ELSE IF right = NoSspp THEN [a EXCEPT !.ok = FALSE]
      ELSE [a EXCEPT !.owner = [own EXCEPT ![right] = a.crtc],
                     !.pipe[p][i] = <<Solo(left), Solo(right)>>]

(* One turn of the loop of dpu_plane_virtual_assign_resources; none after a *)
(* failure.                                                                *)
AssignStage(a, cfg, show, p, i) ==
  LET q    == a.prev[i]
      mode == IF q = {} THEN "NONE" ELSE SharedMode(a, cfg, show, p, CHOOSE x \in q : TRUE, i)
      prev == IF Single(cfg, p, i) THEN [a EXCEPT !.prev[i] = {p}] ELSE a
  IN  IF ~a.ok THEN a
      ELSE IF mode = "NONE" THEN AssignInStage(prev, cfg, show, p, i)
      ELSE LET r == CHOOSE x \in q : TRUE
               s == a.pipe[r][i][1].sspp
           IN  [a EXCEPT !.pipe[p][i][1] = Pipe(s, "RECT_1", mode),
                         !.pipe[r][i][1] = Pipe(s, "RECT_0", mode)]

(* dpu_plane_virtual_assign_resources: the pipes of the plane are reset, and *)
(* its stages served one after the other.  (The code resets the SSPP of a  *)
(* pipe only; nothing reads the rest before it is written again.)          *)
AssignPlane(a, cfg, show, p) ==
  LET after[i \in 0..Stages] ==
        IF i = 0 THEN [a EXCEPT !.pipe[p] = NoPipes]
        ELSE AssignStage(after[i - 1], cfg, show, p, i)
  IN  after[Stages]

(* dpu_rm_release_all_sspp *)
ReleaseAll(c) == [s \in Sspps |-> IF owner[s] = c THEN Free ELSE owner[s]]

(* dpu_assign_plane_resources, over the visible planes of a CRTC from the   *)
(* lowest to the highest, after the SSPPs of the CRTC were released.       *)
Assign(c, stack, cfg, show) ==
  LET start == [crtc |-> c, ok |-> TRUE, owner |-> ReleaseAll(c), pipe |-> pipe,
                prev |-> [i \in 1..Stages |-> {}]]
      after[k \in 0..Len(stack)] ==
        IF k = 0 THEN start ELSE AssignPlane(after[k - 1], cfg, show, stack[k])
  IN  after[Len(stack)]

-----------------------------------------------------------------------------
PlanesInit ==
  /\ owner = [s \in Sspps |-> Free]
  /\ crtcOf = [p \in Planes |-> Free]
  /\ layout = [p \in Planes |-> NoLayout]
  /\ rects = [p \in Planes |-> [i \in 1..Stages |-> 0]]
  /\ pipe = [p \in Planes |-> NoPipes]
  /\ opmode = [s \in Sspps |-> [rects |-> {}, time |-> FALSE]]
  /\ toUpdate = {}

(* dpu_plane_split: the stages of the CRTC get their rectangles, the others *)
(* keep what they had.                                                     *)
Split(show, n, p) ==
  [i \in 1..Stages |-> IF i <= n THEN show[p].rects[n][i] ELSE rects[p][i]]

(* The atomic check of a CRTC with n stages that is to show the planes of  *)
(* stack, and the swap of its state when it passes.  A check that fails    *)
(* leaves nothing behind, so it is no step.  Planes the CRTC no longer     *)
(* shows are part of the commit, and so may be others that are put, or     *)
(* left, where nothing of them is visible (off); without pipes these write *)
(* nothing.                                                                *)
Check(c) ==
  /\ toUpdate = {}
  /\ \E n \in 1..Stages, shown \in SUBSET {p \in Planes : crtcOf[p] \in {Free, c}} :
     \E stack \in SetToSeqs(shown), new \in [shown -> Layouts] :
     \E off \in SUBSET {p \in Planes \ shown : crtcOf[p] = Free /\ pipe[p] # NoPipes} :
       LET show   == [p \in Planes |-> IF p \in shown THEN new[p] ELSE layout[p]]
           cfg    == [p \in Planes |-> IF p \in shown THEN Split(show, n, p) ELSE rects[p]]
           result == Assign(c, stack, cfg, show)
       IN /\ result.ok
          /\ owner' = result.owner /\ pipe' = result.pipe
          /\ layout' = [p \in Planes |-> IF crtcOf[p] = c /\ p \notin shown THEN NoLayout ELSE show[p]]
          /\ rects' = cfg
          /\ crtcOf' = [p \in Planes |-> IF p \in shown THEN c
                                         ELSE IF crtcOf[p] = c THEN Free ELSE crtcOf[p]]
          /\ toUpdate' = shown \cup off \cup {p \in Planes : crtcOf[p] = c}
  /\ UNCHANGED opmode

(* Mutant: SOLO leaves the register. *)
SetupMultirectSkipsSolo(s, pipes) ==
  LET multi == {pp \in pipes : pp.index # "SOLO"} IN
  IF multi = {} THEN opmode[s]
  ELSE [rects |-> opmode[s].rects \cup {pp.index : pp \in multi},
        time  |-> \E pp \in multi : pp.mode = "TIME_MX"]

(* dpu_hw_setup_multirect_impl, for all the pipes written on SSPP s.       *)
SetupMultirect(s, pipes) ==
  IF \E pp \in pipes : pp.index = "SOLO" THEN [rects |-> {}, time |-> FALSE]
  ELSE IF pipes = {} THEN opmode[s]
  ELSE [rects |-> opmode[s].rects \cup {pp.index : pp \in pipes},
        time  |-> \E pp \in pipes : pp.mode = "TIME_MX"]

NextToUpdate == {p \in toUpdate : \A q \in toUpdate : p <= q}

(* dpu_plane_atomic_update of a visible plane: every pipe in use is         *)
(* programmed.                                                             *)
UpdateVisible(p) ==
  /\ p \in NextToUpdate /\ crtcOf[p] # Free
  /\ opmode' = [s \in Sspps |->
       SetupMultirect(s, {pp \in {pipe[p][u[1]][u[2]] : u \in Used(p)} : pp.sspp = s})]
  /\ toUpdate' = toUpdate \ {p}
  /\ UNCHANGED <<owner, crtcOf, layout, rects, pipe>>

(* _dpu_plane_atomic_disable: the right pipes of a plane that is not visible, *)
(* whose state is a copy of its last one, are released from multirect, and *)
(* stay its pipes: each later commit with the plane writes to them again,  *)
(* until it is visible.  (The left ones are not read before a check has    *)
(* reset them.)                                                            *)
UpdateHidden(p) ==
  /\ p \in NextToUpdate /\ crtcOf[p] = Free
  /\ LET right == {i \in 1..Stages : pipe[p][i][2].sspp # NoSspp} IN
     /\ pipe' = [pipe EXCEPT ![p] = [i \in 1..Stages |-> <<Solo(NoSspp), Solo(@[i][2].sspp)>>]]
     /\ opmode' = [s \in Sspps |->
          SetupMultirect(s, {Solo(s) : i \in {j \in right : pipe[p][j][2].sspp = s}})]
  /\ toUpdate' = toUpdate \ {p}
  /\ UNCHANGED <<owner, crtcOf, layout, rects>>

(* dpu_plane_atomic_update *)
AtomicUpdate(p) == UpdateVisible(p) \/ UpdateHidden(p)

PlanesNext ==
  \/ \E c \in CRTCs : Check(c)
  \/ \E p \in Planes : AtomicUpdate(p)

PlanesSpec == PlanesInit /\ [][PlanesNext]_planesVars

-----------------------------------------------------------------------------
Visible == {p \in Planes : crtcOf[p] # Free}

(* The pipes that fetch from SSPP s: a plane, a stage and a side. *)
Fetching(s) ==
  {f \in Visible \X ((1..Stages) \X (1..2)) :
     f[2] \in Used(f[1]) /\ pipe[f[1]][f[2][1]][f[2][2]].sspp = s}
At(f) == pipe[f[1]][f[2][1]][f[2][2]]

(* A rectangle of an SSPP is fetched by one pipe: an SSPP serves one pipe  *)
(* alone, or two pipes of one CRTC in one stage and one mode, as RECT_0    *)
(* and RECT_1; and a pipe that shows something has an SSPP.                *)
OnePipePerRectangle ==
  /\ \A p \in Visible : \A u \in Used(p) : pipe[p][u[1]][u[2]].sspp # NoSspp
  /\ \A s \in Sspps :
       \/ \A f, g \in Fetching(s) : f = g /\ At(f) = Solo(s)
       \/ \E mode \in {"PARALLEL", "TIME_MX"} : \E f, g \in Fetching(s) :
            /\ Fetching(s) = {f, g} /\ f[2][1] = g[2][1] /\ crtcOf[f[1]] = crtcOf[g[1]]
            /\ At(f) = Pipe(s, "RECT_0", mode) /\ At(g) = Pipe(s, "RECT_1", mode)

(* A CRTC owns the SSPPs its planes fetch with and no others: none is      *)
(* fetched from by two CRTCs, and none is lost to the others, whatever     *)
(* checks shared, split or dropped.                                        *)
OwnedAreUsed ==
  \A s \in Sspps : {crtcOf[f[1]] : f \in Fetching(s)} = {owner[s]} \ {Free}

(* After a commit no SSPP that one pipe has alone is left in the multirect *)
(* mode of an earlier commit.                                              *)
SoloIsSolo ==
  toUpdate = {} => \A s \in Sspps : \A f \in Fetching(s) :
                     At(f).index = "SOLO" => opmode[s].rects = {}

-----------------------------------------------------------------------------
(* What comments say and the code does not do.                             *)

(* "if rect index is RECT_SOLO, we cannot expect a virtual plane sharing    *)
(* the same SSPP id. So we go and disable multirect" (dpu_hw_sspp.c:163):  *)
(* after a commit, an SSPP that two pipes share is in their mode.          *)
SharedIsShared ==
  toUpdate = {} => \A s \in Sspps : \A f \in Fetching(s) :
    At(f).index # "SOLO" =>
      opmode[s] = [rects |-> {"RECT_0", "RECT_1"}, time |-> At(f).mode = "TIME_MX"]
=============================================================================
