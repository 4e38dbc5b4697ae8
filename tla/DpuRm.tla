-------------------------------- MODULE DpuRm --------------------------------
(***************************************************************************)
(* The resource manager of the DPU display driver                          *)
(* (drivers/gpu/drm/msm/disp/dpu1/dpu_rm.c): which CRTC owns which mixer,  *)
(* pingpong, DSPP, CTL, DSC, CWB mux and CDM block.                        *)
(*                                                                         *)
(* Ownership is part of the atomic state of the display: a check works on  *)
(* a duplicate (draft) of the state in force (committed), releases and     *)
(* reserves for each CRTC it changes, and is then either swapped in or     *)
(* thrown away.  The DRM core lets one check at a time hold the duplicate. *)
(*                                                                         *)
(* A block is named by its index in the driver's array of its kind.  The   *)
(* loops of the driver that pick blocks in index order are sets here:      *)
(* First(S, n) are the n blocks of S such a loop stops at.                 *)
(***************************************************************************)
EXTENDS DpuCrtcs, Integers, FiniteSets

CONSTANTS
  Mixers, Peer,         \* the mixers, and the peer of each (lm_pair)
  PingpongOf, DsppOf,   \* the pingpong and DSPP wired to each mixer
  Pingpongs, Dspps,     \* those that exist, the pingpongs of CWB apart
  Ctls, SplitCtls,      \* the CTLs, and those with DPU_CTL_SPLIT_DISPLAY
  Dscs, Cdms,           \* the DSCs; {0}, or {} when there is no CDM block
  CwbMuxes, CwbStart,   \* slots of cwb_blks; PINGPONG_CWB_0 - PINGPONG_0
  MixerSlots, DscSlots, \* sizes of mixer_blks and of dsc_blks
  Topologies, NoTopology, \* what displays ask for; what a disabled CRTC asks for
  MaxPerCheck           \* bound: the CRTCs one check changes

ASSUME CatalogAssumption ==
  /\ Free \notin CRTCs /\ NoTopology \notin Topologies
  /\ Mixers \subseteq Nat /\ Pingpongs \subseteq Nat /\ Ctls \subseteq Nat
  /\ CwbMuxes \subseteq Nat /\ Cdms \subseteq {0}
  /\ MixerSlots \in Nat /\ DscSlots \in Nat /\ Dscs \subseteq 0..(DscSlots - 1)
  /\ CwbStart \in Nat /\ \A p \in Pingpongs : p < CwbStart
  /\ PingpongOf \in [Mixers -> Int] /\ DsppOf \in [Mixers -> Int]
  /\ Peer \in [Mixers -> Int]
  /\ \A m \in Mixers : Peer[m] \in Mixers => Peer[m] # m /\ Peer[Peer[m]] = m
  /\ \A m, n \in Mixers :
       /\ PingpongOf[m] = PingpongOf[n] => m = n \/ PingpongOf[m] \notin Pingpongs
       /\ DsppOf[m] = DsppOf[n] => m = n \/ DsppOf[m] \notin Dspps

ASSUME TopologyAssumption ==
  \A t \in Topologies :
    /\ t.num_lm \in {1, 2, 4} /\ t.num_intf \in Nat \ {0}
    /\ {t.num_dspp, t.num_cdm} \subseteq Nat /\ t.cwb_enabled \in BOOLEAN
    /\ t.num_dsc \in {0, 1, 2, 4}   \* "num_dsc should be either 1, 2 or 4" (line 631)

(* "Facts" of dpu_rm.c:622-629: behind each DSC there is a pingpong, hence  *)
(* a mixer, and the pingpongs of a pair of mixers make a pair like DSCs 0   *)
(* and 1.                                                                  *)
ASSUME DscAssumption ==
  /\ \A t \in Topologies : t.num_dsc <= t.num_lm
  /\ \A m \in Mixers : Peer[m] \in Mixers /\ Peer[m] > m =>
       PingpongOf[m] % 2 = 0 /\ PingpongOf[Peer[m]] = PingpongOf[m] + 1

VARIABLES
  hasLegacyCtls,  \* the DPU is older than version 5
  committed,      \* the dpu_global_state in force: an owner of each block
  draft,          \* the duplicate the current check works on
  topology,       \* what each CRTC was given blocks for, in committed ...
  draftTopology,  \* ... and in draft
  phase,          \* is there a check, and did a reservation in it fail?
  released        \* the CRTCs the check has released

vars == <<hasLegacyCtls, committed, draft, topology, draftTopology, phase, released>>

Owners == CRTCs \cup {Free}

(* The arrays of dpu_global_state; entries no code touches are left out. *)
Blocks ==
  [mixer    |-> Mixers,
   pingpong |-> Pingpongs \cup {CwbStart + j : j \in CwbMuxes},
   dspp     |-> Dspps \cup {0},
   ctl      |-> Ctls,
   dsc      |-> Dscs,
   cwb      |-> CwbMuxes,
   cdm      |-> {0}]

Kinds == {"mixer", "pingpong", "dspp", "ctl", "dsc", "cwb", "cdm"}

Owned(gs, k, c) == {b \in Blocks[k] : gs[k][b] = c}

(* What reserved_by_other() lets through. *)
Available(gs, k, c) == {b \in Blocks[k] : gs[k][b] \in {Free, c}}

(* A loop over a map of gs that stores owner o for the blocks of B. *)
Give(gs, k, B, o) ==
  [gs EXCEPT ![k] = [b \in Blocks[k] |-> IF b \in B THEN o ELSE gs[k][b]]]

(* A loop in index order that stops at the n-th block of S. *)
First(S, n) == {x \in S : Cardinality({y \in S : y < x}) < n}

Ok(gs)   == [ok |-> TRUE, gs |-> gs]
Fail(gs) == [ok |-> FALSE, gs |-> gs]

-----------------------------------------------------------------------------
(* Mutant: the maps added last are forgotten. *)
ReleaseForgetsCwb(gs, c) ==
  [k \in Kinds |-> IF k = "cwb" THEN gs[k]
                   ELSE [b \in Blocks[k] |-> IF gs[k][b] = c THEN Free ELSE gs[k][b]]]

(* Mutant: the one map that is no array is forgotten. *)
ReleaseForgetsCdm(gs, c) ==
  [k \in Kinds |-> IF k = "cdm" THEN gs[k]
                   ELSE [b \in Blocks[k] |-> IF gs[k][b] = c THEN Free ELSE gs[k][b]]]

(* dpu_rm_release: every block of c is free again. *)
Release(gs, c) ==
  [k \in Kinds |-> [b \in Blocks[k] |-> IF gs[k][b] = c THEN Free ELSE gs[k][b]]]

(* _dpu_rm_check_lm_and_get_connected_blks, over all mixers. *)
UsableMixers(gs, c, t) ==
  {m \in Mixers \cap Available(gs, "mixer", c) :
     /\ PingpongOf[m] \in Pingpongs \cap Available(gs, "pingpong", c)
     /\ t.num_dspp > 0 => DsppOf[m] \in Dspps \cap Available(gs, "dspp", c)}

(* Mutant: the first usable mixers, whether they are peers or not. *)
ChosenMixersUnpaired(gs, c, t) == First(UsableMixers(gs, c, t), t.num_lm)

(* The mixers _dpu_rm_reserve_lms chooses: single ones, or pairs of peers   *)
(* found from their lower index.                                           *)
ChosenMixers(gs, c, t) ==
  LET usable == UsableMixers(gs, c, t)
      lower  == First({m \in usable : Peer[m] \in usable /\ Peer[m] > m}, t.num_lm \div 2)
  IN  IF t.num_lm = 1 THEN First(usable, 1) ELSE lower \cup {Peer[m] : m \in lower}

(* dspp_idx[] starts as {0}, so a topology without DSPPs writes "no owner"  *)
(* to DSPP_0 whoever has it.                                               *)
ReserveLms(gs, c, t) ==
  LET lms == ChosenMixers(gs, c, t)
      g1  == Give(gs, "mixer", lms, c)
      g2  == Give(g1, "pingpong", {PingpongOf[m] : m \in lms}, c)
  IN  IF Cardinality(lms) # t.num_lm THEN Fail(gs)
      ELSE IF t.num_dspp > 0 THEN Ok(Give(g2, "dspp", {DsppOf[m] : m \in lms}, c))
      ELSE Ok(Give(g2, "dspp", {0}, Free))

(* Index i of the mixer array gets the first available mux of its parity.   *)
(* Whose mixer it is, and whether an earlier index got that mux, is not    *)
(* looked at.                                                              *)
ReserveCwb(gs, c, t) ==
  LET muxes(i) == {j \in Available(gs, "cwb", c) : j % 2 = i % 2}
      found    == First({i \in 0..(MixerSlots - 1) : muxes(i) # {}}, t.num_lm)
      chosen   == UNION {First(muxes(i), 1) : i \in found}
      g1       == Give(gs, "pingpong", {CwbStart + j : j \in chosen}, c)
  IN  IF ~t.cwb_enabled THEN Ok(gs)
      ELSE IF Cardinality(found) # t.num_lm THEN Fail(gs)
      ELSE Ok(Give(g1, "cwb", chosen, c))

NumCtls(t) == IF hasLegacyCtls THEN t.num_intf ELSE 1

(* Mutant: the owner of a CTL is not looked at. *)
ReserveCtlsOfOthers(gs, c, t) ==
  LET chosen == First({j \in Ctls : hasLegacyCtls => (j \in SplitCtls) = (t.num_intf > 1)}, NumCtls(t))
  IN  IF Cardinality(chosen) # NumCtls(t) THEN Fail(gs) ELSE Ok(Give(gs, "ctl", chosen, c))

ReserveCtls(gs, c, t) ==
  LET split  == hasLegacyCtls /\ t.num_intf > 1
      chosen == First({j \in Available(gs, "ctl", c) : (j \in SplitCtls) = split}, NumCtls(t))
  IN  IF Cardinality(chosen) # NumCtls(t) THEN Fail(gs) ELSE Ok(Give(gs, "ctl", chosen, c))

(* Mutant: DSCs and pingpongs are not matched by parity. *)
DscAllocAnyParity(gs, c, t) ==
  LET chosen == First(Available(gs, "dsc", c), t.num_dsc)
      done   == Give(gs, "dsc", chosen, c)
  IN  IF Cardinality(chosen) = t.num_dsc THEN Ok(done) ELSE Fail(done)

(* _dpu_rm_dsc_alloc: the n-th available DSC goes with the n-th pingpong of *)
(* c, those of CWB included, and the first pair of unequal parity ends it. *)
DscAlloc(gs, c, t) ==
  LET dscs    == Available(gs, "dsc", c)
      own     == Owned(gs, "pingpong", c)
      Fits(d) == \E p \in own : /\ Cardinality({q \in own : q < p}) = Cardinality({e \in dscs : e < d})
                                /\ d % 2 = p % 2
      chosen  == {d \in First(dscs, t.num_dsc) : \A e \in dscs : e <= d => Fits(e)}
      done    == Give(gs, "dsc", chosen, c)
  IN  IF Cardinality(chosen) = t.num_dsc THEN Ok(done) ELSE Fail(done)

(* _dpu_rm_pingpong_next_index: none, or the one that is found. *)
NextPingpong(gs, c, start) == First({p \in Owned(gs, "pingpong", c) : p >= start}, 1)

(* DSCs 2k and 2k + 1, both there and to be had. *)
DscPairs(gs, c) ==
  {k \in 0..(DscSlots - 1) : {2 * k, 2 * k + 1} \subseteq Available(gs, "dsc", c)}

(* What the loop makes of pair k: s is the lowest pingpong it still looks   *)
(* at, the number of DSCs it has reserved, and whether it has run out of   *)
(* pingpongs.  A mismatch starts over at pingpong 0.                       *)
DscPairTurn(gs, c, t, s, k) ==
  IF k \notin DscPairs(gs, c) \/ s.dead \/ s.num >= t.num_dsc THEN s
  ELSE IF NextPingpong(gs, c, s.pp) = {} THEN [s EXCEPT !.dead = TRUE]
  ELSE LET p == CHOOSE p \in NextPingpong(gs, c, s.pp) : TRUE IN
    IF p % 2 = 1 THEN [s EXCEPT !.pp = 0]
    ELSE IF NextPingpong(gs, c, p + 1) = {} THEN [s EXCEPT !.dead = TRUE]
    ELSE LET q == CHOOSE q \in NextPingpong(gs, c, p + 1) : TRUE IN
      IF q % 2 = 0 THEN [s EXCEPT !.pp = 0]
      ELSE [s EXCEPT !.pp = q + 1, !.num = @ + 2]

(* The loop before each of the pairs, and after the last. *)
DscPairScan(gs, c, t) ==
  LET scan[k \in 0..DscSlots] ==
        IF k = 0 THEN [pp |-> 0, num |-> 0, dead |-> FALSE]
        ELSE DscPairTurn(gs, c, t, scan[k - 1], k - 1)
  IN  scan

(* _dpu_rm_dsc_alloc_pair: a pair goes with the next even and the next odd  *)
(* pingpong of c.                                                          *)
DscAllocPair(gs, c, t) ==
  LET scan   == DscPairScan(gs, c, t)
      chosen == {k \in DscPairs(gs, c) : scan[k + 1].num > scan[k].num}
      done   == Give(gs, "dsc", UNION {{2 * k, 2 * k + 1} : k \in chosen}, c)
      end    == scan[DscSlots]
  IN  IF ~end.dead /\ end.num >= t.num_dsc THEN Ok(done) ELSE Fail(done)

ReserveDsc(gs, c, t) ==
  IF t.num_dsc = 0 THEN Ok(gs)
  ELSE IF t.num_dsc > t.num_intf THEN DscAllocPair(gs, c, t) ELSE DscAlloc(gs, c, t)

(* Mutant: the count is stored where the owner belongs. *)
ReserveCdmStoresCount(gs, c, t) ==
  IF t.num_cdm = 0 THEN Ok(gs)
  ELSE IF t.num_cdm > 1 \/ Cdms = {} \/ gs["cdm"][0] # Free THEN Fail(gs)
  ELSE Ok(Give(gs, "cdm", Cdms, t.num_cdm))

(* A CDM block is refused even to the CRTC that has it.                    *)
ReserveCdm(gs, c, t) ==
  IF t.num_cdm = 0 THEN Ok(gs)
  ELSE IF t.num_cdm > 1 \/ Cdms = {} \/ gs["cdm"][0] # Free THEN Fail(gs)
  ELSE Ok(Give(gs, "cdm", Cdms, c))

(* The next part of a reservation, unless an earlier one failed. *)
Then(result, Part(_, _, _), c, t) == IF result.ok THEN Part(result.gs, c, t) ELSE result

(* _dpu_rm_make_reservation: what an earlier part reserved stays reserved   *)
(* when a later one fails.                                                 *)
MakeReservation(gs, c, t) ==
  LET lms  == ReserveLms(gs, c, t)
      cwb  == Then(lms, ReserveCwb, c, t)
      ctls == Then(cwb, ReserveCtls, c, t)
      dsc  == Then(ctls, ReserveDsc, c, t)
  IN  Then(dsc, ReserveCdm, c, t)

-----------------------------------------------------------------------------
Init ==
  /\ hasLegacyCtls \in BOOLEAN
  /\ committed = [k \in Kinds |-> [b \in Blocks[k] |-> Free]]
  /\ draft = committed
  /\ topology = [c \in CRTCs |-> NoTopology] /\ draftTopology = topology
  /\ phase = "idle" /\ released = {}

(* An atomic check duplicates the state in force. *)
BeginCheck ==
  /\ phase = "idle"
  /\ phase' = "checking" /\ draft' = committed /\ draftTopology' = topology
  /\ released' = {}
  /\ UNCHANGED <<hasLegacyCtls, committed, topology>>

(* dpu_rm_release, for a CRTC the check sets a mode on or turns off. *)
ReleaseCrtc(c) ==
  /\ phase = "checking" /\ c \notin released /\ Cardinality(released) < MaxPerCheck
  /\ draft' = Release(draft, c)
  /\ draftTopology' = [draftTopology EXCEPT ![c] = NoTopology]
  /\ released' = released \cup {c}
  /\ UNCHANGED <<hasLegacyCtls, committed, topology, phase>>

(* What a display may ask for: there is one writeback to clone to. *)
MayAsk(c, t) ==
  t.cwb_enabled => \A d \in CRTCs \ {c} : draftTopology[d] # NoTopology => ~draftTopology[d].cwb_enabled

(* dpu_rm_reserve, for a CRTC the check has released and leaves on. *)
ReserveCrtc(c) ==
  /\ phase = "checking" /\ c \in released /\ draftTopology[c] = NoTopology
  /\ \E t \in {u \in Topologies : MayAsk(c, u)} :
       LET result == MakeReservation(draft, c, t) IN
       /\ draft' = result.gs
       /\ IF result.ok
          THEN draftTopology' = [draftTopology EXCEPT ![c] = t] /\ UNCHANGED phase
          ELSE phase' = "failed" /\ UNCHANGED draftTopology
  /\ UNCHANGED <<hasLegacyCtls, committed, topology, released>>

(* The check passed and its state is swapped in. *)
Commit ==
  /\ phase = "checking"
  /\ committed' = draft /\ topology' = draftTopology
  /\ phase' = "idle" /\ released' = {}
  /\ UNCHANGED <<hasLegacyCtls, draft, draftTopology>>

(* The check failed, or was only a test: its state is freed. *)
Discard ==
  /\ phase \in {"checking", "failed"}
  /\ draft' = committed /\ draftTopology' = topology
  /\ phase' = "idle" /\ released' = {}
  /\ UNCHANGED <<hasLegacyCtls, committed, topology>>

Next ==
  \/ BeginCheck \/ Commit \/ Discard
  \/ \E c \in CRTCs : ReleaseCrtc(c) \/ ReserveCrtc(c)

Spec == Init /\ [][Next]_vars

-----------------------------------------------------------------------------
(* The arrays name an owner for each block and no one works on a duplicate  *)
(* outside a check.                                                        *)
IsGlobalState(gs) ==
  /\ gs = [k \in Kinds |-> gs[k]]
  /\ \A k \in Kinds : gs[k] \in [Blocks[k] -> Owners]

TypeOK ==
  /\ hasLegacyCtls \in BOOLEAN
  /\ IsGlobalState(committed) /\ IsGlobalState(draft)
  /\ topology \in [CRTCs -> Topologies \cup {NoTopology}]
  /\ draftTopology \in [CRTCs -> Topologies \cup {NoTopology}]
  /\ phase \in {"idle", "checking", "failed"}
  /\ released \subseteq CRTCs

(* A CRTC that has a mixer has the pingpong wired to it and the other way   *)
(* round, and the pingpong of a CWB mux has the owner of the mux: no CRTC  *)
(* drives a part of the chain of another, whatever checks were made and    *)
(* however far they got (release clears maps one by one, reserve fills them*)
(* part by part).                                                          *)
WiredTogether(gs) ==
  /\ \A m \in Mixers : gs["mixer"][m] # Free =>
       PingpongOf[m] \in Pingpongs /\ gs["pingpong"][PingpongOf[m]] = gs["mixer"][m]
  /\ \A p \in Pingpongs : gs["pingpong"][p] # Free =>
       \E m \in Mixers : PingpongOf[m] = p /\ gs["mixer"][m] = gs["pingpong"][p]
  /\ \A j \in CwbMuxes : gs["pingpong"][CwbStart + j] = gs["cwb"][j]

ChainsAreWhole == WiredTogether(committed) /\ WiredTogether(draft)

(* In the state in force a CRTC owns as many blocks as its display asked    *)
(* for and none left over from an earlier mode, its mixers in pairs of     *)
(* peers; its DSPPs are those of its mixers (DSPP_0 apart, which           *)
(* _dpu_rm_reserve_lms may lose); and a CRTC that is off owns nothing.     *)
OwnsExactly(gs, c, t) ==
  LET lms == Owned(gs, "mixer", c) IN
  /\ Cardinality(lms) = t.num_lm
  /\ t.num_lm > 1 => \A m \in lms : Peer[m] \in lms
  /\ Cardinality(Owned(gs, "ctl", c)) = NumCtls(t)
  /\ hasLegacyCtls => \A j \in Owned(gs, "ctl", c) : (j \in SplitCtls) = (t.num_intf > 1)
  /\ Cardinality(Owned(gs, "dsc", c)) = t.num_dsc
  /\ Cardinality(Owned(gs, "cdm", c)) = t.num_cdm
  /\ (Owned(gs, "cwb", c) # {}) = t.cwb_enabled
  /\ Owned(gs, "dspp", c) \ {0} = (IF t.num_dspp > 0 THEN {DsppOf[m] : m \in lms} ELSE {}) \ {0}

ReservedExactly ==
  \A c \in CRTCs :
    IF topology[c] = NoTopology THEN \A k \in Kinds : Owned(committed, k, c) = {}
    ELSE OwnsExactly(committed, c, topology[c])

(* "even PINGPONG connects to even DSC", "odd PINGPONG connects to odd DSC" *)
(* (dpu_rm.c:627-628): the DSCs of a CRTC, in order, fit its pingpongs, in *)
(* order, although the two were handed out by different loops.             *)
DscFitsPingpong ==
  \A c \in CRTCs :
    LET dscs == Owned(committed, "dsc", c)
        own  == Owned(committed, "pingpong", c)
    IN  \A d \in dscs : \E p \in own \cap Pingpongs :
          /\ Cardinality({q \in own : q < p}) = Cardinality({e \in dscs : e < d})
          /\ d % 2 = p % 2

(* A display that is on and uses no DSC can be set to the same mode again   *)
(* at any time: however the other CRTCs came and went since, what it gives *)
(* back is enough for what it asks for.                                    *)
CanModesetAgain ==
  \A c \in CRTCs :
    topology[c] # NoTopology /\ topology[c].num_dsc = 0 =>
      MakeReservation(Release(committed, c), c, topology[c]).ok

(* Working for one CRTC leaves the blocks of the others alone, DSPP_0 apart *)
(* (see DsppZeroKept).                                                     *)
OthersKept ==
  [][\A c \in CRTCs : ReserveCrtc(c) \/ ReleaseCrtc(c) =>
       \A k \in Kinds : \A b \in Blocks[k] :
         draft[k][b] \notin {Free, c} /\ <<k, b>> # <<"dspp", 0>> => draft'[k][b] = draft[k][b]]_vars

-----------------------------------------------------------------------------
(* What a comment of dpu_rm.c says and the code does not do.               *)

(* "HW Reservations should be released via dpu_rm_release_hw" (line 755):   *)
(* a reservation of a CRTC ends only when that CRTC is released.           *)
DsppZeroKept ==
  [][\A c \in CRTCs : ReserveCrtc(c) =>
       (draft["dspp"][0] \notin {Free, c} => draft'["dspp"][0] = draft["dspp"][0])]_vars
=============================================================================
