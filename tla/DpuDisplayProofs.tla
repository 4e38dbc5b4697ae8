--------------------------- MODULE DpuDisplayProofs ---------------------------
(***************************************************************************)
(* Proofs about the display: DpuRm, for every catalogue and every set of   *)
(* CRTCs and topologies, and DpuPlanes, for any planes, stages, SSPPs and  *)
(* layouts.                                                                *)
(***************************************************************************)
EXTENDS DpuRm, DpuPlanes, DataLemmas

-----------------------------------------------------------------------------
(* DpuRm.  Each part of a reservation is shown to yield a well-formed and  *)
(* wired state, to take no block from another CRTC, and to give its CRTC   *)
(* as many blocks as asked for; the parts are then chained as              *)
(* MakeReservation chains them.                                            *)

Good(gs) == IsGlobalState(gs) /\ WiredTogether(gs)

(* What the other CRTCs have in gs they have in hs. *)
Keeps(gs, hs, c) ==
  \A k \in Kinds : \A b \in Blocks[k] :
    gs[k][b] \notin {Free, c} /\ <<k, b>> # <<"dspp", 0>> => hs[k][b] = gs[k][b]

(* A part of a reservation for c that does what it should to gs. *)
Sound(gs, result, c) == Good(result.gs) /\ Keeps(gs, result.gs, c) /\ result.ok \in BOOLEAN

(* The maps of each kind of block are apart, and so are their names. *)
LEMMA BlocksOf ==
  /\ Blocks["mixer"] = Mixers
  /\ Blocks["pingpong"] = Pingpongs \cup {CwbStart + j : j \in CwbMuxes}
  /\ Blocks["dspp"] = Dspps \cup {0}
  /\ Blocks["ctl"] = Ctls /\ Blocks["dsc"] = Dscs
  /\ Blocks["cwb"] = CwbMuxes /\ Blocks["cdm"] = {0}
BY DEF Blocks

(* Storing an owner changes one map, at the blocks of B only. *)
LEMMA GiveStores ==
  ASSUME NEW gs, IsGlobalState(gs), NEW k \in Kinds, NEW B, NEW o \in Owners
  PROVE  /\ IsGlobalState(Give(gs, k, B, o))
         /\ \A l \in Kinds \ {k} : Give(gs, k, B, o)[l] = gs[l]
         /\ \A b \in Blocks[k] : Give(gs, k, B, o)[k][b] = (IF b \in B THEN o ELSE gs[k][b])
BY DEF IsGlobalState, Give, Owners

(* Storing c over blocks that no one else has takes nothing from anyone. *)
LEMMA GiveKeeps ==
  ASSUME NEW gs, IsGlobalState(gs), NEW k \in Kinds, NEW B, NEW c \in CRTCs,
         \A b \in B \cap Blocks[k] : gs[k][b] \in {Free, c}
  PROVE  Keeps(gs, Give(gs, k, B, c), c)
BY GiveStores DEF Keeps, Owners

(* What is kept twice is kept. *)
LEMMA KeepsTwice ==
  ASSUME NEW gs, NEW hs, NEW is, NEW c, Keeps(gs, hs, c), Keeps(hs, is, c)
  PROVE  Keeps(gs, is, c)
BY DEF Keeps

(* The wiring of a state is a matter of three of its maps. *)
LEMMA WiringOf ==
  ASSUME NEW gs, NEW hs, WiredTogether(gs),
         hs["mixer"] = gs["mixer"], hs["pingpong"] = gs["pingpong"], hs["cwb"] = gs["cwb"]
  PROVE  WiredTogether(hs)
BY DEF WiredTogether

(* CTLs, DSCs and the CDM block: storing c over available ones is sound. *)
LEMMA GiveSound ==
  ASSUME NEW gs, Good(gs), NEW k \in {"ctl", "dsc", "cdm"}, NEW B, NEW c \in CRTCs,
         \A b \in B \cap Blocks[k] : gs[k][b] \in {Free, c}
  PROVE  Good(Give(gs, k, B, c)) /\ Keeps(gs, Give(gs, k, B, c), c)
<1> DEFINE hs == Give(gs, k, B, c)
<1>1. k \in Kinds /\ k \notin {"mixer", "pingpong", "cwb"} BY DEF Kinds
<1>2. IsGlobalState(gs) BY DEF Good
<1>3. IsGlobalState(hs) /\ \A l \in Kinds \ {k} : hs[l] = gs[l] BY <1>1, <1>2, GiveStores DEF Owners
<1>4. hs["mixer"] = gs["mixer"] /\ hs["pingpong"] = gs["pingpong"] /\ hs["cwb"] = gs["cwb"]
  BY <1>1, <1>3 DEF Kinds
<1>5. WiredTogether(hs) BY <1>4, WiringOf DEF Good
<1> QED BY <1>1, <1>2, <1>3, <1>5, GiveKeeps DEF Good

(* A part that fails before it stored anything is sound. *)
LEMMA FailSound ==
  ASSUME NEW gs, Good(gs), NEW c
  PROVE  Sound(gs, Fail(gs), c) /\ Sound(gs, Ok(gs), c)
BY DEF Sound, Fail, Ok, Keeps

-----------------------------------------------------------------------------
(* No pingpong is wired to two mixers. *)
LEMMA PingpongsApart ==
  \A m, n \in Mixers : PingpongOf[m] \in Pingpongs /\ PingpongOf[n] = PingpongOf[m] => m = n
BY CatalogAssumption

(* The pingpongs of CWB come after the others. *)
LEMMA CwbPingpongsApart ==
  /\ CwbStart \in Nat /\ \A j \in CwbMuxes : j \in Nat
  /\ \A p \in Pingpongs : p \in Nat /\ p < CwbStart
BY CatalogAssumption

(* Every chosen mixer passed _dpu_rm_check_lm_and_get_connected_blks. *)
LEMMA ChosenAreUsable ==
  ASSUME NEW gs, NEW c, NEW t
  PROVE  ChosenMixers(gs, c, t) \subseteq UsableMixers(gs, c, t)
BY DEF ChosenMixers, First

(* Mixers and their pingpongs go to c together.  The pingpong of a mixer of *)
(* another CRTC is not among them: no two mixers share one.                *)
LEMMA MixersAndPingpongs ==
  ASSUME NEW gs, Good(gs), NEW c \in CRTCs, NEW t,
         NEW lms, lms \subseteq UsableMixers(gs, c, t)
  PROVE  LET g1 == Give(gs, "mixer", lms, c)
             g2 == Give(g1, "pingpong", {PingpongOf[m] : m \in lms}, c)
         IN  Good(g2) /\ Keeps(gs, g2, c) /\ g2["dspp"] = gs["dspp"]
<1> DEFINE pps == {PingpongOf[m] : m \in lms}
           g1  == Give(gs, "mixer", lms, c)
           g2  == Give(g1, "pingpong", pps, c)
<1>1. "mixer" \in Kinds /\ "pingpong" \in Kinds /\ "dspp" \in Kinds /\ "cwb" \in Kinds
  BY DEF Kinds
<1>2. \A m \in lms : /\ m \in Mixers /\ gs["mixer"][m] \in {Free, c}
                     /\ PingpongOf[m] \in Pingpongs /\ gs["pingpong"][PingpongOf[m]] \in {Free, c}
  BY DEF UsableMixers, Available
<1>3. /\ IsGlobalState(g1) /\ \A l \in Kinds \ {"mixer"} : g1[l] = gs[l]
      /\ \A m \in Mixers : g1["mixer"][m] = (IF m \in lms THEN c ELSE gs["mixer"][m])
  BY <1>1, GiveStores, BlocksOf DEF Good, Owners
<1> HIDE DEF g1
<1>4. /\ IsGlobalState(g2) /\ \A l \in Kinds \ {"pingpong"} : g2[l] = g1[l]
      /\ \A p \in Blocks["pingpong"] : g2["pingpong"][p] = (IF p \in pps THEN c ELSE g1["pingpong"][p])
  BY <1>1, <1>3, GiveStores DEF Owners
<1> HIDE DEF g2
<1>5. /\ \A m \in Mixers : g2["mixer"][m] = (IF m \in lms THEN c ELSE gs["mixer"][m])
      /\ \A p \in Blocks["pingpong"] : g2["pingpong"][p] = (IF p \in pps THEN c ELSE gs["pingpong"][p])
      /\ g2["cwb"] = gs["cwb"] /\ g2["dspp"] = gs["dspp"]
  BY <1>1, <1>3, <1>4
<1>6. WiredTogether(g2)
  <2>1. ASSUME NEW m \in Mixers, g2["mixer"][m] # Free
        PROVE  PingpongOf[m] \in Pingpongs /\ g2["pingpong"][PingpongOf[m]] = g2["mixer"][m]
    <3>1. CASE m \in lms BY <3>1, <1>2, <1>5, BlocksOf
    <3>2. CASE m \notin lms
      <4>1. g2["mixer"][m] = gs["mixer"][m] BY <3>2, <1>5
      <4>2. PingpongOf[m] \in Pingpongs /\ gs["pingpong"][PingpongOf[m]] = gs["mixer"][m]
        BY <2>1, <4>1 DEF Good, WiredTogether
      <4>3. \A n \in lms : PingpongOf[n] # PingpongOf[m] BY <3>2, <4>2, <1>2, PingpongsApart
      <4>4. PingpongOf[m] \notin pps BY <4>3
      <4> QED BY <4>1, <4>2, <4>4, <1>5, BlocksOf
    <3> QED BY <3>1, <3>2
  <2>2. ASSUME NEW p \in Pingpongs, g2["pingpong"][p] # Free
        PROVE  \E m \in Mixers : PingpongOf[m] = p /\ g2["mixer"][m] = g2["pingpong"][p]
    <3>1. CASE p \in pps BY <3>1, <1>2, <1>5, BlocksOf
    <3>2. CASE p \notin pps
      <4>1. g2["pingpong"][p] = gs["pingpong"][p] BY <3>2, <1>5, BlocksOf
      <4>2. PICK m \in Mixers : PingpongOf[m] = p /\ gs["mixer"][m] = gs["pingpong"][p]
        BY <2>2, <4>1 DEF Good, WiredTogether
      <4>3. m \notin lms BY <3>2, <4>2
      <4> QED BY <4>1, <4>2, <4>3, <1>5
    <3> QED BY <3>1, <3>2
  <2>3. ASSUME NEW j \in CwbMuxes PROVE g2["pingpong"][CwbStart + j] = g2["cwb"][j]
    <3>1. CwbStart + j \notin pps BY <1>2, CatalogAssumption
    <3>2. CwbStart + j \in Blocks["pingpong"] BY BlocksOf
    <3> QED BY <3>1, <3>2, <1>5 DEF Good, WiredTogether
  <2> QED BY <2>1, <2>2, <2>3 DEF WiredTogether
<1>7. Keeps(gs, g2, c)
  <2> SUFFICES ASSUME NEW k \in Kinds, NEW b \in Blocks[k], gs[k][b] \notin {Free, c}
               PROVE  g2[k][b] = gs[k][b]
    BY DEF Keeps
  <2>1. CASE k = "mixer" BY <2>1, <1>2, <1>5, BlocksOf
  <2>2. CASE k = "pingpong" BY <2>2, <1>2, <1>5, BlocksOf
  <2>3. CASE k \notin {"mixer", "pingpong"} BY <2>3, <1>3, <1>4
  <2> QED BY <2>1, <2>2, <2>3
<1> QED BY <1>4, <1>5, <1>6, <1>7 DEF g1, g2, Good

(* _dpu_rm_reserve_lms: only DSPP_0 may be taken from another CRTC. *)
LEMMA LmsSound ==
  ASSUME NEW gs, Good(gs), NEW c \in CRTCs, NEW t \in Topologies
  PROVE  Sound(gs, ReserveLms(gs, c, t), c)
<1> DEFINE lms == ChosenMixers(gs, c, t)
           g1  == Give(gs, "mixer", lms, c)
           g2  == Give(g1, "pingpong", {PingpongOf[m] : m \in lms}, c)
<1>1. lms \subseteq UsableMixers(gs, c, t) BY ChosenAreUsable
<1>2. Good(g2) /\ Keeps(gs, g2, c) /\ g2["dspp"] = gs["dspp"] BY <1>1, MixersAndPingpongs
<1> HIDE DEF lms, g1, g2
<1>3. "dspp" \in Kinds BY DEF Kinds
<1>4. ASSUME NEW B, NEW o \in Owners,
             Keeps(g2, Give(g2, "dspp", B, o), c)
      PROVE  Sound(gs, Ok(Give(g2, "dspp", B, o)), c)
  <2> DEFINE g3 == Give(g2, "dspp", B, o)
  <2>1. IsGlobalState(g3) /\ \A l \in Kinds \ {"dspp"} : g3[l] = g2[l]
    BY <1>2, <1>3, GiveStores DEF Good
  <2>2. g3["mixer"] = g2["mixer"] /\ g3["pingpong"] = g2["pingpong"] /\ g3["cwb"] = g2["cwb"]
    BY <2>1 DEF Kinds
  <2>3. Good(g3) BY <1>2, <2>1, <2>2, WiringOf DEF Good
  <2>4. Keeps(gs, g3, c) BY <1>2, <1>4, KeepsTwice
  <2> QED BY <2>3, <2>4 DEF Sound, Ok
<1>5. CASE t.num_dspp > 0
  <2>1. \A m \in lms : gs["dspp"][DsppOf[m]] \in {Free, c}
    BY <1>1, <1>5 DEF UsableMixers, Available
  <2>2. Keeps(g2, Give(g2, "dspp", {DsppOf[m] : m \in lms}, c), c)
    BY <2>1, <1>2, <1>3, GiveKeeps DEF Good
  <2>3. Sound(gs, Ok(Give(g2, "dspp", {DsppOf[m] : m \in lms}, c)), c) BY <2>2, <1>4 DEF Owners
  <2> QED BY <2>3, <1>5, FailSound DEF ReserveLms, lms, g1, g2
<1>6. CASE ~(t.num_dspp > 0)
  <2>1. Keeps(g2, Give(g2, "dspp", {0}, Free), c)
    BY <1>2, <1>3, GiveStores DEF Keeps, Good, Owners
  <2>2. Sound(gs, Ok(Give(g2, "dspp", {0}, Free)), c) BY <2>1, <1>4 DEF Owners
  <2> QED BY <2>2, <1>6, FailSound DEF ReserveLms, lms, g1, g2
<1> QED BY <1>5, <1>6

(* _dpu_rm_reserve_cwb_mux_and_pingpongs does not look at the owners of the *)
(* pingpongs it takes: that each has the owner of its mux makes it safe.   *)
LEMMA CwbSound ==
  ASSUME NEW gs, Good(gs), NEW c \in CRTCs, NEW t \in Topologies
  PROVE  Sound(gs, ReserveCwb(gs, c, t), c)
<1> DEFINE muxes(i) == {j \in Available(gs, "cwb", c) : j % 2 = i % 2}
           found    == First({i \in 0..(MixerSlots - 1) : muxes(i) # {}}, t.num_lm)
           chosen   == UNION {First(muxes(i), 1) : i \in found}
           pps      == {CwbStart + j : j \in chosen}
           g1       == Give(gs, "pingpong", pps, c)
           g2       == Give(g1, "cwb", chosen, c)
<1>1. \A j \in chosen : j \in CwbMuxes /\ gs["cwb"][j] \in {Free, c}
  BY BlocksOf DEF First, Available
<1>2. t.cwb_enabled /\ Cardinality(found) = t.num_lm => ReserveCwb(gs, c, t) = Ok(g2)
  BY DEF ReserveCwb
<1>3. ReserveCwb(gs, c, t) = Ok(g2) \/ ReserveCwb(gs, c, t) = Ok(gs) \/ ReserveCwb(gs, c, t) = Fail(gs)
  BY DEF ReserveCwb
<1> HIDE DEF chosen
<1>4. "pingpong" \in Kinds /\ "cwb" \in Kinds /\ "mixer" \in Kinds BY DEF Kinds
<1>5. /\ IsGlobalState(g1) /\ \A l \in Kinds \ {"pingpong"} : g1[l] = gs[l]
      /\ \A p \in Blocks["pingpong"] : g1["pingpong"][p] = (IF p \in pps THEN c ELSE gs["pingpong"][p])
  BY <1>4, GiveStores DEF Good, Owners
<1> HIDE DEF g1
<1>6. /\ IsGlobalState(g2) /\ \A l \in Kinds \ {"cwb"} : g2[l] = g1[l]
      /\ \A j \in CwbMuxes : g2["cwb"][j] = (IF j \in chosen THEN c ELSE g1["cwb"][j])
  BY <1>4, <1>5, GiveStores, BlocksOf DEF Owners
<1> HIDE DEF g2
<1>7. /\ g2["mixer"] = gs["mixer"]
      /\ \A p \in Blocks["pingpong"] : g2["pingpong"][p] = (IF p \in pps THEN c ELSE gs["pingpong"][p])
      /\ \A j \in CwbMuxes : g2["cwb"][j] = (IF j \in chosen THEN c ELSE gs["cwb"][j])
  BY <1>4, <1>5, <1>6
<1>8. \A j \in CwbMuxes : CwbStart + j \in pps <=> j \in chosen
  BY <1>1, CwbPingpongsApart
<1>9. \A p \in Pingpongs : p \notin pps
  BY <1>1, CwbPingpongsApart
<1>10. WiredTogether(g2)
  <2>1. \A m \in Mixers : g2["mixer"][m] # Free =>
          PingpongOf[m] \in Pingpongs /\ g2["pingpong"][PingpongOf[m]] = g2["mixer"][m]
    BY <1>7, <1>9, BlocksOf DEF Good, WiredTogether
  <2>2. \A p \in Pingpongs : g2["pingpong"][p] # Free =>
          \E m \in Mixers : PingpongOf[m] = p /\ g2["mixer"][m] = g2["pingpong"][p]
    BY <1>7, <1>9, BlocksOf DEF Good, WiredTogether
  <2>3. \A j \in CwbMuxes : g2["pingpong"][CwbStart + j] = g2["cwb"][j]
    BY <1>7, <1>8, BlocksOf DEF Good, WiredTogether
  <2> QED BY <2>1, <2>2, <2>3 DEF WiredTogether
<1>11. Keeps(gs, g2, c)
  <2> SUFFICES ASSUME NEW k \in Kinds, NEW b \in Blocks[k], gs[k][b] \notin {Free, c}
               PROVE  g2[k][b] = gs[k][b]
    BY DEF Keeps
  <2>1. CASE k = "cwb" BY <2>1, <1>1, <1>7, BlocksOf
  <2>2. CASE k = "pingpong"
    <3>1. \A j \in chosen : gs["pingpong"][CwbStart + j] \in {Free, c}
      BY <1>1 DEF Good, WiredTogether
    <3> QED BY <3>1, <2>2, <1>7, BlocksOf
  <2>3. CASE k \notin {"cwb", "pingpong"} BY <2>3, <1>5, <1>6
  <2> QED BY <2>1, <2>2, <2>3
<1>12. Sound(gs, Ok(g2), c) BY <1>6, <1>10, <1>11 DEF Sound, Ok, Good
<1> QED BY <1>3, <1>12, FailSound

(* _dpu_rm_reserve_ctls *)
LEMMA CtlsSound ==
  ASSUME NEW gs, Good(gs), NEW c \in CRTCs, NEW t \in Topologies
  PROVE  Sound(gs, ReserveCtls(gs, c, t), c)
<1> DEFINE split  == hasLegacyCtls /\ t.num_intf > 1
           chosen == First({j \in Available(gs, "ctl", c) : (j \in SplitCtls) = split}, NumCtls(t))
<1>1. \A j \in chosen \cap Blocks["ctl"] : gs["ctl"][j] \in {Free, c} BY DEF First, Available
<1>2. Good(Give(gs, "ctl", chosen, c)) /\ Keeps(gs, Give(gs, "ctl", chosen, c), c)
  BY <1>1, GiveSound
<1> HIDE DEF chosen
<1>3. Sound(gs, Ok(Give(gs, "ctl", chosen, c)), c) BY <1>2 DEF Sound, Ok
<1> QED BY <1>3, FailSound DEF ReserveCtls, chosen

(* _dpu_rm_dsc_alloc and _dpu_rm_dsc_alloc_pair: whatever the scan makes of *)
(* the pingpongs, the DSCs it stores are available ones.                   *)
LEMMA DscSound ==
  ASSUME NEW gs, Good(gs), NEW c \in CRTCs, NEW t \in Topologies
  PROVE  Sound(gs, ReserveDsc(gs, c, t), c)
<1>1. ASSUME NEW B, B \subseteq Available(gs, "dsc", c)
      PROVE  Sound(gs, Ok(Give(gs, "dsc", B, c)), c) /\ Sound(gs, Fail(Give(gs, "dsc", B, c)), c)
  <2>1. \A d \in B \cap Blocks["dsc"] : gs["dsc"][d] \in {Free, c} BY <1>1 DEF Available
  <2>2. Good(Give(gs, "dsc", B, c)) /\ Keeps(gs, Give(gs, "dsc", B, c), c) BY <2>1, GiveSound
  <2> QED BY <2>2 DEF Sound, Ok, Fail
<1>2. Sound(gs, DscAlloc(gs, c, t), c) BY <1>1 DEF DscAlloc, First
<1>3. Sound(gs, DscAllocPair(gs, c, t), c)
  <2> DEFINE scan   == DscPairScan(gs, c, t)
             chosen == {k \in DscPairs(gs, c) : scan[k + 1].num > scan[k].num}
             B      == UNION {{2 * k, 2 * k + 1} : k \in chosen}
  <2>1. \/ DscAllocPair(gs, c, t) = Ok(Give(gs, "dsc", B, c))
        \/ DscAllocPair(gs, c, t) = Fail(Give(gs, "dsc", B, c))
    BY DEF DscAllocPair
  <2>2. \A k \in chosen : {2 * k, 2 * k + 1} \subseteq Available(gs, "dsc", c) BY DEF DscPairs
  <2> HIDE DEF chosen
  <2>3. B \subseteq Available(gs, "dsc", c) BY <2>2
  <2> QED BY <1>1, <2>1, <2>3
<1> QED BY <1>2, <1>3, FailSound DEF ReserveDsc

(* _dpu_rm_reserve_cdm *)
LEMMA CdmSound ==
  ASSUME NEW gs, Good(gs), NEW c \in CRTCs, NEW t \in Topologies
  PROVE  Sound(gs, ReserveCdm(gs, c, t), c)
<1>1. CASE gs["cdm"][0] = Free
  <2>1. Good(Give(gs, "cdm", Cdms, c)) /\ Keeps(gs, Give(gs, "cdm", Cdms, c), c)
    BY <1>1, GiveSound, BlocksOf
  <2>2. Sound(gs, Ok(Give(gs, "cdm", Cdms, c)), c) BY <2>1 DEF Sound, Ok
  <2> QED BY <2>2, FailSound DEF ReserveCdm
<1>2. CASE gs["cdm"][0] # Free BY <1>2, FailSound DEF ReserveCdm
<1> QED BY <1>1, <1>2

(* A sound part after a sound part is sound. *)
LEMMA SoundChain ==
  ASSUME NEW gs, NEW c, NEW first, NEW second, Sound(gs, first, c), Sound(first.gs, second, c)
  PROVE  Sound(gs, second, c)
BY KeepsTwice DEF Sound

(* _dpu_rm_make_reservation, whether it succeeds or fails half-way. *)
LEMMA ReservationSound ==
  ASSUME NEW gs, Good(gs), NEW c \in CRTCs, NEW t \in Topologies
  PROVE  Sound(gs, MakeReservation(gs, c, t), c)
<1> DEFINE lms  == ReserveLms(gs, c, t)
           cwb  == IF lms.ok THEN ReserveCwb(lms.gs, c, t) ELSE lms
           ctls == IF cwb.ok THEN ReserveCtls(cwb.gs, c, t) ELSE cwb
           dsc  == IF ctls.ok THEN ReserveDsc(ctls.gs, c, t) ELSE ctls
           cdm  == IF dsc.ok THEN ReserveCdm(dsc.gs, c, t) ELSE dsc
<1>1. MakeReservation(gs, c, t) = cdm BY DEF MakeReservation, Then
<1>2. Sound(gs, lms, c) BY LmsSound
<1> HIDE DEF lms
<1>3. Sound(gs, cwb, c)
  <2>1. Sound(lms.gs, ReserveCwb(lms.gs, c, t), c) BY <1>2, CwbSound DEF Sound
  <2> QED BY <2>1, <1>2, SoundChain
<1> HIDE DEF cwb
<1>4. Sound(gs, ctls, c)
  <2>1. Sound(cwb.gs, ReserveCtls(cwb.gs, c, t), c) BY <1>3, CtlsSound DEF Sound
  <2> QED BY <2>1, <1>3, SoundChain
<1> HIDE DEF ctls
<1>5. Sound(gs, dsc, c)
  <2>1. Sound(ctls.gs, ReserveDsc(ctls.gs, c, t), c) BY <1>4, DscSound DEF Sound
  <2> QED BY <2>1, <1>4, SoundChain
<1> HIDE DEF dsc
<1>6. Sound(gs, cdm, c)
  <2>1. Sound(dsc.gs, ReserveCdm(dsc.gs, c, t), c) BY <1>5, CdmSound DEF Sound
  <2> QED BY <2>1, <1>5, SoundChain
<1> QED BY <1>1, <1>6

(* dpu_rm_release *)
LEMMA ReleaseSound ==
  ASSUME NEW gs, Good(gs), NEW c \in CRTCs
  PROVE  Good(Release(gs, c)) /\ Keeps(gs, Release(gs, c), c)
<1> DEFINE hs == Release(gs, c)
<1>1. IsGlobalState(hs)
  BY DEF Good, IsGlobalState, Release, Owners
<1>2. \A k \in Kinds : \A b \in Blocks[k] : hs[k][b] = (IF gs[k][b] = c THEN Free ELSE gs[k][b])
  BY DEF Release
<1> HIDE DEF hs
<1>3. "mixer" \in Kinds /\ "pingpong" \in Kinds /\ "cwb" \in Kinds BY DEF Kinds
<1>4. WiredTogether(hs)
  BY <1>2, <1>3, BlocksOf, CatalogAssumption DEF Good, WiredTogether
<1>5. Keeps(gs, hs, c) BY <1>2 DEF Keeps
<1> QED BY <1>1, <1>4, <1>5 DEF Good, hs

-----------------------------------------------------------------------------
(* The blocks of S below x, which a loop has seen when it comes to x. *)
Below(S, x) == {y \in S : y < x}

LEMMA BelowFinite ==
  ASSUME NEW S, S \subseteq Nat, NEW x \in Nat
  PROVE  IsFiniteSet(Below(S, x)) /\ Cardinality(Below(S, x)) \in Nat
<1>1. Below(S, x) \in SUBSET Nat BY DEF Below
<1>2. \A y \in Below(S, x) : y <= x BY <1>1 DEF Below
<1>3. IsFiniteSet(Below(S, x)) BY <1>1, <1>2, FS_BoundedSetOfNaturals
<1> QED BY <1>3, FS_CardinalityType

LEMMA BelowGrows ==
  ASSUME NEW S, S \subseteq Nat, NEW x \in S, NEW y \in S, y <= x
  PROVE  Cardinality(Below(S, y)) <= Cardinality(Below(S, x))
<1>1. \A z \in S : z \in Nat OBVIOUS
<1>2. ASSUME NEW z \in Below(S, y) PROVE z \in Below(S, x)
  <2>1. z \in S /\ z < y BY DEF Below
  <2>2. z < x BY <1>1, <2>1
  <2> QED BY <2>1, <2>2 DEF Below
<1>3. Below(S, y) \in SUBSET Below(S, x) BY <1>2
<1> QED BY <1>1, <1>3, BelowFinite, FS_Subset

(* A loop that stops at the n-th block of S finds n blocks, or all there are. *)
LEMMA FirstTurn ==
  ASSUME NEW S, S \subseteq Nat, NEW n \in Nat,
         IsFiniteSet(First(S, n)), Cardinality(First(S, n)) = n
  PROVE  \/ First(S, n + 1) = S /\ First(S, n) = S
         \/ IsFiniteSet(First(S, n + 1)) /\ Cardinality(First(S, n + 1)) = n + 1
<1> DEFINE F == First(S, n)
           G == First(S, n + 1)
<1>1. /\ \A x : x \in F <=> x \in S /\ Cardinality(Below(S, x)) < n
      /\ \A x : x \in G <=> x \in S /\ Cardinality(Below(S, x)) < n + 1
  BY DEF First, Below
<1>2. \A x \in S : x \in Nat /\ Cardinality(Below(S, x)) \in Nat BY BelowFinite
<1> HIDE DEF F, G
<1>3. F \subseteq G /\ G \subseteq S
  <2>1. ASSUME NEW x \in F PROVE x \in G
    <3>1. x \in S /\ Cardinality(Below(S, x)) < n BY <1>1
    <3>2. Cardinality(Below(S, x)) < n + 1 BY <1>2, <3>1
    <3> QED BY <1>1, <3>1, <3>2
  <2> QED BY <1>1, <2>1
<1>4. CASE F = S BY <1>3, <1>4 DEF F, G
<1>5. CASE F # S
  <2>1. IsFiniteSet(F) /\ Cardinality(F) = n BY DEF F
  <2>2. S \ F \in SUBSET Nat /\ S \ F # {} BY <1>3, <1>5
  <2>3. PICK m \in S \ F : \A x \in S \ F : m <= x BY <2>2, LeastNatural
  <2>4. Below(S, m) = F
    <3>1. ASSUME NEW x \in Below(S, m) PROVE x \in F
      <4>1. x \in S /\ x < m /\ m \in S BY <2>3 DEF Below
      <4>2. ~(m <= x) BY <1>2, <4>1
      <4> QED BY <2>3, <4>1, <4>2
    <3>2. ASSUME NEW x \in F PROVE x \in Below(S, m)
      <4>1. x \in S /\ m \in S BY <1>3, <2>3
      <4>2. CASE m <= x
        <5>1. Cardinality(Below(S, m)) <= Cardinality(Below(S, x)) BY <4>1, <4>2, BelowGrows
        <5> QED BY <5>1, <1>1, <1>2, <2>3, <4>1
      <4>3. CASE ~(m <= x) BY <4>1, <4>3, <1>2 DEF Below
      <4> QED BY <4>2, <4>3
    <3> QED BY <3>1, <3>2
  <2>5. m \in G BY <2>1, <2>3, <2>4, <1>1
  <2>6. ASSUME NEW x \in S \ F, x # m PROVE x \notin G
    <3>1. F \cup {m} \in SUBSET Below(S, x)
      <4>1. m < x /\ m \in S BY <1>2, <2>3, <2>6
      <4>2. \A y \in F : y \in S /\ y < m BY <2>4 DEF Below
      <4>3. \A y \in F : y \in S /\ y < x
        <5> TAKE y \in F
        <5>1. y \in S /\ y < m /\ y \in Nat /\ m \in Nat /\ x \in Nat BY <4>1, <4>2, <1>2
        <5> QED BY <5>1, <4>1
      <4> QED BY <4>1, <4>3 DEF Below
    <3>2. Cardinality(F \cup {m}) = n + 1 BY <2>1, <2>3, FS_AddElement
    <3>3. IsFiniteSet(Below(S, x)) BY <1>2, BelowFinite
    <3>4. Cardinality(F \cup {m}) <= Cardinality(Below(S, x)) BY <3>1, <3>3, FS_Subset
    <3> QED BY <1>1, <1>2, <3>2, <3>4
  <2>7. G = F \cup {m} BY <2>3, <2>5, <2>6, <1>3
  <2>8. IsFiniteSet(G) /\ Cardinality(G) = n + 1 BY <2>1, <2>3, <2>7, FS_AddElement
  <2> QED BY <2>8 DEF G
<1> QED BY <1>4, <1>5

LEMMA FirstCounts ==
  ASSUME NEW S, S \subseteq Nat, NEW n \in Nat
  PROVE  /\ First(S, n) \subseteq S
         /\ IsFiniteSet(First(S, n)) /\ Cardinality(First(S, n)) \in Nat
         /\ Cardinality(First(S, n)) <= n
         /\ Cardinality(First(S, n)) = n \/ First(S, n) = S
<1> DEFINE P(k) == \/ IsFiniteSet(First(S, k)) /\ Cardinality(First(S, k)) = k
                   \/ /\ IsFiniteSet(S) /\ Cardinality(S) < k /\ Cardinality(S) \in Nat
                      /\ First(S, k) = S
           Q == {k \in Nat : P(k)}
<1>1. First(S, 0) = {}
  <2>1. ASSUME NEW x \in S PROVE ~(Cardinality(Below(S, x)) < 0)
    <3>1. Cardinality(Below(S, x)) \in Nat BY BelowFinite
    <3> QED BY <3>1
  <2> QED BY <2>1 DEF First, Below
<1>2. P(0) BY <1>1, FS_EmptySet
<1>3. ASSUME NEW k \in Nat, P(k) PROVE P(k + 1)
  <2>1. CASE IsFiniteSet(First(S, k)) /\ Cardinality(First(S, k)) = k
    <3>1. CASE First(S, k + 1) = S /\ First(S, k) = S BY <2>1, <3>1
    <3>2. CASE IsFiniteSet(First(S, k + 1)) /\ Cardinality(First(S, k + 1)) = k + 1 BY <3>2
    <3> QED BY <2>1, <3>1, <3>2, FirstTurn
  <2>2. CASE IsFiniteSet(S) /\ Cardinality(S) < k /\ Cardinality(S) \in Nat /\ First(S, k) = S
    <3>1. ASSUME NEW x \in S PROVE x \in First(S, k + 1)
      <4>1. Cardinality(Below(S, x)) < k /\ Cardinality(Below(S, x)) \in Nat
        BY <2>2, BelowFinite DEF First, Below
      <4> QED BY <4>1 DEF First, Below
    <3>2. First(S, k + 1) = S BY <3>1 DEF First
    <3> QED BY <2>2, <3>2
  <2> QED BY <1>3, <2>1, <2>2
<1> HIDE DEF P
<1>4. 0 \in Q /\ \A k \in Nat : k \in Q => k + 1 \in Q BY <1>2, <1>3
<1>5. n \in Q BY <1>4, InductionOnNat
<1>6. First(S, n) \subseteq S BY DEF First
<1> QED BY <1>5, <1>6, FS_CardinalityType DEF P

(* A loop that is shown n blocks finds n. *)
LEMMA FirstFinds ==
  ASSUME NEW S, S \subseteq Nat, NEW n \in Nat,
         NEW T, T \subseteq S, IsFiniteSet(T), Cardinality(T) >= n
  PROVE  Cardinality(First(S, n)) = n
<1>0. Cardinality(First(S, n)) \in Nat /\ Cardinality(First(S, n)) <= n /\ IsFiniteSet(First(S, n))
  BY FirstCounts
<1>1. CASE First(S, n) = S
  <2>1. T \in SUBSET First(S, n) BY <1>1
  <2>2. Cardinality(T) <= Cardinality(First(S, n)) BY <1>0, <2>1, FS_Subset
  <2>3. Cardinality(T) \in Nat BY FS_CardinalityType
  <2> QED BY <1>0, <2>2, <2>3
<1> QED BY <1>1, FirstCounts

-----------------------------------------------------------------------------
(* What the blocks of a CRTC are, kind by kind. *)
HasMixers(gs, c, t) ==
  LET lms == Owned(gs, "mixer", c) IN
  /\ IsFiniteSet(lms) /\ Cardinality(lms) = t.num_lm
  /\ t.num_lm > 1 => \A m \in lms : Peer[m] \in lms
  /\ t.num_dspp > 0 => \A m \in lms : DsppOf[m] \in Dspps
  /\ Owned(gs, "dspp", c) \ {0} = (IF t.num_dspp > 0 THEN {DsppOf[m] : m \in lms} ELSE {}) \ {0}

(* A DSPP is free or with the owner of its mixer. *)
DsppsFollow(gs) ==
  \A m \in Mixers : DsppOf[m] \in Dspps => gs["dspp"][DsppOf[m]] \in {Free, gs["mixer"][m]}

HasNothing(gs, c) == \A k \in Kinds : Owned(gs, k, c) = {}

(* The chosen mixers, once there are as many as asked for, are finite in number, and in pairs. *)
LEMMA ChosenInPairs ==
  ASSUME NEW gs, NEW c, NEW t \in Topologies
  PROVE  /\ IsFiniteSet(ChosenMixers(gs, c, t))
         /\ t.num_lm > 1 => \A m \in ChosenMixers(gs, c, t) : Peer[m] \in ChosenMixers(gs, c, t)
<1> DEFINE usable == UsableMixers(gs, c, t)
           low    == {m \in usable : Peer[m] \in usable /\ Peer[m] > m}
           half   == t.num_lm \div 2
           lower  == First(low, half)
           upper  == {Peer[m] : m \in lower}
<1>1. usable \subseteq Mixers /\ Mixers \subseteq Nat BY CatalogAssumption DEF UsableMixers
<1>2. t.num_lm \in {1, 2, 4} BY TopologyAssumption
<1>3. half \in Nat BY <1>2
<1>4. CASE t.num_lm = 1
  <2>1. ChosenMixers(gs, c, t) = First(usable, 1) BY <1>4 DEF ChosenMixers
  <2>2. usable \subseteq Nat BY <1>1
  <2> HIDE DEF usable
  <2>3. IsFiniteSet(First(usable, 1)) BY <2>2, FirstCounts
  <2> QED BY <2>1, <2>3, <1>4
<1>5. CASE t.num_lm # 1
  <2>1. ChosenMixers(gs, c, t) = lower \cup upper BY <1>5 DEF ChosenMixers
  <2> HIDE DEF half
  <2>2. low \subseteq Mixers /\ \A m \in low : Peer[m] \in Mixers BY <1>1
  <2> HIDE DEF usable
  <2>3. lower \subseteq low BY DEF First
  <2>4. \A m \in lower : Peer[Peer[m]] = m BY <2>2, <2>3, CatalogAssumption
  <2>5. IsFiniteSet(lower) BY <1>1, <1>3, <2>2, FirstCounts
  <2> HIDE DEF lower
  <2>6. IsFiniteSet(upper) BY <2>5, ImageFinite
  <2>7. \A m \in lower \cup upper : Peer[m] \in lower \cup upper BY <2>4
  <2>8. IsFiniteSet(lower \cup upper) BY <2>5, <2>6, FS_Union
  <2> HIDE DEF upper
  <2> QED BY <2>1, <2>7, <2>8
<1> QED BY <1>4, <1>5

(* _dpu_rm_reserve_lms *)
LEMMA LmsGives ==
  ASSUME NEW gs, Good(gs), DsppsFollow(gs), NEW c \in CRTCs, NEW t \in Topologies,
         HasNothing(gs, c), ReserveLms(gs, c, t).ok
  PROVE  LET hs == ReserveLms(gs, c, t).gs
         IN  /\ \A k \in Kinds \ {"mixer", "pingpong", "dspp"} : hs[k] = gs[k]
             /\ HasMixers(hs, c, t) /\ DsppsFollow(hs)
             /\ Owned(hs, "mixer", c) = ChosenMixers(gs, c, t)
<1> DEFINE lms == ChosenMixers(gs, c, t)
           g1  == Give(gs, "mixer", lms, c)
           g2  == Give(g1, "pingpong", {PingpongOf[m] : m \in lms}, c)
           B   == IF t.num_dspp > 0 THEN {DsppOf[m] : m \in lms} ELSE {0}
           o   == IF t.num_dspp > 0 THEN c ELSE Free
           hs  == Give(g2, "dspp", B, o)
<1>1. Cardinality(lms) = t.num_lm /\ ReserveLms(gs, c, t).gs = hs
  <2>1. CASE t.num_dspp > 0 BY <2>1 DEF ReserveLms, Fail, Ok
  <2>2. CASE ~(t.num_dspp > 0) BY <2>2 DEF ReserveLms, Fail, Ok
  <2> QED BY <2>1, <2>2
<1>2. /\ lms \subseteq UsableMixers(gs, c, t) /\ IsFiniteSet(lms)
      /\ t.num_lm > 1 => \A m \in lms : Peer[m] \in lms
  BY ChosenAreUsable, ChosenInPairs
<1>3. /\ \A m \in lms : m \in Mixers
      /\ t.num_dspp > 0 => \A m \in lms : DsppOf[m] \in Dspps
  BY <1>2 DEF UsableMixers
<1> HIDE DEF lms
<1>4. "mixer" \in Kinds /\ "pingpong" \in Kinds /\ "dspp" \in Kinds BY DEF Kinds
<1>5. o \in Owners /\ c \in Owners /\ Free # c BY CatalogAssumption DEF Owners
<1> HIDE DEF o, B
<1>6. /\ IsGlobalState(g1) /\ \A l \in Kinds \ {"mixer"} : g1[l] = gs[l]
      /\ \A m \in Mixers : g1["mixer"][m] = (IF m \in lms THEN c ELSE gs["mixer"][m])
  BY <1>4, <1>5, GiveStores, BlocksOf DEF Good
<1> HIDE DEF g1
<1>7. IsGlobalState(g2) /\ \A l \in Kinds \ {"pingpong"} : g2[l] = g1[l]
  BY <1>4, <1>5, <1>6, GiveStores
<1> HIDE DEF g2
<1>8. /\ IsGlobalState(hs) /\ \A l \in Kinds \ {"dspp"} : hs[l] = g2[l]
      /\ \A b \in Blocks["dspp"] : hs["dspp"][b] = (IF b \in B THEN o ELSE g2["dspp"][b])
  BY <1>4, <1>5, <1>7, GiveStores
<1> HIDE DEF hs
<1>9. /\ \A m \in Mixers : hs["mixer"][m] = (IF m \in lms THEN c ELSE gs["mixer"][m])
      /\ \A b \in Blocks["dspp"] : hs["dspp"][b] = (IF b \in B THEN o ELSE gs["dspp"][b])
      /\ \A k \in Kinds \ {"mixer", "pingpong", "dspp"} : hs[k] = gs[k]
  BY <1>4, <1>6, <1>7, <1>8
<1>10. /\ \A m \in Mixers : gs["mixer"][m] # c
       /\ \A b \in Blocks["dspp"] : gs["dspp"][b] # c
  BY <1>4, BlocksOf DEF HasNothing, Owned
<1>11. Owned(hs, "mixer", c) = lms BY <1>3, <1>9, <1>10, BlocksOf DEF Owned
<1>12. Owned(hs, "dspp", c) \ {0} = (IF t.num_dspp > 0 THEN {DsppOf[m] : m \in lms} ELSE {}) \ {0}
  <2>1. CASE t.num_dspp > 0
    <3>1. B = {DsppOf[m] : m \in lms} /\ o = c BY <2>1 DEF B, o
    <3>2. B \subseteq Dspps BY <3>1, <1>3, <2>1
    <3>3. Owned(hs, "dspp", c) = B BY <3>1, <3>2, <1>9, <1>10, BlocksOf DEF Owned
    <3> QED BY <2>1, <3>1, <3>3
  <2>2. CASE ~(t.num_dspp > 0)
    <3>1. B = {0} /\ o = Free BY <2>2 DEF B, o
    <3>2. Owned(hs, "dspp", c) = {} BY <3>1, <1>5, <1>9, <1>10 DEF Owned
    <3> QED BY <2>2, <3>2
  <2> QED BY <2>1, <2>2
<1>13. HasMixers(hs, c, t) BY <1>1, <1>2, <1>3, <1>11, <1>12 DEF HasMixers
<1>14. DsppsFollow(hs)
  <2> SUFFICES ASSUME NEW m \in Mixers, DsppOf[m] \in Dspps
               PROVE  hs["dspp"][DsppOf[m]] \in {Free, hs["mixer"][m]}
    BY DEF DsppsFollow
  <2>1. gs["dspp"][DsppOf[m]] \in {Free, gs["mixer"][m]} BY DEF DsppsFollow
  <2>2. DsppOf[m] \in Blocks["dspp"] BY BlocksOf
  <2>3. CASE DsppOf[m] \in B /\ t.num_dspp > 0
    <3>1. PICK n \in lms : DsppOf[m] = DsppOf[n] BY <2>3 DEF B
    <3>2. m = n BY <3>1, <1>3, CatalogAssumption
    <3> QED BY <3>1, <3>2, <1>9, <2>2, <2>3 DEF o
  <2>4. CASE DsppOf[m] \in B /\ ~(t.num_dspp > 0) BY <1>9, <2>2, <2>4 DEF o
  <2>5. CASE DsppOf[m] \notin B
    <3>1. hs["dspp"][DsppOf[m]] = gs["dspp"][DsppOf[m]] BY <1>9, <2>2, <2>5
    <3>2. CASE m \notin lms BY <3>1, <3>2, <1>9, <2>1
    <3>3. CASE m \in lms
      <4>1. gs["dspp"][DsppOf[m]] # c /\ gs["mixer"][m] \in {Free, c}
        BY <3>3, <1>2, <1>10, <2>2 DEF UsableMixers, Available
      <4>2. gs["mixer"][m] = Free BY <4>1, <1>10
      <4> QED BY <3>1, <4>2, <2>1
    <3> QED BY <3>2, <3>3
  <2> QED BY <2>3, <2>4, <2>5
<1> QED BY <1>1, <1>9, <1>11, <1>13, <1>14 DEF lms

-----------------------------------------------------------------------------
(* The mixer slots a CRTC has a mux of the right parity for. *)
SlotsServed(gs, c) ==
  {i \in 0..(MixerSlots - 1) : \E j \in Owned(gs, "cwb", c) : j % 2 = i % 2}

HasCwb(gs, c, t) ==
  IF t.cwb_enabled THEN Cardinality(SlotsServed(gs, c)) >= t.num_lm
  ELSE Owned(gs, "cwb", c) = {}

HasCtls(gs, c, t, legacy) ==
  LET ctls == Owned(gs, "ctl", c) IN
  /\ IsFiniteSet(ctls) /\ Cardinality(ctls) = (IF legacy THEN t.num_intf ELSE 1)
  /\ \A j \in ctls : (j \in SplitCtls) = (legacy /\ t.num_intf > 1)

HasDscs(gs, c, t) == Cardinality(Owned(gs, "dsc", c)) = t.num_dsc

HasCdm(gs, c, t) ==
  /\ Cardinality(Owned(gs, "cdm", c)) = t.num_cdm
  /\ t.num_cdm > 0 => Cdms = {0}

(* _dpu_rm_reserve_cwb_mux_and_pingpongs *)
LEMMA CwbGives ==
  ASSUME NEW gs, Good(gs), NEW c \in CRTCs, NEW t \in Topologies,
         Owned(gs, "cwb", c) = {}, ReserveCwb(gs, c, t).ok
  PROVE  LET hs == ReserveCwb(gs, c, t).gs
         IN  /\ \A k \in Kinds \ {"pingpong", "cwb"} : hs[k] = gs[k]
             /\ HasCwb(hs, c, t)
<1> DEFINE muxes(i) == {j \in Available(gs, "cwb", c) : j % 2 = i % 2}
           slots    == {i \in 0..(MixerSlots - 1) : muxes(i) # {}}
           found    == First(slots, t.num_lm)
           chosen   == UNION {First(muxes(i), 1) : i \in found}
           g1       == Give(gs, "pingpong", {CwbStart + j : j \in chosen}, c)
           hs       == Give(g1, "cwb", chosen, c)
<1>1. CASE ~t.cwb_enabled
  <2>1. ReserveCwb(gs, c, t).gs = gs BY <1>1 DEF ReserveCwb, Ok
  <2> QED BY <2>1, <1>1 DEF HasCwb
<1>2. CASE t.cwb_enabled
  <2>1. Cardinality(found) = t.num_lm /\ ReserveCwb(gs, c, t).gs = hs
    BY <1>2 DEF ReserveCwb, Ok, Fail
  <2>2. "cwb" \in Kinds /\ "pingpong" \in Kinds /\ c \in Owners /\ c # Free
    BY CatalogAssumption DEF Kinds, Owners
  <2>3. \A j \in chosen : j \in CwbMuxes BY BlocksOf DEF First, Available
  <2>4. ASSUME NEW i \in found PROVE \E j \in chosen : j % 2 = i % 2
    <3>1. muxes(i) # {} BY DEF First
    <3>2. muxes(i) \in SUBSET Nat BY BlocksOf, CatalogAssumption DEF Available
    <3>3. PICK j \in muxes(i) : \A l \in muxes(i) : j <= l BY <3>1, <3>2, LeastNatural
    <3>4. j \in First(muxes(i), 1)
      <4> DEFINE M == muxes(i)
      <4>1. \A l \in M : j <= l /\ l \in Nat BY <3>2, <3>3
      <4>2. j \in M /\ j \in Nat BY <3>2, <3>3
      <4> HIDE DEF M
      <4>3. \A l \in M : ~(l < j) BY <4>1, <4>2
      <4>6. Below(M, j) = {} BY <4>3 DEF Below
      <4>4. Cardinality(Below(M, j)) < 1 BY <4>6, FS_EmptySet
      <4>5. j \in First(M, 1) BY <4>2, <4>4 DEF First, Below
      <4> QED BY <4>5 DEF M
    <3>5. j % 2 = i % 2 BY <3>3
    <3>6. j \in chosen BY <3>4
    <3> QED BY <3>5, <3>6
  <2>5. found \subseteq 0..(MixerSlots - 1) BY DEF First
  <2> HIDE DEF chosen, found
  <2>6. IsGlobalState(g1) /\ \A l \in Kinds \ {"pingpong"} : g1[l] = gs[l]
    BY <2>2, GiveStores DEF Good
  <2> HIDE DEF g1
  <2>7. /\ \A l \in Kinds \ {"cwb"} : hs[l] = g1[l]
        /\ \A j \in CwbMuxes : hs["cwb"][j] = (IF j \in chosen THEN c ELSE g1["cwb"][j])
    BY <2>2, <2>6, GiveStores, BlocksOf
  <2> HIDE DEF hs
  <2>8. \A j \in chosen : j \in Owned(hs, "cwb", c) BY <2>3, <2>7, BlocksOf DEF Owned
  <2>9. found \in SUBSET SlotsServed(hs, c) BY <2>4, <2>5, <2>8 DEF SlotsServed
  <2>10. IsFiniteSet(SlotsServed(hs, c))
    <3>1. IsFiniteSet(0..(MixerSlots - 1)) BY CatalogAssumption, FS_Interval
    <3>2. SlotsServed(hs, c) \in SUBSET (0..(MixerSlots - 1)) BY DEF SlotsServed
    <3> QED BY <3>1, <3>2, FS_Subset
  <2>11. Cardinality(found) <= Cardinality(SlotsServed(hs, c)) BY <2>9, <2>10, FS_Subset
  <2>12. t.num_lm \in Nat /\ Cardinality(SlotsServed(hs, c)) \in Nat
    BY <2>10, FS_CardinalityType, TopologyAssumption
  <2>13. HasCwb(hs, c, t) BY <1>2, <2>1, <2>11, <2>12 DEF HasCwb
  <2>14. \A k \in Kinds \ {"pingpong", "cwb"} : hs[k] = gs[k] BY <2>6, <2>7
  <2> QED BY <2>1, <2>13, <2>14
<1> QED BY <1>1, <1>2

(* _dpu_rm_reserve_ctls *)
LEMMA CtlsGives ==
  ASSUME NEW gs, Good(gs), NEW c \in CRTCs, NEW t \in Topologies, hasLegacyCtls \in BOOLEAN,
         Owned(gs, "ctl", c) = {}, ReserveCtls(gs, c, t).ok
  PROVE  LET hs == ReserveCtls(gs, c, t).gs
         IN  /\ \A k \in Kinds \ {"ctl"} : hs[k] = gs[k]
             /\ HasCtls(hs, c, t, hasLegacyCtls)
<1> DEFINE split  == hasLegacyCtls /\ t.num_intf > 1
           fit    == {j \in Available(gs, "ctl", c) : (j \in SplitCtls) = split}
           chosen == First(fit, NumCtls(t))
           hs     == Give(gs, "ctl", chosen, c)
<1>1. Cardinality(chosen) = NumCtls(t) /\ ReserveCtls(gs, c, t).gs = hs
  BY DEF ReserveCtls, Ok, Fail
<1>2. "ctl" \in Kinds /\ c \in Owners /\ c # Free BY CatalogAssumption DEF Kinds, Owners
<1>3. NumCtls(t) = (IF hasLegacyCtls THEN t.num_intf ELSE 1) /\ NumCtls(t) \in Nat
  BY TopologyAssumption DEF NumCtls
<1>4. fit \subseteq Ctls /\ \A j \in fit : (j \in SplitCtls) = split BY BlocksOf DEF Available
<1> HIDE DEF fit
<1>5. chosen \subseteq fit /\ IsFiniteSet(chosen) BY <1>3, <1>4, CatalogAssumption, FirstCounts
<1> HIDE DEF chosen
<1>6. /\ \A l \in Kinds \ {"ctl"} : hs[l] = gs[l]
      /\ \A j \in Ctls : hs["ctl"][j] = (IF j \in chosen THEN c ELSE gs["ctl"][j])
  BY <1>2, GiveStores, BlocksOf DEF Good
<1> HIDE DEF hs
<1>7. \A j \in Ctls : gs["ctl"][j] # c BY BlocksOf DEF Owned
<1>8. Owned(hs, "ctl", c) = chosen BY <1>4, <1>5, <1>6, <1>7, BlocksOf DEF Owned
<1>9. HasCtls(hs, c, t, hasLegacyCtls) BY <1>1, <1>3, <1>4, <1>5, <1>8 DEF HasCtls
<1> QED BY <1>1, <1>6, <1>9

(* _dpu_rm_reserve_cdm *)
LEMMA CdmGives ==
  ASSUME NEW gs, Good(gs), NEW c \in CRTCs, NEW t \in Topologies,
         Owned(gs, "cdm", c) = {}, ReserveCdm(gs, c, t).ok
  PROVE  LET hs == ReserveCdm(gs, c, t).gs
         IN  /\ \A k \in Kinds \ {"cdm"} : hs[k] = gs[k]
             /\ HasCdm(hs, c, t)
<1>1. CASE t.num_cdm = 0
  <2>1. ReserveCdm(gs, c, t).gs = gs BY <1>1 DEF ReserveCdm, Ok
  <2> QED BY <2>1, <1>1, FS_EmptySet DEF HasCdm
<1>2. CASE t.num_cdm # 0
  <2> DEFINE hs == Give(gs, "cdm", Cdms, c)
  <2>1. ReserveCdm(gs, c, t).gs = hs /\ ~(t.num_cdm > 1) /\ Cdms # {}
    BY <1>2 DEF ReserveCdm, Ok, Fail
  <2>7. t.num_cdm \in Nat BY TopologyAssumption
  <2>8. Cdms \subseteq {0} BY CatalogAssumption
  <2>9. t.num_cdm = 1 BY <1>2, <2>1, <2>7
  <2>10. Cdms = {0} BY <2>1, <2>8
  <2>3. "cdm" \in Kinds /\ c \in Owners BY DEF Kinds, Owners
  <2>4. /\ \A l \in Kinds \ {"cdm"} : hs[l] = gs[l]
        /\ \A b \in {0} : hs["cdm"][b] = (IF b \in Cdms THEN c ELSE gs["cdm"][b])
    BY <2>3, GiveStores, BlocksOf DEF Good
  <2> HIDE DEF hs
  <2>5. Owned(hs, "cdm", c) = {0} BY <2>10, <2>4, BlocksOf DEF Owned
  <2>6. HasCdm(hs, c, t) BY <2>9, <2>10, <2>5, FS_Singleton DEF HasCdm
  <2> QED BY <2>1, <2>4, <2>6
<1> QED BY <1>1, <1>2

-----------------------------------------------------------------------------
(* What a turn of the loop over the pairs of DSCs may do. *)
ScanStates == [pp : Nat, num : Nat, dead : BOOLEAN]

LEMMA PairTurn ==
  ASSUME NEW gs, NEW c, NEW t \in Topologies, NEW s \in ScanStates, NEW k \in Nat
  PROVE  LET r == DscPairTurn(gs, c, t, s, k)
         IN  /\ r \in ScanStates
             /\ \/ r.num = s.num
                \/ r.num = s.num + 2 /\ k \in DscPairs(gs, c) /\ s.num < t.num_dsc
<1>0. Owned(gs, "pingpong", c) \subseteq Nat BY BlocksOf, CwbPingpongsApart DEF Owned
<1>1. \A start : NextPingpong(gs, c, start) \subseteq Nat BY <1>0 DEF NextPingpong, First
<1> DEFINE P == NextPingpong(gs, c, s.pp)
           p == CHOOSE p \in P : TRUE
           Q == NextPingpong(gs, c, p + 1)
           q == CHOOSE q \in Q : TRUE
<1>2. P # {} => p \in Nat BY <1>1
<1>3. Q # {} => q \in Nat BY <1>1
<1>4. s.pp \in Nat /\ s.num \in Nat /\ s.dead \in BOOLEAN /\ s = [pp |-> s.pp, num |-> s.num, dead |-> s.dead]
  BY DEF ScanStates
<1>5. t.num_dsc \in Nat BY TopologyAssumption
<1> DEFINE r == DscPairTurn(gs, c, t, s, k)
<1>6. \/ r = s 
      \/ r = [s EXCEPT !.dead = TRUE]
      \/ r = [s EXCEPT !.pp = 0]
      \/ /\ r = [s EXCEPT !.pp = q + 1, !.num = @ + 2] /\ Q # {}
         /\ k \in DscPairs(gs, c) /\ ~(s.num >= t.num_dsc)
  BY DEF DscPairTurn
<1> HIDE DEF r, q, Q
<1>7. CASE r = s BY <1>7 DEF r
<1>8. CASE r = [s EXCEPT !.dead = TRUE]
  <2>1. r = [pp |-> s.pp, num |-> s.num, dead |-> TRUE] BY <1>4, <1>8
  <2> QED BY <2>1, <1>4 DEF r, ScanStates
<1>9. CASE r = [s EXCEPT !.pp = 0]
  <2>1. r = [pp |-> 0, num |-> s.num, dead |-> s.dead] BY <1>4, <1>9
  <2> QED BY <2>1, <1>4 DEF r, ScanStates
<1>10. CASE /\ r = [s EXCEPT !.pp = q + 1, !.num = @ + 2] /\ Q # {}
            /\ k \in DscPairs(gs, c) /\ ~(s.num >= t.num_dsc)
  <2>1. r = [pp |-> q + 1, num |-> s.num + 2, dead |-> s.dead] BY <1>4, <1>10
  <2>2. s.num < t.num_dsc BY <1>4, <1>5, <1>10
  <2> QED BY <2>1, <2>2, <1>3, <1>4, <1>10 DEF r, ScanStates
<1> QED BY <1>6, <1>7, <1>8, <1>9, <1>10

(* The loop is what each of its turns makes of the one before. *)
LEMMA PairScan ==
  ASSUME NEW gs, NEW c, NEW t \in Topologies
  PROVE  LET scan == DscPairScan(gs, c, t)
         IN  /\ \A k \in 0..DscSlots : scan[k] \in ScanStates
             /\ scan[0] = [pp |-> 0, num |-> 0, dead |-> FALSE]
             /\ \A k \in 0..(DscSlots - 1) : scan[k + 1] = DscPairTurn(gs, c, t, scan[k], k)
<1> DEFINE a    == [pp |-> 0, num |-> 0, dead |-> FALSE]
           Turn == [x \in ScanStates \X Nat |-> DscPairTurn(gs, c, t, x[1], x[2])]
           Is(f) == f = [k \in 0..DscSlots |->
                           IF k = 0 THEN a ELSE DscPairTurn(gs, c, t, f[k - 1], k - 1)]
<1>1. a \in ScanStates BY DEF ScanStates
<1>2. Turn \in [ScanStates \X Nat -> ScanStates]
  BY PairTurn
<1>3. DscSlots \in Nat BY CatalogAssumption
<1>4. PICK f : Iterates(f, DscSlots, ScanStates, a, Turn)
  <2> HIDE DEF Turn, a
  <2> QED BY <1>1, <1>2, <1>3, IterationExists
<1>5. Is(f)
  <2>1. ASSUME NEW k \in 0..DscSlots, k # 0
        PROVE  f[k] = DscPairTurn(gs, c, t, f[k - 1], k - 1)
    <3>1. k - 1 \in 0..(DscSlots - 1) /\ k - 1 \in 0..DscSlots /\ (k - 1) + 1 = k BY <1>3, <2>1
    <3>2. <<f[k - 1], k - 1>> \in ScanStates \X Nat BY <1>4, <3>1 DEF Iterates
    <3>3. f[k] = Turn[<<f[k - 1], k - 1>>] BY <1>4, <3>1 DEF Iterates
    <3> QED BY <3>2, <3>3
  <2>2. f[0] = a /\ f = [k \in 0..DscSlots |-> f[k]] BY <1>4 DEF Iterates
  <2> HIDE DEF Turn, a
  <2> QED BY <2>1, <2>2
<1>6. DscPairScan(gs, c, t) = CHOOSE g : Is(g) BY DEF DscPairScan
<1>7. Is(DscPairScan(gs, c, t))
  <2> HIDE DEF Is
  <2>1. Is(CHOOSE g : Is(g)) BY <1>5, Zenon
  <2> QED BY <2>1, <1>6
<1> DEFINE scan == DscPairScan(gs, c, t)
<1> HIDE DEF scan
<1>8. scan = [k \in 0..DscSlots |->
                IF k = 0 THEN a ELSE DscPairTurn(gs, c, t, scan[k - 1], k - 1)]
  BY <1>7 DEF scan
<1>9. scan[0] = a BY <1>3, <1>8
<1>10. \A k \in 0..(DscSlots - 1) : scan[k + 1] = DscPairTurn(gs, c, t, scan[k], k)
  <2> TAKE k \in 0..(DscSlots - 1)
  <2>1. k + 1 \in 0..DscSlots /\ k + 1 # 0 /\ (k + 1) - 1 = k BY <1>3
  <2> QED BY <1>8, <2>1
<1>11. \A k \in Nat : k \in 0..DscSlots => scan[k] \in ScanStates
  <2> DEFINE S == {k \in Nat : k \in 0..DscSlots => scan[k] \in ScanStates}
  <2>1. 0 \in S BY <1>1, <1>9
  <2>2. ASSUME NEW k \in Nat, k \in S PROVE k + 1 \in S
    <3> SUFFICES ASSUME k + 1 \in 0..DscSlots PROVE scan[k + 1] \in ScanStates OBVIOUS
    <3>1. k \in 0..(DscSlots - 1) /\ k \in 0..DscSlots BY <1>3
    <3>2. scan[k] \in ScanStates BY <2>2, <3>1
    <3>3. scan[k + 1] = DscPairTurn(gs, c, t, scan[k], k) BY <1>10, <3>1
    <3>4. DscPairTurn(gs, c, t, scan[k], k) \in ScanStates BY <3>2, PairTurn
    <3> QED BY <3>3, <3>4
  <2> QED BY <2>1, <2>2, InductionOnNat
<1> QED BY <1>9, <1>10, <1>11 DEF scan

-----------------------------------------------------------------------------
(* The pairs the loop takes, and their DSCs. *)
PairsTaken(gs, c, t) ==
  {k \in DscPairs(gs, c) : DscPairScan(gs, c, t)[k + 1].num > DscPairScan(gs, c, t)[k].num}

DscsOf(pairs) == UNION {{2 * k, 2 * k + 1} : k \in pairs}

(* The loop takes two DSCs at a time, has counted them when it comes to the *)
(* next pair, and stops at the number asked for.                           *)
LEMMA PairsCounted ==
  ASSUME NEW gs, NEW c, NEW t \in Topologies, t.num_dsc \in {2, 4}
  PROVE  LET scan == DscPairScan(gs, c, t)
             dscs == DscsOf(PairsTaken(gs, c, t))
         IN  \A k \in 0..DscSlots :
               /\ scan[k].num \in {0, 2, 4} /\ scan[k].num <= t.num_dsc
               /\ IsFiniteSet(Below(dscs, 2 * k)) /\ Cardinality(Below(dscs, 2 * k)) = scan[k].num
<1> DEFINE scan  == DscPairScan(gs, c, t)
           pairs == PairsTaken(gs, c, t)
           dscs  == DscsOf(pairs)
           Counted(k) == /\ scan[k].num \in {0, 2, 4} /\ scan[k].num <= t.num_dsc
                         /\ IsFiniteSet(Below(dscs, 2 * k))
                         /\ Cardinality(Below(dscs, 2 * k)) = scan[k].num
           S == {k \in Nat : k \in 0..DscSlots => Counted(k)}
<1>1. /\ \A k \in 0..DscSlots : scan[k] \in ScanStates
      /\ scan[0] = [pp |-> 0, num |-> 0, dead |-> FALSE]
      /\ \A k \in 0..(DscSlots - 1) : scan[k + 1] = DscPairTurn(gs, c, t, scan[k], k)
  BY PairScan
<1>2. \A k : k \in pairs <=> k \in DscPairs(gs, c) /\ scan[k + 1].num > scan[k].num
  BY DEF PairsTaken
<1>3. DscSlots \in Nat /\ DscPairs(gs, c) \subseteq 0..(DscSlots - 1) BY CatalogAssumption DEF DscPairs
<1> HIDE DEF scan, pairs
<1>4. \A k \in pairs : k \in Nat BY <1>2, <1>3
<1>5. \A d : d \in dscs <=> \E k \in pairs : d = 2 * k \/ d = 2 * k + 1 BY DEF DscsOf
<1>6. \A d \in dscs : d \in Nat BY <1>4, <1>5
<1> HIDE DEF dscs
<1>7. 0 \in S
  <2>1. ASSUME NEW d \in dscs PROVE ~(d < 2 * 0) BY <1>6
  <2>2. Below(dscs, 2 * 0) = {} BY <2>1 DEF Below
  <2>3. scan[0].num = 0 BY <1>1
  <2> QED BY <2>2, <2>3, FS_EmptySet
<1>8. ASSUME NEW k \in Nat, k \in S PROVE k + 1 \in S
  <2> SUFFICES ASSUME k + 1 \in 0..DscSlots PROVE Counted(k + 1) OBVIOUS
  <2>1. k \in 0..(DscSlots - 1) /\ k \in 0..DscSlots BY <1>3
  <2>2. Counted(k) BY <1>8, <2>1
  <2> DEFINE s == scan[k]
             r == scan[k + 1]
             old == Below(dscs, 2 * k)
             new == Below(dscs, 2 * (k + 1))
  <2>3. \/ r.num = s.num
        \/ r.num = s.num + 2 /\ k \in DscPairs(gs, c) /\ s.num < t.num_dsc
    <3>1. s \in ScanStates /\ r = DscPairTurn(gs, c, t, s, k) BY <1>1, <2>1
    <3> HIDE DEF s, r
    <3> QED BY <3>1, PairTurn
  <2>4. s.num \in Nat BY <2>2
  <2> HIDE DEF s, r
  <2>5. /\ s.num \in {0, 2, 4} /\ s.num <= t.num_dsc /\ IsFiniteSet(old) /\ Cardinality(old) = s.num
    BY <2>2 DEF s
  <2>6. CASE r.num = s.num
    <3>1. k \notin pairs BY <1>2, <2>4, <2>6 DEF s, r
    <3>2. \A d \in dscs : d < 2 * (k + 1) <=> d < 2 * k
      <4> TAKE d \in dscs
      <4>1. PICK i \in pairs : d = 2 * i \/ d = 2 * i + 1 BY <1>5
      <4>2. i \in Nat /\ i # k BY <1>4, <3>1, <4>1
      <4> QED BY <4>1, <4>2
    <3>3. new = old BY <3>2 DEF Below
    <3> QED BY <2>5, <2>6, <3>3 DEF r
  <2>7. CASE r.num = s.num + 2 /\ k \in DscPairs(gs, c) /\ s.num < t.num_dsc
    <3>1. k \in pairs BY <1>2, <2>4, <2>7 DEF s, r
    <3>2. 2 * k \in dscs /\ 2 * k + 1 \in dscs BY <1>5, <3>1
    <3>3. \A d \in dscs : d < 2 * (k + 1) <=> d < 2 * k \/ d = 2 * k \/ d = 2 * k + 1
      <4> TAKE d \in dscs
      <4> QED BY <1>6
    <3>4. new = (old \cup {2 * k}) \cup {2 * k + 1} BY <3>2, <3>3 DEF Below
    <3>5. 2 * k \notin old /\ 2 * k + 1 \notin old /\ 2 * k # 2 * k + 1 BY DEF Below
    <3> HIDE DEF old, new
    <3>6. IsFiniteSet(old \cup {2 * k}) /\ Cardinality(old \cup {2 * k}) = s.num + 1
      BY <2>5, <3>5, FS_AddElement
    <3>7. IsFiniteSet(new) /\ Cardinality(new) = s.num + 1 + 1
      <4>1. 2 * k + 1 \notin old \cup {2 * k} BY <3>5
      <4> QED BY <3>4, <3>6, <4>1, FS_AddElement
    <3>8. s.num + 1 + 1 = r.num /\ r.num \in {0, 2, 4} /\ r.num <= t.num_dsc BY <2>5, <2>7
    <3> QED BY <3>7, <3>8 DEF r, new
  <2> QED BY <2>3, <2>6, <2>7
<1>9. Nat \subseteq S
  <2> HIDE DEF Counted
  <2> QED BY <1>7, <1>8, InductionOnNat
<1>10. \A k \in 0..DscSlots : k \in S BY <1>9
<1> QED BY <1>10 DEF dscs, scan, pairs

(* _dpu_rm_dsc_alloc and _dpu_rm_dsc_alloc_pair *)
LEMMA DscsGive ==
  ASSUME NEW gs, Good(gs), NEW c \in CRTCs, NEW t \in Topologies,
         Owned(gs, "dsc", c) = {}, ReserveDsc(gs, c, t).ok
  PROVE  LET hs == ReserveDsc(gs, c, t).gs
         IN  /\ \A k \in Kinds \ {"dsc"} : hs[k] = gs[k]
             /\ HasDscs(hs, c, t)
<1>1. CASE t.num_dsc = 0
  <2>1. ReserveDsc(gs, c, t).gs = gs BY <1>1 DEF ReserveDsc, Ok
  <2> QED BY <2>1, <1>1, FS_EmptySet DEF HasDscs
<1>2. ASSUME NEW B, B \subseteq Available(gs, "dsc", c), Cardinality(B) = t.num_dsc,
             ReserveDsc(gs, c, t).gs = Give(gs, "dsc", B, c)
      PROVE  LET hs == ReserveDsc(gs, c, t).gs
             IN  /\ \A k \in Kinds \ {"dsc"} : hs[k] = gs[k]
                 /\ HasDscs(hs, c, t)
  <2> DEFINE hs == Give(gs, "dsc", B, c)
  <2>1. "dsc" \in Kinds /\ c \in Owners BY DEF Kinds, Owners
  <2>2. /\ \A l \in Kinds \ {"dsc"} : hs[l] = gs[l]
        /\ \A d \in Dscs : hs["dsc"][d] = (IF d \in B THEN c ELSE gs["dsc"][d])
    BY <2>1, GiveStores, BlocksOf DEF Good
  <2> HIDE DEF hs
  <2>3. B \subseteq Dscs BY <1>2, BlocksOf DEF Available
  <2>4. Owned(hs, "dsc", c) = B BY <2>2, <2>3, BlocksOf DEF Owned
  <2> QED BY <1>2, <2>2, <2>4 DEF HasDscs, hs
<1>3. CASE t.num_dsc # 0 /\ ~(t.num_dsc > t.num_intf)
  <2> DEFINE dscs    == Available(gs, "dsc", c)
             own     == Owned(gs, "pingpong", c)
             Fits(d) == \E p \in own : /\ Cardinality({q \in own : q < p}) = Cardinality({e \in dscs : e < d})
                                       /\ d % 2 = p % 2
             chosen  == {d \in First(dscs, t.num_dsc) : \A e \in dscs : e <= d => Fits(e)}
             done    == Give(gs, "dsc", chosen, c)
  <2>1. ReserveDsc(gs, c, t) = (IF Cardinality(chosen) = t.num_dsc THEN Ok(done) ELSE Fail(done))
    BY <1>3 DEF ReserveDsc, DscAlloc
  <2>2. chosen \subseteq dscs BY DEF First
  <2> HIDE DEF chosen
  <2>3. Cardinality(chosen) = t.num_dsc /\ ReserveDsc(gs, c, t).gs = done BY <2>1 DEF Ok, Fail
  <2> QED BY <1>2, <2>2, <2>3
<1>4. CASE t.num_dsc # 0 /\ t.num_dsc > t.num_intf
  <2> DEFINE scan  == DscPairScan(gs, c, t)
             pairs == PairsTaken(gs, c, t)
             dscs  == DscsOf(pairs)
             done  == Give(gs, "dsc", dscs, c)
  <2>1. t.num_dsc \in {2, 4}
    <3>1. t.num_dsc \in {0, 1, 2, 4} /\ t.num_intf \in Nat \ {0} BY TopologyAssumption
    <3>2. t.num_dsc # 1 BY <1>4, <3>1
    <3> QED BY <1>4, <3>1, <3>2
  <2>2. scan[DscSlots].num >= t.num_dsc /\ ReserveDsc(gs, c, t).gs = done
    BY <1>4 DEF ReserveDsc, DscAllocPair, Ok, Fail, PairsTaken, DscsOf
  <2>3. DscSlots \in 0..DscSlots /\ DscSlots \in Nat BY CatalogAssumption
  <2>4. /\ scan[DscSlots].num \in {0, 2, 4} /\ scan[DscSlots].num <= t.num_dsc
        /\ Cardinality(Below(dscs, 2 * DscSlots)) = scan[DscSlots].num
    BY <2>1, <2>3, PairsCounted
  <2>5. \A k \in pairs : k \in 0..(DscSlots - 1) /\ {2 * k, 2 * k + 1} \subseteq Available(gs, "dsc", c)
    BY DEF PairsTaken, DscPairs
  <2> HIDE DEF pairs, scan
  <2>6. dscs \subseteq Available(gs, "dsc", c) BY <2>5 DEF DscsOf
  <2>7. \A d \in dscs : d < 2 * DscSlots BY <2>3, <2>5 DEF DscsOf
  <2> HIDE DEF dscs
  <2>8. Below(dscs, 2 * DscSlots) = dscs BY <2>7 DEF Below
  <2>9. scan[DscSlots].num = t.num_dsc BY <2>1, <2>2, <2>4
  <2> QED BY <1>2, <2>2, <2>4, <2>6, <2>8, <2>9
<1> QED BY <1>1, <1>3, <1>4

-----------------------------------------------------------------------------
(* The parts of a reservation, one after the other. *)
InTurn(gs, c, t, lms, cwb, ctls, dsc, cdm) ==
  /\ lms = ReserveLms(gs, c, t)
  /\ cwb  = (IF lms.ok THEN ReserveCwb(lms.gs, c, t) ELSE lms)
  /\ ctls = (IF cwb.ok THEN ReserveCtls(cwb.gs, c, t) ELSE cwb)
  /\ dsc  = (IF ctls.ok THEN ReserveDsc(ctls.gs, c, t) ELSE ctls)
  /\ cdm  = (IF dsc.ok THEN ReserveCdm(dsc.gs, c, t) ELSE dsc)

LEMMA PartsInTurn ==
  ASSUME NEW gs, NEW c, NEW t
  PROVE  \E lms, cwb, ctls, dsc, cdm :
           InTurn(gs, c, t, lms, cwb, ctls, dsc, cdm) /\ MakeReservation(gs, c, t) = cdm
<1> DEFINE lms  == ReserveLms(gs, c, t)
           cwb  == IF lms.ok THEN ReserveCwb(lms.gs, c, t) ELSE lms
           ctls == IF cwb.ok THEN ReserveCtls(cwb.gs, c, t) ELSE cwb
           dsc  == IF ctls.ok THEN ReserveDsc(ctls.gs, c, t) ELSE ctls
           cdm  == IF dsc.ok THEN ReserveCdm(dsc.gs, c, t) ELSE dsc
<1>1. MakeReservation(gs, c, t) = cdm BY DEF MakeReservation, Then
<1>2. InTurn(gs, c, t, lms, cwb, ctls, dsc, cdm) BY DEF InTurn
<1> HIDE DEF lms, cwb, ctls, dsc, cdm
<1> QED BY <1>1, <1>2

-----------------------------------------------------------------------------
(* A block is as before, or with c, or free. *)
Gains(gs, hs, c) == \A k \in Kinds : \A b \in Blocks[k] : hs[k][b] \in {gs[k][b], c, Free}

LEMMA GainsTwice ==
  ASSUME NEW gs, NEW hs, NEW is, NEW c, Gains(gs, hs, c), Gains(hs, is, c)
  PROVE  Gains(gs, is, c)
<1> SUFFICES ASSUME NEW k \in Kinds, NEW b \in Blocks[k] PROVE is[k][b] \in {gs[k][b], c, Free}
  BY DEF Gains
<1>1. hs[k][b] \in {gs[k][b], c, Free} /\ is[k][b] \in {hs[k][b], c, Free} BY DEF Gains
<1> QED BY <1>1

LEMMA GiveGains ==
  ASSUME NEW gs, IsGlobalState(gs), NEW k \in Kinds, NEW B, NEW c \in CRTCs, NEW o \in {c, Free}
  PROVE  IsGlobalState(Give(gs, k, B, o)) /\ Gains(gs, Give(gs, k, B, o), c)
<1>1. o \in Owners BY DEF Owners
<1> DEFINE hs == Give(gs, k, B, o)
<1>2. /\ IsGlobalState(hs) /\ \A l \in Kinds \ {k} : hs[l] = gs[l]
      /\ \A b \in Blocks[k] : hs[k][b] = (IF b \in B THEN o ELSE gs[k][b])
  BY <1>1, GiveStores
<1> HIDE DEF hs
<1>3. ASSUME NEW l \in Kinds, NEW b \in Blocks[l] PROVE hs[l][b] \in {gs[l][b], c, Free}
  BY <1>2
<1>4. Gains(gs, hs, c) BY <1>3 DEF Gains
<1> QED BY <1>2, <1>4 DEF hs

LEMMA PartsGain ==
  ASSUME NEW gs, IsGlobalState(gs), NEW c \in CRTCs, NEW t
  PROVE  /\ IsGlobalState(ReserveLms(gs, c, t).gs) /\ Gains(gs, ReserveLms(gs, c, t).gs, c)
         /\ IsGlobalState(ReserveCwb(gs, c, t).gs) /\ Gains(gs, ReserveCwb(gs, c, t).gs, c)
         /\ IsGlobalState(ReserveCtls(gs, c, t).gs) /\ Gains(gs, ReserveCtls(gs, c, t).gs, c)
         /\ IsGlobalState(ReserveDsc(gs, c, t).gs) /\ Gains(gs, ReserveDsc(gs, c, t).gs, c)
         /\ IsGlobalState(ReserveCdm(gs, c, t).gs) /\ Gains(gs, ReserveCdm(gs, c, t).gs, c)
<1> DEFINE To(hs) == IsGlobalState(hs) /\ Gains(gs, hs, c)
<1>1. To(gs) BY DEF Gains
<1>2. "mixer" \in Kinds /\ "pingpong" \in Kinds /\ "dspp" \in Kinds /\ "ctl" \in Kinds
      /\ "dsc" \in Kinds /\ "cwb" \in Kinds /\ "cdm" \in Kinds
  BY DEF Kinds
<1>3. ASSUME NEW hs, To(hs), NEW k \in Kinds, NEW B, NEW o \in {c, Free}
      PROVE  To(Give(hs, k, B, o))
  BY <1>3, GiveGains, GainsTwice
<1> HIDE DEF To
<1>4. To(ReserveLms(gs, c, t).gs)
  <2>1. \A A, B, D : /\ To(Give(Give(Give(gs, "mixer", A, c), "pingpong", B, c), "dspp", D, c))
                     /\ To(Give(Give(Give(gs, "mixer", A, c), "pingpong", B, c), "dspp", D, Free))
    <3> TAKE A, B, D
    <3>1. To(Give(gs, "mixer", A, c)) BY <1>1, <1>2, <1>3
    <3>2. To(Give(Give(gs, "mixer", A, c), "pingpong", B, c)) BY <1>2, <1>3, <3>1
    <3> QED BY <1>2, <1>3, <3>2
  <2> QED BY <1>1, <2>1 DEF ReserveLms, Ok, Fail
<1>5. To(ReserveCwb(gs, c, t).gs)
  <2>1. \A A, B : To(Give(Give(gs, "pingpong", A, c), "cwb", B, c))
    <3> TAKE A, B
    <3>1. To(Give(gs, "pingpong", A, c)) BY <1>1, <1>2, <1>3
    <3> QED BY <1>2, <1>3, <3>1
  <2> QED BY <1>1, <2>1 DEF ReserveCwb, Ok, Fail
<1>6. \A A : To(Give(gs, "ctl", A, c)) /\ To(Give(gs, "dsc", A, c)) /\ To(Give(gs, "cdm", A, c))
  BY <1>1, <1>2, <1>3
<1>7. To(ReserveCtls(gs, c, t).gs) BY <1>1, <1>6 DEF ReserveCtls, Ok, Fail
<1>8. To(ReserveDsc(gs, c, t).gs)
  <2>1. To(DscAlloc(gs, c, t).gs) BY <1>6 DEF DscAlloc, Ok, Fail
  <2>2. To(DscAllocPair(gs, c, t).gs) BY <1>6 DEF DscAllocPair, Ok, Fail
  <2> QED BY <1>1, <2>1, <2>2 DEF ReserveDsc, Ok
<1>9. To(ReserveCdm(gs, c, t).gs) BY <1>1, <1>6 DEF ReserveCdm, Ok, Fail
<1> QED BY <1>4, <1>5, <1>7, <1>8, <1>9 DEF To

LEMMA ReservationGains ==
  ASSUME NEW gs, IsGlobalState(gs), NEW c \in CRTCs, NEW t
  PROVE  Gains(gs, MakeReservation(gs, c, t).gs, c)
<1>1. PICK lms, cwb, ctls, dsc, cdm :
        InTurn(gs, c, t, lms, cwb, ctls, dsc, cdm) /\ MakeReservation(gs, c, t) = cdm
  BY PartsInTurn
<1> DEFINE To(hs) == IsGlobalState(hs) /\ Gains(gs, hs, c)
<1>2. To(lms.gs) BY <1>1, PartsGain DEF InTurn
<1>3. To(cwb.gs)
  <2>1. CASE lms.ok
    <3>1. cwb = ReserveCwb(lms.gs, c, t) BY <1>1, <2>1 DEF InTurn
    <3> QED BY <1>2, <3>1, PartsGain, GainsTwice
  <2>2. CASE ~lms.ok BY <1>1, <1>2, <2>2 DEF InTurn
  <2> QED BY <2>1, <2>2
<1>4. To(ctls.gs)
  <2>1. CASE cwb.ok
    <3>1. ctls = ReserveCtls(cwb.gs, c, t) BY <1>1, <2>1 DEF InTurn
    <3> QED BY <1>3, <3>1, PartsGain, GainsTwice
  <2>2. CASE ~cwb.ok BY <1>1, <1>3, <2>2 DEF InTurn
  <2> QED BY <2>1, <2>2
<1>5. To(dsc.gs)
  <2>1. CASE ctls.ok
    <3>1. dsc = ReserveDsc(ctls.gs, c, t) BY <1>1, <2>1 DEF InTurn
    <3> QED BY <1>4, <3>1, PartsGain, GainsTwice
  <2>2. CASE ~ctls.ok BY <1>1, <1>4, <2>2 DEF InTurn
  <2> QED BY <2>1, <2>2
<1>6. To(cdm.gs)
  <2>1. CASE dsc.ok
    <3>1. cdm = ReserveCdm(dsc.gs, c, t) BY <1>1, <2>1 DEF InTurn
    <3> QED BY <1>5, <3>1, PartsGain, GainsTwice
  <2>2. CASE ~dsc.ok BY <1>1, <1>5, <2>2 DEF InTurn
  <2> QED BY <2>1, <2>2
<1> QED BY <1>1, <1>6

-----------------------------------------------------------------------------
(* The DSCs of c, in order, fit its pingpongs, in order. *)
DscsFit(gs, c) ==
  LET dscs == Owned(gs, "dsc", c)
      own  == Owned(gs, "pingpong", c)
  IN  \A d \in dscs : \E p \in own \cap Pingpongs :
        Cardinality(Below(own, p)) = Cardinality(Below(dscs, d)) /\ d % 2 = p % 2

(* The pingpongs of the mixers of a CRTC. *)
Wired(gs, c) == Owned(gs, "pingpong", c) \cap Pingpongs

(* There are as many of them as mixers, and with a pair of mixers come an   *)
(* even pingpong and the odd one after it.                                 *)
LEMMA PingpongsOfMixers ==
  ASSUME NEW gs, Good(gs), NEW c \in CRTCs, NEW t \in Topologies, HasMixers(gs, c, t)
  PROVE  /\ Owned(gs, "pingpong", c) \subseteq Nat
         /\ \A p \in Owned(gs, "pingpong", c) \ Wired(gs, c) : \A q \in Wired(gs, c) : q < p
         /\ IsFiniteSet(Wired(gs, c)) /\ Cardinality(Wired(gs, c)) = t.num_lm
         /\ t.num_lm > 1 => \A p \in Wired(gs, c) :
              (p % 2 = 0 => p + 1 \in Wired(gs, c)) /\ (p % 2 = 1 => p - 1 \in Wired(gs, c))
<1> DEFINE lms  == Owned(gs, "mixer", c)
           mine == Wired(gs, c)
           pp   == [m \in lms |-> PingpongOf[m]]
<1>1. IsFiniteSet(lms) /\ Cardinality(lms) = t.num_lm /\ (t.num_lm > 1 => \A m \in lms : Peer[m] \in lms)
  BY DEF HasMixers
<1>2. c # Free /\ Mixers \subseteq Nat BY CatalogAssumption
<1>3. \A m \in lms : m \in Mixers /\ gs["mixer"][m] = c BY BlocksOf DEF Owned
<1>4. \A m \in lms : PingpongOf[m] \in mine
  BY <1>2, <1>3, BlocksOf DEF Good, WiredTogether, Wired, Owned
<1>5. \A p \in mine : \E m \in lms : PingpongOf[m] = p
  BY <1>2, BlocksOf DEF Good, WiredTogether, Wired, Owned
<1>6. Owned(gs, "pingpong", c) \subseteq Nat BY BlocksOf, CwbPingpongsApart DEF Owned
<1>7. \A p \in Owned(gs, "pingpong", c) \ mine : \A q \in mine : q < p
  BY BlocksOf, CwbPingpongsApart DEF Owned, Wired
<1>8. \A m \in lms : PingpongOf[m] \in Pingpongs BY <1>4 DEF Wired
<1> HIDE DEF lms, mine
<1>9. mine = {pp[m] : m \in lms} BY <1>4, <1>5
<1>10. \A m, n \in lms : pp[m] = pp[n] => m = n BY <1>3, <1>8, PingpongsApart
<1>11. IsFiniteSet(mine) /\ Cardinality(mine) = t.num_lm
  <2> HIDE DEF pp
  <2> QED BY <1>1, <1>9, <1>10, ImageFinite
<1>12. ASSUME t.num_lm > 1, NEW p \in mine
       PROVE  (p % 2 = 0 => p + 1 \in mine) /\ (p % 2 = 1 => p - 1 \in mine)
  <2>1. PICK m \in lms : PingpongOf[m] = p BY <1>5
  <2>2. Peer[m] \in lms BY <1>1, <1>12
  <2> DEFINE n == Peer[m]
  <2>3. m \in Nat /\ n \in Nat /\ m \in Mixers /\ n \in Mixers BY <1>2, <1>3, <2>2
  <2>4. n # m /\ Peer[n] = m BY <2>3, CatalogAssumption
  <2>5. p \in Nat /\ PingpongOf[n] \in Nat
    BY <1>8, <2>1, <2>2, CwbPingpongsApart
  <2>6. PingpongOf[n] \in mine BY <1>4, <2>2
  <2>7. CASE n > m
    <3>1. p % 2 = 0 /\ PingpongOf[n] = p + 1 BY <2>1, <2>3, <2>7, DscAssumption
    <3> QED BY <2>6, <3>1
  <2>8. CASE m > n
    <3> HIDE DEF n
    <3>1. PingpongOf[n] % 2 = 0 /\ p = PingpongOf[n] + 1 BY <2>1, <2>3, <2>4, <2>8, DscAssumption
    <3>2. p % 2 = 1 /\ p - 1 = PingpongOf[n] BY <2>5, <3>1
    <3> QED BY <2>6, <3>2
  <2> QED BY <2>3, <2>4, <2>7, <2>8
<1> QED BY <1>6, <1>7, <1>11, <1>12 DEF mine

(* A loop that stops at the first block finds the least. *)
LEMMA FirstOne ==
  ASSUME NEW S, S \subseteq Nat, NEW x \in S, \A y \in S : x <= y
  PROVE  First(S, 1) = {x}
<1>1. \A y \in S : y \in Nat OBVIOUS
<1>2. x \in First(S, 1)
  <2>1. \A y \in S : ~(y < x) BY <1>1
  <2>2. Below(S, x) = {} BY <2>1 DEF Below
  <2>3. Cardinality(Below(S, x)) < 1 BY <2>2, FS_EmptySet
  <2> QED BY <2>3 DEF First, Below
<1>3. ASSUME NEW y \in First(S, 1) PROVE y = x
  <2>1. y \in S /\ Cardinality(Below(S, y)) < 1 BY DEF First, Below
  <2>2. IsFiniteSet(Below(S, y)) /\ Cardinality(Below(S, y)) \in Nat BY <1>1, <2>1, BelowFinite
  <2>3. Below(S, y) = {} BY <2>1, <2>2, FS_EmptySet
  <2>4. ~(x < y) BY <2>3 DEF Below
  <2> QED BY <1>1, <2>1, <2>4
<1> QED BY <1>2, <1>3

(* The blocks seen before the least one from r on are those below r. *)
LEMMA BelowLeast ==
  ASSUME NEW S, S \subseteq Nat, NEW r \in Nat, NEW x \in S, r <= x,
         \A y \in S : r <= y => x <= y
  PROVE  Below(S, x) = Below(S, r) /\ Below(S, x + 1) = Below(S, x) \cup {x}
<1>1. \A y \in S : y \in Nat OBVIOUS
<1>2. \A y \in S : y < x <=> y < r
  <2> TAKE y \in S
  <2>1. y \in Nat /\ x \in Nat BY <1>1
  <2> QED BY <2>1
<1>3. \A y \in S : y < x + 1 <=> y < x \/ y = x BY <1>1
<1> QED BY <1>2, <1>3 DEF Below

(* The next pingpong is one of a mixer as long as not all of these are used. *)
LEMMA NextIsWired ==
  ASSUME NEW own, own \subseteq Nat, NEW mine, mine \subseteq own, IsFiniteSet(mine),
         \A p \in own \ mine : \A q \in mine : q < p,
         NEW r \in Nat, Cardinality(Below(own, r)) < Cardinality(mine)
  PROVE  \E p \in mine : r <= p /\ \A y \in own : r <= y => p <= y
<1>1. \A y \in own : y \in Nat OBVIOUS
<1>2. PICK x \in mine : ~(x < r)
  <2>1. CASE \A x \in mine : x < r
    <3>1. mine \in SUBSET Below(own, r) BY <2>1 DEF Below
    <3>2. IsFiniteSet(Below(own, r)) /\ Cardinality(Below(own, r)) \in Nat BY BelowFinite
    <3>3. Cardinality(mine) <= Cardinality(Below(own, r)) BY <3>1, <3>2, FS_Subset
    <3>4. Cardinality(mine) \in Nat BY FS_CardinalityType
    <3> QED BY <3>2, <3>3, <3>4
  <2> QED BY <2>1
<1> DEFINE S == {y \in own : r <= y}
<1>3. S \in SUBSET Nat /\ x \in S
  <2>1. x \in own /\ x \in Nat /\ r <= x BY <1>1, <1>2
  <2> QED BY <1>1, <2>1
<1>4. PICK p \in S : \A y \in S : p <= y BY <1>3, LeastNatural
<1>5. p \in mine
  <2>1. CASE p \notin mine
    <3>1. x < p /\ p <= x /\ x \in Nat /\ p \in Nat BY <1>1, <1>2, <1>3, <1>4, <2>1
    <3> QED BY <3>1
  <2> QED BY <2>1
<1> QED BY <1>4, <1>5

(* A pingpong with fewer before it than there are DSCs is one of a mixer. *)
LEMMA EarlyIsWired ==
  ASSUME NEW gs, Good(gs), NEW c \in CRTCs, NEW t \in Topologies, HasMixers(gs, c, t),
         NEW p \in Owned(gs, "pingpong", c),
         Cardinality(Below(Owned(gs, "pingpong", c), p)) < t.num_dsc
  PROVE  p \in Wired(gs, c)
<1> DEFINE own  == Owned(gs, "pingpong", c)
           mine == Wired(gs, c)
<1>1. /\ own \subseteq Nat /\ \A y \in own \ mine : \A q \in mine : q < y
      /\ IsFiniteSet(mine) /\ Cardinality(mine) = t.num_lm
  BY PingpongsOfMixers
<1>2. mine \subseteq own BY DEF Wired
<1>3. p \in own /\ Cardinality(Below(own, p)) < t.num_dsc OBVIOUS
<1> HIDE DEF own, mine
<1>4. t.num_dsc \in Nat /\ t.num_lm \in Nat /\ t.num_dsc <= t.num_lm
  BY TopologyAssumption, DscAssumption
<1>5. CASE p \notin mine
  <2>1. mine \in SUBSET Below(own, p) BY <1>1, <1>2, <1>3, <1>5 DEF Below
  <2>2. IsFiniteSet(Below(own, p)) /\ Cardinality(Below(own, p)) \in Nat BY <1>1, <1>3, BelowFinite
  <2>3. Cardinality(mine) <= Cardinality(Below(own, p)) BY <2>1, <2>2, FS_Subset
  <2> QED BY <1>1, <1>3, <1>4, <2>2, <2>3
<1> QED BY <1>5 DEF mine

(* A turn of _dpu_rm_dsc_alloc_pair takes an even pingpong and the odd one  *)
(* after it, or nothing: it meets no mismatch and never runs out.          *)
LEMMA PairTurnFits ==
  ASSUME NEW gs, Good(gs), NEW c \in CRTCs, NEW t \in Topologies, HasMixers(gs, c, t),
         t.num_lm > 1, NEW s \in ScanStates, NEW k \in Nat,
         ~s.dead, s.pp % 2 = 0,
         Cardinality(Below(Owned(gs, "pingpong", c), s.pp)) = s.num
  PROVE  LET r   == DscPairTurn(gs, c, t, s, k)
             own == Owned(gs, "pingpong", c)
         IN  \/ r = s
             \/ \E p \in Wired(gs, c) :
                  /\ p % 2 = 0 /\ p + 1 \in Wired(gs, c)
                  /\ r = [pp |-> p + 2, num |-> s.num + 2, dead |-> s.dead]
                  /\ Cardinality(Below(own, p)) = s.num
                  /\ Cardinality(Below(own, p + 1)) = s.num + 1
                  /\ Cardinality(Below(own, p + 2)) = s.num + 2
<1> DEFINE own  == Owned(gs, "pingpong", c)
           mine == Wired(gs, c)
           r    == DscPairTurn(gs, c, t, s, k)
<1>1. /\ own \subseteq Nat /\ \A y \in own \ mine : \A q \in mine : q < y
      /\ IsFiniteSet(mine) /\ Cardinality(mine) = t.num_lm
      /\ \A p \in mine : (p % 2 = 0 => p + 1 \in mine) /\ (p % 2 = 1 => p - 1 \in mine)
  BY PingpongsOfMixers
<1>2. mine \subseteq own BY DEF Wired
<1>3. t.num_dsc \in Nat /\ t.num_lm \in Nat /\ t.num_dsc <= t.num_lm
  BY TopologyAssumption, DscAssumption
<1>4. s.pp \in Nat /\ s.num \in Nat /\ s = [pp |-> s.pp, num |-> s.num, dead |-> s.dead]
  BY DEF ScanStates
<1>5. CASE k \notin DscPairs(gs, c) \/ s.num >= t.num_dsc BY <1>5 DEF DscPairTurn
<1>6. CASE k \in DscPairs(gs, c) /\ ~(s.num >= t.num_dsc)
  <2> DEFINE P == NextPingpong(gs, c, s.pp)
             S == {y \in own : y >= s.pp}
  <2>0. \A start : NextPingpong(gs, c, start) = First({y \in own : y >= start}, 1) BY DEF NextPingpong
  <2> HIDE DEF own, mine
  <2>1. Cardinality(Below(own, s.pp)) < Cardinality(mine) BY <1>1, <1>3, <1>4, <1>6 DEF own
  <2>2. PICK p \in mine : s.pp <= p /\ \A y \in own : s.pp <= y => p <= y
    BY <1>1, <1>2, <1>4, <2>1, NextIsWired
  <2>3. p \in Nat /\ p \in own BY <1>1, <1>2
  <2>4. \A y \in own : y \in Nat BY <1>1
  <2>5. P = {p}
    <3>1. S \subseteq Nat /\ p \in S /\ \A y \in S : p <= y BY <1>4, <2>2, <2>3, <2>4
    <3> HIDE DEF S
    <3>2. First(S, 1) = {p} BY <3>1, FirstOne
    <3> QED BY <2>0, <3>2 DEF S
  <2>6. p % 2 = 0
    <3>1. CASE p % 2 = 1
      <4>1. p - 1 \in own BY <1>1, <1>2, <3>1
      <4>2. p # s.pp /\ s.pp <= p - 1 BY <1>4, <2>2, <2>3, <3>1
      <4>3. p <= p - 1 BY <2>2, <4>1, <4>2
      <4> QED BY <2>3, <4>3
    <3> QED BY <2>3, <3>1
  <2>7. p + 1 \in mine /\ p + 1 \in own BY <1>1, <1>2, <2>6
  <2> DEFINE Q == NextPingpong(gs, c, p + 1)
             U == {y \in own : y >= p + 1}
  <2>8. Q = {p + 1}
    <3>1. \A y \in U : y \in own /\ y >= p + 1 OBVIOUS
    <3>3. p + 1 \in U /\ p + 1 \in Nat BY <2>3, <2>7
    <3> HIDE DEF U
    <3>4. U \subseteq Nat /\ \A y \in U : p + 1 <= y BY <2>4, <3>1, <3>3
    <3>2. First(U, 1) = {p + 1} BY <3>3, <3>4, FirstOne
    <3> QED BY <2>0, <3>2 DEF U
  <2>9. r = [s EXCEPT !.pp = (p + 1) + 1, !.num = @ + 2]
    <3>1. P # {} /\ Q # {} BY <2>5, <2>8
    <3>2. (CHOOSE x \in {p} : TRUE) = p /\ (CHOOSE x \in {p + 1} : TRUE) = p + 1 OBVIOUS
    <3>3. ~(p % 2 = 1) /\ ~((p + 1) % 2 = 0) BY <2>3, <2>6
    <3> QED BY <1>6, <2>5, <2>8, <3>1, <3>2, <3>3 DEF DscPairTurn
  <2>10. r = [pp |-> p + 2, num |-> s.num + 2, dead |-> s.dead]
    <3> HIDE DEF r
    <3>1. (p + 1) + 1 = p + 2 BY <2>3
    <3> QED BY <1>4, <2>9, <3>1
  <2>11. /\ Below(own, p) = Below(own, s.pp)
         /\ Below(own, p + 1) = Below(own, p) \cup {p}
    <3>1. own \subseteq Nat /\ s.pp \in Nat /\ p \in own /\ s.pp <= p BY <1>1, <1>4, <2>2, <2>3
    <3>2. \A y \in own : s.pp <= y => p <= y BY <2>2, <2>3
    <3> QED BY <3>1, <3>2, BelowLeast, ZenonT(30)
  <2>12. Below(own, p + 2) = Below(own, p + 1) \cup {p + 1}
    <3>1. \A y \in own : y < p + 2 <=> y < p + 1 \/ y = p + 1 BY <2>3, <2>4
    <3> QED BY <2>7, <3>1 DEF Below
  <2>13. IsFiniteSet(Below(own, p)) /\ Cardinality(Below(own, p)) = s.num
    <3>1. IsFiniteSet(Below(own, s.pp)) BY <1>1, <1>4, BelowFinite
    <3> QED BY <2>11, <3>1 DEF own
  <2>14. IsFiniteSet(Below(own, p + 1)) /\ Cardinality(Below(own, p + 1)) = s.num + 1
    <3>1. p \notin Below(own, p) BY <2>3 DEF Below
    <3> QED BY <2>11, <2>13, <3>1, FS_AddElement
  <2>15. Cardinality(Below(own, p + 2)) = s.num + 2
    <3>1. p + 1 \notin Below(own, p + 1) BY <2>3 DEF Below
    <3>2. Cardinality(Below(own, p + 2)) = s.num + 1 + 1 BY <2>12, <2>14, <3>1, FS_AddElement
    <3> QED BY <1>4, <3>2
  <2> HIDE DEF r
  <2>16. p \in mine /\ p % 2 = 0 /\ p + 1 \in mine BY <2>6, <2>7
  <2> QED BY <2>10, <2>13, <2>14, <2>15, <2>16 DEF r, own, mine
<1> QED BY <1>5, <1>6

-----------------------------------------------------------------------------
(* _dpu_rm_dsc_alloc_pair: DSC 2k goes with an even pingpong that has as    *)
(* many before it, and 2k + 1 with the one after that.                     *)
LEMMA PairsFit ==
  ASSUME NEW gs, Good(gs), NEW c \in CRTCs, NEW t \in Topologies, HasMixers(gs, c, t),
         t.num_lm > 1
  PROVE  LET scan == DscPairScan(gs, c, t)
             own  == Owned(gs, "pingpong", c)
         IN  \A k \in PairsTaken(gs, c, t) : \E p \in Wired(gs, c) :
               /\ p % 2 = 0 /\ p + 1 \in Wired(gs, c)
               /\ Cardinality(Below(own, p)) = scan[k].num
               /\ Cardinality(Below(own, p + 1)) = scan[k].num + 1
<1> DEFINE scan == DscPairScan(gs, c, t)
           own  == Owned(gs, "pingpong", c)
           InStep(k) == /\ ~scan[k].dead /\ scan[k].pp % 2 = 0
                        /\ Cardinality(Below(own, scan[k].pp)) = scan[k].num
           S == {k \in Nat : k \in 0..DscSlots => InStep(k)}
<1>1. /\ \A k \in 0..DscSlots : scan[k] \in ScanStates
      /\ scan[0] = [pp |-> 0, num |-> 0, dead |-> FALSE]
      /\ \A k \in 0..(DscSlots - 1) : scan[k + 1] = DscPairTurn(gs, c, t, scan[k], k)
  BY PairScan
<1>2. DscSlots \in Nat BY CatalogAssumption
<1>3. own \subseteq Nat BY PingpongsOfMixers
<1> DEFINE s(k) == scan[k]
           r(k) == scan[k + 1]
           Taken(k) == \E p \in Wired(gs, c) :
                         /\ p % 2 = 0 /\ p + 1 \in Wired(gs, c)
                         /\ scan[k + 1] = [pp |-> p + 2, num |-> scan[k].num + 2, dead |-> scan[k].dead]
                         /\ Cardinality(Below(own, p)) = scan[k].num
                         /\ Cardinality(Below(own, p + 1)) = scan[k].num + 1
                         /\ Cardinality(Below(own, p + 2)) = scan[k].num + 2
<1>4. ASSUME NEW k \in Nat, k \in 0..(DscSlots - 1), InStep(k)
      PROVE  scan[k + 1] = scan[k] \/ Taken(k)
  <2>1. scan[k] \in ScanStates /\ scan[k + 1] = DscPairTurn(gs, c, t, scan[k], k)
    BY <1>1, <1>2, <1>4
  <2> HIDE DEF scan
  <2> QED BY <1>4, <2>1, PairTurnFits
<1> HIDE DEF scan
<1>5. 0 \in S
  <2>1. \A y \in own : ~(y < 0) BY <1>3
  <2>2. Below(own, 0) = {} BY <2>1 DEF Below
  <2>3. scan[0].pp = 0 /\ scan[0].num = 0 /\ ~scan[0].dead BY <1>1
  <2>4. InStep(0)
    <3> HIDE DEF own
    <3>1. Cardinality(Below(own, 0)) = 0 BY <2>2, FS_EmptySet
    <3> QED BY <2>3, <3>1
  <2> QED BY <2>4
<1>6. ASSUME NEW k \in Nat, k \in S PROVE k + 1 \in S
  <2> SUFFICES ASSUME k + 1 \in 0..DscSlots PROVE InStep(k + 1) OBVIOUS
  <2>1. k \in 0..(DscSlots - 1) /\ k \in 0..DscSlots BY <1>2
  <2>2. InStep(k) BY <1>6, <2>1
  <2>3. CASE scan[k + 1] = scan[k] BY <2>2, <2>3
  <2>4. CASE Taken(k)
    <3>1. PICK p \in Wired(gs, c) :
            /\ p % 2 = 0
            /\ scan[k + 1] = [pp |-> p + 2, num |-> scan[k].num + 2, dead |-> scan[k].dead]
            /\ Cardinality(Below(own, p + 2)) = scan[k].num + 2
      BY <2>4
    <3>2. p \in Nat BY <1>3 DEF Wired
    <3>3. (p + 2) % 2 = 0 BY <3>1, <3>2
    <3> QED BY <2>2, <3>1, <3>3
  <2> QED BY <1>4, <2>1, <2>2, <2>3, <2>4
<1>7. Nat \subseteq S
  <2> HIDE DEF InStep
  <2> QED BY <1>5, <1>6, InductionOnNat
<1>8. ASSUME NEW k \in PairsTaken(gs, c, t)
      PROVE  \E p \in Wired(gs, c) :
               /\ p % 2 = 0 /\ p + 1 \in Wired(gs, c)
               /\ Cardinality(Below(own, p)) = scan[k].num
               /\ Cardinality(Below(own, p + 1)) = scan[k].num + 1
  <2>1. k \in DscPairs(gs, c) /\ scan[k + 1].num > scan[k].num BY DEF PairsTaken, scan
  <2>2. k \in 0..(DscSlots - 1) /\ k \in Nat /\ k \in 0..DscSlots BY <1>2, <2>1 DEF DscPairs
  <2>3. scan[k].num \in Nat BY <1>1, <2>2 DEF ScanStates
  <2>4. InStep(k) BY <1>7, <2>2
  <2>5. scan[k + 1] # scan[k] BY <2>1, <2>3
  <2>6. Taken(k) BY <1>4, <2>2, <2>4, <2>5
  <2> QED BY <2>6
<1> QED BY <1>8 DEF scan

(* Whichever way they are found, the DSCs fit. *)
LEMMA DscsGiveFits ==
  ASSUME NEW gs, Good(gs), NEW c \in CRTCs, NEW t \in Topologies, HasMixers(gs, c, t),
         Owned(gs, "dsc", c) = {}, ReserveDsc(gs, c, t).ok
  PROVE  DscsFit(ReserveDsc(gs, c, t).gs, c)
<1> DEFINE own == Owned(gs, "pingpong", c)
<1>0. Dscs \subseteq Nat BY CatalogAssumption
<1>1. ASSUME NEW B, B \subseteq Available(gs, "dsc", c),
             ReserveDsc(gs, c, t).gs = Give(gs, "dsc", B, c),
             \A d \in B : \E p \in Wired(gs, c) :
               Cardinality(Below(own, p)) = Cardinality(Below(B, d)) /\ d % 2 = p % 2
      PROVE  DscsFit(ReserveDsc(gs, c, t).gs, c)
  <2> DEFINE hs == Give(gs, "dsc", B, c)
  <2>1. "dsc" \in Kinds /\ "pingpong" \in Kinds /\ c \in Owners BY DEF Kinds, Owners
  <2>2. /\ hs["pingpong"] = gs["pingpong"]
        /\ \A d \in Dscs : hs["dsc"][d] = (IF d \in B THEN c ELSE gs["dsc"][d])
    BY <2>1, GiveStores, BlocksOf DEF Good
  <2> HIDE DEF hs
  <2>3. B \subseteq Dscs BY <1>1, BlocksOf DEF Available
  <2>4. Owned(hs, "dsc", c) = B BY <2>2, <2>3, BlocksOf DEF Owned
  <2>5. Owned(hs, "pingpong", c) = own BY <2>2 DEF Owned
  <2>6. Wired(gs, c) = own \cap Pingpongs BY DEF Wired
  <2>7. DscsFit(hs, c) BY <1>1, <2>4, <2>5, <2>6 DEF DscsFit
  <2> QED BY <1>1, <2>7 DEF hs
<1>2. CASE t.num_dsc = 0
  <2>1. ReserveDsc(gs, c, t).gs = gs BY <1>2 DEF ReserveDsc, Ok
  <2> QED BY <2>1 DEF DscsFit
<1>3. CASE t.num_dsc # 0 /\ ~(t.num_dsc > t.num_intf)
  <2> DEFINE dscs    == Available(gs, "dsc", c)
             Fits(d) == \E p \in own : /\ Cardinality(Below(own, p)) = Cardinality(Below(dscs, d))
                                       /\ d % 2 = p % 2
             chosen  == {d \in First(dscs, t.num_dsc) : \A e \in dscs : e <= d => Fits(e)}
             done    == Give(gs, "dsc", chosen, c)
  <2>1. ReserveDsc(gs, c, t) = (IF Cardinality(chosen) = t.num_dsc THEN Ok(done) ELSE Fail(done))
    BY <1>3 DEF ReserveDsc, DscAlloc, Below
  <2>2. ReserveDsc(gs, c, t).gs = done BY <2>1 DEF Ok, Fail
  <2>3. dscs \subseteq Nat BY <1>0, BlocksOf DEF Available
  <2>4. chosen \subseteq First(dscs, t.num_dsc) /\ First(dscs, t.num_dsc) \subseteq dscs BY DEF First
  <2>5. ASSUME NEW d \in chosen, NEW e \in dscs, e <= d PROVE e \in chosen
    <3>1. d \in Nat /\ e \in Nat /\ d \in dscs BY <2>3, <2>4
    <3>2. Cardinality(Below(dscs, d)) < t.num_dsc BY <2>4 DEF First, Below
    <3>3. Cardinality(Below(dscs, e)) <= Cardinality(Below(dscs, d)) BY <2>3, <2>5, <3>1, BelowGrows
    <3>4. /\ Cardinality(Below(dscs, e)) \in Nat /\ Cardinality(Below(dscs, d)) \in Nat
          /\ t.num_dsc \in Nat
      BY <2>3, <3>1, BelowFinite, TopologyAssumption
    <3>5. Cardinality(Below(dscs, e)) < t.num_dsc BY <3>2, <3>3, <3>4
    <3>6. e \in First(dscs, t.num_dsc) BY <3>5 DEF First, Below
    <3>7. ASSUME NEW f \in dscs, f <= e PROVE Fits(f)
      <4>1. f \in Nat BY <2>3
      <4>2. f <= d BY <2>5, <3>1, <3>7, <4>1
      <4> QED BY <4>2
    <3> QED BY <3>6, <3>7
  <2>6. ASSUME NEW d \in chosen
        PROVE  \E p \in Wired(gs, c) :
                 Cardinality(Below(own, p)) = Cardinality(Below(chosen, d)) /\ d % 2 = p % 2
    <3>1. d \in Nat /\ d \in dscs /\ d <= d BY <2>3, <2>4
    <3>2. Fits(d) BY <3>1
    <3>3. PICK p \in own : Cardinality(Below(own, p)) = Cardinality(Below(dscs, d)) /\ d % 2 = p % 2
      BY <3>2
    <3>4. Below(chosen, d) = Below(dscs, d)
      <4>1. \A e \in dscs : e < d => e \in chosen BY <2>3, <2>5, <3>1
      <4>2. chosen \subseteq dscs BY <2>4
      <4> QED BY <4>1, <4>2 DEF Below
    <3>5. p \in Wired(gs, c)
      <4>1. Cardinality(Below(dscs, d)) < t.num_dsc BY <2>4 DEF First, Below
      <4>2. Cardinality(Below(own, p)) < t.num_dsc BY <3>3, <4>1
      <4> QED BY <4>2, EarlyIsWired
    <3> QED BY <3>3, <3>4, <3>5
  <2> HIDE DEF chosen
  <2> QED BY <1>1, <2>2, <2>4, <2>6
<1>4. CASE t.num_dsc # 0 /\ t.num_dsc > t.num_intf
  <2> DEFINE scan  == DscPairScan(gs, c, t)
             pairs == PairsTaken(gs, c, t)
             dscs  == DscsOf(pairs)
             done  == Give(gs, "dsc", dscs, c)
  <2>1. t.num_dsc \in {2, 4} /\ t.num_lm > 1
    <3>1. t.num_dsc \in {0, 1, 2, 4} /\ t.num_intf \in Nat \ {0} /\ t.num_dsc <= t.num_lm
          /\ t.num_lm \in {1, 2, 4}
      BY TopologyAssumption, DscAssumption
    <3>2. t.num_dsc # 1 BY <1>4, <3>1
    <3>3. t.num_dsc \in {2, 4} BY <1>4, <3>1, <3>2
    <3> QED BY <3>1, <3>3
  <2>2. ReserveDsc(gs, c, t).gs = done
    BY <1>4 DEF ReserveDsc, DscAllocPair, Ok, Fail, PairsTaken, DscsOf
  <2>3. DscSlots \in Nat BY CatalogAssumption
  <2>4. \A k \in 0..DscSlots :
          IsFiniteSet(Below(dscs, 2 * k)) /\ Cardinality(Below(dscs, 2 * k)) = scan[k].num
    BY <2>1, PairsCounted
  <2>5. \A k \in pairs : k \in 0..(DscSlots - 1) /\ {2 * k, 2 * k + 1} \subseteq Available(gs, "dsc", c)
    BY DEF PairsTaken, DscPairs
  <2>6. \A k \in pairs : \E p \in Wired(gs, c) :
          /\ p % 2 = 0 /\ p + 1 \in Wired(gs, c)
          /\ Cardinality(Below(own, p)) = scan[k].num
          /\ Cardinality(Below(own, p + 1)) = scan[k].num + 1
    BY <2>1, PairsFit
  <2>7. \A d : d \in dscs <=> \E k \in pairs : d = 2 * k \/ d = 2 * k + 1 BY DEF DscsOf
  <2>0. Wired(gs, c) \subseteq Nat BY PingpongsOfMixers DEF Wired
  <2> HIDE DEF pairs, scan, own
  <2>8. dscs \subseteq Available(gs, "dsc", c) BY <2>5, <2>7
  <2> HIDE DEF dscs
  <2>9. ASSUME NEW d \in dscs
        PROVE  \E p \in Wired(gs, c) :
                 Cardinality(Below(own, p)) = Cardinality(Below(dscs, d)) /\ d % 2 = p % 2
    <3>1. PICK k \in pairs : d = 2 * k \/ d = 2 * k + 1 BY <2>7
    <3>2. k \in Nat /\ k \in 0..DscSlots BY <2>3, <2>5
    <3>3. PICK p \in Wired(gs, c) :
            /\ p % 2 = 0 /\ p + 1 \in Wired(gs, c)
            /\ Cardinality(Below(own, p)) = scan[k].num
            /\ Cardinality(Below(own, p + 1)) = scan[k].num + 1
      BY <2>6
    <3>4. p \in Nat BY <2>0
    <3>5. IsFiniteSet(Below(dscs, 2 * k)) /\ Cardinality(Below(dscs, 2 * k)) = scan[k].num
      BY <2>4, <3>2
    <3>6. CASE d = 2 * k
      <4>1. d % 2 = p % 2 BY <3>2, <3>3, <3>4, <3>6
      <4> QED BY <3>3, <3>5, <3>6, <4>1
    <3>7. CASE d = 2 * k + 1
      <4>1. d % 2 = (p + 1) % 2 BY <3>2, <3>3, <3>4, <3>7
      <4>2. 2 * k \in dscs BY <2>7
      <4>3. \A e \in dscs : e < d <=> e < 2 * k \/ e = 2 * k
        <5> TAKE e \in dscs
        <5>1. PICK i \in pairs : e = 2 * i \/ e = 2 * i + 1 BY <2>7
        <5>2. i \in Nat BY <2>5
        <5> QED BY <3>2, <3>7, <5>1, <5>2
      <4>4. Below(dscs, d) = Below(dscs, 2 * k) \cup {2 * k} BY <4>2, <4>3 DEF Below
      <4>5. 2 * k \notin Below(dscs, 2 * k) BY <3>2 DEF Below
      <4>6. Cardinality(Below(dscs, d)) = scan[k].num + 1 
        <5> DEFINE old == Below(dscs, 2 * k)
        <5> HIDE DEF old
        <5>1. Below(dscs, d) = old \cup {2 * k} /\ 2 * k \notin old BY <4>4, <4>5 DEF old
        <5>2. IsFiniteSet(old) /\ Cardinality(old) = scan[k].num /\ Cardinality(old) \in Nat
          BY <3>5, FS_CardinalityType DEF old
        <5>3. Cardinality(old \cup {2 * k}) = Cardinality(old) + 1
          <6> DEFINE x == 2 * k
          <6> HIDE DEF x
          <6>1. x \notin old BY <5>1 DEF x
          <6>2. Cardinality(old \cup {x}) = Cardinality(old) + 1 BY <5>2, <6>1, FS_AddElement
          <6> QED BY <6>2 DEF x
        <5> QED BY <5>1, <5>2, <5>3
      <4> QED BY <3>3, <4>1, <4>6
    <3> QED BY <3>1, <3>6, <3>7
  <2> QED BY <1>1, <2>2, <2>8, <2>9
<1> QED BY <1>2, <1>3, <1>4

-----------------------------------------------------------------------------
(* All a CRTC is to have in gs. *)
Holds(gs, c, t, legacy) ==
  /\ HasMixers(gs, c, t) /\ HasCwb(gs, c, t) /\ HasCtls(gs, c, t, legacy)
  /\ HasDscs(gs, c, t) /\ DscsFit(gs, c) /\ HasCdm(gs, c, t)

(* _dpu_rm_make_reservation gives a CRTC that has nothing what it asks for. *)
LEMMA ReservationGives ==
  ASSUME NEW gs, Good(gs), DsppsFollow(gs), NEW c \in CRTCs, NEW t \in Topologies,
         hasLegacyCtls \in BOOLEAN, HasNothing(gs, c), MakeReservation(gs, c, t).ok
  PROVE  LET hs == MakeReservation(gs, c, t).gs
         IN  Holds(hs, c, t, hasLegacyCtls) /\ DsppsFollow(hs)
<1>1. PICK lms, cwb, ctls, dsc, cdm :
        InTurn(gs, c, t, lms, cwb, ctls, dsc, cdm) /\ MakeReservation(gs, c, t) = cdm
  BY PartsInTurn
<1>2. /\ lms.ok /\ lms = ReserveLms(gs, c, t)
      /\ cwb.ok /\ cwb = ReserveCwb(lms.gs, c, t)
      /\ ctls.ok /\ ctls = ReserveCtls(cwb.gs, c, t)
      /\ dsc.ok /\ dsc = ReserveDsc(ctls.gs, c, t)
      /\ cdm.ok /\ cdm = ReserveCdm(dsc.gs, c, t)
  BY <1>1 DEF InTurn
<1> DEFINE g1 == lms.gs
           g2 == cwb.gs
           g3 == ctls.gs
           g4 == dsc.gs
           g5 == cdm.gs
<1>3. /\ \A k \in Kinds \ {"mixer", "pingpong", "dspp"} : g1[k] = gs[k]
      /\ HasMixers(g1, c, t) /\ DsppsFollow(g1)
  BY <1>2, LmsGives
<1>4. Good(g1) BY <1>2, LmsSound DEF Sound
<1>5. Owned(gs, "cwb", c) = {} /\ Owned(gs, "ctl", c) = {} /\ Owned(gs, "dsc", c) = {} /\ Owned(gs, "cdm", c) = {}
  BY DEF HasNothing, Kinds
<1>6. /\ \A k \in Kinds \ {"pingpong", "cwb"} : g2[k] = g1[k]
      /\ HasCwb(g2, c, t)
  <2>1. Owned(g1, "cwb", c) = {} BY <1>3, <1>5 DEF Kinds, Owned
  <2> QED BY <1>2, <1>4, <2>1, CwbGives
<1>7. Good(g2) BY <1>2, <1>4, CwbSound DEF Sound
<1>8. /\ \A k \in Kinds \ {"ctl"} : g3[k] = g2[k]
      /\ HasCtls(g3, c, t, hasLegacyCtls)
  <2>1. Owned(g2, "ctl", c) = {} BY <1>3, <1>5, <1>6 DEF Kinds, Owned
  <2> QED BY <1>2, <1>7, <2>1, CtlsGives
<1>9. Good(g3) BY <1>2, <1>7, CtlsSound DEF Sound
<1>10. /\ \A k \in Kinds \ {"dsc"} : g4[k] = g3[k]
       /\ HasDscs(g4, c, t) /\ DscsFit(g4, c)
  <2>1. Owned(g3, "dsc", c) = {} BY <1>3, <1>5, <1>6, <1>8 DEF Kinds, Owned
  <2>2. HasMixers(g3, c, t)
    <3>1. g3["mixer"] = g1["mixer"] /\ g3["dspp"] = g1["dspp"] BY <1>6, <1>8 DEF Kinds
    <3> QED BY <1>3, <3>1 DEF HasMixers, Owned
  <2>3. ReserveDsc(g3, c, t).ok /\ g4 = ReserveDsc(g3, c, t).gs BY <1>2
  <2> HIDE DEF g3, g4
  <2> QED BY <1>9, <2>1, <2>2, <2>3, DscsGive, DscsGiveFits
<1>11. Good(g4) BY <1>2, <1>9, DscSound DEF Sound
<1>12. /\ \A k \in Kinds \ {"cdm"} : g5[k] = g4[k]
       /\ HasCdm(g5, c, t)
  <2>1. Owned(g4, "cdm", c) = {}
    <3>1. g1["cdm"] = gs["cdm"] /\ g2["cdm"] = g1["cdm"] BY <1>3, <1>6 DEF Kinds
    <3>2. g3["cdm"] = g2["cdm"] /\ g4["cdm"] = g3["cdm"] BY <1>8, <1>10 DEF Kinds
    <3> HIDE DEF g1, g2, g3, g4
    <3> QED BY <1>5, <3>1, <3>2 DEF Owned
  <2>2. ReserveCdm(g4, c, t).ok /\ g5 = ReserveCdm(g4, c, t).gs BY <1>2
  <2> HIDE DEF g4, g5
  <2> QED BY <1>11, <2>1, <2>2, CdmGives
<1> HIDE DEF g1, g2, g3, g4, g5
<1>13. g5["mixer"] = g1["mixer"] /\ g5["dspp"] = g1["dspp"] BY <1>6, <1>8, <1>10, <1>12 DEF Kinds
<1>14. g5["cwb"] = g2["cwb"] /\ g5["ctl"] = g3["ctl"] /\ g5["dsc"] = g4["dsc"]
       /\ g5["pingpong"] = g4["pingpong"]
  BY <1>8, <1>10, <1>12 DEF Kinds
<1>15. HasMixers(g5, c, t) /\ DsppsFollow(g5) BY <1>3, <1>13 DEF HasMixers, DsppsFollow, Owned
<1>16. HasCwb(g5, c, t) BY <1>6, <1>14 DEF HasCwb, SlotsServed, Owned
<1>17. HasCtls(g5, c, t, hasLegacyCtls) BY <1>8, <1>14 DEF HasCtls, Owned
<1>18. HasDscs(g5, c, t) /\ DscsFit(g5, c)
  <2>1. Owned(g5, "dsc", c) = Owned(g4, "dsc", c) /\ Owned(g5, "pingpong", c) = Owned(g4, "pingpong", c)
    BY <1>14 DEF Owned
  <2> QED BY <1>10, <2>1 DEF HasDscs, DscsFit
<1>19. Holds(g5, c, t, hasLegacyCtls) BY <1>12, <1>15, <1>16, <1>17, <1>18 DEF Holds
<1> QED BY <1>1, <1>15, <1>19 DEF g5

-----------------------------------------------------------------------------
(* CRTC d has in hs what it has in gs, but for DSPP_0 that it may lose. *)
SameFor(gs, hs, d) ==
  /\ \A k \in Kinds \ {"dspp"} : Owned(hs, k, d) = Owned(gs, k, d)
  /\ Owned(hs, "dspp", d) \subseteq Owned(gs, "dspp", d)
  /\ Owned(gs, "dspp", d) \ {0} \subseteq Owned(hs, "dspp", d)

LEMMA OthersSame ==
  ASSUME NEW gs, NEW hs, NEW c \in CRTCs, NEW d \in CRTCs \ {c},
         Keeps(gs, hs, c), Gains(gs, hs, c)
  PROVE  SameFor(gs, hs, d)
<1>0. d # c /\ d # Free BY CatalogAssumption
<1>1. ASSUME NEW k \in Kinds, NEW b \in Blocks[k], hs[k][b] = d PROVE gs[k][b] = d
  <2>1. hs[k][b] \in {gs[k][b], c, Free} BY DEF Gains
  <2> QED BY <1>0, <1>1, <2>1
<1>2. ASSUME NEW k \in Kinds, NEW b \in Blocks[k], gs[k][b] = d, <<k, b>> # <<"dspp", 0>>
      PROVE  hs[k][b] = d
  BY <1>0, <1>2 DEF Keeps
<1>3. ASSUME NEW k \in Kinds \ {"dspp"} PROVE Owned(hs, k, d) = Owned(gs, k, d)
  <2>1. \A b : <<k, b>> # <<"dspp", 0>> BY <1>3
  <2> QED BY <1>1, <1>2, <2>1 DEF Owned
<1>4. "dspp" \in Kinds BY DEF Kinds
<1>5. Owned(hs, "dspp", d) \subseteq Owned(gs, "dspp", d) BY <1>1, <1>4 DEF Owned
<1>6. \A b : b # 0 => <<"dspp", b>> # <<"dspp", 0>> OBVIOUS
<1>7. Owned(gs, "dspp", d) \ {0} \subseteq Owned(hs, "dspp", d) BY <1>2, <1>4, <1>6 DEF Owned
<1> QED BY <1>3, <1>5, <1>7 DEF SameFor

LEMMA HeldStays ==
  ASSUME NEW gs, NEW hs, NEW d, NEW t, NEW legacy, SameFor(gs, hs, d)
  PROVE  /\ HasNothing(gs, d) => HasNothing(hs, d)
         /\ Holds(gs, d, t, legacy) => Holds(hs, d, t, legacy)
<1>1. /\ Owned(hs, "mixer", d) = Owned(gs, "mixer", d)
      /\ Owned(hs, "pingpong", d) = Owned(gs, "pingpong", d)
      /\ Owned(hs, "ctl", d) = Owned(gs, "ctl", d) /\ Owned(hs, "dsc", d) = Owned(gs, "dsc", d)
      /\ Owned(hs, "cwb", d) = Owned(gs, "cwb", d) /\ Owned(hs, "cdm", d) = Owned(gs, "cdm", d)
  BY DEF SameFor, Kinds
<1>2. Owned(hs, "dspp", d) \ {0} = Owned(gs, "dspp", d) \ {0} BY DEF SameFor
<1>3. HasNothing(gs, d) => HasNothing(hs, d)
  <2> SUFFICES ASSUME HasNothing(gs, d), NEW k \in Kinds PROVE Owned(hs, k, d) = {}
    BY DEF HasNothing
  <2>1. Owned(gs, k, d) = {} BY DEF HasNothing
  <2>2. CASE k = "dspp" BY <2>1, <2>2 DEF SameFor
  <2>3. CASE k # "dspp" BY <2>1, <2>3 DEF SameFor
  <2> QED BY <2>2, <2>3
<1>4. ASSUME Holds(gs, d, t, legacy) PROVE Holds(hs, d, t, legacy)
  <2>1. HasMixers(hs, d, t) BY <1>1, <1>2, <1>4 DEF Holds, HasMixers
  <2>2. HasCwb(hs, d, t) BY <1>1, <1>4 DEF Holds, HasCwb, SlotsServed
  <2>3. HasCtls(hs, d, t, legacy) BY <1>1, <1>4 DEF Holds, HasCtls
  <2>4. HasDscs(hs, d, t) /\ DscsFit(hs, d) BY <1>1, <1>4 DEF Holds, HasDscs, DscsFit
  <2>5. HasCdm(hs, d, t) BY <1>1, <1>4 DEF Holds, HasCdm
  <2> QED BY <2>1, <2>2, <2>3, <2>4, <2>5 DEF Holds
<1> QED BY <1>3, <1>4

(* dpu_rm_release leaves nothing, and takes only from its own CRTC. *)
LEMMA ReleaseGives ==
  ASSUME NEW gs, Good(gs), DsppsFollow(gs), NEW c \in CRTCs
  PROVE  LET hs == Release(gs, c)
         IN  HasNothing(hs, c) /\ DsppsFollow(hs) /\ Gains(gs, hs, c)
<1> DEFINE hs == Release(gs, c)
<1>1. \A k \in Kinds : \A b \in Blocks[k] : hs[k][b] = (IF gs[k][b] = c THEN Free ELSE gs[k][b])
  BY DEF Release
<1> HIDE DEF hs
<1>2. c # Free BY CatalogAssumption
<1>3. HasNothing(hs, c) BY <1>1, <1>2 DEF HasNothing, Owned
<1>4. Gains(gs, hs, c) BY <1>1 DEF Gains
<1>5. DsppsFollow(hs)
  <2> SUFFICES ASSUME NEW m \in Mixers, DsppOf[m] \in Dspps
               PROVE  hs["dspp"][DsppOf[m]] \in {Free, hs["mixer"][m]}
    BY DEF DsppsFollow
  <2>1. "mixer" \in Kinds /\ "dspp" \in Kinds /\ DsppOf[m] \in Blocks["dspp"] /\ m \in Blocks["mixer"]
    BY BlocksOf DEF Kinds
  <2>2. gs["dspp"][DsppOf[m]] \in {Free, gs["mixer"][m]} BY DEF DsppsFollow
  <2>3. /\ hs["dspp"][DsppOf[m]] = (IF gs["dspp"][DsppOf[m]] = c THEN Free ELSE gs["dspp"][DsppOf[m]])
        /\ hs["mixer"][m] = (IF gs["mixer"][m] = c THEN Free ELSE gs["mixer"][m])
    BY <1>1, <2>1
  <2> QED BY <2>2, <2>3
<1> QED BY <1>3, <1>4, <1>5 DEF hs

-----------------------------------------------------------------------------
(* Every CRTC has what it was given blocks for. *)
Assigned(gs, top, legacy) ==
  \A c \in CRTCs : IF top[c] = NoTopology THEN HasNothing(gs, c) ELSE Holds(gs, c, top[c], legacy)

(* The inductive invariant: the types; the wiring that reserving CWB        *)
(* pingpongs by their muxes and DSCs by pingpongs relies on; and, of the   *)
(* state in force and of a draft no reservation failed in, that each CRTC  *)
(* has what it was given blocks for.                                       *)
IInv ==
  /\ TypeOK /\ ChainsAreWhole
  /\ Assigned(committed, topology, hasLegacyCtls) /\ DsppsFollow(committed)
  /\ phase = "checking" => Assigned(draft, draftTopology, hasLegacyCtls) /\ DsppsFollow(draft)

LEMMA InitHolds == Init => IInv
<1> SUFFICES ASSUME Init PROVE IInv OBVIOUS
<1>1. TypeOK /\ ChainsAreWhole
  BY BlocksOf, CatalogAssumption
     DEF Init, TypeOK, ChainsAreWhole, IsGlobalState, WiredTogether, Owners, Kinds
<1>2. \A k \in Kinds : \A b \in Blocks[k] : committed[k][b] = Free BY DEF Init
<1>3. ASSUME NEW c \in CRTCs PROVE HasNothing(committed, c) /\ topology[c] = NoTopology
  BY <1>2, CatalogAssumption DEF HasNothing, Owned, Init
<1>4. Assigned(committed, topology, hasLegacyCtls) BY <1>3 DEF Assigned
<1>5. DsppsFollow(committed) BY <1>2, BlocksOf DEF DsppsFollow, Kinds
<1>6. phase # "checking" BY DEF Init
<1> QED BY <1>1, <1>4, <1>5, <1>6 DEF IInv

(* The actions that work on the draft replace it by a good state. *)
LEMMA DraftStep ==
  ASSUME IInv, NEW c \in CRTCs, ReleaseCrtc(c) \/ ReserveCrtc(c)
  PROVE  Good(draft') /\ Keeps(draft, draft', c)
<1>1. Good(draft) BY DEF IInv, TypeOK, ChainsAreWhole, Good
<1>2. CASE ReleaseCrtc(c) BY <1>1, <1>2, ReleaseSound DEF ReleaseCrtc
<1>3. CASE ReserveCrtc(c)
  <2>1. PICK t \in Topologies : draft' = MakeReservation(draft, c, t).gs
    BY <1>3 DEF ReserveCrtc
  <2> QED BY <1>1, <2>1, ReservationSound DEF Sound
<1> QED BY <1>2, <1>3

(* A CRTC that changes leaves the others with what they had. *)
LEMMA AssignedStep ==
  ASSUME NEW gs, NEW hs, NEW top, NEW c \in CRTCs, NEW x, NEW legacy,
         top \in [CRTCs -> Topologies \cup {NoTopology}],
         Assigned(gs, top, legacy), Keeps(gs, hs, c), Gains(gs, hs, c),
         IF x = NoTopology THEN HasNothing(hs, c) ELSE Holds(hs, c, x, legacy)
  PROVE  Assigned(hs, [top EXCEPT ![c] = x], legacy)
<1> DEFINE new == [top EXCEPT ![c] = x]
<1>1. new[c] = x /\ \A d \in CRTCs \ {c} : new[d] = top[d] OBVIOUS
<1> HIDE DEF new
<1>2. ASSUME NEW d \in CRTCs
      PROVE  IF new[d] = NoTopology THEN HasNothing(hs, d) ELSE Holds(hs, d, new[d], legacy)
  <2>1. CASE d = c BY <1>1, <2>1
  <2>2. CASE d # c
    <3>1. SameFor(gs, hs, d) BY <2>2, OthersSame
    <3>2. IF top[d] = NoTopology THEN HasNothing(gs, d) ELSE Holds(gs, d, top[d], legacy)
      BY DEF Assigned
    <3>3. new[d] = top[d] BY <1>1, <2>2
    <3> QED BY <3>1, <3>2, <3>3, HeldStays
  <2> QED BY <2>1, <2>2
<1> QED BY <1>2 DEF Assigned, new

LEMMA StepKeepsInvariant == IInv /\ [Next]_vars => IInv'
<1> SUFFICES ASSUME IInv, [Next]_vars PROVE IInv'
  OBVIOUS
<1>1. Good(draft) /\ Good(committed) BY DEF IInv, TypeOK, ChainsAreWhole, Good
<1>2. ASSUME Good(draft'), Good(committed'), hasLegacyCtls' = hasLegacyCtls,
             topology' \in [CRTCs -> Topologies \cup {NoTopology}],
             draftTopology' \in [CRTCs -> Topologies \cup {NoTopology}],
             phase' \in {"idle", "checking", "failed"}, released' \subseteq CRTCs
      PROVE  (TypeOK /\ ChainsAreWhole)'
  BY <1>2 DEF IInv, TypeOK, ChainsAreWhole, Good, IsGlobalState, WiredTogether
<1>3. /\ TypeOK
      /\ Assigned(committed, topology, hasLegacyCtls) /\ DsppsFollow(committed)
      /\ phase = "checking" => Assigned(draft, draftTopology, hasLegacyCtls) /\ DsppsFollow(draft)
  BY DEF IInv
<1>4. CASE BeginCheck
  <2>1. (TypeOK /\ ChainsAreWhole)' BY <1>1, <1>2, <1>3, <1>4 DEF BeginCheck, TypeOK
  <2>2. /\ draft' = committed /\ committed' = committed /\ topology' = topology
        /\ draftTopology' = topology /\ hasLegacyCtls' = hasLegacyCtls
    BY <1>4 DEF BeginCheck
  <2>3. /\ Assigned(committed, topology, hasLegacyCtls)' /\ DsppsFollow(committed)'
        /\ Assigned(draft, draftTopology, hasLegacyCtls)' /\ DsppsFollow(draft)'
    BY <1>3, <2>2
  <2> QED BY <2>1, <2>3 DEF IInv
<1>5. CASE Commit
  <2>1. (TypeOK /\ ChainsAreWhole)' BY <1>1, <1>2, <1>3, <1>5 DEF Commit, TypeOK
  <2>2. /\ committed' = draft /\ topology' = draftTopology /\ hasLegacyCtls' = hasLegacyCtls
        /\ phase = "checking" /\ phase' # "checking"
    BY <1>5 DEF Commit
  <2>3. Assigned(committed, topology, hasLegacyCtls)' /\ DsppsFollow(committed)'
    BY <1>3, <2>2
  <2> QED BY <2>1, <2>2, <2>3 DEF IInv
<1>6. CASE Discard
  <2>1. (TypeOK /\ ChainsAreWhole)' BY <1>1, <1>2, <1>3, <1>6 DEF Discard, TypeOK
  <2>2. /\ committed' = committed /\ topology' = topology /\ hasLegacyCtls' = hasLegacyCtls
        /\ phase' # "checking"
    BY <1>6 DEF Discard
  <2>3. Assigned(committed, topology, hasLegacyCtls)' /\ DsppsFollow(committed)'
    BY <1>3, <2>2
  <2> QED BY <2>1, <2>2, <2>3 DEF IInv
<1>7. ASSUME NEW c \in CRTCs, ReleaseCrtc(c) PROVE IInv'
  <2>1. Good(draft') /\ Keeps(draft, draft', c) BY <1>7, DraftStep
  <2>2. /\ UNCHANGED <<hasLegacyCtls, committed, topology, phase>> /\ phase = "checking"
        /\ draft' = Release(draft, c) /\ draftTopology' = [draftTopology EXCEPT ![c] = NoTopology]
        /\ released' = released \cup {c}
    BY <1>7 DEF ReleaseCrtc
  <2>3. /\ released' \subseteq CRTCs
        /\ draftTopology' \in [CRTCs -> Topologies \cup {NoTopology}]
    BY <1>3, <2>2 DEF TypeOK
  <2>4. (TypeOK /\ ChainsAreWhole)' BY <2>1, <2>2, <2>3, <1>1, <1>2, <1>3 DEF TypeOK
  <2>5. Assigned(committed, topology, hasLegacyCtls)' /\ DsppsFollow(committed)'
    BY <1>3, <2>2
  <2>6. HasNothing(draft', c) /\ DsppsFollow(draft') /\ Gains(draft, draft', c)
    BY <1>1, <1>3, <2>2, ReleaseGives
  <2>7. draftTopology \in [CRTCs -> Topologies \cup {NoTopology}] BY <1>3 DEF TypeOK
  <2>8. Assigned(draft, draftTopology, hasLegacyCtls) BY <1>3, <2>2
  <2>9. Assigned(draft', draftTopology', hasLegacyCtls)
    BY <2>1, <2>2, <2>6, <2>7, <2>8, AssignedStep
  <2> QED BY <2>2, <2>4, <2>5, <2>6, <2>9 DEF IInv
<1>8. ASSUME NEW c \in CRTCs, ReserveCrtc(c) PROVE IInv'
  <2>1. Good(draft') /\ Keeps(draft, draft', c) BY <1>8, DraftStep
  <2>2. UNCHANGED <<hasLegacyCtls, committed, topology, released>> /\ phase = "checking"
        /\ draftTopology[c] = NoTopology
    BY <1>8 DEF ReserveCrtc
  <2>3. PICK t \in Topologies :
          /\ draft' = MakeReservation(draft, c, t).gs
          /\ IF MakeReservation(draft, c, t).ok
             THEN draftTopology' = [draftTopology EXCEPT ![c] = t] /\ UNCHANGED phase
             ELSE phase' = "failed" /\ UNCHANGED draftTopology
    BY <1>8 DEF ReserveCrtc
  <2>4. (TypeOK /\ ChainsAreWhole)'
    <3>1. phase' \in {"idle", "checking", "failed"} BY <2>2, <2>3
    <3>2. draftTopology' \in [CRTCs -> Topologies \cup {NoTopology}] BY <1>3, <2>3 DEF TypeOK
    <3> QED BY <2>1, <2>2, <3>1, <3>2, <1>1, <1>2, <1>3 DEF TypeOK
  <2>5. Assigned(committed, topology, hasLegacyCtls)' /\ DsppsFollow(committed)'
    BY <1>3, <2>2
  <2>6. CASE ~MakeReservation(draft, c, t).ok
    <3>1. phase' # "checking" BY <2>3, <2>6
    <3> QED BY <2>4, <2>5, <3>1 DEF IInv
  <2>7. CASE MakeReservation(draft, c, t).ok
    <3>1. draftTopology' = [draftTopology EXCEPT ![c] = t] BY <2>3, <2>7
    <3>2. Assigned(draft, draftTopology, hasLegacyCtls) /\ DsppsFollow(draft) BY <1>3, <2>2
    <3>3. HasNothing(draft, c) BY <2>2, <3>2 DEF Assigned
    <3>4. hasLegacyCtls \in BOOLEAN /\ draftTopology \in [CRTCs -> Topologies \cup {NoTopology}]
      BY <1>3 DEF TypeOK
    <3>5. Holds(draft', c, t, hasLegacyCtls) /\ DsppsFollow(draft')
      BY <1>1, <2>3, <2>7, <3>2, <3>3, <3>4, ReservationGives
    <3>6. Gains(draft, draft', c) BY <1>1, <2>3, ReservationGains DEF Good
    <3>7. t # NoTopology BY CatalogAssumption
    <3>8. Assigned(draft', draftTopology', hasLegacyCtls)
      BY <2>1, <3>1, <3>2, <3>4, <3>5, <3>6, <3>7, AssignedStep
    <3> QED BY <2>2, <2>4, <2>5, <3>5, <3>8 DEF IInv
  <2> QED BY <2>6, <2>7
<1>9. CASE UNCHANGED vars
  <2>1. UNCHANGED <<hasLegacyCtls, committed, draft, topology, draftTopology, phase, released>>
    BY <1>9 DEF vars
  <2>2. (TypeOK /\ ChainsAreWhole)' BY <1>1, <1>2, <1>3, <2>1 DEF TypeOK
  <2> QED BY <1>3, <2>1, <2>2 DEF IInv
<1> QED BY <1>4, <1>5, <1>6, <1>7, <1>8, <1>9 DEF Next

LEMMA Invariance == Spec => []IInv
BY InitHolds, StepKeepsInvariant, PTL DEF Spec

-----------------------------------------------------------------------------
(* Every map of the global state names an owner for each block, in whatever *)
(* order checks release and reserve and however they end.                  *)
THEOREM ResourcesTyped == Spec => []TypeOK
<1>1. IInv => TypeOK BY DEF IInv
<1> QED BY <1>1, Invariance, PTL

(* A mixer and its pingpong, a CWB mux and its pingpong always have the     *)
(* same owner, for every catalogue and any number of CRTCs, even in the    *)
(* draft a failed reservation leaves behind.                               *)
THEOREM ChainsStayWhole == Spec => []ChainsAreWhole
<1>1. IInv => ChainsAreWhole BY DEF IInv
<1> QED BY <1>1, Invariance, PTL

(* dpu_rm_reserve and dpu_rm_release for one CRTC take no block from        *)
(* another, but for DSPP_0.                                                *)
THEOREM NothingIsStolen == Spec => OthersKept
<1>1. IInv /\ [Next]_vars =>
        [\A c \in CRTCs : ReserveCrtc(c) \/ ReleaseCrtc(c) =>
           \A k \in Kinds : \A b \in Blocks[k] :
             draft[k][b] \notin {Free, c} /\ <<k, b>> # <<"dspp", 0>> => draft'[k][b] = draft[k][b]]_vars
  BY DraftStep DEF Keeps
<1> QED BY <1>1, Invariance, PTL DEF Spec, OthersKept

(* After any sequence of checks, kept, thrown away or failed half-way, a    *)
(* CRTC that is on owns as many blocks of each kind as its display asked   *)
(* for, its mixers in pairs, and one that is off owns none: for every      *)
(* catalogue and any number of CRTCs.                                      *)
THEOREM OwnershipIsExact == Spec => []ReservedExactly
<1>1. ASSUME IInv PROVE ReservedExactly
  <2> SUFFICES ASSUME NEW c \in CRTCs
               PROVE  IF topology[c] = NoTopology THEN \A k \in Kinds : Owned(committed, k, c) = {}
                      ELSE OwnsExactly(committed, c, topology[c])
    BY DEF ReservedExactly
  <2>1. IF topology[c] = NoTopology THEN HasNothing(committed, c)
        ELSE Holds(committed, c, topology[c], hasLegacyCtls)
    BY <1>1 DEF IInv, Assigned
  <2>2. CASE topology[c] = NoTopology BY <2>1, <2>2 DEF HasNothing
  <2>3. CASE topology[c] # NoTopology
    <3> DEFINE t == topology[c]
    <3>1. t \in Topologies BY <1>1, <2>3 DEF IInv, TypeOK
    <3>2. Holds(committed, c, t, hasLegacyCtls) BY <2>1, <2>3
    <3> HIDE DEF t
    <3>3. /\ HasMixers(committed, c, t) /\ HasCwb(committed, c, t)
          /\ HasCtls(committed, c, t, hasLegacyCtls)
          /\ HasDscs(committed, c, t) /\ HasCdm(committed, c, t)
      BY <3>2 DEF Holds
    <3>4. (Owned(committed, "cwb", c) # {}) = t.cwb_enabled
      <4>1. CASE t.cwb_enabled
        <5>1. Cardinality(SlotsServed(committed, c)) >= t.num_lm BY <3>3, <4>1 DEF HasCwb
        <5>2. t.num_lm \in {1, 2, 4} BY <3>1, TopologyAssumption
        <5>3. SlotsServed(committed, c) # {} BY <5>1, <5>2, FS_EmptySet
        <5>4. Owned(committed, "cwb", c) # {} BY <5>3 DEF SlotsServed
        <5>5. t.cwb_enabled \in BOOLEAN BY <3>1, TopologyAssumption
        <5> QED BY <4>1, <5>4, <5>5
      <4>2. CASE ~t.cwb_enabled
        <5>1. t.cwb_enabled \in BOOLEAN BY <3>1, TopologyAssumption
        <5>2. Owned(committed, "cwb", c) = {} BY <3>3, <4>2 DEF HasCwb
        <5> QED BY <4>2, <5>1, <5>2
      <4> QED BY <4>1, <4>2
    <3>5. OwnsExactly(committed, c, t)
      BY <3>3, <3>4 DEF OwnsExactly, HasMixers, HasCtls, HasDscs, HasCdm, NumCtls
    <3> QED BY <2>3, <3>5 DEF t
  <2> QED BY <2>2, <2>3
<1> QED BY <1>1, Invariance, PTL

(* Even DSCs go with even pingpongs and odd ones with odd ones, one by one, *)
(* whichever of the two loops handed them out and whatever else is taken.  *)
THEOREM DscsFollowPingpongs == Spec => []DscFitsPingpong
<1>1. ASSUME IInv PROVE DscFitsPingpong
  <2> SUFFICES ASSUME NEW c \in CRTCs PROVE DscsFit(committed, c)
    BY DEF DscFitsPingpong, DscsFit, Below
  <2>1. IF topology[c] = NoTopology THEN HasNothing(committed, c)
        ELSE Holds(committed, c, topology[c], hasLegacyCtls)
    BY <1>1 DEF IInv, Assigned
  <2>2. CASE topology[c] = NoTopology BY <2>1, <2>2 DEF HasNothing, DscsFit, Kinds
  <2>3. CASE topology[c] # NoTopology BY <2>1, <2>3 DEF Holds
  <2> QED BY <2>2, <2>3
<1> QED BY <1>1, Invariance, PTL

-----------------------------------------------------------------------------
(* Mixers that come before their peers, and these, are twice as many. *)
LEMMA PeersDouble ==
  ASSUME NEW L, IsFiniteSet(L), \A m \in L : m \in Mixers /\ Peer[m] \in Mixers /\ Peer[m] > m
  PROVE  LET both == L \cup {Peer[m] : m \in L}
         IN  IsFiniteSet(both) /\ Cardinality(L) \in Nat /\ Cardinality(both) = 2 * Cardinality(L)
<1> DEFINE peer  == [m \in L |-> Peer[m]]
           upper == {peer[m] : m \in L}
<1>0. Mixers \subseteq Nat BY CatalogAssumption
<1>1. \A m \in L : Peer[Peer[m]] = m BY CatalogAssumption
<1>2. \A m, n \in L : peer[m] = peer[n] => m = n BY <1>1
<1>3. \A m \in L : m \notin upper
  <2> SUFFICES ASSUME NEW m \in L, NEW n \in L, m = Peer[n] PROVE FALSE
    OBVIOUS
  <2>1. Peer[m] = n /\ Peer[m] > m /\ Peer[n] > n /\ m \in Nat /\ n \in Nat BY <1>0, <1>1
  <2> QED BY <2>1
<1>4. {Peer[m] : m \in L} = upper OBVIOUS
<1>5. IsFiniteSet(upper) /\ Cardinality(upper) = Cardinality(L)
  <2> HIDE DEF peer
  <2> QED BY <1>2, ImageFinite
<1> HIDE DEF upper
<1>6. Cardinality(L) \in Nat BY FS_CardinalityType
<1>7. L \cap upper = {} BY <1>3
<1>8. IsFiniteSet(L \cup upper) BY <1>5, FS_Union
<1>9. Cardinality(L \cup upper) = Cardinality(L) + Cardinality(upper)
  <2>1. Cardinality(L \cup upper) = Cardinality(L) + Cardinality(upper) - Cardinality(L \cap upper)
    BY <1>5, FS_Union
  <2>2. Cardinality(L \cap upper) = 0 BY <1>7, FS_EmptySet
  <2> QED BY <1>5, <1>6, <2>1, <2>2
<1>10. Cardinality(L \cup upper) = 2 * Cardinality(L) BY <1>5, <1>6, <1>9
<1>11. L \cup {Peer[m] : m \in L} = L \cup upper BY <1>4
<1> QED BY <1>6, <1>8, <1>10, <1>11

(* When the mixers a CRTC had, in pairs, can be had, as many are chosen. *)
LEMMA ChosenSuffice ==
  ASSUME NEW gs, NEW c, NEW t \in Topologies, NEW had, had \subseteq UsableMixers(gs, c, t),
         IsFiniteSet(had), Cardinality(had) = t.num_lm,
         t.num_lm > 1 => \A m \in had : Peer[m] \in had
  PROVE  Cardinality(ChosenMixers(gs, c, t)) = t.num_lm
<1> DEFINE usable == UsableMixers(gs, c, t)
           low    == {m \in usable : Peer[m] \in usable /\ Peer[m] > m}
           half   == t.num_lm \div 2
           lower  == First(low, half)
           upper  == {Peer[m] : m \in lower}
<1>1. usable \subseteq Mixers /\ Mixers \subseteq Nat BY CatalogAssumption DEF UsableMixers
<1>2. t.num_lm \in {1, 2, 4} BY TopologyAssumption
<1>3. half \in Nat /\ (t.num_lm # 1 => 2 * half = t.num_lm) BY <1>2
<1>4. CASE t.num_lm = 1
  <2>1. ChosenMixers(gs, c, t) = First(usable, 1) BY <1>4 DEF ChosenMixers
  <2> HIDE DEF usable
  <2>2. usable \subseteq Nat /\ had \subseteq usable BY <1>1 DEF usable
  <2>3. Cardinality(had) >= 1 BY <1>4
  <2>4. Cardinality(First(usable, 1)) = 1 BY <2>2, <2>3, FirstFinds
  <2> QED BY <2>1, <2>4, <1>4
<1>5. CASE t.num_lm # 1
  <2>1. ChosenMixers(gs, c, t) = lower \cup upper BY <1>5 DEF ChosenMixers
  <2> DEFINE T == {m \in had : Peer[m] > m}
  <2>2. \A m \in had : m \in usable /\ m \in Mixers /\ Peer[m] \in had BY <1>1, <1>2, <1>5
  <2> HIDE DEF usable, half
  <2>3. T \subseteq low /\ \A m \in T : m \in Mixers /\ Peer[m] \in Mixers /\ Peer[m] > m BY <2>2
  <2>4. low \subseteq Nat /\ \A m \in low : m \in Mixers /\ Peer[m] \in Mixers /\ Peer[m] > m BY <1>1
  <2>5. IsFiniteSet(T)
    <3>1. T \in SUBSET had OBVIOUS
    <3> QED BY <3>1, FS_Subset
  <2>6. had = T \cup {Peer[m] : m \in T}
    <3>1. ASSUME NEW m \in had PROVE m \in T \/ m \in {Peer[n] : n \in T}
      <4>1. /\ m \in Nat /\ Peer[m] \in Nat /\ Peer[m] # m /\ Peer[Peer[m]] = m
            /\ Peer[m] \in had
        BY <1>1, <2>2, CatalogAssumption
      <4>2. CASE Peer[m] > m BY <4>2
      <4>3. CASE m > Peer[m] BY <4>1, <4>3
      <4> QED BY <4>1, <4>2, <4>3
    <3> QED BY <3>1, <2>2
  <2> HIDE DEF T, low
  <2>7. Cardinality(T) \in Nat /\ Cardinality(had) = 2 * Cardinality(T)
    BY <2>3, <2>5, <2>6, PeersDouble
  <2>8. Cardinality(T) >= half BY <1>3, <1>5, <2>7
  <2>9. Cardinality(lower) = half BY <1>3, <2>3, <2>4, <2>5, <2>8, FirstFinds
  <2>10. lower \subseteq low /\ IsFiniteSet(lower) BY <1>3, <2>4, FirstCounts
  <2> HIDE DEF lower
  <2>11. \A m \in lower : m \in Mixers /\ Peer[m] \in Mixers /\ Peer[m] > m BY <2>4, <2>10
  <2>12. Cardinality(lower \cup upper) = 2 * Cardinality(lower) BY <2>10, <2>11, PeersDouble
  <2> QED BY <1>3, <1>5, <2>1, <2>9, <2>12
<1> QED BY <1>4, <1>5

(* What a CRTC that holds what t asks for gives back is enough for t. *)
LEMMA LmsAgain ==
  ASSUME NEW gs, Good(gs), DsppsFollow(gs), NEW c \in CRTCs, NEW t \in Topologies, HasMixers(gs, c, t)
  PROVE  ReserveLms(Release(gs, c), c, t).ok
<1> DEFINE hs  == Release(gs, c)
           lms == Owned(gs, "mixer", c)
<1>1. "mixer" \in Kinds /\ "pingpong" \in Kinds /\ "dspp" \in Kinds /\ c # Free
  BY CatalogAssumption DEF Kinds
<1>2. \A k \in Kinds : \A b \in Blocks[k] : gs[k][b] \in {Free, c} => hs[k][b] = Free
  BY DEF Release
<1> HIDE DEF hs
<1>3. ASSUME NEW m \in lms PROVE m \in UsableMixers(hs, c, t)
  <2>1. m \in Mixers /\ m \in Blocks["mixer"] /\ gs["mixer"][m] = c BY BlocksOf DEF Owned
  <2>2. PingpongOf[m] \in Pingpongs /\ gs["pingpong"][PingpongOf[m]] = c
    BY <1>1, <2>1 DEF Good, WiredTogether
  <2>3. t.num_dspp > 0 => DsppOf[m] \in Dspps /\ gs["dspp"][DsppOf[m]] \in {Free, c}
    BY <2>1 DEF HasMixers, DsppsFollow
  <2>4. hs["mixer"][m] = Free BY <1>1, <1>2, <2>1
  <2>5. PingpongOf[m] \in Blocks["pingpong"] /\ hs["pingpong"][PingpongOf[m]] = Free
    BY <1>1, <1>2, <2>2, BlocksOf
  <2>6. t.num_dspp > 0 => DsppOf[m] \in Dspps /\ DsppOf[m] \in Blocks["dspp"] /\ hs["dspp"][DsppOf[m]] = Free
    BY <1>1, <1>2, <2>3, BlocksOf
  <2> QED BY <2>1, <2>2, <2>4, <2>5, <2>6 DEF UsableMixers, Available
<1>4. /\ IsFiniteSet(lms) /\ Cardinality(lms) = t.num_lm
      /\ t.num_lm > 1 => \A m \in lms : Peer[m] \in lms
  BY DEF HasMixers
<1>5. lms \subseteq UsableMixers(hs, c, t) BY <1>3
<1> HIDE DEF lms
<1>6. Cardinality(ChosenMixers(hs, c, t)) = t.num_lm BY <1>4, <1>5, ChosenSuffice
<1>7. ReserveLms(hs, c, t).ok BY <1>6 DEF ReserveLms, Ok
<1> QED BY <1>7 DEF hs

LEMMA CwbAgain ==
  ASSUME NEW gs, NEW c \in CRTCs, NEW t \in Topologies, HasCwb(gs, c, t),
         NEW hs, hs["cwb"] = Release(gs, c)["cwb"]
  PROVE  ReserveCwb(hs, c, t).ok
<1> DEFINE muxes(i) == {j \in Available(hs, "cwb", c) : j % 2 = i % 2}
           slots    == {i \in 0..(MixerSlots - 1) : muxes(i) # {}}
           served   == SlotsServed(gs, c)
<1>1. CASE ~t.cwb_enabled BY <1>1 DEF ReserveCwb, Ok
<1>2. CASE t.cwb_enabled
  <2>1. Cardinality(served) >= t.num_lm BY <1>2 DEF HasCwb
  <2>2. \A j \in Owned(gs, "cwb", c) : j \in Available(hs, "cwb", c)
    BY BlocksOf DEF Owned, Available, Release, Kinds
  <2>3. served \subseteq slots BY <2>2 DEF SlotsServed
  <2>4. slots \subseteq Nat OBVIOUS
  <2>5. IsFiniteSet(served)
    <3>1. IsFiniteSet(0..(MixerSlots - 1)) BY CatalogAssumption, FS_Interval
    <3>2. served \in SUBSET (0..(MixerSlots - 1)) BY DEF SlotsServed
    <3> QED BY <3>1, <3>2, FS_Subset
  <2>6. t.num_lm \in Nat BY TopologyAssumption
  <2>7. Cardinality(First(slots, t.num_lm)) = t.num_lm
    <3> HIDE DEF slots, served
    <3> QED BY <2>1, <2>3, <2>4, <2>5, <2>6, FirstFinds
  <2> QED BY <1>2, <2>7 DEF ReserveCwb, Ok
<1> QED BY <1>1, <1>2

LEMMA CtlsAgain ==
  ASSUME NEW gs, NEW c \in CRTCs, NEW t \in Topologies, hasLegacyCtls \in BOOLEAN,
         HasCtls(gs, c, t, hasLegacyCtls), NEW hs, hs["ctl"] = Release(gs, c)["ctl"]
  PROVE  ReserveCtls(hs, c, t).ok
<1> DEFINE split == hasLegacyCtls /\ t.num_intf > 1
           fit   == {j \in Available(hs, "ctl", c) : (j \in SplitCtls) = split}
           ctls  == Owned(gs, "ctl", c)
<1>1. IsFiniteSet(ctls) /\ Cardinality(ctls) = NumCtls(t) /\ \A j \in ctls : (j \in SplitCtls) = split
  BY DEF HasCtls, NumCtls
<1>2. \A j \in ctls : j \in Available(hs, "ctl", c)
  BY BlocksOf DEF Owned, Available, Release, Kinds
<1>3. fit \subseteq Nat BY BlocksOf, CatalogAssumption DEF Available
<1>4. ctls \subseteq fit BY <1>1, <1>2
<1>5. NumCtls(t) \in Nat /\ Cardinality(ctls) >= NumCtls(t)
  <2>1. NumCtls(t) \in Nat BY TopologyAssumption DEF NumCtls
  <2> QED BY <1>1, <2>1
<1>6. Cardinality(First(fit, NumCtls(t))) = NumCtls(t)
  <2> HIDE DEF fit, ctls
  <2> QED BY <1>1, <1>3, <1>4, <1>5, FirstFinds
<1> QED BY <1>6 DEF ReserveCtls, Ok

LEMMA CdmAgain ==
  ASSUME NEW gs, NEW c \in CRTCs, NEW t \in Topologies, HasCdm(gs, c, t),
         NEW hs, hs["cdm"] = Release(gs, c)["cdm"]
  PROVE  ReserveCdm(hs, c, t).ok
<1>1. CASE t.num_cdm = 0 BY <1>1 DEF ReserveCdm, Ok
<1>2. CASE t.num_cdm # 0
  <2>1. t.num_cdm \in Nat BY TopologyAssumption
  <2>2. Cdms = {0} /\ Cardinality(Owned(gs, "cdm", c)) = t.num_cdm BY <1>2, <2>1 DEF HasCdm
  <2>3. Owned(gs, "cdm", c) = {} \/ Owned(gs, "cdm", c) = {0} BY BlocksOf DEF Owned
  <2>4. Owned(gs, "cdm", c) = {0} /\ t.num_cdm = 1
    BY <1>2, <2>2, <2>3, FS_EmptySet, FS_Singleton
  <2>5. gs["cdm"][0] = c BY <2>4 DEF Owned
  <2>6. hs["cdm"][0] = Free BY <2>5, BlocksOf DEF Release, Kinds
  <2> QED BY <2>2, <2>4, <2>6 DEF ReserveCdm, Ok
<1> QED BY <1>1, <1>2

LEMMA ReservedAgain ==
  ASSUME NEW gs, Good(gs), DsppsFollow(gs), NEW c \in CRTCs, NEW t \in Topologies,
         hasLegacyCtls \in BOOLEAN, Holds(gs, c, t, hasLegacyCtls), t.num_dsc = 0
  PROVE  MakeReservation(Release(gs, c), c, t).ok
<1> DEFINE hs == Release(gs, c)
<1>1. Good(hs) /\ DsppsFollow(hs) /\ HasNothing(hs, c) BY ReleaseSound, ReleaseGives
<1>2. PICK lms, cwb, ctls, dsc, cdm :
        InTurn(hs, c, t, lms, cwb, ctls, dsc, cdm) /\ MakeReservation(hs, c, t) = cdm
  BY PartsInTurn
<1>3. /\ HasMixers(gs, c, t) /\ HasCwb(gs, c, t) /\ HasCtls(gs, c, t, hasLegacyCtls) /\ HasCdm(gs, c, t)
  BY DEF Holds
<1>4. lms.ok /\ lms = ReserveLms(hs, c, t) BY <1>2, <1>3, LmsAgain DEF InTurn
<1> HIDE DEF hs
<1>5. Good(lms.gs) /\ \A k \in Kinds \ {"mixer", "pingpong", "dspp"} : lms.gs[k] = hs[k]
  BY <1>1, <1>4, LmsGives, LmsSound DEF Sound
<1>6. cwb = ReserveCwb(lms.gs, c, t) BY <1>2, <1>4 DEF InTurn
<1>7. cwb.ok
  <2>1. lms.gs["cwb"] = hs["cwb"] BY <1>5 DEF Kinds
  <2> QED BY <1>3, <1>6, <2>1, CwbAgain DEF hs
<1>8. Owned(hs, "cwb", c) = {} /\ Owned(hs, "ctl", c) = {} BY <1>1 DEF HasNothing, Kinds
<1>9. Good(cwb.gs) /\ \A k \in Kinds \ {"pingpong", "cwb"} : cwb.gs[k] = lms.gs[k]
  <2>1. Owned(lms.gs, "cwb", c) = {} BY <1>5, <1>8 DEF Kinds, Owned
  <2> QED BY <1>5, <1>6, <1>7, <2>1, CwbGives, CwbSound DEF Sound
<1>10. ctls = ReserveCtls(cwb.gs, c, t) BY <1>2, <1>7 DEF InTurn
<1>11. cwb.gs["ctl"] = hs["ctl"] /\ cwb.gs["cdm"] = hs["cdm"]
  <2>1. lms.gs["ctl"] = hs["ctl"] /\ lms.gs["cdm"] = hs["cdm"] BY <1>5 DEF Kinds
  <2>2. cwb.gs["ctl"] = lms.gs["ctl"] /\ cwb.gs["cdm"] = lms.gs["cdm"] BY <1>9 DEF Kinds
  <2> QED BY <2>1, <2>2
<1>12. ctls.ok BY <1>3, <1>10, <1>11, CtlsAgain DEF hs
<1>13. ctls.gs["cdm"] = hs["cdm"]
  <2>1. Owned(cwb.gs, "ctl", c) = {} BY <1>8, <1>11 DEF Owned
  <2>2. \A k \in Kinds \ {"ctl"} : ctls.gs[k] = cwb.gs[k]
    BY <1>9, <1>10, <1>12, <2>1, CtlsGives
  <2> QED BY <1>11, <2>2 DEF Kinds
<1>14. dsc = Ok(ctls.gs) BY <1>2, <1>12 DEF InTurn, ReserveDsc
<1>15. cdm = ReserveCdm(ctls.gs, c, t)
  <2>1. dsc.ok /\ dsc.gs = ctls.gs BY <1>14 DEF Ok
  <2>2. cdm = (IF dsc.ok THEN ReserveCdm(dsc.gs, c, t) ELSE dsc) BY <1>2 DEF InTurn
  <2> QED BY <2>1, <2>2
<1>16. cdm.ok BY <1>3, <1>13, <1>15, CdmAgain DEF hs
<1> QED BY <1>2, <1>16 DEF hs

(* A display that is on, without DSCs, can always be set to the same mode   *)
(* again: the blocks it has are not merely as many as it needs, they are   *)
(* ones the loops of the driver find again, in pairs and of the right kind.*)
THEOREM SameModeAgain == Spec => []CanModesetAgain
<1>1. ASSUME IInv PROVE CanModesetAgain
  <2> SUFFICES ASSUME NEW c \in CRTCs, topology[c] # NoTopology, topology[c].num_dsc = 0
               PROVE  MakeReservation(Release(committed, c), c, topology[c]).ok
    BY DEF CanModesetAgain
  <2>1. topology[c] \in Topologies /\ hasLegacyCtls \in BOOLEAN BY <1>1 DEF IInv, TypeOK
  <2>2. Holds(committed, c, topology[c], hasLegacyCtls) BY <1>1 DEF IInv, Assigned
  <2>3. Good(committed) /\ DsppsFollow(committed) BY <1>1 DEF IInv, TypeOK, ChainsAreWhole, Good
  <2> QED BY <2>1, <2>2, <2>3, ReservedAgain
<1> QED BY <1>1, Invariance, PTL
-----------------------------------------------------------------------------
(* DpuPlanes.  What the assignment does to the pipes is told by the set U  *)
(* of the pipes that show something: each turn of its loops adds the pipes *)
(* of a plane in a stage, and keeps them apart.                            *)

(* Pipes as Fetching names them: a plane, and a stage and a side. *)
Places == Planes \X ((1..Stages) \X (1..2))

PipeMaps == [Planes -> [1..Stages -> [1..2 -> Pipes]]]

(* The pipe at each place. *)
Flat(pp) == [f \in Places |-> pp[f[1]][f[2][1]][f[2][2]]]

(* The places of plane p in stage i that show something, those of a plane, *)
(* and those of the planes of V.                                           *)
InStage(p, i, cfg) == {f \in {p} \X ({i} \X (1..2)) : f[2][2] <= cfg[p][i]}
Shown(V, cfg) == {f \in V \X ((1..Stages) \X (1..2)) : f[2][2] <= cfg[f[1]][f[2][1]]}

(* Two rectangles of one SSPP: one of each, fetched together. *)
Mates(at, of, f, g) ==
  /\ at[f].sspp = at[g].sspp /\ at[f].mode = at[g].mode /\ at[f].index # at[g].index
  /\ f[2][1] = g[2][1] /\ of[f[1]] = of[g[1]]

(* The pipes at U have SSPPs; *)
HavePipes(U, at) ==
  \A f \in U : /\ at[f].sspp \in Sspps
               /\ \/ at[f] = Solo(at[f].sspp)
                  \/ \E r \in {"RECT_0", "RECT_1"}, mode \in {"PARALLEL", "TIME_MX"} :
                       at[f] = Pipe(at[f].sspp, r, mode)
(* one that is alone, or any one rectangle, is that of one pipe; *)
Unshared(U, at) ==
  \A f, g \in U : at[f].sspp = at[g].sspp /\ at[f].index \in {"SOLO", at[g].index} => f = g
(* one that is not alone has a mate; *)
Mated(U, at, of) == \A f \in U : at[f].index # "SOLO" => \E g \in U : Mates(at, of, f, g)
(* and SSPPs belong to the CRTCs that fetch with them. *)
OwnedBy(U, at, own, of) ==
  /\ \A f \in U : own[at[f].sspp] = of[f[1]]
  /\ \A s \in Sspps : own[s] # Free => \E f \in U : at[f].sspp = s

Apart(U, at, own, of) ==
  HavePipes(U, at) /\ Unshared(U, at) /\ Mated(U, at, of) /\ OwnedBy(U, at, own, of)

-----------------------------------------------------------------------------
(* A pipe that is not alone is one of two rectangles. *)
LEMMA Rectangles ==
  ASSUME NEW U, NEW at, HavePipes(U, at), NEW f \in U
  PROVE  /\ at[f].sspp \in Sspps /\ at[f].index \in Indices
         /\ at[f].index = "SOLO" => at[f] = Solo(at[f].sspp)
         /\ at[f].index # "SOLO" =>
              /\ at[f].index \in {"RECT_0", "RECT_1"} /\ at[f].mode \in {"PARALLEL", "TIME_MX"}
              /\ at[f] = Pipe(at[f].sspp, at[f].index, at[f].mode)
<1> DEFINE s == at[f].sspp
<1>1. /\ s \in Sspps
      /\ \/ at[f] = Solo(s)
         \/ \E r \in {"RECT_0", "RECT_1"}, mode \in {"PARALLEL", "TIME_MX"} : at[f] = Pipe(s, r, mode)
  BY DEF HavePipes
<1> HIDE DEF s
<1>2. CASE at[f] = Solo(s)
  <2>1. at[f].index = "SOLO" BY <1>2 DEF Solo, Pipe
  <2> QED BY <1>1, <1>2, <2>1 DEF s, Indices
<1>3. ASSUME NEW r \in {"RECT_0", "RECT_1"}, NEW mode \in {"PARALLEL", "TIME_MX"}, at[f] = Pipe(s, r, mode)
      PROVE  at[f].index = r /\ at[f].mode = mode /\ r # "SOLO" /\ r \in Indices
  BY <1>3 DEF Pipe, Indices
<1>4. CASE \E r \in {"RECT_0", "RECT_1"}, mode \in {"PARALLEL", "TIME_MX"} : at[f] = Pipe(s, r, mode)
  <2>1. PICK r \in {"RECT_0", "RECT_1"}, mode \in {"PARALLEL", "TIME_MX"} : at[f] = Pipe(s, r, mode)
    BY <1>4
  <2>2. at[f].index = r /\ at[f].mode = mode /\ r # "SOLO" /\ r \in Indices BY <1>3, <2>1
  <2> QED BY <1>1, <2>1, <2>2 DEF s
<1> QED BY <1>1, <1>2, <1>4

(* An SSPP that nobody has is given to one pipe. *)
LEMMA AddSolo ==
  ASSUME NEW U, NEW at, NEW own, NEW of, Apart(U, at, own, of),
         own \in [Sspps -> Owners], Free \notin CRTCs,
         \A f \in U : of[f[1]] \in CRTCs,
         NEW s \in Sspps, own[s] = Free,
         NEW n, n \notin U, NEW c \in CRTCs, of[n[1]] = c,
         NEW bt, \A f \in U : bt[f] = at[f], bt[n] = Solo(s)
  PROVE  Apart(U \cup {n}, bt, [own EXCEPT ![s] = c], of)
<1> DEFINE W == U \cup {n}
           new == [own EXCEPT ![s] = c]
<1>1. \A f \in U : at[f].sspp # s
  BY DEF Apart, OwnedBy
<1>2. bt[n].sspp = s /\ bt[n].index = "SOLO" BY DEF Solo, Pipe
<1>3. HavePipes(W, bt)
  <2>1. \A f \in U : /\ bt[f].sspp \in Sspps
                     /\ \/ bt[f] = Solo(bt[f].sspp)
                        \/ \E r \in {"RECT_0", "RECT_1"}, mode \in {"PARALLEL", "TIME_MX"} :
                             bt[f] = Pipe(bt[f].sspp, r, mode)
    BY DEF Apart, HavePipes
  <2>2. bt[n].sspp \in Sspps /\ bt[n] = Solo(bt[n].sspp) BY <1>2
  <2> QED BY <2>1, <2>2 DEF HavePipes
<1>4. Unshared(W, bt)
  <2> SUFFICES ASSUME NEW f \in W, NEW g \in W, bt[f].sspp = bt[g].sspp,
                      bt[f].index \in {"SOLO", bt[g].index}
               PROVE  f = g
    BY DEF Unshared
  <2>1. CASE f \in U /\ g \in U BY <2>1 DEF Apart, Unshared
  <2>2. CASE ~(f \in U /\ g \in U) BY <2>2, <1>1, <1>2
  <2> QED BY <2>1, <2>2
<1>5. Mated(W, bt, of)
  <2> SUFFICES ASSUME NEW f \in W, bt[f].index # "SOLO" PROVE \E g \in W : Mates(bt, of, f, g)
    BY DEF Mated
  <2>1. f \in U BY <1>2
  <2>2. PICK g \in U : Mates(at, of, f, g) BY <2>1 DEF Apart, Mated
  <2> QED BY <2>1, <2>2 DEF Mates
<1>6. OwnedBy(W, bt, new, of)
  <2>1. ASSUME NEW f \in W PROVE new[bt[f].sspp] = of[f[1]]
    <3>1. CASE f = n BY <3>1, <1>2
    <3>2. CASE f \in U
      <4>1. at[f].sspp \in Sspps BY <3>2, Rectangles DEF Apart
      <4> QED BY <3>2, <4>1, <1>1 DEF Apart, OwnedBy
    <3> QED BY <3>1, <3>2
  <2>2. ASSUME NEW t \in Sspps, new[t] # Free PROVE \E f \in W : bt[f].sspp = t
    <3>1. CASE t = s BY <3>1, <1>2
    <3>2. CASE t # s
      <4>1. own[t] # Free BY <2>2, <3>2
      <4>2. PICK f \in U : at[f].sspp = t BY <4>1 DEF Apart, OwnedBy
      <4> QED BY <4>2
    <3> QED BY <3>1, <3>2
  <2> QED BY <2>1, <2>2 DEF OwnedBy
<1> QED BY <1>3, <1>4, <1>5, <1>6 DEF Apart
(* An SSPP that nobody has is given to two pipes of a stage. *)
LEMMA AddPair ==
  ASSUME NEW U, NEW at, NEW own, NEW of, Apart(U, at, own, of),
         own \in [Sspps -> Owners], Free \notin CRTCs,
         \A f \in U : of[f[1]] \in CRTCs,
         NEW s \in Sspps, own[s] = Free,
         NEW n, NEW m, n \notin U, m \notin U, NEW c \in CRTCs, of[n[1]] = c,
         n[1] = m[1], n[2][1] = m[2][1],
         NEW bt, \A f \in U : bt[f] = at[f],
         bt[n] = Pipe(s, "RECT_0", "PARALLEL"), bt[m] = Pipe(s, "RECT_1", "PARALLEL")
  PROVE  Apart(U \cup {n, m}, bt, [own EXCEPT ![s] = c], of)
<1> DEFINE W == U \cup {n, m}
           new == [own EXCEPT ![s] = c]
<1>1. \A f \in U : at[f].sspp # s
  BY DEF Apart, OwnedBy
<1>2. /\ bt[n].sspp = s /\ bt[n].index = "RECT_0" /\ bt[n].mode = "PARALLEL"
      /\ bt[m].sspp = s /\ bt[m].index = "RECT_1" /\ bt[m].mode = "PARALLEL"
  BY DEF Pipe
<1>3. HavePipes(W, bt)
  <2>1. \A f \in U : /\ bt[f].sspp \in Sspps
                     /\ \/ bt[f] = Solo(bt[f].sspp)
                        \/ \E r \in {"RECT_0", "RECT_1"}, mode \in {"PARALLEL", "TIME_MX"} :
                             bt[f] = Pipe(bt[f].sspp, r, mode)
    BY DEF Apart, HavePipes
  <2>2. \A f \in {n, m} :
           /\ bt[f].sspp \in Sspps
           /\ \E r \in {"RECT_0", "RECT_1"}, mode \in {"PARALLEL", "TIME_MX"} :
                bt[f] = Pipe(bt[f].sspp, r, mode)
    BY <1>2
  <2> QED BY <2>1, <2>2 DEF HavePipes
<1>4. Unshared(W, bt)
  <2> SUFFICES ASSUME NEW f \in W, NEW g \in W, bt[f].sspp = bt[g].sspp,
                      bt[f].index \in {"SOLO", bt[g].index}
               PROVE  f = g
    BY DEF Unshared
  <2>1. CASE f \in U /\ g \in U BY <2>1 DEF Apart, Unshared
  <2>2. CASE ~(f \in U /\ g \in U) BY <2>2, <1>1, <1>2
  <2> QED BY <2>1, <2>2
<1>5. Mated(W, bt, of)
  <2> SUFFICES ASSUME NEW f \in W, bt[f].index # "SOLO" PROVE \E g \in W : Mates(bt, of, f, g)
    BY DEF Mated
  <2>1. CASE f \in U
    <3>1. PICK g \in U : Mates(at, of, f, g) BY <2>1 DEF Apart, Mated
    <3> QED BY <2>1, <3>1 DEF Mates
  <2>2. Mates(bt, of, n, m) /\ Mates(bt, of, m, n) BY <1>2 DEF Mates
  <2> QED BY <2>1, <2>2
<1>6. OwnedBy(W, bt, new, of)
  <2>1. ASSUME NEW f \in W PROVE new[bt[f].sspp] = of[f[1]]
    <3>1. CASE f \in {n, m} BY <3>1, <1>2
    <3>2. CASE f \in U
      <4>1. at[f].sspp \in Sspps BY <3>2, Rectangles DEF Apart
      <4> QED BY <3>2, <4>1, <1>1 DEF Apart, OwnedBy
    <3> QED BY <3>1, <3>2
  <2>2. ASSUME NEW t \in Sspps, new[t] # Free PROVE \E f \in W : bt[f].sspp = t
    <3>1. CASE t = s BY <3>1, <1>2
    <3>2. CASE t # s
      <4>1. own[t] # Free BY <2>2, <3>2
      <4>2. PICK f \in U : at[f].sspp = t BY <4>1 DEF Apart, OwnedBy
      <4> QED BY <4>2
    <3> QED BY <3>1, <3>2
  <2> QED BY <2>1, <2>2 DEF OwnedBy
<1> QED BY <1>3, <1>4, <1>5, <1>6 DEF Apart

(* A pipe joins one that has its SSPP alone. *)
LEMMA JoinSolo ==
  ASSUME NEW U, NEW at, NEW own, NEW of, Apart(U, at, own, of),
         NEW q \in U, at[q].mode = "NONE",
         NEW n, n \notin U, of[n[1]] = of[q[1]], n[2][1] = q[2][1],
         NEW mode \in {"PARALLEL", "TIME_MX"},
         NEW bt, \A f \in U \ {q} : bt[f] = at[f],
         bt[q] = Pipe(at[q].sspp, "RECT_0", mode), bt[n] = Pipe(at[q].sspp, "RECT_1", mode)
  PROVE  Apart(U \cup {n}, bt, own, of)
<1> DEFINE W == U \cup {n}
           s == at[q].sspp
<1>0. at[q].index = "SOLO" /\ s \in Sspps
  <2>1. at[q].mode \notin {"PARALLEL", "TIME_MX"} OBVIOUS
  <2> QED BY <2>1, Rectangles DEF Apart
<1>1. \A f \in U : at[f].sspp = s => f = q
  BY <1>0 DEF Apart, Unshared
<1>2. /\ bt[q].sspp = s /\ bt[q].index = "RECT_0" /\ bt[q].mode = mode
      /\ bt[n].sspp = s /\ bt[n].index = "RECT_1" /\ bt[n].mode = mode
  BY DEF Pipe
<1> HIDE DEF s
<1>3. HavePipes(W, bt)
  <2>1. \A f \in U \ {q} : /\ bt[f].sspp \in Sspps
                     /\ \/ bt[f] = Solo(bt[f].sspp)
                        \/ \E r \in {"RECT_0", "RECT_1"}, x \in {"PARALLEL", "TIME_MX"} :
                             bt[f] = Pipe(bt[f].sspp, r, x)
    BY DEF Apart, HavePipes
  <2>2. \A f \in {q, n} :
           /\ bt[f].sspp \in Sspps
           /\ \E r \in {"RECT_0", "RECT_1"}, x \in {"PARALLEL", "TIME_MX"} :
                bt[f] = Pipe(bt[f].sspp, r, x)
    BY <1>0, <1>2 DEF s
  <2> QED BY <2>1, <2>2 DEF HavePipes
<1>4. Unshared(W, bt)
  <2> SUFFICES ASSUME NEW f \in W, NEW g \in W, bt[f].sspp = bt[g].sspp,
                      bt[f].index \in {"SOLO", bt[g].index}
               PROVE  f = g
    BY DEF Unshared
  <2>1. CASE f \notin {q, n} /\ g \notin {q, n} BY <2>1 DEF Apart, Unshared
  <2>2. CASE ~(f \notin {q, n} /\ g \notin {q, n}) BY <2>2, <1>1, <1>2
  <2> QED BY <2>1, <2>2
<1>5. Mated(W, bt, of)
  <2> SUFFICES ASSUME NEW f \in W, bt[f].index # "SOLO" PROVE \E g \in W : Mates(bt, of, f, g)
    BY DEF Mated
  <2>1. CASE f \in U \ {q}
    <3>1. PICK g \in U : Mates(at, of, f, g) BY <2>1 DEF Apart, Mated
    <3>2. g # q BY <2>1, <3>1, <1>1 DEF Mates, s
    <3> QED BY <2>1, <3>1, <3>2 DEF Mates
  <2>2. Mates(bt, of, n, q) /\ Mates(bt, of, q, n) BY <1>2 DEF Mates
  <2> QED BY <2>1, <2>2
<1>6. OwnedBy(W, bt, own, of)
  <2>1. \A f \in U : bt[f].sspp = at[f].sspp BY <1>2 DEF s
  <2>2. \A f \in W : own[bt[f].sspp] = of[f[1]]
    BY <2>1, <1>2 DEF Apart, OwnedBy, s
  <2>3. \A t \in Sspps : own[t] # Free => \E f \in W : bt[f].sspp = t
    BY <2>1 DEF Apart, OwnedBy
  <2> QED BY <2>2, <2>3 DEF OwnedBy
<1> QED BY <1>3, <1>4, <1>5, <1>6 DEF Apart
-----------------------------------------------------------------------------
(* What the loops of the assignment work on, for CRTC c. *)
Assignments(c) ==
  [crtc : {c}, ok : BOOLEAN, owner : [Sspps -> Owners], pipe : PipeMaps,
   prev : [1..Stages -> SUBSET Planes]]

(* dpu_rm_reserve_sspp finds an SSPP that is free. *)
LEMMA ReserveFree ==
  ASSUME PlaneAssumption, NEW own, NEW needs, NEW s, s = ReserveSspp(own, needs), s # NoSspp
  PROVE  s \in Sspps /\ own[s] = Free
<1> DEFINE dma == IF needs \cap {"scale", "yuv"} = {} THEN Candidates(own, needs, "DMA") ELSE {}
           rgb == IF "yuv" \notin needs THEN Candidates(own, needs, "RGB") ELSE {}
           vig == Candidates(own, needs, "VIG")
           best == IF dma # {} THEN dma ELSE IF rgb # {} THEN rgb ELSE vig
<1>1. s = IF best = {} THEN NoSspp ELSE CHOOSE x \in best : \A r \in best : x <= r
  BY DEF ReserveSspp
<1>2. best \subseteq {x \in Sspps : own[x] = Free} BY DEF Candidates
<1>3. best \in SUBSET Nat BY <1>2 DEF PlaneAssumption
<1> HIDE DEF best
<1>4. best # {} BY <1>1
<1>5. \E x \in best : \A r \in best : x <= r BY <1>3, <1>4, LeastNatural
<1>6. s \in best BY <1>1, <1>4, <1>5
<1> QED BY <1>2, <1>6

LEMMA PlacesOf ==
  ASSUME NEW p \in Planes, NEW i \in 1..Stages, NEW k \in 1..2
  PROVE  <<p, <<i, k>>>> \in Places
BY DEF Places

(* The left pipe of a stage is set. *)
SetLeft(pp, p, i, x) == [pp EXCEPT ![p][i][1] = x]

LEMMA SetPipe ==
  ASSUME NEW pp \in PipeMaps, NEW p \in Planes, NEW i \in 1..Stages, NEW x \in Pipes
  PROVE  /\ SetLeft(pp, p, i, x) \in PipeMaps
         /\ Flat(SetLeft(pp, p, i, x))[<<p, <<i, 1>>>>] = x
         /\ \A f \in Places : f # <<p, <<i, 1>>>> => Flat(SetLeft(pp, p, i, x))[f] = Flat(pp)[f]
<1> DEFINE qq == SetLeft(pp, p, i, x)
<1>1. qq \in PipeMaps BY DEF PipeMaps, SetLeft
<1>2. /\ pp[p][i] \in [1..2 -> Pipes] /\ pp[p] \in [1..Stages -> [1..2 -> Pipes]]
      /\ pp \in [Planes -> [1..Stages -> [1..2 -> Pipes]]]
  BY DEF PipeMaps
<1>3. \A r \in Planes, j \in 1..Stages, l \in 1..2 :
        qq[r][j][l] = IF r = p /\ j = i /\ l = 1 THEN x ELSE pp[r][j][l]
  BY <1>2 DEF SetLeft
<1> HIDE DEF qq
<1>4. ASSUME NEW f \in Places
      PROVE  Flat(qq)[f] = IF f = <<p, <<i, 1>>>> THEN x ELSE Flat(pp)[f]
  <2>1. f[1] \in Planes /\ f[2][1] \in 1..Stages /\ f[2][2] \in 1..2 /\ f = <<f[1], <<f[2][1], f[2][2]>>>>
    BY DEF Places
  <2>2. Flat(qq)[f] = qq[f[1]][f[2][1]][f[2][2]] /\ Flat(pp)[f] = pp[f[1]][f[2][1]][f[2][2]]
    BY DEF Flat
  <2>3. f = <<p, <<i, 1>>>> <=> f[1] = p /\ f[2][1] = i /\ f[2][2] = 1 BY <2>1
  <2> QED BY <1>3, <2>1, <2>2, <2>3
<1>5. <<p, <<i, 1>>>> \in Places
  <2>1. 1 \in 1..2 OBVIOUS
  <2> QED BY <2>1, PlacesOf
<1> QED BY <1>1, <1>4, <1>5 DEF qq

(* Both pipes of a stage are set. *)
LEMMA SetPair ==
  ASSUME NEW pp \in PipeMaps, NEW p \in Planes, NEW i \in 1..Stages, NEW x \in Pipes, NEW y \in Pipes
  PROVE  LET qq == [pp EXCEPT ![p][i] = <<x, y>>]
         IN  /\ qq \in PipeMaps
             /\ Flat(qq)[<<p, <<i, 1>>>>] = x /\ Flat(qq)[<<p, <<i, 2>>>>] = y
             /\ \A f \in Places : f \notin {<<p, <<i, 1>>>>, <<p, <<i, 2>>>>} => Flat(qq)[f] = Flat(pp)[f]
<1> DEFINE qq == [pp EXCEPT ![p][i] = <<x, y>>]
<1>0. <<x, y>> \in [1..2 -> Pipes] OBVIOUS
<1>1. qq \in PipeMaps BY <1>0 DEF PipeMaps
<1>2. /\ pp[p] \in [1..Stages -> [1..2 -> Pipes]]
      /\ pp \in [Planes -> [1..Stages -> [1..2 -> Pipes]]]
  BY DEF PipeMaps
<1>3. \A r \in Planes, j \in 1..Stages :
        qq[r][j] = IF r = p /\ j = i THEN <<x, y>> ELSE pp[r][j]
  BY <1>2
<1> HIDE DEF qq
<1>4. ASSUME NEW f \in Places
      PROVE  Flat(qq)[f] = IF f = <<p, <<i, 1>>>> THEN x ELSE IF f = <<p, <<i, 2>>>> THEN y ELSE Flat(pp)[f]
  <2>1. f[1] \in Planes /\ f[2][1] \in 1..Stages /\ f[2][2] \in 1..2 /\ f = <<f[1], <<f[2][1], f[2][2]>>>>
    BY DEF Places
  <2>2. Flat(qq)[f] = qq[f[1]][f[2][1]][f[2][2]] /\ Flat(pp)[f] = pp[f[1]][f[2][1]][f[2][2]]
    BY DEF Flat
  <2>3. \A k \in 1..2 : f = <<p, <<i, k>>>> <=> f[1] = p /\ f[2][1] = i /\ f[2][2] = k BY <2>1
  <2>4. f[2][2] = 1 \/ f[2][2] = 2 BY <2>1
  <2>5. CASE f[1] = p /\ f[2][1] = i
    <3>1. qq[f[1]][f[2][1]] = <<x, y>> BY <2>5, <1>3
    <3>2. CASE f[2][2] = 1
      <4>1. f = <<p, <<i, 1>>>> BY <2>3, <2>5, <3>2
      <4> QED BY <2>2, <3>1, <3>2, <4>1
    <3>3. CASE f[2][2] = 2
      <4>1. f = <<p, <<i, 2>>>> /\ f # <<p, <<i, 1>>>> BY <2>3, <2>5, <3>3
      <4> QED BY <2>2, <3>1, <3>3, <4>1
    <3> QED BY <2>4, <3>2, <3>3
  <2>6. CASE ~(f[1] = p /\ f[2][1] = i)
    <3>1. f # <<p, <<i, 1>>>> /\ f # <<p, <<i, 2>>>> BY <2>3, <2>6
    <3>2. qq[f[1]][f[2][1]] = pp[f[1]][f[2][1]] BY <2>1, <2>6, <1>3
    <3> QED BY <2>2, <3>1, <3>2
  <2> QED BY <2>5, <2>6
<1>5. <<p, <<i, 1>>>> \in Places /\ <<p, <<i, 2>>>> \in Places BY PlacesOf
<1>6. <<p, <<i, 1>>>> # <<p, <<i, 2>>>> OBVIOUS
<1> QED BY <1>1, <1>4, <1>5, <1>6 DEF qq

(* The pipes of a stage, by their number. *)
LEMMA InStageOf ==
  ASSUME NEW p, NEW i, NEW cfg, cfg[p][i] \in 0..2
  PROVE  /\ cfg[p][i] = 0 => InStage(p, i, cfg) = {}
         /\ cfg[p][i] = 1 => InStage(p, i, cfg) = {<<p, <<i, 1>>>>}
         /\ cfg[p][i] = 2 => InStage(p, i, cfg) = {<<p, <<i, 1>>>>, <<p, <<i, 2>>>>}
<1>1. \A f : f \in {p} \X ({i} \X (1..2)) <=> f = <<p, <<i, 1>>>> \/ f = <<p, <<i, 2>>>>
  <2> TAKE f
  <2>1. ASSUME f \in {p} \X ({i} \X (1..2)) PROVE f = <<p, <<i, 1>>>> \/ f = <<p, <<i, 2>>>>
    <3>1. f = <<f[1], <<f[2][1], f[2][2]>>>> /\ f[1] = p /\ f[2][1] = i /\ f[2][2] \in 1..2 BY <2>1
    <3>2. f[2][2] = 1 \/ f[2][2] = 2 BY <3>1
    <3> QED BY <3>1, <3>2
  <2>2. <<p, <<i, 1>>>> \in {p} \X ({i} \X (1..2)) /\ <<p, <<i, 2>>>> \in {p} \X ({i} \X (1..2)) OBVIOUS
  <2> QED BY <2>1, <2>2
<1>2. <<p, <<i, 1>>>>[2][2] = 1 /\ <<p, <<i, 2>>>>[2][2] = 2 OBVIOUS
<1>3. \A f : f \in InStage(p, i, cfg) <=>
               \/ f = <<p, <<i, 1>>>> /\ 1 <= cfg[p][i]
               \/ f = <<p, <<i, 2>>>> /\ 2 <= cfg[p][i]
  BY <1>1, <1>2 DEF InStage
<1>4. CASE cfg[p][i] = 0
  <2>1. ~(1 <= cfg[p][i]) /\ ~(2 <= cfg[p][i]) BY <1>4
  <2> QED BY <1>3, <1>4, <2>1
<1>5. CASE cfg[p][i] = 1
  <2>1. 1 <= cfg[p][i] /\ ~(2 <= cfg[p][i]) BY <1>5
  <2> QED BY <1>3, <1>5, <2>1
<1>6. CASE cfg[p][i] = 2
  <2>1. 1 <= cfg[p][i] /\ 2 <= cfg[p][i] BY <1>6
  <2> QED BY <1>3, <1>6, <2>1
<1> QED BY <1>4, <1>5, <1>6
(* The pipes of the planes of other CRTCs stay as they are. *)
KeepsOthers(qq, pp, of, c) == \A f \in Places : of[f[1]] # c => Flat(qq)[f] = Flat(pp)[f]

(* dpu_plane_assign_resource_in_stage *)
LEMMA AloneStep ==
  ASSUME PlaneAssumption, NEW c \in CRTCs, NEW a \in Assignments(c), a.ok,
         NEW p \in Planes, NEW i \in 1..Stages, NEW cfg, cfg[p][i] \in 0..2, NEW show,
         NEW U \in SUBSET Places, \A k \in 1..2 : <<p, <<i, k>>>> \notin U,
         NEW of, of[p] = c, \A f \in U : of[f[1]] \in CRTCs,
         Apart(U, Flat(a.pipe), a.owner, of)
  PROVE  LET b == AssignInStage(a, cfg, show, p, i)
         IN  /\ b \in Assignments(c) /\ b.prev = a.prev /\ KeepsOthers(b.pipe, a.pipe, of, c)
             /\ b.ok => Apart(U \cup InStage(p, i, cfg), Flat(b.pipe), b.owner, of)
<1> DEFINE needs == show[p].needs
           left  == ReserveSspp(a.owner, needs)
           own   == [a.owner EXCEPT ![left] = c]
           right == ReserveSspp(own, needs)
           b     == AssignInStage(a, cfg, show, p, i)
           n     == <<p, <<i, 1>>>>
           m     == <<p, <<i, 2>>>>
<1>1. /\ a.crtc = c /\ a.owner \in [Sspps -> Owners] /\ a.pipe \in PipeMaps
      /\ a.prev \in [1..Stages -> SUBSET Planes] /\ a.ok = TRUE
      /\ a = [crtc |-> a.crtc, ok |-> a.ok, owner |-> a.owner, pipe |-> a.pipe, prev |-> a.prev]
  BY DEF Assignments
<1>2. /\ left # NoSspp => left \in Sspps /\ a.owner[left] = Free
      /\ right # NoSspp => right \in Sspps /\ own[right] = Free
  BY ReserveFree
<1>3. b = IF cfg[p][i] = 0 THEN a
          ELSE IF left = NoSspp THEN [a EXCEPT !.ok = FALSE]
          ELSE IF cfg[p][i] = 1 THEN [a EXCEPT !.owner = own, !.pipe[p][i][1] = Solo(left)]
          ELSE IF MultirectParallelCapable(left, show[p])
               THEN [a EXCEPT !.owner = own, !.pipe[p][i] = InParallel(left)]
          ELSE IF right = NoSspp THEN [a EXCEPT !.ok = FALSE]
          ELSE [a EXCEPT !.owner = [own EXCEPT ![right] = c],
                         !.pipe[p][i] = <<Solo(left), Solo(right)>>]
  BY <1>1 DEF AssignInStage, Single
<1>4. n \notin U /\ m \notin U /\ n # m /\ n[1] = p /\ m[1] = p /\ n[2][1] = i /\ m[2][1] = i
  OBVIOUS
<1>5. Free \notin CRTCs BY DEF PlaneAssumption
<1>6. /\ \A s \in Sspps : Solo(s) \in Pipes
      /\ \A s \in Sspps : Pipe(s, "RECT_0", "PARALLEL") \in Pipes /\ Pipe(s, "RECT_1", "PARALLEL") \in Pipes
  BY DEF Solo, Pipe, Pipes, Indices, Modes
<1>7. \A f \in U : f \in Places /\ f # n /\ f # m BY <1>4
<1>14. \A f \in Places : of[f[1]] # c => f # n /\ f # m BY <1>4
<1> HIDE DEF left, right, b, needs, n, m
<1>15. ASSUME NEW bt, left # NoSspp, \A f \in U : bt[f] = Flat(a.pipe)[f], bt[n] = Solo(left)
       PROVE  Apart(U \cup {n}, bt, own, of)
  <2>1. left \in Sspps /\ a.owner[left] = Free /\ a.owner \in [Sspps -> Owners] BY <1>1, <1>2, <1>15
  <2>2. of[n[1]] = c BY <1>4
  <2> QED BY <1>15, <2>1, <2>2, <1>4, <1>5, AddSolo, ZenonT(30)
<1>8. CASE cfg[p][i] = 0
  <2>1. InStage(p, i, cfg) = {} BY <1>8, InStageOf
  <2> QED BY <2>1, <1>3, <1>8 DEF KeepsOthers, b
<1>9. CASE b = [a EXCEPT !.ok = FALSE]
  <2>1. b = [crtc |-> c, ok |-> FALSE, owner |-> a.owner, pipe |-> a.pipe, prev |-> a.prev]
    BY <1>1, <1>9
  <2> QED BY <2>1, <1>1 DEF b, Assignments, KeepsOthers
<1>10. CASE cfg[p][i] = 1 /\ left # NoSspp /\ b = [a EXCEPT !.owner = own, !.pipe[p][i][1] = Solo(left)]
  <2> DEFINE qq == SetLeft(a.pipe, p, i, Solo(left))
  <2>1. b = [crtc |-> c, ok |-> TRUE, owner |-> own, pipe |-> qq, prev |-> a.prev]
    BY <1>1, <1>10 DEF SetLeft
  <2>2. /\ qq \in PipeMaps /\ Flat(qq)[n] = Solo(left)
        /\ \A f \in Places : f # n => Flat(qq)[f] = Flat(a.pipe)[f]
    BY <1>1, <1>2, <1>6, <1>10, SetPipe DEF n
  <2> HIDE DEF qq
  <2>3. own \in [Sspps -> Owners] BY <1>1 DEF Owners
  <2>4. Apart(U \cup {n}, Flat(qq), own, of)
    <3>2. \A f \in U : Flat(qq)[f] = Flat(a.pipe)[f] BY <2>2, <1>7
    <3> HIDE DEF own
    <3> QED BY <2>2, <3>2, <1>10, <1>15
  <2>5. InStage(p, i, cfg) = {n} BY <1>10, InStageOf DEF n
  <2>6. b \in Assignments(c) BY <2>1, <2>2, <2>3, <1>1 DEF Assignments
  <2>7. b.pipe = qq /\ b.owner = own /\ b.prev = a.prev BY <2>1
  <2>10. KeepsOthers(qq, a.pipe, of, c) BY <2>2, <1>14 DEF KeepsOthers
  <2> QED BY <2>4, <2>5, <2>6, <2>7, <2>10 DEF b
<1>11. CASE cfg[p][i] = 2 /\ left # NoSspp /\ b = [a EXCEPT !.owner = own, !.pipe[p][i] = InParallel(left)]
  <2> DEFINE x == Pipe(left, "RECT_0", "PARALLEL")
             y == Pipe(left, "RECT_1", "PARALLEL")
             qq == [a.pipe EXCEPT ![p][i] = <<x, y>>]
  <2>1. b = [crtc |-> c, ok |-> TRUE, owner |-> own, pipe |-> qq, prev |-> a.prev]
    BY <1>1, <1>11 DEF InParallel
  <2>0. left \in Sspps /\ a.owner[left] = Free /\ a.owner \in [Sspps -> Owners] BY <1>1, <1>2, <1>11
  <2>2. /\ qq \in PipeMaps /\ Flat(qq)[n] = x /\ Flat(qq)[m] = y
        /\ \A f \in Places : f \notin {n, m} => Flat(qq)[f] = Flat(a.pipe)[f]
    <3>1. x \in Pipes /\ y \in Pipes /\ a.pipe \in PipeMaps BY <2>0, <1>1, <1>6
    <3> HIDE DEF x, y
    <3> QED BY <3>1, SetPair DEF n, m
  <2> HIDE DEF qq
  <2>3. own \in [Sspps -> Owners] BY <1>1 DEF Owners
  <2>4. Apart(U \cup {n, m}, Flat(qq), own, of)
    <3>2. \A f \in U : Flat(qq)[f] = Flat(a.pipe)[f] BY <2>2, <1>7
    <3> QED BY <2>0, <2>2, <3>2, <1>4, <1>5, AddPair, SMTT(20)
  <2>5. InStage(p, i, cfg) = {n, m} BY <1>11, InStageOf DEF n, m
  <2>6. b \in Assignments(c) BY <2>1, <2>2, <2>3, <1>1 DEF Assignments
  <2>7. b.pipe = qq /\ b.owner = own /\ b.prev = a.prev BY <2>1
  <2>10. KeepsOthers(qq, a.pipe, of, c) BY <2>2, <1>14 DEF KeepsOthers
  <2> QED BY <2>4, <2>5, <2>6, <2>7, <2>10 DEF b
<1>12. CASE /\ cfg[p][i] = 2 /\ left # NoSspp /\ right # NoSspp
            /\ b = [a EXCEPT !.owner = [own EXCEPT ![right] = c], !.pipe[p][i] = <<Solo(left), Solo(right)>>]
  <2> DEFINE qq  == [a.pipe EXCEPT ![p][i] = <<Solo(left), Solo(right)>>]
             new == [own EXCEPT ![right] = c]
  <2>1. b = [crtc |-> c, ok |-> TRUE, owner |-> new, pipe |-> qq, prev |-> a.prev]
    BY <1>1, <1>12
  <2>0. /\ left \in Sspps /\ a.owner[left] = Free /\ a.owner \in [Sspps -> Owners]
        /\ right \in Sspps /\ own[right] = Free
    BY <1>1, <1>2, <1>12
  <2>2. /\ qq \in PipeMaps /\ Flat(qq)[n] = Solo(left) /\ Flat(qq)[m] = Solo(right)
        /\ \A f \in Places : f \notin {n, m} => Flat(qq)[f] = Flat(a.pipe)[f]
    <3>1. Solo(left) \in Pipes /\ Solo(right) \in Pipes /\ a.pipe \in PipeMaps BY <2>0, <1>1, <1>6
    <3> QED BY <3>1, SetPair DEF n, m
  <2> HIDE DEF qq
  <2>3. own \in [Sspps -> Owners] /\ new \in [Sspps -> Owners] BY <1>1 DEF Owners
  <2>4. Apart(U \cup {n}, Flat(qq), own, of)
    <3>2. \A f \in U : Flat(qq)[f] = Flat(a.pipe)[f] BY <2>2, <1>7
    <3> HIDE DEF own
    <3> QED BY <2>2, <3>2, <1>12, <1>15
  <2>8. Apart((U \cup {n}) \cup {m}, Flat(qq), new, of)
    <3> DEFINE W == U \cup {n}
    <3>1. m \notin W /\ \A f \in W : of[f[1]] \in CRTCs BY <1>4
    <3>2. Apart(W, Flat(qq), own, of) BY <2>4
    <3>3. of[m[1]] = c BY <1>4
    <3> HIDE DEF W, own
    <3>4. Apart(W \cup {m}, Flat(qq), [own EXCEPT ![right] = c], of)
      BY <2>0, <2>2, <2>3, <3>1, <3>2, <3>3, <1>5, AddSolo, ZenonT(30)
    <3> QED BY <3>4 DEF W
  <2>5. InStage(p, i, cfg) = {n, m} BY <1>12, InStageOf DEF n, m
  <2>9. U \cup InStage(p, i, cfg) = (U \cup {n}) \cup {m} BY <2>5
  <2>6. b \in Assignments(c) BY <2>1, <2>2, <2>3, <1>1 DEF Assignments
  <2>7. b.pipe = qq /\ b.owner = new /\ b.prev = a.prev BY <2>1
  <2>10. KeepsOthers(qq, a.pipe, of, c) BY <2>2, <1>14 DEF KeepsOthers
  <2> HIDE DEF new
  <2> QED BY <2>8, <2>9, <2>6, <2>7, <2>10 DEF b
<1>13. cfg[p][i] = 0 \/ cfg[p][i] = 1 \/ cfg[p][i] = 2 OBVIOUS
<1> QED BY <1>3, <1>8, <1>9, <1>10, <1>11, <1>12, <1>13
(* A rectangle of plane p joins that of r. *)
Joined(pp, p, r, i, mode) ==
  SetLeft(SetLeft(pp, p, i, Pipe(pp[r][i][1].sspp, "RECT_1", mode)),
          r, i, Pipe(pp[r][i][1].sspp, "RECT_0", mode))

LEMMA JoinStep ==
  ASSUME NEW pp \in PipeMaps, NEW own, NEW of,
         NEW p \in Planes, NEW r \in Planes, NEW i \in 1..Stages, of[p] = of[r],
         NEW U \in SUBSET Places, <<p, <<i, 1>>>> \notin U, <<r, <<i, 1>>>> \in U,
         Apart(U, Flat(pp), own, of),
         NEW mode \in {"PARALLEL", "TIME_MX"}, pp[r][i][1].mode = "NONE"
  PROVE  LET rr == Joined(pp, p, r, i, mode)
         IN  /\ rr \in PipeMaps /\ Apart(U \cup {<<p, <<i, 1>>>>}, Flat(rr), own, of)
             /\ KeepsOthers(rr, pp, of, of[p])
<1> DEFINE n == <<p, <<i, 1>>>>
           l == <<r, <<i, 1>>>>
           s == pp[r][i][1].sspp
           x == Pipe(s, "RECT_1", mode)
           y == Pipe(s, "RECT_0", mode)
           qq == SetLeft(pp, p, i, x)
           rr == SetLeft(qq, r, i, y)
           at == Flat(pp)
           bt == Flat(rr)
<1>1. l \in Places /\ n \in Places /\ l # n
  <2>1. 1 \in 1..2 OBVIOUS
  <2> QED BY <2>1, PlacesOf
<1>2. at[l] = pp[r][i][1] BY <1>1 DEF Flat
<1>3. s \in Sspps BY <1>2 DEF Apart, HavePipes
<1>4. x \in Pipes /\ y \in Pipes BY <1>3 DEF Pipe, Pipes, Indices, Modes
<1>5. /\ qq \in PipeMaps /\ Flat(qq)[n] = x
      /\ \A f \in Places : f # n => Flat(qq)[f] = at[f]
  <2> HIDE DEF x
  <2> QED BY <1>4, SetPipe
<1>6. /\ rr \in PipeMaps /\ bt[l] = y
      /\ \A f \in Places : f # l => bt[f] = Flat(qq)[f]
  <2> HIDE DEF y, qq
  <2> QED BY <1>4, <1>5, SetPipe
<1>13. bt[n] = x BY <1>1, <1>5, <1>6
<1>7. \A f \in U \ {l} : bt[f] = at[f] BY <1>1, <1>5, <1>6
<1>8. at[l].mode = "NONE" /\ at[l].sspp = s BY <1>2
<1>9. of[n[1]] = of[l[1]] /\ n[2][1] = l[2][1] OBVIOUS
<1>10. bt[l] = Pipe(at[l].sspp, "RECT_0", mode) /\ bt[n] = Pipe(at[l].sspp, "RECT_1", mode)
  BY <1>6, <1>13, <1>8
<1>11. Apart(U, at, own, of) /\ l \in U /\ n \notin U OBVIOUS
<1>14. KeepsOthers(rr, pp, of, of[p])
  <2>1. \A f \in Places : of[f[1]] # of[p] => f # n /\ f # l OBVIOUS
  <2> HIDE DEF rr, qq, n, l
  <2> QED BY <2>1, <1>5, <1>6 DEF KeepsOthers, at, bt
<1> HIDE DEF at, bt, n, l
<1>12. Apart(U \cup {n}, bt, own, of) BY <1>7, <1>8, <1>9, <1>10, <1>11, JoinSolo
<1> QED BY <1>6, <1>12, <1>14 DEF Joined, n, bt

(* What holds in the loops until one fails: the pipes at U are apart, and   *)
(* the planes that may be joined in a stage have one of them there.        *)
Assigning(a, U, cfg, of) ==
  a.ok => /\ Apart(U, Flat(a.pipe), a.owner, of)
          /\ \A i \in 1..Stages : \A q \in a.prev[i] : <<q, <<i, 1>>>> \in U /\ cfg[q][i] = 1

(* Only plane p may have come to be joined. *)
Offers(b, a, p) == \A i \in 1..Stages : b.prev[i] \subseteq a.prev[i] \cup {p}

(* One turn of the loop of dpu_plane_virtual_assign_resources *)
LEMMA StageStep ==
  ASSUME PlaneAssumption, NEW c \in CRTCs, NEW a \in Assignments(c),
         NEW p \in Planes, NEW i \in 1..Stages, NEW cfg, cfg[p][i] \in 0..2, NEW show,
         NEW U \in SUBSET Places, \A k \in 1..2 : <<p, <<i, k>>>> \notin U,
         NEW of, of[p] = c, \A f \in U : of[f[1]] \in CRTCs,
         \A q \in a.prev[i] : of[q] = c,
         Assigning(a, U, cfg, of)
  PROVE  LET b == AssignStage(a, cfg, show, p, i)
         IN  /\ b \in Assignments(c)
             /\ Assigning(b, U \cup InStage(p, i, cfg), cfg, of)
             /\ Offers(b, a, p) /\ KeepsOthers(b.pipe, a.pipe, of, c)
<1> DEFINE q    == a.prev[i]
           r    == CHOOSE x \in q : TRUE
           mode == IF q = {} THEN "NONE" ELSE SharedMode(a, cfg, show, p, r, i)
           prev == IF Single(cfg, p, i) THEN [a EXCEPT !.prev[i] = {p}] ELSE a
           b    == AssignStage(a, cfg, show, p, i)
           s    == a.pipe[r][i][1].sspp
           W    == U \cup InStage(p, i, cfg)
           n    == <<p, <<i, 1>>>>
           l    == <<r, <<i, 1>>>>
<1>1. /\ a.crtc = c /\ a.owner \in [Sspps -> Owners] /\ a.pipe \in PipeMaps
      /\ a.prev \in [1..Stages -> SUBSET Planes] /\ a.ok \in BOOLEAN
      /\ a = [crtc |-> a.crtc, ok |-> a.ok, owner |-> a.owner, pipe |-> a.pipe, prev |-> a.prev]
  BY DEF Assignments
<1>2. b = IF ~a.ok THEN a
          ELSE IF mode = "NONE" THEN AssignInStage(prev, cfg, show, p, i)
          ELSE [a EXCEPT !.pipe[p][i][1] = Pipe(s, "RECT_1", mode),
                         !.pipe[r][i][1] = Pipe(s, "RECT_0", mode)]
  BY DEF AssignStage
<1>3. mode # "NONE" => /\ mode \in {"PARALLEL", "TIME_MX"} /\ q # {}
                       /\ cfg[p][i] = 1 /\ cfg[r][i] = 1 /\ a.pipe[r][i][1].mode = "NONE"
  BY DEF SharedMode, Single
<1> HIDE DEF b, mode
<1>4. CASE ~a.ok
  <2>1. b = a BY <1>2, <1>4
  <2> QED BY <2>1, <1>4 DEF Assigning, Offers, KeepsOthers, b
<1>5. CASE a.ok /\ mode = "NONE"
  <2> DEFINE some == IF Single(cfg, p, i) THEN [a.prev EXCEPT ![i] = {p}] ELSE a.prev
  <2>1. prev = [crtc |-> c, ok |-> TRUE, owner |-> a.owner, pipe |-> a.pipe, prev |-> some]
    BY <1>1, <1>5
  <2>2. some \in [1..Stages -> SUBSET Planes]
        /\ \A j \in 1..Stages : some[j] = IF Single(cfg, p, i) /\ j = i THEN {p} ELSE a.prev[j]
    BY <1>1
  <2> HIDE DEF some, prev
  <2>3. /\ prev \in Assignments(c) /\ prev.ok /\ prev.prev = some
        /\ prev.pipe = a.pipe /\ prev.owner = a.owner
    BY <2>1, <2>2, <1>1 DEF Assignments
  <2>4. Apart(U, Flat(prev.pipe), prev.owner, of) BY <2>3, <1>5 DEF Assigning
  <2>5. b = AssignInStage(prev, cfg, show, p, i) BY <1>2, <1>5
  <2>6. /\ b \in Assignments(c) /\ b.prev = some /\ KeepsOthers(b.pipe, a.pipe, of, c)
        /\ b.ok => Apart(W, Flat(b.pipe), b.owner, of)
    <3> DEFINE e == AssignInStage(prev, cfg, show, p, i)
    <3>1. /\ e \in Assignments(c) /\ e.prev = prev.prev /\ KeepsOthers(e.pipe, prev.pipe, of, c)
          /\ e.ok => Apart(U \cup InStage(p, i, cfg), Flat(e.pipe), e.owner, of)
      BY <2>3, <2>4, AloneStep
    <3> HIDE DEF e
    <3> QED BY <3>1, <2>3, <2>5 DEF e
  <2>7. ASSUME NEW j \in 1..Stages, NEW x \in b.prev[j] PROVE <<x, <<j, 1>>>> \in W /\ cfg[x][j] = 1
    <3>1. CASE Single(cfg, p, i) /\ j = i
      <4>1. x = p /\ cfg[p][i] = 1 BY <2>2, <2>6, <2>7, <3>1 DEF Single
      <4>2. n \in InStage(p, i, cfg) BY <4>1, InStageOf
      <4> QED BY <3>1, <4>1, <4>2
    <3>2. CASE ~(Single(cfg, p, i) /\ j = i)
      <4>1. x \in a.prev[j] BY <2>2, <2>6, <2>7, <3>2
      <4> QED BY <4>1, <1>5 DEF Assigning
    <3> QED BY <3>1, <3>2
  <2>8. \A j \in 1..Stages : b.prev[j] \subseteq a.prev[j] \cup {p} BY <2>2, <2>6
  <2> HIDE DEF W
  <2> QED BY <2>6, <2>7, <2>8 DEF Assigning, Offers, W, b
<1>6. CASE a.ok /\ mode # "NONE"
  <2>1. r \in q /\ r \in Planes /\ of[r] = c BY <1>1, <1>3, <1>6
  <2>2. l \in U /\ cfg[r][i] = 1 BY <2>1, <1>6 DEF Assigning
  <2> HIDE DEF r
  <2>3. n \notin U /\ r # p /\ l # n BY <2>2
  <2> DEFINE rr == Joined(a.pipe, p, r, i, mode)
  <2>8. b = [crtc |-> c, ok |-> TRUE, owner |-> a.owner, pipe |-> rr, prev |-> a.prev]
    BY <1>1, <1>2, <1>6 DEF SetLeft, Joined
  <2>10. rr \in PipeMaps /\ Apart(U \cup {n}, Flat(rr), a.owner, of) /\ KeepsOthers(rr, a.pipe, of, c)
    <3>1. Apart(U, Flat(a.pipe), a.owner, of) BY <1>6 DEF Assigning
    <3>2. mode \in {"PARALLEL", "TIME_MX"} /\ a.pipe[r][i][1].mode = "NONE" BY <1>3, <1>6
    <3>3. of[p] = of[r] BY <2>1
    <3>4. rr \in PipeMaps /\ Apart(U \cup {n}, Flat(rr), a.owner, of) /\ KeepsOthers(rr, a.pipe, of, of[p])
      BY <1>1, <2>1, <2>2, <2>3, <3>1, <3>2, <3>3, JoinStep
    <3> QED BY <3>4
  <2> HIDE DEF rr
  <2>14. W = U \cup {n} BY <1>3, <1>6, InStageOf
  <2>15. b \in Assignments(c) BY <2>8, <2>10, <1>1 DEF Assignments
  <2>16. b.pipe = rr /\ b.owner = a.owner /\ b.prev = a.prev BY <2>8
  <2>17. Assigning(b, W, cfg, of)
    <3> HIDE DEF W, n
    <3>1. \A j \in 1..Stages : \A z \in a.prev[j] : <<z, <<j, 1>>>> \in U /\ cfg[z][j] = 1
      BY <1>6 DEF Assigning
    <3>2. U \subseteq W BY <2>14
    <3> QED BY <2>10, <2>14, <2>16, <3>1, <3>2 DEF Assigning
  <2> QED BY <2>10, <2>15, <2>16, <2>17 DEF Offers, b
<1> QED BY <1>1, <1>4, <1>5, <1>6
-----------------------------------------------------------------------------
(* dpu_plane_assign_resource_in_stage, whatever was assigned before. *)
LEMMA AloneTyped ==
  ASSUME PlaneAssumption, NEW c \in CRTCs, NEW a \in Assignments(c), a.ok,
         NEW p \in Planes, NEW i \in 1..Stages, NEW cfg, NEW show
  PROVE  AssignInStage(a, cfg, show, p, i) \in Assignments(c)
<1> DEFINE needs == show[p].needs
           left  == ReserveSspp(a.owner, needs)
           own   == [a.owner EXCEPT ![left] = c]
           right == ReserveSspp(own, needs)
           new   == [own EXCEPT ![right] = c]
           b     == AssignInStage(a, cfg, show, p, i)
           pp    == SetLeft(a.pipe, p, i, Solo(left))
           qq(x, y) == [a.pipe EXCEPT ![p][i] = <<x, y>>]
           As(ok, o, q) == [crtc |-> c, ok |-> ok, owner |-> o, pipe |-> q, prev |-> a.prev]
<1>1. /\ a.crtc = c /\ a.owner \in [Sspps -> Owners] /\ a.pipe \in PipeMaps
      /\ a.prev \in [1..Stages -> SUBSET Planes] /\ a.ok = TRUE
      /\ a = [crtc |-> a.crtc, ok |-> a.ok, owner |-> a.owner, pipe |-> a.pipe, prev |-> a.prev]
  BY DEF Assignments
<1>2. (left # NoSspp => left \in Sspps) /\ (right # NoSspp => right \in Sspps)
  BY ReserveFree
<1> HIDE DEF left, right
<1>3. \/ b = a \/ b = As(FALSE, a.owner, a.pipe)
      \/ left # NoSspp /\ b = As(TRUE, own, pp)
      \/ left # NoSspp /\ b = As(TRUE, own, qq(Pipe(left, "RECT_0", "PARALLEL"), Pipe(left, "RECT_1", "PARALLEL")))
      \/ left # NoSspp /\ right # NoSspp /\ b = As(TRUE, new, qq(Solo(left), Solo(right)))
  <2>1. \/ b = a \/ b = [a EXCEPT !.ok = FALSE]
        \/ left # NoSspp /\ b = [a EXCEPT !.owner = own, !.pipe[p][i][1] = Solo(left)]
        \/ left # NoSspp /\ b = [a EXCEPT !.owner = own, !.pipe[p][i] = InParallel(left)]
        \/ /\ left # NoSspp /\ right # NoSspp
           /\ b = [a EXCEPT !.owner = new, !.pipe[p][i] = <<Solo(left), Solo(right)>>]
    BY <1>1, Zenon DEF AssignInStage, left, right
  <2> HIDE DEF b
  <2>2. CASE b = [a EXCEPT !.ok = FALSE] BY <1>1, <2>2
  <2>3. CASE left # NoSspp /\ b = [a EXCEPT !.owner = own, !.pipe[p][i][1] = Solo(left)]
    BY <1>1, <2>3 DEF SetLeft
  <2>4. CASE left # NoSspp /\ b = [a EXCEPT !.owner = own, !.pipe[p][i] = InParallel(left)]
    BY <1>1, <2>4 DEF InParallel
  <2>5. CASE /\ left # NoSspp /\ right # NoSspp
             /\ b = [a EXCEPT !.owner = new, !.pipe[p][i] = <<Solo(left), Solo(right)>>]
    BY <1>1, <2>5
  <2> QED BY <2>1, <2>2, <2>3, <2>4, <2>5
<1>4. \A s \in Sspps : /\ Solo(s) \in Pipes
                       /\ Pipe(s, "RECT_0", "PARALLEL") \in Pipes /\ Pipe(s, "RECT_1", "PARALLEL") \in Pipes
  BY DEF Solo, Pipe, Pipes, Indices, Modes
<1>5. own \in [Sspps -> Owners] /\ new \in [Sspps -> Owners] BY <1>1 DEF Owners
<1>6. left # NoSspp => pp \in PipeMaps BY <1>1, <1>2, <1>4, SetPipe
<1>7. \A x, y \in Pipes : qq(x, y) \in PipeMaps BY <1>1, SetPair
<1> HIDE DEF b, own, new, pp, qq
<1>8. \A ok \in BOOLEAN, o \in [Sspps -> Owners], q \in PipeMaps : As(ok, o, q) \in Assignments(c)
  BY <1>1 DEF Assignments
<1> HIDE DEF As
<1> QED BY <1>1, <1>2, <1>3, <1>4, <1>5, <1>6, <1>7, <1>8 DEF b

LEMMA StageTyped ==
  ASSUME PlaneAssumption, NEW c \in CRTCs, NEW a \in Assignments(c),
         NEW p \in Planes, NEW i \in 1..Stages, NEW cfg, NEW show
  PROVE  AssignStage(a, cfg, show, p, i) \in Assignments(c)
<1> DEFINE q    == a.prev[i]
           r    == CHOOSE x \in q : TRUE
           mode == IF q = {} THEN "NONE" ELSE SharedMode(a, cfg, show, p, r, i)
           prev == IF Single(cfg, p, i) THEN [a EXCEPT !.prev[i] = {p}] ELSE a
           some == IF Single(cfg, p, i) THEN [a.prev EXCEPT ![i] = {p}] ELSE a.prev
           b    == AssignStage(a, cfg, show, p, i)
           s    == a.pipe[r][i][1].sspp
           rr   == Joined(a.pipe, p, r, i, mode)
<1>1. /\ a.crtc = c /\ a.owner \in [Sspps -> Owners] /\ a.pipe \in PipeMaps
      /\ a.prev \in [1..Stages -> SUBSET Planes] /\ a.ok \in BOOLEAN
      /\ a = [crtc |-> a.crtc, ok |-> a.ok, owner |-> a.owner, pipe |-> a.pipe, prev |-> a.prev]
  BY DEF Assignments
<1>2. b = IF ~a.ok THEN a
          ELSE IF mode = "NONE" THEN AssignInStage(prev, cfg, show, p, i)
          ELSE [a EXCEPT !.pipe[p][i][1] = Pipe(s, "RECT_1", mode),
                         !.pipe[r][i][1] = Pipe(s, "RECT_0", mode)]
  BY DEF AssignStage
<1>3. mode # "NONE" => mode \in Modes /\ q # {} BY DEF SharedMode, Modes
<1> HIDE DEF b, mode
<1>4. CASE a.ok /\ mode = "NONE"
  <2>1. prev = [crtc |-> c, ok |-> TRUE, owner |-> a.owner, pipe |-> a.pipe, prev |-> some]
    BY <1>1, <1>4
  <2>2. some \in [1..Stages -> SUBSET Planes] BY <1>1
  <2> HIDE DEF prev, some
  <2>3. prev \in Assignments(c) /\ prev.ok BY <1>1, <2>1, <2>2 DEF Assignments
  <2>4. b = AssignInStage(prev, cfg, show, p, i) BY <1>2, <1>4
  <2> QED BY <2>3, <2>4, AloneTyped DEF b
<1>5. CASE ~a.ok BY <1>2, <1>5 DEF b
<1>7. CASE a.ok /\ mode # "NONE"
  <2>1. r \in Planes BY <1>1, <1>3, <1>7
  <2> HIDE DEF r
  <2>2. s \in Sspps \cup {NoSspp}
    <3>1. a.pipe[r][i][1] \in Pipes
      <4>1. a.pipe[r] \in [1..Stages -> [1..2 -> Pipes]] BY <1>1, <2>1 DEF PipeMaps
      <4>2. a.pipe[r][i] \in [1..2 -> Pipes] BY <4>1
      <4> QED BY <4>2
    <3> QED BY <3>1 DEF Pipes
  <2>3. b = [crtc |-> c, ok |-> TRUE, owner |-> a.owner, pipe |-> rr, prev |-> a.prev]
    BY <1>1, <1>2, <1>7 DEF SetLeft, Joined
  <2>4. rr \in PipeMaps
    <3> DEFINE x == Pipe(s, "RECT_1", mode)
               y == Pipe(s, "RECT_0", mode)
               pp == SetLeft(a.pipe, p, i, x)
    <3>1. x \in Pipes /\ y \in Pipes BY <1>3, <1>7, <2>2 DEF Pipe, Pipes, Indices
    <3>2. rr = SetLeft(pp, r, i, y) BY DEF Joined
    <3> HIDE DEF x, y
    <3>3. pp \in PipeMaps BY <1>1, <3>1, SetPipe
    <3> HIDE DEF pp
    <3>4. SetLeft(pp, r, i, y) \in PipeMaps BY <2>1, <3>1, <3>3, SetPipe
    <3> QED BY <3>2, <3>4
  <2> HIDE DEF rr
  <2> QED BY <2>3, <2>4, <1>1 DEF Assignments, b
<1> QED BY <1>4, <1>5, <1>7
(* The pipes of plane p are reset. *)
Emptied(a, p) == [a EXCEPT !.pipe[p] = NoPipes]

(* The loop over the stages of a plane is what each turn makes of the one before. *)
LEMMA PlaneScan ==
  ASSUME PlaneAssumption, NEW c \in CRTCs, NEW a \in Assignments(c), NEW p \in Planes, NEW cfg, NEW show
  PROVE  \E f : /\ f[0] = Emptied(a, p)
                /\ \A i \in 0..(Stages - 1) : f[i + 1] = AssignStage(f[i], cfg, show, p, i + 1)
                /\ \A i \in 0..Stages : f[i] \in Assignments(c)
                /\ AssignPlane(a, cfg, show, p) = f[Stages]
<1> DEFINE T     == Assignments(c)
           start == Emptied(a, p)
           Turn  == [x \in T \X Nat |-> IF x[2] < Stages THEN AssignStage(x[1], cfg, show, p, x[2] + 1) ELSE x[1]]
           Is(f) == f = [i \in 0..Stages |->
                           IF i = 0 THEN start ELSE AssignStage(f[i - 1], cfg, show, p, i)]
<1>1. Stages \in Nat BY DEF PlaneAssumption
<1>2. start \in T
  <2> DEFINE pp == [a.pipe EXCEPT ![p] = NoPipes]
  <2>1. /\ a.crtc = c /\ a.owner \in [Sspps -> Owners] /\ a.pipe \in PipeMaps
        /\ a.prev \in [1..Stages -> SUBSET Planes] /\ a.ok \in BOOLEAN
        /\ a = [crtc |-> a.crtc, ok |-> a.ok, owner |-> a.owner, pipe |-> a.pipe, prev |-> a.prev]
    BY DEF Assignments
  <2>2. NoPipes \in [1..Stages -> [1..2 -> Pipes]]
    <3>1. Solo(NoSspp) \in Pipes BY DEF Solo, Pipe, Pipes, Indices, Modes
    <3>2. <<Solo(NoSspp), Solo(NoSspp)>> \in [1..2 -> Pipes] BY <3>1
    <3> QED BY <3>2 DEF NoPipes
  <2>3. pp \in PipeMaps BY <2>1, <2>2 DEF PipeMaps
  <2> DEFINE e == start
  <2>4. e.crtc = c /\ e.ok \in BOOLEAN /\ e.owner = a.owner /\ e.pipe = pp /\ e.prev = a.prev
    BY <2>1 DEF Emptied
  <2> HIDE DEF pp
  <2>5. e = [crtc |-> e.crtc, ok |-> e.ok, owner |-> e.owner, pipe |-> e.pipe, prev |-> e.prev]
    BY <2>1 DEF Emptied
  <2> QED BY <2>1, <2>3, <2>4, <2>5 DEF Assignments
<1> HIDE DEF start
<1>3. Turn \in [T \X Nat -> T]
  <2> SUFFICES ASSUME NEW x \in T \X Nat, x[2] < Stages PROVE AssignStage(x[1], cfg, show, p, x[2] + 1) \in T
    OBVIOUS
  <2>1. x[1] \in T /\ x[2] + 1 \in 1..Stages BY <1>1
  <2> HIDE DEF T
  <2> QED BY <2>1, StageTyped DEF T
<1>4. PICK f : Iterates(f, Stages, T, start, Turn)
  <2> HIDE DEF Turn, T
  <2> QED BY <1>1, <1>2, <1>3, IterationExists
<1>5. \A i \in 0..(Stages - 1) : f[i + 1] = AssignStage(f[i], cfg, show, p, i + 1)
  <2> TAKE i \in 0..(Stages - 1)
  <2>1. i \in 0..Stages /\ i < Stages /\ i \in Nat BY <1>1
  <2>2. <<f[i], i>> \in T \X Nat BY <1>4, <2>1 DEF Iterates
  <2>3. f[i + 1] = Turn[<<f[i], i>>] BY <1>4 DEF Iterates
  <2> QED BY <2>1, <2>2, <2>3
<1> HIDE DEF Turn, T
<1>6. f[0] = start /\ f = [i \in 0..Stages |-> f[i]] /\ \A i \in 0..Stages : f[i] \in T
  BY <1>4 DEF Iterates
<1>7. Is(f)
  <2>1. ASSUME NEW i \in 0..Stages, i # 0 PROVE f[i] = AssignStage(f[i - 1], cfg, show, p, i)
    <3>1. i - 1 \in 0..(Stages - 1) /\ (i - 1) + 1 = i BY <1>1, <2>1
    <3> QED BY <3>1, <1>5
  <2> QED BY <1>6, <2>1
<1> DEFINE g == CHOOSE h : Is(h)
<1>8. Is(g)
  <2> HIDE DEF Is
  <2> QED BY <1>7, Zenon
<1>9. AssignPlane(a, cfg, show, p) = g[Stages] BY DEF AssignPlane, start, Emptied
<1> HIDE DEF g
<1>10. g[0] = start BY <1>1, <1>8
<1>11. \A i \in 0..(Stages - 1) : g[i + 1] = AssignStage(g[i], cfg, show, p, i + 1)
  <2> TAKE i \in 0..(Stages - 1)
  <2>1. i + 1 \in 0..Stages /\ i + 1 # 0 /\ (i + 1) - 1 = i BY <1>1
  <2> QED BY <1>8, <2>1
<1>12. \A i \in Nat : i \in 0..Stages => g[i] \in T
  <2> DEFINE S == {i \in Nat : i \in 0..Stages => g[i] \in T}
  <2>1. 0 \in S BY <1>2, <1>10
  <2>2. ASSUME NEW i \in Nat, i \in S PROVE i + 1 \in S
    <3> SUFFICES ASSUME i + 1 \in 0..Stages PROVE g[i + 1] \in T OBVIOUS
    <3>1. i \in 0..(Stages - 1) /\ i \in 0..Stages /\ i + 1 \in 1..Stages BY <1>1
    <3>2. g[i] \in T BY <2>2, <3>1
    <3>3. AssignStage(g[i], cfg, show, p, i + 1) \in T BY <3>1, <3>2, StageTyped DEF T
    <3> QED BY <1>11, <3>1, <3>3
  <2> QED BY <2>1, <2>2, InductionOnNat
<1> QED BY <1>9, <1>10, <1>11, <1>12 DEF start, T
(* What a check has in hand before it assigns anything. *)
Start(c) ==
  [crtc |-> c, ok |-> TRUE, owner |-> ReleaseAll(c), pipe |-> pipe, prev |-> [i \in 1..Stages |-> {}]]

(* So is the loop over the planes of a check. *)
LEMMA AssignScan ==
  ASSUME PlaneAssumption, NEW c \in CRTCs, Start(c) \in Assignments(c),
         NEW stack, Len(stack) \in Nat, \A k \in 1..Len(stack) : stack[k] \in Planes, NEW cfg, NEW show
  PROVE  \E f : /\ f[0] = Start(c)
                /\ \A k \in 0..(Len(stack) - 1) : f[k + 1] = AssignPlane(f[k], cfg, show, stack[k + 1])
                /\ \A k \in 0..Len(stack) : f[k] \in Assignments(c)
                /\ Assign(c, stack, cfg, show) = f[Len(stack)]
<1> DEFINE T    == Assignments(c)
           N    == Len(stack)
           Turn == [x \in T \X Nat |-> IF x[2] < N THEN AssignPlane(x[1], cfg, show, stack[x[2] + 1]) ELSE x[1]]
           Is(f) == f = [k \in 0..N |->
                           IF k = 0 THEN Start(c) ELSE AssignPlane(f[k - 1], cfg, show, stack[k])]
<1>1. N \in Nat OBVIOUS
<1>2. ASSUME NEW a \in T, NEW k \in 1..N PROVE AssignPlane(a, cfg, show, stack[k]) \in T
  <2>1. Stages \in 0..Stages BY DEF PlaneAssumption
  <2>2. stack[k] \in Planes OBVIOUS
  <2> DEFINE p == stack[k]
  <2>4. p \in Planes /\ a \in Assignments(c) BY <2>2
  <2> HIDE DEF p
  <2>3. PICK f : /\ \A i \in 0..Stages : f[i] \in Assignments(c)
                 /\ AssignPlane(a, cfg, show, p) = f[Stages]
    BY <2>4, PlaneScan
  <2> QED BY <2>1, <2>3 DEF p
<1> HIDE DEF N
<1>3. Turn \in [T \X Nat -> T]
  <2> SUFFICES ASSUME NEW x \in T \X Nat, x[2] < N PROVE AssignPlane(x[1], cfg, show, stack[x[2] + 1]) \in T
    OBVIOUS
  <2>1. x[1] \in T /\ x[2] + 1 \in 1..N BY <1>1
  <2> HIDE DEF T
  <2> QED BY <2>1, <1>2
<1>4. PICK f : Iterates(f, N, T, Start(c), Turn)
  <2> HIDE DEF Turn
  <2> QED BY <1>1, <1>3, IterationExists
<1>5. \A k \in 0..(N - 1) : f[k + 1] = AssignPlane(f[k], cfg, show, stack[k + 1])
  <2> TAKE k \in 0..(N - 1)
  <2>1. k \in 0..N /\ k < N /\ k \in Nat BY <1>1
  <2>2. <<f[k], k>> \in T \X Nat BY <1>4, <2>1 DEF Iterates
  <2>3. f[k + 1] = Turn[<<f[k], k>>] BY <1>4 DEF Iterates
  <2> QED BY <2>1, <2>2, <2>3
<1> HIDE DEF Turn, T
<1>6. f[0] = Start(c) /\ f = [k \in 0..N |-> f[k]]
  BY <1>4 DEF Iterates
<1>7. Is(f)
  <2>1. ASSUME NEW k \in 0..N, k # 0 PROVE f[k] = AssignPlane(f[k - 1], cfg, show, stack[k])
    <3>1. k - 1 \in 0..(N - 1) /\ (k - 1) + 1 = k BY <1>1, <2>1
    <3> QED BY <3>1, <1>5
  <2> QED BY <1>6, <2>1
<1> DEFINE g == CHOOSE h : Is(h)
<1>8. Is(g)
  <2> HIDE DEF Is
  <2> QED BY <1>7, Zenon
<1>9. Assign(c, stack, cfg, show) = g[N] BY DEF Assign, Start, N
<1> HIDE DEF g
<1>10. g[0] = Start(c) BY <1>1, <1>8
<1>11. \A k \in 0..(N - 1) : g[k + 1] = AssignPlane(g[k], cfg, show, stack[k + 1])
  <2> TAKE k \in 0..(N - 1)
  <2>1. k + 1 \in 0..N /\ k + 1 # 0 /\ (k + 1) - 1 = k BY <1>1
  <2> QED BY <1>8, <2>1
<1>12. \A k \in Nat : k \in 0..N => g[k] \in T
  <2> DEFINE S == {k \in Nat : k \in 0..N => g[k] \in T}
  <2>1. 0 \in S BY <1>10 DEF T
  <2>2. ASSUME NEW k \in Nat, k \in S PROVE k + 1 \in S
    <3> SUFFICES ASSUME k + 1 \in 0..N PROVE g[k + 1] \in T OBVIOUS
    <3>1. k \in 0..(N - 1) /\ k \in 0..N /\ k + 1 \in 1..N BY <1>1
    <3>2. g[k] \in T BY <2>2, <3>1
    <3> QED BY <1>2, <1>11, <3>1, <3>2
  <2> QED BY <2>1, <2>2, InductionOnNat
<1>13. \A k \in 0..N : g[k] \in Assignments(c)
  <2> TAKE k \in 0..N
  <2>1. k \in Nat BY <1>1
  <2> QED BY <2>1, <1>12 DEF T
<1> HIDE DEF T
<1> QED BY <1>9, <1>10, <1>11, <1>13 DEF N

-----------------------------------------------------------------------------
(* Only what is at U counts. *)
LEMMA SameApart ==
  ASSUME NEW U, NEW at, NEW own, NEW of, Apart(U, at, own, of), NEW bt, \A f \in U : bt[f] = at[f]
  PROVE  Apart(U, bt, own, of)
<1>1. HavePipes(U, bt) BY DEF Apart, HavePipes
<1>2. Unshared(U, bt) BY DEF Apart, Unshared
<1>3. Mated(U, bt, of)
  <2> SUFFICES ASSUME NEW f \in U, bt[f].index # "SOLO" PROVE \E g \in U : Mates(bt, of, f, g)
    BY DEF Mated
  <2>1. PICK g \in U : Mates(at, of, f, g) BY DEF Apart, Mated
  <2> QED BY <2>1 DEF Mates
<1>4. OwnedBy(U, bt, own, of) BY DEF Apart, OwnedBy
<1> QED BY <1>1, <1>2, <1>3, <1>4 DEF Apart

(* The places of a plane, stage by stage. *)
LEMMA ShownStages ==
  ASSUME NEW p \in Planes, NEW cfg
  PROVE  /\ Shown({p}, cfg) \subseteq Places
         /\ \A f \in Shown({p}, cfg) : f[1] = p
         /\ \A f : f \in Shown({p}, cfg) <=> \E i \in 1..Stages : f \in InStage(p, i, cfg)
<1>1. \A f : f \in Shown({p}, cfg) <=>
             f \in {p} \X ((1..Stages) \X (1..2)) /\ f[2][2] <= cfg[f[1]][f[2][1]]
  BY DEF Shown
<1>2. \A i, f : f \in InStage(p, i, cfg) <=> f \in {p} \X ({i} \X (1..2)) /\ f[2][2] <= cfg[p][i]
  BY DEF InStage
<1>3. \A f : f \in {p} \X ((1..Stages) \X (1..2)) =>
             /\ f \in Places /\ f[1] = p /\ f[2][1] \in 1..Stages
             /\ f \in {p} \X ({f[2][1]} \X (1..2))
  BY DEF Places
<1>4. \A i \in 1..Stages : \A f \in {p} \X ({i} \X (1..2)) :
        f \in {p} \X ((1..Stages) \X (1..2)) /\ f[2][1] = i /\ f[1] = p
  OBVIOUS
<1>5. ASSUME NEW f \in Shown({p}, cfg) PROVE \E i \in 1..Stages : f \in InStage(p, i, cfg)
  <2>1. f[2][1] \in 1..Stages /\ f \in InStage(p, f[2][1], cfg) BY <1>1, <1>2, <1>3
  <2> QED BY <2>1
<1>6. ASSUME NEW i \in 1..Stages, NEW f \in InStage(p, i, cfg) PROVE f \in Shown({p}, cfg)
  <2>1. f \in {p} \X ({i} \X (1..2)) /\ f[2][2] <= cfg[p][i] BY <1>2
  <2>2. f \in {p} \X ((1..Stages) \X (1..2)) /\ f[2][1] = i /\ f[1] = p BY <2>1
  <2> QED BY <2>1, <2>2 DEF Shown
<1> QED BY <1>1, <1>3, <1>5, <1>6
(* Those of the first k stages. *)
Upto(p, k, cfg) == {f \in Shown({p}, cfg) : f[2][1] <= k}

LEMMA UptoStages ==
  ASSUME PlaneAssumption, NEW p \in Planes, NEW cfg
  PROVE  /\ Upto(p, 0, cfg) = {} /\ Upto(p, Stages, cfg) = Shown({p}, cfg)
         /\ \A k \in 0..(Stages - 1) : Upto(p, k, cfg) \cup InStage(p, k + 1, cfg) = Upto(p, k + 1, cfg)
<1>1. Stages \in Nat BY DEF PlaneAssumption
<1>2. \A i, f : f \in InStage(p, i, cfg) => f[2][1] = i BY DEF InStage
<1>3. \A f \in Shown({p}, cfg) : f[2][1] \in 1..Stages /\ f \in InStage(p, f[2][1], cfg)
  <2> TAKE f \in Shown({p}, cfg)
  <2>1. PICK i \in 1..Stages : f \in InStage(p, i, cfg) BY ShownStages
  <2> QED BY <2>1, <1>2
<1>4. Upto(p, 0, cfg) = {} /\ Upto(p, Stages, cfg) = Shown({p}, cfg)
  BY <1>1, <1>3 DEF Upto
<1>5. ASSUME NEW k \in 0..(Stages - 1)
      PROVE  Upto(p, k, cfg) \cup InStage(p, k + 1, cfg) = Upto(p, k + 1, cfg)
  <2>1. k + 1 \in 1..Stages /\ k \in Nat BY <1>1
  <2>2. \A f \in InStage(p, k + 1, cfg) : f \in Shown({p}, cfg) /\ f[2][1] = k + 1
    BY <2>1, <1>2, ShownStages
  <2>3. ASSUME NEW f \in Shown({p}, cfg) PROVE f[2][1] <= k + 1 <=> f[2][1] <= k \/ f \in InStage(p, k + 1, cfg)
    <3>1. f[2][1] \in 1..Stages /\ f \in InStage(p, f[2][1], cfg) BY <1>3
    <3>2. f[2][1] \in Nat BY <3>1
    <3>3. f \in InStage(p, k + 1, cfg) <=> f[2][1] = k + 1 BY <2>2, <3>1
    <3> QED BY <2>1, <3>2, <3>3
  <2> QED BY <2>2, <2>3 DEF Upto
<1> QED BY <1>4, <1>5

(* dpu_plane_virtual_assign_resources adds the pipes of a plane. *)
LEMMA PlaneStep ==
  ASSUME PlaneAssumption, NEW c \in CRTCs, NEW a \in Assignments(c),
         NEW p \in Planes, NEW cfg, cfg[p] \in [1..Stages -> 0..2], NEW show,
         NEW U \in SUBSET Places, \A f \in U : f[1] # p,
         NEW of, of[p] = c, \A f \in U : of[f[1]] \in CRTCs,
         \A i \in 1..Stages : \A q \in a.prev[i] : of[q] = c,
         Assigning(a, U, cfg, of)
  PROVE  LET b == AssignPlane(a, cfg, show, p)
         IN  /\ b \in Assignments(c)
             /\ Assigning(b, U \cup Shown({p}, cfg), cfg, of)
             /\ Offers(b, a, p) /\ KeepsOthers(b.pipe, a.pipe, of, c)
<1>1. PICK g : /\ g[0] = Emptied(a, p)
               /\ \A i \in 0..(Stages - 1) : g[i + 1] = AssignStage(g[i], cfg, show, p, i + 1)
               /\ \A i \in 0..Stages : g[i] \in Assignments(c)
               /\ AssignPlane(a, cfg, show, p) = g[Stages]
  BY PlaneScan, SMTT(30)
<1>2. Stages \in Nat BY DEF PlaneAssumption
<1> DEFINE Fine(k) == /\ Assigning(g[k], U \cup Upto(p, k, cfg), cfg, of)
                      /\ Offers(g[k], a, p) /\ KeepsOthers(g[k].pipe, a.pipe, of, c)
<1>3. Fine(0)
  <2> DEFINE e == Emptied(a, p)
  <2>1. e = [a EXCEPT !.pipe = [a.pipe EXCEPT ![p] = NoPipes]] BY DEF Emptied
  <2>2. /\ a.pipe \in PipeMaps
        /\ a = [crtc |-> a.crtc, ok |-> a.ok, owner |-> a.owner, pipe |-> a.pipe, prev |-> a.prev]
    BY DEF Assignments
  <2> DEFINE pp == [a.pipe EXCEPT ![p] = NoPipes]
  <2>3. \A f \in Places : f[1] # p => Flat(pp)[f] = Flat(a.pipe)[f]
    <3> SUFFICES ASSUME NEW f \in Places, f[1] # p PROVE Flat(pp)[f] = Flat(a.pipe)[f] OBVIOUS
    <3>1. f \in Places /\ f[1] # p /\ f[1] \in Planes BY DEF Places
    <3>2. pp[f[1]] = a.pipe[f[1]] BY <2>2, <3>1 DEF PipeMaps
    <3> HIDE DEF pp
    <3> QED BY <3>1, <3>2 DEF Flat
  <2> HIDE DEF e, pp
  <2>4. e.ok = a.ok /\ e.owner = a.owner /\ e.prev = a.prev /\ e.pipe = pp
    BY <2>1, <2>2 DEF pp
  <2>5. U \cup Upto(p, 0, cfg) = U BY UptoStages
  <2>6. Assigning(e, U, cfg, of)
    <3> SUFFICES ASSUME a.ok PROVE Apart(U, Flat(pp), a.owner, of)
      BY <2>4 DEF Assigning
    <3>1. Apart(U, Flat(a.pipe), a.owner, of) BY DEF Assigning
    <3>2. \A f \in U : Flat(pp)[f] = Flat(a.pipe)[f] BY <2>3
    <3> QED BY <3>1, <3>2, SameApart
  <2>7. Offers(e, a, p) BY <2>4 DEF Offers
  <2>8. KeepsOthers(e.pipe, a.pipe, of, c) BY <2>3, <2>4 DEF KeepsOthers
  <2> QED BY <1>1, <2>5, <2>6, <2>7, <2>8 DEF e
<1>4. ASSUME NEW k \in 0..(Stages - 1), Fine(k) PROVE Fine(k + 1)
  <2> DEFINE x == g[k]
             V == U \cup Upto(p, k, cfg)
             i == k + 1
             y == AssignStage(x, cfg, show, p, i)
  <2>1. k \in 0..Stages /\ k \in Nat /\ i \in 1..Stages BY <1>2
  <2>2. x \in Assignments(c) /\ g[k + 1] = y BY <1>1, <2>1
  <2>3. cfg[p][i] \in 0..2 BY <2>1
  <2>4. V \in SUBSET Places /\ \A f \in V : of[f[1]] \in CRTCs
    BY ShownStages DEF Upto
  <2>5. \A l \in 1..2 : <<p, <<i, l>>>> \notin V
    <3> SUFFICES ASSUME NEW l \in 1..2, <<p, <<i, l>>>> \in Upto(p, k, cfg) PROVE FALSE OBVIOUS
    <3>1. i <= k BY DEF Upto
    <3> QED BY <2>1, <3>1
  <2>6. \A q \in x.prev[i] : of[q] = c BY <1>4, <2>1 DEF Offers
  <2>7. Assigning(x, V, cfg, of) BY <1>4
  <2>8. V \cup InStage(p, i, cfg) = U \cup Upto(p, k + 1, cfg)
    <3>1. Upto(p, k, cfg) \cup InStage(p, k + 1, cfg) = Upto(p, k + 1, cfg) BY UptoStages
    <3> QED BY <3>1
  <2> HIDE DEF V, x, i
  <2>9. /\ y \in Assignments(c)
        /\ Assigning(y, V \cup InStage(p, i, cfg), cfg, of)
        /\ Offers(y, x, p) /\ KeepsOthers(y.pipe, x.pipe, of, c)
    <3>1. x \in Assignments(c) /\ i \in 1..Stages /\ cfg[p][i] \in 0..2 BY <2>1, <2>2, <2>3
    <3>2. (\A f \in V : of[f[1]] \in CRTCs) /\ V \in SUBSET Places BY <2>4
    <3> QED BY <3>1, <3>2, <2>5, <2>6, <2>7, StageStep
  <2>10. Offers(y, a, p) BY <1>4, <2>9 DEF Offers, x
  <2>11. KeepsOthers(y.pipe, a.pipe, of, c) BY <1>4, <2>9 DEF KeepsOthers, x
  <2> HIDE DEF y
  <2> QED BY <2>2, <2>8, <2>9, <2>10, <2>11
<1> HIDE DEF Fine
<1>5. \A k \in Nat : k \in 0..Stages => Fine(k)
  <2> DEFINE S == {k \in Nat : k \in 0..Stages => Fine(k)}
  <2>1. 0 \in S BY <1>3
  <2>2. ASSUME NEW k \in Nat, k \in S PROVE k + 1 \in S
    <3> SUFFICES ASSUME k + 1 \in 0..Stages PROVE Fine(k + 1) OBVIOUS
    <3>1. k \in 0..(Stages - 1) /\ k \in 0..Stages BY <1>2
    <3> QED BY <1>4, <2>2, <3>1
  <2> QED BY <2>1, <2>2, InductionOnNat
<1>6. Fine(Stages) /\ Stages \in 0..Stages BY <1>2, <1>5
<1> QED BY <1>1, <1>6, UptoStages DEF Fine
(* dpu_assign_plane_resources, from pipes that are apart at U, adds those  *)
(* of the planes of stack.                                                 *)
LEMMA AssignStep ==
  ASSUME PlaneAssumption, NEW c \in CRTCs, Start(c) \in Assignments(c),
         NEW stack, Len(stack) \in Nat, \A k \in 1..Len(stack) : stack[k] \in Planes,
         \A j, k \in 1..Len(stack) : stack[j] = stack[k] => j = k,
         NEW cfg \in [Planes -> [1..Stages -> 0..2]], NEW show,
         NEW of, \A k \in 1..Len(stack) : of[stack[k]] = c,
         NEW U \in SUBSET Places, \A f \in U : of[f[1]] \in CRTCs,
         \A f \in U, k \in 1..Len(stack) : f[1] # stack[k],
         Apart(U, Flat(pipe), ReleaseAll(c), of)
  PROVE  LET b == Assign(c, stack, cfg, show)
         IN  /\ b \in Assignments(c)
             /\ b.ok => Apart(U \cup Shown({stack[k] : k \in 1..Len(stack)}, cfg), Flat(b.pipe), b.owner, of)
             /\ KeepsOthers(b.pipe, pipe, of, c)
<1>1. PICK g : /\ g[0] = Start(c)
               /\ \A k \in 0..(Len(stack) - 1) : g[k + 1] = AssignPlane(g[k], cfg, show, stack[k + 1])
               /\ \A k \in 0..Len(stack) : g[k] \in Assignments(c)
               /\ Assign(c, stack, cfg, show) = g[Len(stack)]
  BY AssignScan
<1> DEFINE N == Len(stack)
           Early(k) == {stack[j] : j \in 1..k}
           Fine(k) == /\ Assigning(g[k], U \cup Shown(Early(k), cfg), cfg, of)
                      /\ \A i \in 1..Stages : g[k].prev[i] \subseteq Early(k)
                      /\ KeepsOthers(g[k].pipe, pipe, of, c)
<1>2. N \in Nat OBVIOUS
<1>3. Fine(0)
  <2>1. Early(0) = {} OBVIOUS
  <2>2. Shown({}, cfg) = {} BY DEF Shown
  <2>3. g[0].pipe = pipe /\ g[0].owner = ReleaseAll(c) /\ \A i \in 1..Stages : g[0].prev[i] = {}
    BY <1>1 DEF Start
  <2>4. U \cup Shown(Early(0), cfg) = U BY <2>1, <2>2
  <2> HIDE DEF Early
  <2>5. Assigning(g[0], U, cfg, of) BY <2>3 DEF Assigning
  <2>6. KeepsOthers(g[0].pipe, pipe, of, c) BY <2>3 DEF KeepsOthers
  <2> QED BY <2>3, <2>4, <2>5, <2>6
<1>4. ASSUME NEW k \in 0..(N - 1), Fine(k) PROVE Fine(k + 1)
  <2> DEFINE x == g[k]
             V == U \cup Shown(Early(k), cfg)
             p == stack[k + 1]
             y == AssignPlane(x, cfg, show, p)
  <2>1. k \in 0..N /\ k \in Nat /\ k + 1 \in 1..N BY <1>2
  <2>2. x \in Assignments(c) /\ g[k + 1] = y BY <1>1, <2>1
  <2>3. p \in Planes /\ of[p] = c /\ cfg[p] \in [1..Stages -> 0..2] BY <2>1
  <2>4. \A j \in 1..k : j \in 1..N /\ j # k + 1 BY <1>2, <2>1
  <2>5. \A q \in Early(k) : q \in Planes /\ of[q] = c /\ q # p BY <2>1, <2>4
  <2>6. Early(k + 1) = Early(k) \cup {p}
    <3>1. \A j : j \in 1..(k + 1) <=> j \in 1..k \/ j = k + 1 BY <2>1
    <3> QED BY <3>1
  <2> HIDE DEF Early, p
  <2>7. \A f \in Shown(Early(k), cfg) : f \in Places /\ f[1] \in Early(k) BY <2>5 DEF Shown, Places
  <2>8. V \in SUBSET Places /\ (\A f \in V : of[f[1]] \in CRTCs) /\ (\A f \in V : f[1] # p)
    <3>1. \A f \in U : f[1] # p BY <2>1 DEF p
    <3> QED BY <2>5, <2>7, <3>1
  <2>9. \A i \in 1..Stages : \A q \in x.prev[i] : of[q] = c BY <1>4, <2>5
  <2>10. Assigning(x, V, cfg, of) BY <1>4
  <2>11. V \cup Shown({p}, cfg) = U \cup Shown(Early(k + 1), cfg)
    <3>1. Shown(Early(k) \cup {p}, cfg) = Shown(Early(k), cfg) \cup Shown({p}, cfg) BY DEF Shown
    <3> QED BY <2>6, <3>1
  <2> HIDE DEF V, x
  <2>12. /\ Assigning(y, V \cup Shown({p}, cfg), cfg, of)
         /\ Offers(y, x, p) /\ KeepsOthers(y.pipe, x.pipe, of, c)
    BY <2>2, <2>3, <2>8, <2>9, <2>10, PlaneStep
  <2>13. \A i \in 1..Stages : y.prev[i] \subseteq Early(k + 1) BY <1>4, <2>6, <2>12 DEF Offers, x
  <2>14. KeepsOthers(y.pipe, pipe, of, c) BY <1>4, <2>12 DEF KeepsOthers, x
  <2> HIDE DEF y
  <2> QED BY <2>2, <2>11, <2>12, <2>13, <2>14
<1> HIDE DEF Fine
<1>5. \A k \in Nat : k \in 0..N => Fine(k)
  <2> DEFINE S == {k \in Nat : k \in 0..N => Fine(k)}
  <2>1. 0 \in S BY <1>3
  <2>2. ASSUME NEW k \in Nat, k \in S PROVE k + 1 \in S
    <3> SUFFICES ASSUME k + 1 \in 0..N PROVE Fine(k + 1) OBVIOUS
    <3>1. k \in 0..(N - 1) /\ k \in 0..N BY <1>2
    <3> QED BY <1>4, <2>2, <3>1
  <2> QED BY <2>1, <2>2, InductionOnNat
<1>6. Fine(N) /\ N \in 0..N BY <1>2, <1>5
<1> QED BY <1>1, <1>6 DEF Fine, Assigning
(* A stack of planes has each of them once. *)
LEMMA Stacks ==
  ASSUME PlaneAssumption, NEW shown \in SUBSET Planes, NEW stack \in SetToSeqs(shown)
  PROVE  /\ Len(stack) \in Nat
         /\ \A k \in 1..Len(stack) : stack[k] \in shown
         /\ \A j, k \in 1..Len(stack) : stack[j] = stack[k] => j = k
         /\ {stack[k] : k \in 1..Len(stack)} = shown
<1> DEFINE n == Cardinality(shown)
<1>1. IsFiniteSet(shown) /\ n \in Nat BY FS_Subset, FS_CardinalityType DEF PlaneAssumption
<1>2. stack \in [1..n -> shown] /\ \A j, k \in 1..n : j # k => stack[j] # stack[k]
  BY DEF SetToSeqs
<1>3. Cardinality(1..n) = n /\ IsFiniteSet(1..n) BY <1>1, FS_Interval
<1> HIDE DEF n
<1>4. Len(stack) = n BY <1>1, <1>2
<1>5. stack \in Injection(1..n, shown) BY <1>2 DEF Injection, IsInjective
<1>6. stack \in Surjection(1..n, shown) BY <1>1, <1>3, <1>5, FS_Injection DEF n
<1>7. {stack[k] : k \in 1..n} = shown BY <1>2, <1>6 DEF Surjection
<1> QED BY <1>1, <1>2, <1>4, <1>7

(* After dpu_rm_release_all_sspp for CRTC c, the pipes of the others are     *)
(* apart, and own what is left.                                            *)
LEMMA ReleaseStep ==
  ASSUME NEW c, NEW U, NEW at, NEW of, Apart(U, at, owner, of), \A f \in U : of[f[1]] # Free,
         NEW V, V = {f \in U : of[f[1]] # c},
         NEW to, \A f \in V : to[f[1]] = of[f[1]]
  PROVE  Apart(V, at, ReleaseAll(c), to)
<1> DEFINE own == ReleaseAll(c)
<1>1. \A s \in Sspps : own[s] = IF owner[s] = c THEN Free ELSE owner[s] BY DEF ReleaseAll
<1> HIDE DEF own
<1>2. HavePipes(V, at) BY DEF Apart, HavePipes
<1>3. Unshared(V, at) BY DEF Apart, Unshared
<1>4. Mated(V, at, to)
  <2> SUFFICES ASSUME NEW f \in V, at[f].index # "SOLO" PROVE \E g \in V : Mates(at, to, f, g)
    BY DEF Mated
  <2>1. PICK g \in U : Mates(at, of, f, g) BY DEF Apart, Mated
  <2>2. g \in V BY <2>1 DEF Mates
  <2> QED BY <2>1, <2>2 DEF Mates
<1>5. OwnedBy(V, at, own, to)
  <2>1. ASSUME NEW f \in V PROVE own[at[f].sspp] = to[f[1]]
    <3>1. at[f].sspp \in Sspps /\ owner[at[f].sspp] = of[f[1]] BY DEF Apart, HavePipes, OwnedBy
    <3> QED BY <3>1, <1>1
  <2>2. ASSUME NEW s \in Sspps, own[s] # Free PROVE \E f \in V : at[f].sspp = s
    <3>1. owner[s] # c /\ owner[s] # Free BY <1>1, <2>2
    <3>2. PICK f \in U : at[f].sspp = s BY <3>1 DEF Apart, OwnedBy
    <3>3. of[f[1]] = owner[s] BY <3>2 DEF Apart, OwnedBy
    <3> QED BY <3>1, <3>2, <3>3
  <2> QED BY <2>1, <2>2 DEF OwnedBy
<1> QED BY <1>2, <1>3, <1>4, <1>5 DEF Apart, own

-----------------------------------------------------------------------------
Registers == [rects : SUBSET Indices, time : BOOLEAN]

(* What is asked of a plane, and the pipes, are of their types. *)
Typed ==
  /\ owner \in [Sspps -> Owners] /\ crtcOf \in [Planes -> Owners]
  /\ rects \in [Planes -> [1..Stages -> 0..2]] /\ pipe \in PipeMaps
  /\ opmode \in [Sspps -> Registers] /\ toUpdate \subseteq Planes

(* Multirect is off in the SSPPs that pipes have alone, but for planes that *)
(* a commit has yet to update.                                             *)
Programmed ==
  \A f \in Shown(Visible, rects) :
    f[1] \notin toUpdate /\ Flat(pipe)[f].index = "SOLO" => opmode[Flat(pipe)[f].sspp].rects = {}

(* The inductive invariant: what shows something has its pipes apart, and    *)
(* an SSPP has an owner exactly if something fetches from it.              *)
PlanesInv ==
  Typed /\ Apart(Shown(Visible, rects), Flat(pipe), owner, crtcOf) /\ Programmed

LEMMA NoPipesTyped == NoPipes \in [1..Stages -> [1..2 -> Pipes]]
<1>1. Solo(NoSspp) \in Pipes BY DEF Solo, Pipe, Pipes, Indices, Modes
<1>2. <<Solo(NoSspp), Solo(NoSspp)>> \in [1..2 -> Pipes] BY <1>1
<1> QED BY <1>2 DEF NoPipes

LEMMA InitPlanes == ASSUME PlaneAssumption, PlanesInit PROVE PlanesInv
<1>1. Visible = {} BY DEF PlanesInit, Visible
<1>2. Shown({}, rects) = {} BY DEF Shown
<1>3. Shown(Visible, rects) = {} BY <1>1, <1>2
<1>4. \A s \in Sspps : owner[s] = Free BY DEF PlanesInit
<1>5. Apart({}, Flat(pipe), owner, crtcOf)
  BY <1>4 DEF Apart, HavePipes, Unshared, Mated, OwnedBy
<1>6. Typed
  <2>1. pipe \in PipeMaps BY NoPipesTyped DEF PlanesInit, PipeMaps
  <2>2. 0 \in 0..2 OBVIOUS
  <2>3. rects \in [Planes -> [1..Stages -> 0..2]] BY <2>2 DEF PlanesInit
  <2>4. opmode \in [Sspps -> Registers] BY DEF PlanesInit, Registers
  <2> QED BY <2>1, <2>3, <2>4 DEF PlanesInit, Typed, Owners
<1> QED BY <1>3, <1>5, <1>6 DEF PlanesInv, Programmed
(* What a check has in hand is of its types. *)
LEMMA StartTyped ==
  ASSUME PlaneAssumption, Typed, NEW c \in CRTCs
  PROVE  Start(c) \in Assignments(c)
<1>1. ReleaseAll(c) \in [Sspps -> Owners] BY DEF Typed, ReleaseAll, Owners
<1>2. [i \in 1..Stages |-> {}] \in [1..Stages -> SUBSET Planes] OBVIOUS
<1> QED BY <1>1, <1>2 DEF Typed, Start, Assignments

LEMMA CheckStep ==
  ASSUME PlaneAssumption, PlanesInv, NEW c \in CRTCs, Check(c)
  PROVE  PlanesInv'
<1>1. toUpdate = {} /\ opmode' = opmode BY DEF Check
<1>2. PICK n \in 1..Stages, shown \in SUBSET {p \in Planes : crtcOf[p] \in {Free, c}} :
        \E stack \in SetToSeqs(shown), new \in [shown -> Layouts] :
        \E off \in SUBSET {p \in Planes \ shown : crtcOf[p] = Free /\ pipe[p] # NoPipes} :
          LET show   == [p \in Planes |-> IF p \in shown THEN new[p] ELSE layout[p]]
              cfg    == [p \in Planes |-> IF p \in shown THEN Split(show, n, p) ELSE rects[p]]
              result == Assign(c, stack, cfg, show)
          IN /\ result.ok
             /\ owner' = result.owner /\ pipe' = result.pipe
             /\ layout' = [p \in Planes |-> IF crtcOf[p] = c /\ p \notin shown THEN NoLayout ELSE show[p]]
             /\ rects' = cfg
             /\ crtcOf' = [p \in Planes |-> IF p \in shown THEN c
                                            ELSE IF crtcOf[p] = c THEN Free ELSE crtcOf[p]]
             /\ toUpdate' = shown \cup off \cup {p \in Planes : crtcOf[p] = c}
  BY Zenon DEF Check
<1>3. PICK stack \in SetToSeqs(shown), new \in [shown -> Layouts],
           off \in SUBSET {p \in Planes \ shown : crtcOf[p] = Free /\ pipe[p] # NoPipes} :
          LET show   == [p \in Planes |-> IF p \in shown THEN new[p] ELSE layout[p]]
              cfg    == [p \in Planes |-> IF p \in shown THEN Split(show, n, p) ELSE rects[p]]
              result == Assign(c, stack, cfg, show)
          IN /\ result.ok
             /\ owner' = result.owner /\ pipe' = result.pipe
             /\ layout' = [p \in Planes |-> IF crtcOf[p] = c /\ p \notin shown THEN NoLayout ELSE show[p]]
             /\ rects' = cfg
             /\ crtcOf' = [p \in Planes |-> IF p \in shown THEN c
                                            ELSE IF crtcOf[p] = c THEN Free ELSE crtcOf[p]]
             /\ toUpdate' = shown \cup off \cup {p \in Planes : crtcOf[p] = c}
  BY <1>2, Zenon
<1> DEFINE show   == [p \in Planes |-> IF p \in shown THEN new[p] ELSE layout[p]]
           cfg    == [p \in Planes |-> IF p \in shown THEN Split(show, n, p) ELSE rects[p]]
           result == Assign(c, stack, cfg, show)
           of     == [p \in Planes |-> IF p \in shown THEN c
                                       ELSE IF crtcOf[p] = c THEN Free ELSE crtcOf[p]]
           Others == {p \in Planes : crtcOf[p] \notin {Free, c}}
           U      == Shown(Visible, rects)
           V      == Shown(Others, rects)
<1>4. /\ result.ok /\ owner' = result.owner /\ pipe' = result.pipe /\ rects' = cfg /\ crtcOf' = of
      /\ toUpdate' = shown \cup off \cup {p \in Planes : crtcOf[p] = c}
  BY <1>3
<1>5. Typed /\ Apart(U, Flat(pipe), owner, crtcOf) /\ Programmed BY DEF PlanesInv
<1>6. Free \notin CRTCs /\ Stages \in Nat /\ shown \in SUBSET Planes BY DEF PlaneAssumption
<1>7. cfg \in [Planes -> [1..Stages -> 0..2]]
  <2> SUFFICES ASSUME NEW p \in shown PROVE Split(show, n, p) \in [1..Stages -> 0..2]
    BY <1>5 DEF Typed
  <2>1. show[p] \in Layouts /\ p \in Planes BY <1>6
  <2>2. show[p].rects[n] \in [1..n -> 0..2] BY <2>1 DEF PlaneAssumption
  <2>3. rects[p] \in [1..Stages -> 0..2] BY <2>1, <1>5 DEF Typed
  <2> HIDE DEF show
  <2>4. \A i \in 1..Stages : (IF i <= n THEN show[p].rects[n][i] ELSE rects[p][i]) \in 0..2
    <3> TAKE i \in 1..Stages
    <3>1. i <= n => i \in 1..n BY <1>6
    <3> QED BY <2>2, <2>3, <3>1
  <2> QED BY <2>4 DEF Split
<1>8. of \in [Planes -> Owners] /\ (\A p \in shown : of[p] = c) /\ (\A p \in Others : of[p] = crtcOf[p] /\ of[p] \in CRTCs /\ p \notin shown)
  BY <1>5, <1>6 DEF Typed, Owners
<1>9. \A p \in Planes : crtcOf[p] \in Owners BY <1>5 DEF Typed
<1>10. \A f : f \in V <=> f \in U /\ crtcOf[f[1]] # c
  BY <1>9 DEF Shown, Visible
<1>11. \A f \in U : f[1] \in Planes /\ crtcOf[f[1]] # Free BY DEF Shown, Visible
<1>12. V \in SUBSET Places /\ \A f \in V : f[1] \in Others BY DEF Shown, Places
<1> HIDE DEF show, result, U, V, Others, of, cfg
<1>13. Apart(V, Flat(pipe), ReleaseAll(c), of)
  <2>1. V = {f \in U : crtcOf[f[1]] # c} BY <1>10
  <2>2. \A f \in V : of[f[1]] = crtcOf[f[1]] BY <1>8, <1>12
  <2> QED BY <1>5, <1>11, <2>1, <2>2, ReleaseStep
<1>14. /\ Len(stack) \in Nat
       /\ \A k \in 1..Len(stack) : stack[k] \in shown
       /\ \A j, k \in 1..Len(stack) : stack[j] = stack[k] => j = k
       /\ {stack[k] : k \in 1..Len(stack)} = shown
  BY <1>6, Stacks
<1>15. /\ result \in Assignments(c)
       /\ result.ok => Apart(V \cup Shown(shown, cfg), Flat(result.pipe), result.owner, of)
       /\ KeepsOthers(result.pipe, pipe, of, c)
  <2> DEFINE b == Assign(c, stack, cfg, show)
  <2>1. \A k \in 1..Len(stack) : stack[k] \in Planes /\ of[stack[k]] = c BY <1>6, <1>8, <1>14
  <2>2. \A f \in V : of[f[1]] \in CRTCs BY <1>8, <1>12
  <2>3. \A f \in V, k \in 1..Len(stack) : f[1] # stack[k] BY <1>8, <1>12, <1>14
  <2>4. Start(c) \in Assignments(c) BY <1>5, StartTyped
  <2>5. /\ b \in Assignments(c)
        /\ b.ok => Apart(V \cup Shown({stack[k] : k \in 1..Len(stack)}, cfg), Flat(b.pipe), b.owner, of)
        /\ KeepsOthers(b.pipe, pipe, of, c)
    BY <1>7, <1>12, <1>13, <1>14, <2>1, <2>2, <2>3, <2>4, AssignStep
  <2> QED BY <1>14, <2>5 DEF result
<1>16. Visible' = Others \cup shown
  BY <1>4, <1>6, <1>9, Zenon DEF Visible, of, Others
<1>17. Shown(Visible, rects)' = V \cup Shown(shown, cfg)
  <2>1. Shown(Visible, rects)' = Shown(Others \cup shown, cfg)
    BY <1>4, <1>16 DEF Shown
  <2>2. \A p \in Others : cfg[p] = rects[p] /\ p \in Planes BY <1>8 DEF cfg, Others
  <2>3. Shown(Others, cfg) = V BY <2>2 DEF Shown, V
  <2>4. Shown(Others \cup shown, cfg) = Shown(Others, cfg) \cup Shown(shown, cfg) BY DEF Shown
  <2> QED BY <2>1, <2>3, <2>4
<1>18. Flat(pipe)' = Flat(result.pipe) BY <1>4 DEF Flat
<1>19. Apart(Shown(Visible, rects), Flat(pipe), owner, crtcOf)'
  BY <1>4, <1>15, <1>17, <1>18 DEF Apart, HavePipes, Unshared, Mated, OwnedBy, Mates
<1>20. Typed'
  <2>1. result.owner \in [Sspps -> Owners] /\ result.pipe \in PipeMaps BY <1>15 DEF Assignments
  <2>2. opmode' \in [Sspps -> Registers] BY <1>1, <1>5 DEF Typed
  <2>3. toUpdate' \subseteq Planes BY <1>4, <1>6
  <2> QED BY <1>4, <1>7, <1>8, <2>1, <2>2, <2>3 DEF Typed
<1>21. Programmed'
  <2> SUFFICES ASSUME NEW f \in V \cup Shown(shown, cfg), f[1] \notin toUpdate', Flat(result.pipe)[f].index = "SOLO"
               PROVE  opmode[Flat(result.pipe)[f].sspp].rects = {}
    BY <1>1, <1>17, <1>18 DEF Programmed
  <2>1. f \in V
    <3>1. \A g \in Shown(shown, cfg) : g[1] \in shown BY DEF Shown
    <3> QED BY <1>4, <3>1
  <2>2. f \in Places /\ of[f[1]] # c /\ f \in U BY <2>1, <1>8, <1>10, <1>12
  <2>3. Flat(result.pipe)[f] = Flat(pipe)[f] BY <2>2, <1>15 DEF KeepsOthers
  <2> QED BY <2>2, <2>3, <1>1, <1>5 DEF Programmed, U
<1> QED BY <1>19, <1>20, <1>21 DEF PlanesInv
(* What a write to the multirect register leaves. *)
LEMMA SetupStep ==
  ASSUME Typed, NEW s \in Sspps, NEW P \in SUBSET Pipes
  PROVE  /\ SetupMultirect(s, P) \in Registers
         /\ P = {} => SetupMultirect(s, P) = opmode[s]
         /\ (\E x \in P : x.index = "SOLO") => SetupMultirect(s, P).rects = {}
<1>1. opmode[s] \in Registers BY DEF Typed
<1>2. CASE \E x \in P : x.index = "SOLO"
  <2>1. SetupMultirect(s, P) = [rects |-> {}, time |-> FALSE] BY <1>2 DEF SetupMultirect
  <2> QED BY <2>1, <1>2 DEF Registers
<1>3. CASE P = {}
  <2>1. SetupMultirect(s, P) = opmode[s] BY <1>3 DEF SetupMultirect
  <2> QED BY <2>1, <1>1, <1>3
<1>4. CASE P # {} /\ ~\E x \in P : x.index = "SOLO"
  <2>1. SetupMultirect(s, P) = [rects |-> opmode[s].rects \cup {x.index : x \in P},
                                time  |-> \E x \in P : x.mode = "TIME_MX"]
    BY <1>4 DEF SetupMultirect
  <2>2. {x.index : x \in P} \subseteq Indices BY DEF Pipes
  <2>3. opmode[s].rects \cup {x.index : x \in P} \in SUBSET Indices BY <1>1, <2>2 DEF Registers
  <2> DEFINE R == opmode[s].rects \cup {x.index : x \in P}
             T == \E x \in P : x.mode = "TIME_MX"
  <2>4. ASSUME NEW r \in SUBSET Indices, NEW t \in BOOLEAN PROVE [rects |-> r, time |-> t] \in Registers
    BY DEF Registers
  <2>6. T \in BOOLEAN /\ R \in SUBSET Indices BY <2>3
  <2>7. SetupMultirect(s, P) = [rects |-> R, time |-> T] BY <2>1
  <2> HIDE DEF R, T
  <2>5. SetupMultirect(s, P) \in Registers BY <2>4, <2>6, <2>7, Zenon
  <2> QED BY <2>5, <1>4
<1> QED BY <1>2, <1>3, <1>4

LEMMA UpdateVisibleStep ==
  ASSUME PlaneAssumption, PlanesInv, NEW p \in Planes, UpdateVisible(p)
  PROVE  PlanesInv'
<1> DEFINE P(s) == {pp \in {pipe[p][u[1]][u[2]] : u \in Used(p)} : pp.sspp = s}
           U == Shown(Visible, rects)
           at == Flat(pipe)
<1>1. /\ crtcOf[p] # Free
      /\ opmode' = [s \in Sspps |-> SetupMultirect(s, P(s))]
      /\ toUpdate' = toUpdate \ {p}
      /\ owner' = owner /\ crtcOf' = crtcOf /\ rects' = rects /\ pipe' = pipe
  BY DEF UpdateVisible
<1>2. Typed /\ Apart(U, at, owner, crtcOf) /\ Programmed BY DEF PlanesInv
<1>3. U' = U /\ at' = at BY <1>1 DEF Shown, Visible, Flat
<1>4. ASSUME NEW u \in Used(p)
      PROVE  <<p, u>> \in U /\ at[<<p, u>>] = pipe[p][u[1]][u[2]] /\ pipe[p][u[1]][u[2]] \in Pipes
  <2>1. u \in (1..Stages) \X (1..2) /\ u[2] <= rects[p][u[1]] BY DEF Used
  <2>2. p \in Visible BY <1>1 DEF Visible
  <2>3. <<p, u>> \in Places BY <2>1 DEF Places
  <2>4. pipe[p] \in [1..Stages -> [1..2 -> Pipes]] BY <1>2 DEF Typed, PipeMaps
  <2>5. pipe[p][u[1]] \in [1..2 -> Pipes] BY <2>1, <2>4
  <2> QED BY <2>1, <2>2, <2>3, <2>5 DEF Shown, Flat
<1>5. \A s \in Sspps : P(s) \in SUBSET Pipes BY <1>4
<1>6. Typed'
  <2>1. \A s \in Sspps : SetupMultirect(s, P(s)) \in Registers BY <1>2, <1>5, SetupStep
  <2> HIDE DEF P
  <2>2. opmode' \in [Sspps -> Registers] BY <1>1, <2>1
  <2> QED BY <1>1, <1>2, <2>2 DEF Typed
<1>7. Programmed'
  <2> SUFFICES ASSUME NEW f \in U, f[1] \notin toUpdate \ {p}, at[f].index = "SOLO"
               PROVE  opmode'[at[f].sspp].rects = {}
    BY <1>1, <1>3 DEF Programmed
  <2> DEFINE s == at[f].sspp
  <2>1. s \in Sspps BY <1>2 DEF Apart, HavePipes
  <2>2. opmode'[s] = SetupMultirect(s, P(s)) BY <1>1, <2>1
  <2>3. f \in Visible \X ((1..Stages) \X (1..2)) /\ f = <<f[1], f[2]>> /\ f[2][2] <= rects[f[1]][f[2][1]]
    BY DEF Shown
  <2>4. CASE f[1] = p
    <3>1. f[2] \in Used(p) /\ f = <<p, f[2]>> BY <2>3, <2>4 DEF Used
    <3>2. at[f] = pipe[p][f[2][1]][f[2][2]] BY <1>4, <3>1
    <3>3. at[f] \in P(s) BY <3>1, <3>2
    <3> HIDE DEF P
    <3>4. \E x \in P(s) : x.index = "SOLO" BY <3>3
    <3>5. SetupMultirect(s, P(s)).rects = {} BY <1>2, <1>5, <2>1, <3>4, SetupStep
    <3> QED BY <2>2, <3>5
  <2>5. CASE f[1] # p
    <3>1. P(s) = {}
      <4> SUFFICES ASSUME NEW u \in Used(p), pipe[p][u[1]][u[2]].sspp = s PROVE FALSE OBVIOUS
      <4>1. <<p, u>> \in U /\ at[<<p, u>>].sspp = s BY <1>4
      <4>2. f = <<p, u>> BY <4>1, <1>2 DEF Apart, Unshared
      <4> QED BY <4>2, <2>5
    <3> HIDE DEF P
    <3>2. SetupMultirect(s, P(s)) = opmode[s] BY <1>2, <1>5, <2>1, <3>1, SetupStep
    <3>3. f[1] \notin toUpdate BY <2>5
    <3>4. opmode[s].rects = {} BY <3>3, <1>2 DEF Programmed
    <3> QED BY <2>2, <3>2, <3>4
  <2> QED BY <2>4, <2>5
<1>8. Apart(Shown(Visible, rects), Flat(pipe), owner, crtcOf)'
  BY <1>1, <1>2, <1>3 DEF Apart, HavePipes, Unshared, Mated, OwnedBy, Mates
<1> QED BY <1>6, <1>7, <1>8 DEF PlanesInv

LEMMA UpdateHiddenStep ==
  ASSUME PlaneAssumption, PlanesInv, NEW p \in Planes, UpdateHidden(p)
  PROVE  PlanesInv'
<1> DEFINE right == {i \in 1..Stages : pipe[p][i][2].sspp # NoSspp}
           P(s) == {Solo(s) : i \in {j \in right : pipe[p][j][2].sspp = s}}
           U == Shown(Visible, rects)
           at == Flat(pipe)
           new == [i \in 1..Stages |-> <<Solo(NoSspp), Solo(pipe[p][i][2].sspp)>>]
           qq == [pipe EXCEPT ![p] = new]
<1>1. /\ crtcOf[p] = Free
      /\ opmode' = [s \in Sspps |-> SetupMultirect(s, P(s))]
      /\ toUpdate' = toUpdate \ {p}
      /\ owner' = owner /\ crtcOf' = crtcOf /\ rects' = rects /\ pipe' = qq
  BY DEF UpdateHidden
<1>2. Typed /\ Apart(U, at, owner, crtcOf) /\ Programmed BY DEF PlanesInv
<1>3. U' = U BY <1>1 DEF Shown, Visible
<1>4. qq \in PipeMaps
  <2>1. ASSUME NEW i \in 1..Stages
        PROVE  <<Solo(NoSspp), Solo(pipe[p][i][2].sspp)>> \in [1..2 -> Pipes]
    <3>1. pipe[p] \in [1..Stages -> [1..2 -> Pipes]] BY <1>2 DEF Typed, PipeMaps
    <3>2. pipe[p][i] \in [1..2 -> Pipes] BY <3>1
    <3>3. pipe[p][i][2] \in Pipes BY <3>2
    <3>4. \A t \in Sspps \cup {NoSspp} : Solo(t) \in Pipes BY DEF Solo, Pipe, Pipes, Indices, Modes
    <3>5. pipe[p][i][2].sspp \in Sspps \cup {NoSspp} BY <3>3 DEF Pipes
    <3>6. Solo(NoSspp) \in Pipes /\ Solo(pipe[p][i][2].sspp) \in Pipes BY <3>4, <3>5
    <3> QED BY <3>6
  <2>2. new \in [1..Stages -> [1..2 -> Pipes]] BY <2>1
  <2> HIDE DEF new
  <2> QED BY <1>2, <2>2 DEF Typed, PipeMaps
<1> HIDE DEF new
<1>5. ASSUME NEW f \in U PROVE f \in Places /\ f[1] # p /\ Flat(qq)[f] = at[f]
  <2>1. f \in Visible \X ((1..Stages) \X (1..2)) BY DEF Shown
  <2>2. f \in Places /\ f[1] \in Planes /\ f[1] # p BY <2>1, <1>1 DEF Visible, Places
  <2>3. qq[f[1]] = pipe[f[1]] BY <2>2, <1>2 DEF Typed, PipeMaps
  <2> HIDE DEF qq
  <2> QED BY <2>2, <2>3 DEF Flat
<1>6. \A s \in Sspps : Solo(s) \in Pipes /\ Solo(s).index = "SOLO"
  BY DEF Solo, Pipe, Pipes, Indices, Modes
<1>7. \A s \in Sspps : P(s) \in SUBSET Pipes /\ \A x \in P(s) : x.index = "SOLO" BY <1>6
<1> HIDE DEF P, qq
<1>8. Typed'
  <2>1. \A s \in Sspps : SetupMultirect(s, P(s)) \in Registers BY <1>2, <1>7, SetupStep
  <2>2. opmode' \in [Sspps -> Registers] BY <1>1, <2>1
  <2> QED BY <1>1, <1>2, <1>4, <2>2 DEF Typed
<1>12. (Flat(pipe))' = Flat(qq) BY <1>1 DEF Flat
<1>9. Programmed'
  <2> SUFFICES ASSUME NEW f \in U, f[1] \notin toUpdate \ {p}, Flat(qq)[f].index = "SOLO"
               PROVE  opmode'[Flat(qq)[f].sspp].rects = {}
    BY <1>1, <1>3, <1>12 DEF Programmed
  <2> DEFINE s == at[f].sspp
  <2>1. s \in Sspps BY <1>2 DEF Apart, HavePipes
  <2>2. opmode'[s] = SetupMultirect(s, P(s)) BY <1>1, <2>1
  <2>3. f[1] \notin toUpdate /\ at[f].index = "SOLO" BY <1>5
  <2>4. opmode[s].rects = {} BY <2>3, <1>2 DEF Programmed
  <2>5. CASE P(s) = {}
    <3>1. SetupMultirect(s, P(s)) = opmode[s] BY <1>2, <1>7, <2>1, <2>5, SetupStep
    <3> QED BY <2>2, <2>4, <3>1, <1>5
  <2>6. CASE P(s) # {}
    <3>1. \E x \in P(s) : x.index = "SOLO" BY <1>7, <2>1, <2>6
    <3>2. SetupMultirect(s, P(s)).rects = {} BY <1>2, <1>7, <2>1, <3>1, SetupStep
    <3> QED BY <2>2, <3>2, <1>5
  <2> QED BY <2>5, <2>6
<1>10. Apart(U, Flat(qq), owner, crtcOf)
  <2>1. \A f \in U : Flat(qq)[f] = at[f] BY <1>5
  <2> QED BY <2>1, <1>2, SameApart
<1>11. Apart(Shown(Visible, rects), Flat(pipe), owner, crtcOf)'
  BY <1>1, <1>3, <1>10, <1>12 DEF Apart, HavePipes, Unshared, Mated, OwnedBy, Mates
<1> QED BY <1>8, <1>9, <1>11 DEF PlanesInv

LEMMA SamePlanes == ASSUME PlanesInv, UNCHANGED planesVars PROVE PlanesInv'
<1>1. /\ owner' = owner /\ crtcOf' = crtcOf /\ rects' = rects /\ pipe' = pipe
      /\ opmode' = opmode /\ toUpdate' = toUpdate
  BY DEF planesVars
<1>2. Typed' BY <1>1 DEF PlanesInv, Typed
<1>3. Shown(Visible, rects)' = Shown(Visible, rects) /\ (Flat(pipe))' = Flat(pipe)
  BY <1>1 DEF Shown, Visible, Flat
<1>4. Apart(Shown(Visible, rects), Flat(pipe), owner, crtcOf)'
  BY <1>1, <1>3 DEF PlanesInv, Apart, HavePipes, Unshared, Mated, OwnedBy, Mates
<1>5. Programmed' BY <1>1, <1>3 DEF PlanesInv, Programmed
<1> QED BY <1>2, <1>4, <1>5 DEF PlanesInv

(* The invariant holds in every behaviour. *)
THEOREM PlanesInvariant == ASSUME PlaneAssumption PROVE PlanesSpec => []PlanesInv
<1>1. PlanesInit => PlanesInv BY InitPlanes
<1>2. PlanesInv /\ [PlanesNext]_planesVars => PlanesInv'
  <2> SUFFICES ASSUME PlanesInv, [PlanesNext]_planesVars PROVE PlanesInv' OBVIOUS
  <2>1. ASSUME NEW c \in CRTCs, Check(c) PROVE PlanesInv' BY <2>1, CheckStep
  <2>2. ASSUME NEW p \in Planes, AtomicUpdate(p) PROVE PlanesInv'
    BY <2>2, UpdateVisibleStep, UpdateHiddenStep DEF AtomicUpdate
  <2>3. CASE UNCHANGED planesVars BY <2>3, SamePlanes
  <2> QED BY <2>1, <2>2, <2>3 DEF PlanesNext
<1> QED BY <1>1, <1>2, PTL DEF PlanesSpec

-----------------------------------------------------------------------------
(* The pipes that fetch from an SSPP, as the invariant names them. *)
LEMMA FetchingOf ==
  ASSUME NEW s \in Sspps
  PROVE  /\ \A f : f \in Fetching(s) <=> f \in Shown(Visible, rects) /\ Flat(pipe)[f].sspp = s
         /\ \A f \in Shown(Visible, rects) : At(f) = Flat(pipe)[f] /\ f[1] \in Visible
<1>1. \A f \in Visible \X ((1..Stages) \X (1..2)) :
        /\ f \in Places /\ f[1] \in Visible /\ f[2] \in (1..Stages) \X (1..2)
        /\ f[2] \in Used(f[1]) <=> f[2][2] <= rects[f[1]][f[2][1]]
        /\ Flat(pipe)[f] = pipe[f[1]][f[2][1]][f[2][2]]
  BY DEF Visible, Places, Used, Flat
<1>2. \A f \in Shown(Visible, rects) : At(f) = Flat(pipe)[f] /\ f[1] \in Visible BY <1>1 DEF Shown, At
<1>3. \A f : f \in Fetching(s) <=> f \in Shown(Visible, rects) /\ Flat(pipe)[f].sspp = s
  BY <1>1 DEF Fetching, Shown
<1> QED BY <1>2, <1>3
(* Of the pipes that fetch from an SSPP one is alone, or two are mates. *)
LEMMA TwoAtMost ==
  ASSUME PlaneAssumption, PlanesInv, NEW s \in Sspps
  PROVE  \/ \A f, g \in Fetching(s) : f = g /\ At(f) = Solo(s)
         \/ \E mode \in {"PARALLEL", "TIME_MX"} : \E f, g \in Fetching(s) :
              /\ Fetching(s) = {f, g} /\ f[2][1] = g[2][1] /\ crtcOf[f[1]] = crtcOf[g[1]]
              /\ At(f) = Pipe(s, "RECT_0", mode) /\ At(g) = Pipe(s, "RECT_1", mode)
<1> DEFINE U  == Shown(Visible, rects)
           at == Flat(pipe)
           F  == Fetching(s)
<1>1. HavePipes(U, at) /\ Unshared(U, at) /\ Mated(U, at, crtcOf) BY DEF PlanesInv, Apart
<1>2. /\ \A f : f \in F <=> f \in U /\ at[f].sspp = s
      /\ \A f \in F : At(f) = at[f]
  BY FetchingOf
<1> HIDE DEF F, U, at
<1>3. \A f, g \in F : at[f].index \in {"SOLO", at[g].index} => f = g BY <1>1, <1>2 DEF Unshared
<1>4. CASE \A f \in F : at[f].index = "SOLO"
  <2>1. \A f \in F : at[f] = Solo(s) BY <1>1, <1>2, <1>4, Rectangles
  <2> QED BY <2>1, <1>2, <1>3, <1>4 DEF F
<1>5. ASSUME NEW f \in F, at[f].index # "SOLO"
      PROVE  \E mode \in {"PARALLEL", "TIME_MX"} : \E x, y \in F :
              /\ F = {x, y} /\ x[2][1] = y[2][1] /\ crtcOf[x[1]] = crtcOf[y[1]]
              /\ At(x) = Pipe(s, "RECT_0", mode) /\ At(y) = Pipe(s, "RECT_1", mode)
  <2>1. PICK g \in U : Mates(at, crtcOf, f, g) BY <1>1, <1>2, <1>5 DEF Mated
  <2>2. /\ g \in F /\ at[g].mode = at[f].mode /\ at[f].index # at[g].index
        /\ f[2][1] = g[2][1] /\ crtcOf[f[1]] = crtcOf[g[1]]
    BY <2>1, <1>2, <1>5 DEF Mates
  <2>3. \A h \in F : at[h].index # "SOLO" BY <1>3, <1>5
  <2>4. \A h \in F : /\ at[h].index \in {"RECT_0", "RECT_1"} /\ at[h].mode \in {"PARALLEL", "TIME_MX"}
                     /\ at[h] = Pipe(s, at[h].index, at[h].mode)
    BY <2>3, <1>1, <1>2, Rectangles
  <2>5. \A h \in F : h = f \/ h = g
    <3> SUFFICES ASSUME NEW h \in F PROVE h = f \/ h = g OBVIOUS
    <3>1. at[h].index = at[f].index \/ at[h].index = at[g].index BY <2>2, <2>4, <1>5
    <3> QED BY <3>1, <2>2, <1>3, <1>5
  <2>6. F = {f, g} /\ F = {g, f} BY <2>2, <2>5, <1>5
  <2> DEFINE mode == at[f].mode
  <2>7. mode \in {"PARALLEL", "TIME_MX"} BY <2>4, <1>5
  <2>8. CASE at[f].index = "RECT_0"
    <3>1. at[g].index = "RECT_1" BY <2>2, <2>4, <2>8
    <3>2. At(f) = Pipe(s, "RECT_0", mode) /\ At(g) = Pipe(s, "RECT_1", mode)
      BY <2>2, <2>4, <2>8, <3>1, <1>2, <1>5
    <3> QED BY <2>2, <2>6, <2>7, <3>2, <1>5
  <2>9. CASE at[f].index = "RECT_1"
    <3>1. at[g].index = "RECT_0" BY <2>2, <2>4, <2>9
    <3>2. At(g) = Pipe(s, "RECT_0", mode) /\ At(f) = Pipe(s, "RECT_1", mode)
      BY <2>2, <2>4, <2>9, <3>1, <1>2, <1>5
    <3> QED BY <2>2, <2>6, <2>7, <3>2, <1>5
  <2> QED BY <2>4, <2>8, <2>9, <1>5
<1> QED BY <1>4, <1>5 DEF F

(* No rectangle of an SSPP is fetched by two pipes, and no visible pipe is  *)
(* without one, for any planes, stages, SSPPs and layouts, and however     *)
(* checks and updates follow each other.                                   *)
THEOREM RectanglesAreNotShared == ASSUME PlaneAssumption PROVE PlanesSpec => []OnePipePerRectangle
<1>1. PlanesInv => OnePipePerRectangle
  <2> SUFFICES ASSUME PlanesInv PROVE OnePipePerRectangle OBVIOUS
  <2>1. ASSUME NEW p \in Visible, NEW u \in Used(p) PROVE pipe[p][u[1]][u[2]].sspp # NoSspp
    <3> DEFINE f == <<p, u>>
    <3>1. u \in (1..Stages) \X (1..2) /\ u[2] <= rects[p][u[1]] BY DEF Used
    <3>2. f \in Shown(Visible, rects) /\ f \in Places BY <3>1 DEF Shown, Places, Visible
    <3>3. Flat(pipe)[f] = pipe[p][u[1]][u[2]] BY <3>2 DEF Flat
    <3>4. Flat(pipe)[f].sspp \in Sspps BY <3>2 DEF PlanesInv, Apart, HavePipes
    <3> QED BY <3>3, <3>4 DEF PlaneAssumption
  <2> QED BY <2>1, TwoAtMost DEF OnePipePerRectangle
<1> QED BY <1>1, PlanesInvariant, PTL

(* An SSPP belongs to the CRTC whose planes fetch with it, and to nobody if  *)
(* none does, for any planes, stages, SSPPs and layouts.                   *)
THEOREM OwnersFetch == ASSUME PlaneAssumption PROVE PlanesSpec => []OwnedAreUsed
<1>1. PlanesInv => OwnedAreUsed
  <2> SUFFICES ASSUME PlanesInv, NEW s \in Sspps
               PROVE  {crtcOf[f[1]] : f \in Fetching(s)} = {owner[s]} \ {Free}
    BY DEF OwnedAreUsed
  <2> DEFINE U  == Shown(Visible, rects)
             at == Flat(pipe)
  <2>1. OwnedBy(U, at, owner, crtcOf) BY DEF PlanesInv, Apart
  <2>2. \A f : f \in Fetching(s) <=> f \in U /\ at[f].sspp = s BY FetchingOf
  <2>3. \A f \in U : crtcOf[f[1]] # Free BY DEF Shown, Visible
  <2> HIDE DEF U, at
  <2>4. \A f \in Fetching(s) : crtcOf[f[1]] = owner[s] /\ owner[s] # Free BY <2>1, <2>2, <2>3 DEF OwnedBy
  <2>5. owner[s] # Free => \E f \in Fetching(s) : TRUE BY <2>1, <2>2 DEF OwnedBy
  <2> QED BY <2>4, <2>5
<1> QED BY <1>1, PlanesInvariant, PTL

(* Multirect is off in an SSPP that a pipe has alone once a commit is       *)
(* complete, whatever was in it before, for any planes, stages, SSPPs and  *)
(* layouts.                                                                *)
THEOREM MultirectIsOff == ASSUME PlaneAssumption PROVE PlanesSpec => []SoloIsSolo
<1>1. PlanesInv => SoloIsSolo
  <2> SUFFICES ASSUME PlanesInv, toUpdate = {}, NEW s \in Sspps, NEW f \in Fetching(s), At(f).index = "SOLO"
               PROVE  opmode[s].rects = {}
    BY DEF SoloIsSolo
  <2>1. f \in Shown(Visible, rects) /\ Flat(pipe)[f].sspp = s /\ Flat(pipe)[f].index = "SOLO" BY FetchingOf
  <2> QED BY <2>1 DEF PlanesInv, Programmed
<1> QED BY <1>1, PlanesInvariant, PTL
=============================================================================
