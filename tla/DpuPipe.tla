-------------------------------- MODULE DpuPipe --------------------------------
(***************************************************************************)
(* The registers of one fetch pipe (SSPP) of the DPU over many commits:    *)
(* what dpu_plane.c writes through dpu_hw_sspp.c and dpu_hw_util.c when a  *)
(* plane is updated, flushed, or put in error and filled with a colour,    *)
(* while the SSPP goes from one plane to two halves or two planes          *)
(* (multirect) and back.                                                   *)
(*                                                                         *)
(* A register holds what its fields mean; two rectangles have two banks of *)
(* registers and share the others.  setup_* are functions from the         *)
(* registers before to the registers after, so that what a long history    *)
(* of commits leaves can be compared with programming the last one alone.  *)
(***************************************************************************)
EXTENDS DpuScaler, Functions

CONSTANTS
  SsppKinds,       \* the SSPPs to consider
  Solos, Halves,   \* configurations asked of a pipe that has the SSPP alone or shares it
  Mode, MaxClk,    \* the display mode, and max_core_clk_rate
  MaxLineWidth     \* max_linewidth of the platform

(* What a plane can ask for: its state is clipped and not empty. *)
Configurations ==
  [name : DOMAIN MsmFormat, ubwc : BOOLEAN, x : Nat, y : Nat, w : Nat \ {0}, h : Nat \ {0},
   dx : Nat, dy : Nat, dw : Nat \ {0}, dh : Nat \ {0}, pitch : Nat, fb : Nat \ {0}, rt : BOOLEAN,
   rotation : [angle : {0, 90, 180, 270}, reflect : SUBSET {"X", "Y"}]]

ASSUME PipeAssumption ==
  /\ MaxClk \in Nat /\ MaxLineWidth \in Nat
  /\ Mode \in [vtotal : Nat, fps : Nat]
  /\ \A c \in Solos \cup Halves : c \in Configurations
  /\ \A c \in Solos : c.w <= MaxLineWidth   \* wider ones are split

VARIABLES
  sspp,       \* which SSPP it is
  shown,      \* configuration of each rectangle in use
  mode,       \* multirect_mode
  error,      \* the rectangles whose plane has is_error set
  filled,     \* those filled since their update: how pipe_cfg.rotation came out
  notUpdated, toFlush,   \* what is left of the commit
  reg,        \* the registers
  clocked     \* whether VBIF's clock was on whenever it was told something

pipeVars == <<sspp, shown, mode, error, filled, notUpdated, toFlush, reg, clocked>>

Has(feature) == feature \in sspp.features
Bank(r) == IF r = "RECT_1" THEN 1 ELSE 0
Banks   == {0, 1}

-----------------------------------------------------------------------------
(* Registers at reset *)
NoAddress == <<0, 0>>
ResetFormat == [name |-> "XRGB8888", ubwc |-> FALSE, rot90 |-> FALSE, solid |-> FALSE]
Component0 == [lr |-> 0, tb |-> 0, req |-> <<0, 0>>]
Reset ==
  [addr |-> [i \in 0..3 |-> NoAddress], stride |-> [i \in 0..3 |-> 0],
   src |-> [b \in Banks |-> <<0, 0, 0, 0>>], out |-> [b \in Banks |-> <<0, 0, 0, 0>>],
   format |-> [b \in Banks |-> ResetFormat], opmode |-> [b \in Banks |-> {}],
   ubwc |-> [b \in Banks |-> {}], fetchHbb |-> FALSE, color |-> [b \in Banks |-> "none"],
   pe |-> [i \in {"c0", "c12", "c3"} |-> Component0],
   scaler2 |-> Scaler2Off, decimation |-> <<0, 0>>,
   scaler3 |-> [on |-> FALSE, yuv |-> FALSE, dx |-> FALSE, alpha |-> {}, cfg |-> <<>>],
   cscOn |-> FALSE, csc |-> "none", multirect |-> [rects |-> {}, time |-> FALSE],
   cdp |-> [b \in Banks |-> {}], qos |-> [creq |-> "0", usage |-> "none", danger |-> FALSE],
   clk |-> FALSE]

(* struct dpu_hw_fmt_layout of a buffer: its planes, those of the compression *)
(* after those of the pixels.                                              *)
LayoutPlanes(c) ==
  (IF Fmt(c).yuv THEN {0, 1} ELSE {0})
  \cup (IF ~c.ubwc THEN {} ELSE IF Fmt(c).yuv THEN {2, 3} ELSE {2})
Layout(c) ==
  [addr  |-> [i \in 0..3 |-> IF i \in LayoutPlanes(c) THEN <<c.fb, i>> ELSE NoAddress],
   pitch |-> [i \in 0..3 |-> IF i \in LayoutPlanes(c) THEN c.pitch ELSE 0]]
EmptyLayout == [addr |-> [i \in 0..3 |-> NoAddress], pitch |-> [i \in 0..3 |-> 0]]

(* Mutant: the stride registers are written whole for each rectangle. *)
SetupSourceAddressWhole(g, r, layout) ==
  LET a == layout.addr
      p == [i \in 0..3 |-> layout.pitch[i] % 65536]
  IN  IF r = "SOLO" THEN [g EXCEPT !.addr = a, !.stride = p]
      ELSE IF r = "RECT_0"
      THEN [g EXCEPT !.addr = [@ EXCEPT ![0] = a[0], ![2] = a[2]],
                     !.stride = [i \in 0..3 |-> IF i \in {0, 2} THEN p[i] ELSE 0]]
      ELSE [g EXCEPT !.addr = [@ EXCEPT ![1] = a[0], ![3] = a[2]],
                     !.stride = [i \in 0..3 |-> IF i \in {1, 3} THEN p[i - 1] ELSE 0]]

(* dpu_hw_sspp_setup_sourceaddress.  A stride register holds two pitches of *)
(* 16 bits; the halves of SSPP_SRC_YSTRIDE0 are 0 and 1, those of 1, 2, 3. *)
SetupSourceAddress(g, r, layout) ==
  LET a == layout.addr
      p == [i \in 0..3 |-> layout.pitch[i] % 65536]
  IN  IF r = "SOLO" THEN [g EXCEPT !.addr = a, !.stride = p]
      ELSE IF r = "RECT_0"
      THEN [g EXCEPT !.addr   = [@ EXCEPT ![0] = a[0], ![2] = a[2]],
                     !.stride = [@ EXCEPT ![0] = p[0], ![2] = p[2]]]
      ELSE [g EXCEPT !.addr   = [@ EXCEPT ![1] = a[0], ![3] = a[2]],
                     !.stride = [@ EXCEPT ![1] = p[0], ![3] = p[2]]]

(* dpu_hw_sspp_setup_rects *)
SetupRects(g, r, c) ==
  [g EXCEPT !.src[Bank(r)] = <<c.x, c.y, c.w, c.h>>,
            !.out[Bank(r)] = <<c.dx, c.dy, c.dw, c.dh>>]

(* dpu_hw_sspp_setup_pe_config: the rows of component 3 are written with    *)
(* what was computed for its columns.                                      *)
SetupPe(g, pe) ==
  LET component(e, rows) ==
        [lr |-> e.right, tb |-> rows, req |-> <<e.w + e.left + e.right, e.h + e.top + e.bottom>>]
  IN  [g EXCEPT !.pe = [c0  |-> component(pe.c0, pe.c0.bottom),
                        c12 |-> component(pe.c12, pe.c12.bottom),
                        c3  |-> component(pe.c3, pe.c3.right)]]

(* Mutant: an unscaled layer leaves the scaler as it was. *)
SetupScaler2Keeps(g, cfg) ==
  IF ~cfg.enable THEN g
  ELSE [g EXCEPT !.scaler2 = PackRegs(cfg),
                 !.decimation = <<2 ^ cfg.x.decimate - 1, 2 ^ cfg.y.decimate - 1>>]

(* dpu_hw_sspp_setup_scaler2: pixels dropped after each one that is kept. *)
SetupScaler2(g, cfg) ==
  [g EXCEPT !.scaler2 = PackRegs(cfg),
            !.decimation = <<2 ^ cfg.x.decimate - 1, 2 ^ cfg.y.decimate - 1>>]

(* dpu_hw_setup_scaler3: sizes and steps only when it is on.  No catalogue   *)
(* version is 0x1002, so the alpha filter is at bit 29.                    *)
SetupScaler3(g, cfg, f) ==
  [g EXCEPT !.scaler3 =
     [on    |-> cfg.enable, yuv |-> cfg.enable /\ f.yuv, dx |-> f.dx,
      alpha |-> IF f.alpha THEN {"enable"} \cup (IF cfg.alphaFilter THEN {"bit29"} ELSE {}) ELSE {},
      cfg   |-> IF cfg.enable THEN cfg ELSE @.cfg]]

(* _dpu_plane_setup_scaler; rot90 is what pipe_cfg says of the rotation. *)
SetupScaler(g, r, c, rot90) ==
  LET cfg2 == BuildCfg2(c)
      pe2  == SetupPe(g, PixelExt2(cfg2))
      pe3  == SetupPe(g, PixelExt3(c))
  IN  IF Has("SCALER_QSEED2")
      THEN IF ~CanBuild2(c) THEN g ELSE IF r = "RECT_1" THEN pe2 ELSE SetupScaler2(pe2, cfg2)
      ELSE IF r = "RECT_1" \/ ~Has("SCALER_QSEED3_COMPATIBLE") THEN pe3
      ELSE SetupScaler3(pe3, Scaler3Cfg(sspp, c, rot90), Fmt(c))

(* Mutant: an SSPP that a pipe has alone stays in multirect. *)
WriteMultirectAdds(g, r) ==
  [g EXCEPT !.multirect = [rects |-> @.rects \cup {r}, time |-> mode = "TIME_MX"]]

(* dpu_hw_setup_multirect_impl, where there is one *)
WriteMultirect(g, r) ==
  IF ~Has("SMART_DMA_V2") THEN g
  ELSE [g EXCEPT !.multirect = IF r = "SOLO" THEN [rects |-> {}, time |-> FALSE]
                               ELSE [rects |-> @.rects \cup {r}, time |-> mode = "TIME_MX"]]

(* The control word of a compressed buffer, by version of the encoder. *)
UbwcCtrl(f) ==
  CASE sspp.ubwc \in {1, 2} -> {"mode"} \cup IF f.alpha THEN {"bit31"} ELSE {}
    [] sspp.ubwc = 3        -> {"mode", "bit30"}
    [] sspp.ubwc = 4        -> IF f.yuv THEN {} ELSE {"bit30"}
    [] OTHER                -> IF f.yuv THEN {} ELSE IF f.dx THEN {"bit30"} ELSE {"bit30", "bit31"}

(* SSPP_UBWC_STATIC_CTRL_REC1 came with version 8. *)
UbwcBank(r) == IF sspp.core >= 8 THEN Bank(r) ELSE 0

(* dpu_hw_sspp_setup_opmode, _csc10_opmode, as setup_format calls them *)
SetupCscMode(g, yuv) ==
  IF (Has("CSC") /\ Has("SCALER_QSEED2")) \/ (~Has("CSC") /\ Has("CSC_10BIT"))
  THEN [g EXCEPT !.cscOn = yuv] ELSE g

(* Mutant: the flips of the last format stay. *)
SetupFormatKeepsFlips(g, r, c, flags) ==
  SetupCscMode([g EXCEPT
    !.fetchHbb = @ \/ c.ubwc,
    !.ubwc[UbwcBank(r)] = IF c.ubwc THEN UbwcCtrl(Fmt(c)) ELSE @,
    !.opmode[Bank(r)] = @ \cup (flags \cap {"FLIP_LR", "FLIP_UD"}) \cup {"PE_OVERRIDE"},
    !.format[Bank(r)] = [name |-> c.name, ubwc |-> c.ubwc, rot90 |-> "ROT_90" \in flags,
                         solid |-> "SOLID_FILL" \in flags]], Fmt(c).yuv)

(* dpu_hw_sspp_setup_format *)
SetupFormat(g, r, c, flags) ==
  SetupCscMode([g EXCEPT
    !.fetchHbb = @ \/ c.ubwc,
    !.ubwc[UbwcBank(r)] = IF c.ubwc THEN UbwcCtrl(Fmt(c)) ELSE @,
    !.opmode[Bank(r)] = (flags \cap {"FLIP_LR", "FLIP_UD"}) \cup {"PE_OVERRIDE"}
                        \cup (IF c.ubwc THEN {"BWC_EN"} ELSE {}),
    !.format[Bank(r)] = [name |-> c.name, ubwc |-> c.ubwc, rot90 |-> "ROT_90" \in flags,
                         solid |-> "SOLID_FILL" \in flags]], Fmt(c).yuv)

(* The flags dpu_plane_sspp_update_pipe makes of a rotation. *)
Flags(rotation) ==
  (IF "X" \in rotation.reflect THEN {"FLIP_LR"} ELSE {})
  \cup (IF "Y" \in rotation.reflect THEN {"FLIP_UD"} ELSE {})
  \cup (IF rotation.angle = 90 THEN {"ROT_90"} ELSE {})

(* dpu_setup_cdp, with rd_enable set *)
SetupCdp(g, r, c) ==
  IF ~Has("CDP") THEN g
  ELSE [g EXCEPT !.cdp[Bank(r)] = {"PRELOAD_AHEAD_64", "ENABLE"}
          \cup (IF c.ubwc THEN {"UBWC_META", "TILE_AMORTIZE"} ELSE {})]

(* _dpu_plane_set_qos_lut.  Nothing sets danger_safe_en for a pipe that is   *)
(* not a real-time one: it is what the stack held, junk here.              *)
SetQosLut(g, c, junk) ==
  [g EXCEPT !.qos = [creq   |-> QosLut(sspp, c, mode),
                     usage  |-> IF ~c.rt THEN "NRT" ELSE IF c.ubwc THEN "MACROTILE" ELSE "LINEAR",
                     danger |-> IF c.rt THEN TRUE ELSE junk]]

-----------------------------------------------------------------------------
(* Both the registers and VBIF: s.reg and s.clocked *)

(* dpu_hw_clk_force_ctrl: the register after it, and its result. *)
ClkForced(s, enable) == [s EXCEPT !.reg.clk = enable]
ForcedOn(s)          == ~s.reg.clk

(* Mutant: the clock is released whoever had it on. *)
WithClockReleases(s) ==
  LET on == ClkForced(s, TRUE) IN ClkForced([on EXCEPT !.clocked = @ /\ on.reg.clk], FALSE)

(* _dpu_plane_set_ot_limit and _dpu_plane_set_qos_remap: a write to VBIF,    *)
(* whose values are left out, with the clock of its client forced on.      *)
WithClock(s) ==
  LET on      == ClkForced(s, TRUE)
      written == [on EXCEPT !.clocked = @ /\ on.reg.clk]
  IN  IF ForcedOn(s) THEN ClkForced(written, FALSE) ELSE written

(* dpu_plane_sspp_update_pipe *)
UpdatePipe(s, r, c, junk, remap) ==
  LET rotation == PipeRotation(sspp, c)
      address  == SetupSourceAddress(s.reg, r, Layout(c))
      scaler   == SetupScaler(SetupRects(address, r, c), r, c, rotation.angle = 90)
      format   == SetupFormat(WriteMultirect(scaler, r), r, c, Flags(rotation))
      qos      == SetQosLut(SetupCdp(format, r, c), c, junk)
      limited  == WithClock([s EXCEPT !.reg = qos])
  IN  IF remap THEN WithClock(limited) ELSE limited

(* What _dpu_plane_color_fill_pipe shows, in the place of c. *)
FillConfig(c) ==
  [c EXCEPT !.name = "ARGB8888", !.ubwc = FALSE, !.x = 0, !.y = 0, !.w = c.dw, !.h = c.dh]

(* _dpu_plane_color_fill_pipe, in white.  Its pipe_cfg.rotation is not set:  *)
(* junk is what the stack held.                                            *)
ColorFill(g, r, c, junk) ==
  LET solid  == [SetupSourceAddress(g, r, EmptyLayout) EXCEPT !.color[Bank(r)] = "white"]
      format == SetupFormat(solid, r, FillConfig(c), {"SOLID_FILL"})
  IN  SetupScaler(SetupRects(format, r, FillConfig(c)), r, FillConfig(c), junk)

(* dpu_plane_flush_csc *)
FlushCsc(g, c) ==
  IF ~(Has("CSC") \/ Has("CSC_10BIT")) \/ ~Fmt(c).yuv THEN g
  ELSE [g EXCEPT !.csc = IF Has("CSC_10BIT") THEN "csc10_601L" ELSE "csc_601L"]

-----------------------------------------------------------------------------
PipeInit ==
  /\ sspp \in SsppKinds
  /\ shown = <<>> /\ mode = "NONE"
  /\ error = {} /\ filled = <<>> /\ notUpdated = {} /\ toFlush = {}
  /\ reg \in {Reset, [Reset EXCEPT !.clk = TRUE]}
  /\ clocked = TRUE

Idle == notUpdated = {} /\ toFlush = {}

Accepted(c) ==
  Offered(sspp, c) /\ CheckNoSspp(sspp, c) /\ CheckPipe(sspp, c, Mode, MaxClk)

(* dpu_plane_is_multirect_capable of a half that shows c; the rotation in   *)
(* its pipe_cfg is still that of an earlier check.                         *)
FitsMultirect(c, earlier) ==
  /\ Has("SMART_DMA_V2")
  /\ c.w = c.dw /\ c.h = c.dh /\ ~Fmt(c).yuv
  /\ earlier # 90
FitsParallel(c) == c.ubwc => c.w <= MaxLineWidth \div 2

EarlierAngle ==
  IF "SOLO" \in DOMAIN shown THEN PipeRotation(sspp, shown["SOLO"]).angle ELSE 0

(* The tests of dpu_plane_try_multirect_shared: b beside a, or so far below *)
(* or above that no tiles of theirs meet.                                  *)
Apart(b1, a2, gap) == b1 >= a2 + gap
SideBySide(a, b) == Apart(b.dx, a.dx + a.dw, 0) \/ Apart(a.dx, b.dx + b.dw, 0)
TileHeight(c) == IF c.ubwc THEN 4 ELSE 1
FarBelow(a, b) ==
  LET gap == 2 * Larger(TileHeight(a), TileHeight(b))
  IN  Apart(b.dy, a.dy + a.dh, gap) \/ Apart(a.dy, b.dy + b.dh, gap)

(* A commit: its check has passed and its state is swapped in.  A plane      *)
(* that leaves the SSPP takes its error with it.                           *)
SwapState(new, how) ==
  /\ shown' = new /\ mode' = how
  /\ error' = error \cap DOMAIN new
  /\ filled' = Restrict(filled, DOMAIN filled \cap DOMAIN new)
  /\ notUpdated' = DOMAIN new /\ toFlush' = DOMAIN new
  /\ UNCHANGED <<sspp, reg, clocked>>

Alone(c)  == [r \in {"SOLO"} |-> c]
Two(a, b) == [r \in {"RECT_0", "RECT_1"} |-> IF r = "RECT_0" THEN a ELSE b]

CheckSolo ==
  /\ Idle
  /\ \E c \in Solos : Accepted(c) /\ SwapState(Alone(c), "NONE")

(* dpu_plane_assign_resources: the two halves of one plane, whose state      *)
(* starts as a copy of its last one.                                       *)
CheckSplit ==
  /\ Idle
  /\ \E a \in Halves, b \in Halves :
       /\ b = [a EXCEPT !.x = a.x + a.w, !.dx = a.dx + a.dw]
       /\ \A c \in {a, b} :
            Accepted(c) /\ FitsMultirect(c, EarlierAngle) /\ FitsParallel(c)
       /\ SwapState(Two(a, b), "PARALLEL")

(* dpu_plane_try_multirect_shared: two planes of one CRTC, b above a in the  *)
(* stack, which had other SSPPs before.                                    *)
CheckShared ==
  /\ Idle
  /\ \E a \in Halves, b \in Halves :
       LET parallel == FitsParallel(a) /\ FitsParallel(b) /\ SideBySide(a, b) IN
       /\ a.fb # b.fb /\ a.rt = b.rt
       /\ \A c \in {a, b} : Accepted(c) /\ FitsMultirect(c, 0)
       /\ parallel \/ FarBelow(a, b)
       /\ SwapState(Two(a, b), IF parallel THEN "PARALLEL" ELSE "TIME_MX")

(* dpu_plane_atomic_update, for one pipe of its plane.  VBIF is told again   *)
(* after a modeset and when the client type of the plane changes; a plane  *)
(* may come from another SSPP, so either may be.                           *)
Update(r) ==
  /\ r \in notUpdated
  /\ \E junk \in IF shown[r].rt THEN {FALSE} ELSE BOOLEAN, remap \in BOOLEAN :
       LET s == UpdatePipe([reg |-> reg, clocked |-> clocked], r, shown[r], junk, remap)
       IN  reg' = s.reg /\ clocked' = s.clocked
  /\ error' = error \ {r}
  /\ filled' = Restrict(filled, DOMAIN filled \ {r})
  /\ notUpdated' = notUpdated \ {r}
  /\ UNCHANGED <<sspp, shown, mode, toFlush>>

(* dpu_plane_set_error, of all planes before they are flushed. *)
SetError ==
  /\ notUpdated = {} /\ toFlush # {} /\ toFlush = DOMAIN shown
  /\ error' = DOMAIN shown
  /\ UNCHANGED <<sspp, shown, mode, filled, notUpdated, toFlush, reg, clocked>>

(* dpu_plane_flush, for one pipe of its plane.  Only the QSEED3 set-up reads *)
(* the rotation of a fill.                                                 *)
Flush(r) ==
  /\ notUpdated = {} /\ r \in toFlush
  /\ IF r \in error
     THEN \E junk \in IF Has("SCALER_QSEED3_COMPATIBLE") /\ r # "RECT_1" THEN BOOLEAN ELSE {FALSE} :
            /\ reg' = ColorFill(reg, r, shown[r], junk)
            /\ filled' = [q \in DOMAIN filled \cup {r} |-> IF q = r THEN junk ELSE filled[q]]
     ELSE reg' = FlushCsc(reg, shown[r]) /\ UNCHANGED filled
  /\ toFlush' = toFlush \ {r}
  /\ UNCHANGED <<sspp, shown, mode, error, notUpdated, clocked>>

(* A commit that changes none of these planes flushes them all the same. *)
OtherCommit ==
  /\ Idle /\ shown # <<>>
  /\ toFlush' = DOMAIN shown
  /\ UNCHANGED <<sspp, shown, mode, error, filled, notUpdated, reg, clocked>>

(* _dpu_plane_atomic_disable: only for the right pipe of a plane is          *)
(* anything written.                                                       *)
Hide ==
  /\ Idle /\ shown # <<>>
  /\ LET split == mode = "PARALLEL" /\ shown["RECT_0"].fb = shown["RECT_1"].fb
     IN  reg' = IF split THEN WriteMultirect(reg, "SOLO") ELSE reg
  /\ shown' = <<>> /\ mode' = "NONE" /\ error' = {} /\ filled' = <<>>
  /\ UNCHANGED <<sspp, notUpdated, toFlush, clocked>>

PipeNext ==
  \/ CheckSolo
  \/ CheckSplit
  \/ CheckShared
  \/ \E r \in {"SOLO", "RECT_0", "RECT_1"} : Update(r)
  \/ SetError
  \/ \E r \in {"SOLO", "RECT_0", "RECT_1"} : Flush(r)
  \/ OtherCommit
  \/ Hide

PipeSpec == PipeInit /\ [][PipeNext]_pipeVars

-----------------------------------------------------------------------------
(* What the last commits asked for, programmed into an SSPP just reset. *)
FirstRect == IF "SOLO" \in DOMAIN shown THEN "SOLO" ELSE "RECT_0"
Flushed(g, r) == IF r \in DOMAIN filled THEN ColorFill(g, r, shown[r], filled[r])
                 ELSE FlushCsc(g, shown[r])
Fresh ==
  LET start == [reg |-> [Reset EXCEPT !.clk = reg.clk], clocked |-> TRUE]
      one   == UpdatePipe(start, FirstRect, shown[FirstRect], FALSE, FALSE)
      two   == UpdatePipe(one, "RECT_1", shown["RECT_1"], FALSE, FALSE)
  IN  IF FirstRect = "SOLO" THEN Flushed(one.reg, "SOLO")
      ELSE Flushed(Flushed(two.reg, "RECT_0"), "RECT_1")

(* The registers of some rectangles, in whose banks they are. *)
Own(regs, rects) == [r \in rects |-> regs[Bank(r)]]

(* The registers that have a say in what is shown.  With two rectangles the  *)
(* pixel extension and the scaler are bypassed, and what both rectangles   *)
(* write is whose came last.                                               *)
Effective(g) ==
  LET rects    == DOMAIN shown
      solo     == "SOLO" \in rects
      buffered == {r \in rects \ DOMAIN filled : shown[r].ubwc}
  IN  [buffers |-> <<g.addr, g.stride>>,
       rects   |-> <<Own(g.src, rects), Own(g.out, rects)>>,
       format  |-> <<Own(g.format, rects), Own(g.opmode, rects)>>,
       color   |-> Own(g.color, rects \cap DOMAIN filled),
       ubwc    |-> [r \in IF solo \/ sspp.core >= 8 THEN buffered ELSE {} |-> g.ubwc[UbwcBank(r)]],
       hbb     |-> buffered # {} /\ g.fetchHbb,
       cdp     |-> Own(g.cdp, rects),
       csc     |-> <<g.cscOn, IF g.cscOn THEN g.csc ELSE "off">>,
       scaler  |-> IF solo THEN <<g.pe, g.scaler2, g.decimation, g.scaler3.on, g.scaler3.yuv,
                                  g.scaler3.dx, g.scaler3.alpha,
                                  IF g.scaler3.on THEN g.scaler3.cfg ELSE <<>>>>
                   ELSE <<g.scaler3.on>>,
       multirect |-> g.multirect,
       qos     |-> <<IF solo THEN <<g.qos.creq, g.qos.usage>> ELSE <<>>,
                     (\A r \in rects : shown[r].rt) /\ g.qos.danger>>]

(* Programming is a function of what is shown: when a commit is through, no *)
(* earlier plane, half, fill or error of the same SSPP shows (flips,       *)
(* multirect, decimation, colour conversion, halves of shared registers,   *)
(* ...).  Most setters read, change and write; some write nothing at all   *)
(* for what they do not need.                                              *)
NothingIsLeftOver == Idle /\ shown # <<>> => Effective(reg) = Effective(Fresh)

(* Each rectangle reads its own buffer, plane by plane and with its whole    *)
(* pitch, although the two rectangles share the stride registers and take  *)
(* turns in the address registers, and a half of a register has 16 bits    *)
(* (dpu_hw_sspp_setup_sourceaddress, the pitch test of the check).         *)
EachRectangleItsBuffer ==
  Idle => \A r \in DOMAIN shown \ DOMAIN filled : \A i \in LayoutPlanes(shown[r]) :
    LET at == IF r = "RECT_1" THEN i + 1 ELSE i
    IN  /\ reg.addr[at] = <<shown[r].fb, i>>
        /\ reg.stride[at] = shown[r].pitch

(* QSEED2 on one axis: pixels are dropped until at most four are left for    *)
(* each one shown, the steps of the scaler go over what is left (and, where *)
(* chroma was not dropped, over the subsampled chroma) to within a step,   *)
(* and a scaler that is off has nothing to do.                             *)
AxisIsCovered(size, dst, sub, drop, filters, steps, wanted) ==
  LET left   == CeilDiv(size, drop + 1)
      chroma == IF drop = 0 THEN left \div sub ELSE left
      spans(step, n) == /\ step * dst <= PHASE_STEP_UNIT * n
                        /\ step * dst > PHASE_STEP_UNIT * n - 2 * dst
  IN  /\ wanted = <<left, chroma>>
      /\ left <= DPU_QSEED2_MAX_DOWNSCALE * dst
      /\ IF filters = <<>> THEN left = dst /\ sub = 1
         ELSE spans(steps[1], left) /\ spans(steps[2], chroma)

CoveredByQseed2(c) ==
  LET f == Fmt(c)
      wanted(i) == <<reg.pe.c0.req[i] - (IF i = 1 THEN reg.pe.c0.lr ELSE reg.pe.c0.tb),
                     reg.pe.c12.req[i] - (IF i = 1 THEN reg.pe.c12.lr ELSE reg.pe.c12.tb)>>
  IN  /\ AxisIsCovered(c.w, c.dw, f.hsub, reg.decimation[1],
                       reg.scaler2.x, reg.scaler2.stepsX, wanted(1))
      /\ AxisIsCovered(c.h, c.dh, f.vsub, reg.decimation[2],
                       reg.scaler2.y, reg.scaler2.stepsY, wanted(2))

(* QSEED3: it knows the size of the source as the fetch turns it, and the    *)
(* size on the screen; off, they are the same.                             *)
CoveredByQseed3 ==
  LET turned == reg.format[0].rot90
      src    == reg.src[0]
      w      == Swapped(turned, src[3], src[4])
      h      == Swapped(turned, src[4], src[3])
      dst    == <<reg.out[0][3], reg.out[0][4]>>
      s      == reg.scaler3.cfg
  IN  IF reg.scaler3.on
      THEN s.srcW[1] = w /\ s.srcH[1] = h /\ s.dst = dst
           /\ s.stepsX[1] = PhaseStep(w, dst[1]) /\ s.stepsY[1] = PhaseStep(h, dst[2])
      ELSE <<w, h>> = dst /\ ~MsmFormat[reg.format[0].name].yuv

(* The whole source rectangle of a plane, and no more, fills its place on    *)
(* the screen: rectangle, decimation, scaler and rotation registers agree. *)
SourceIsCovered ==
  Idle => \A r \in DOMAIN shown \ DOMAIN filled :
    LET c == shown[r] IN
    /\ reg.src[Bank(r)] = <<c.x, c.y, c.w, c.h>> /\ reg.out[Bank(r)] = <<c.dx, c.dy, c.dw, c.dh>>
    /\ IF ~HasScaler(sspp) \/ r # "SOLO" THEN c.w = c.dw /\ c.h = c.dh
       ELSE IF Has("SCALER_QSEED2") THEN CoveredByQseed2(c) ELSE CoveredByQseed3

(* VBIF is told things with the clock of its client forced on, and the clock *)
(* is left as it was found (_dpu_plane_sspp_clk_force_ctrl).               *)
ClocksAreAsFound == [][reg'.clk = reg.clk /\ clocked']_pipeVars

(* dpu_plane.c:531: one pixel is repeated on the bottom edge whenever that   *)
(* axis is filtered, for every component.                                  *)
AlphaRowsAreRepeated ==
  Idle /\ Has("SCALER_QSEED2") => \A r \in DOMAIN shown \ DOMAIN filled :
    reg.pe.c3.tb = PixelExt2(BuildCfg2(shown[r])).c3.bottom

(* dpu_plane.c:693: a solid fill overrides the scaler and decimation. *)
FillIsUnscaled ==
  Idle => \A r \in DOMAIN filled : reg.decimation = <<0, 0>> /\ ~reg.scaler3.on
=============================================================================
