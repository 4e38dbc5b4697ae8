------------------------------- MODULE DpuScaler -------------------------------
(***************************************************************************)
(* What the DPU driver computes for one fetch pipe (dpu_plane.c, and       *)
(* dpu_hw_util.h for QSEED2): whether an SSPP can show a configuration,    *)
(* the settings of its scaler and of its pixel extension, and the figures  *)
(* for QoS and the clock.                                                  *)
(*                                                                         *)
(* A configuration c is what a plane, or half of one, asks of a pipe: a    *)
(* format by name and whether it is compressed (ubwc), a source rectangle  *)
(* x, y, w, h in the buffer, a size dw, dh on the screen at dx, dy, a      *)
(* rotation, the pitch of the buffer fb, and whether the display is a      *)
(* real-time one (rt).  A mode is its vtotal and the refresh rate fps.     *)
(***************************************************************************)
EXTENDS DpuCatalog

Fmt(c) == MsmFormat[c.name]
PHASE_STEP_UNIT == 2097152   \* 1 << PHASE_STEP_SHIFT

(* mult_frac of linux/math.h *)
MultFrac(x, n, d) == (x \div d) * n + ((x % d) * n) \div d

Larger(a, b)  == IF a >= b THEN a ELSE b
CeilDiv(a, b) == (a + b - 1) \div b

(* What an unbounded n >= 0 becomes as an int, whose products wrap around (the *)
(* kernel is built with -fno-strict-overflow), and as a u64, where an int    *)
(* that came out negative has its sign extended.                           *)
IntMax == 2147483647
AsInt(n) == IF n <= IntMax THEN n
            ELSE LET low == n % 2 ^ 32 IN IF low <= IntMax THEN low ELSE low - 2 ^ 32
AsU64(n) == IF n \in 0..IntMax THEN n ELSE n % 2 ^ 64

-----------------------------------------------------------------------------
(* QSEED2 *)
DPU_QSEED2_MAX_DOWNSCALE == 4
Filter(size, dst) == IF size <= dst THEN "BIL" ELSE "PCMN"

(* DPU_QSEED2_DECIMATED_DIM *)
Decimated(size, exp) == CeilDiv(size, 2 ^ exp)

(* dpu_hw_scaler2_calc_decimation *)
CalcDecimation(src, dst, max) ==
  IF dst = 0 THEN max
  ELSE CHOOSE exp \in 0..max :
         /\ exp = max \/ Decimated(src, exp) <= dst * DPU_QSEED2_MAX_DOWNSCALE
         /\ \A e \in 0..(exp - 1) : Decimated(src, e) > dst * DPU_QSEED2_MAX_DOWNSCALE

(* dpu_hw_scaler2_calc_phase_step: when it succeeds, and its result *)
HasPhaseStep(src, dst) == src > 0 /\ dst > 0 /\ src <= dst * DPU_QSEED2_MAX_DOWNSCALE
PhaseStep(src, dst)    == MultFrac(PHASE_STEP_UNIT, src, dst)

(* Mutant: chroma is divided also where the decimation already dropped it. *)
BuildAxisDivides(src, dst, sub, yuv, maxExp) ==
  LET exp  == CalcDecimation(src, dst, maxExp)
      luma == Decimated(src, exp)
      div  == IF yuv THEN sub ELSE 1
  IN  [decimate |-> exp, dst |-> dst, sizes |-> <<luma, luma \div div>>,
       steps   |-> <<PhaseStep(luma, dst), PhaseStep(luma, dst) \div div>>,
       filters |-> <<Filter(luma, dst), IF yuv THEN Filter(luma \div div, dst) ELSE "NEAREST">>,
       scale   |-> luma # dst \/ (yuv /\ sub > 1)]

(* One axis of dpu_hw_scaler2_build_cfg.  Pairs are for components 0 and 3,  *)
(* and for 1 and 2: chroma is not subsampled where it is decimated.        *)
BuildAxis(src, dst, sub, yuv, maxExp) ==
  LET exp  == CalcDecimation(src, dst, maxExp)
      luma == Decimated(src, exp)
      div  == IF yuv /\ exp = 0 THEN sub ELSE 1
  IN  [decimate |-> exp, dst |-> dst, sizes |-> <<luma, luma \div div>>,
       steps   |-> <<PhaseStep(luma, dst), PhaseStep(luma, dst) \div div>>,
       filters |-> <<Filter(luma, dst), IF yuv THEN Filter(luma \div div, dst) ELSE "NEAREST">>,
       scale   |-> luma # dst \/ (yuv /\ sub > 1)]

(* dpu_hw_scaler2_build_cfg: when it succeeds, and struct dpu_hw_scaler2_cfg *)
CanBuild2(c) ==
  /\ c.w > 0 /\ c.h > 0
  /\ HasPhaseStep(Decimated(c.w, CalcDecimation(c.w, c.dw, MAX_HORZ_DECIMATION)), c.dw)
  /\ HasPhaseStep(Decimated(c.h, CalcDecimation(c.h, c.dh, MAX_VERT_DECIMATION)), c.dh)
BuildCfg2(c) ==
  LET f == Fmt(c)
      x == BuildAxis(c.w, c.dw, f.hsub, f.yuv, MAX_HORZ_DECIMATION)
      y == BuildAxis(c.h, c.dh, f.vsub, f.yuv, MAX_VERT_DECIMATION)
  IN  [x |-> x, y |-> y, enable |-> x.scale \/ y.scale]

(* dpu_hw_scaler2_pack_regs: the filters of an axis that is scaled, and the  *)
(* phase steps (initial phases are 0); or all zero.                        *)
Scaler2Off == [x |-> <<>>, y |-> <<>>, stepsX |-> <<0, 0>>, stepsY |-> <<0, 0>>]
PackRegs(cfg) ==
  IF ~cfg.enable THEN Scaler2Off
  ELSE [x |-> IF cfg.x.scale THEN cfg.x.filters ELSE <<>>,
        y |-> IF cfg.y.scale THEN cfg.y.filters ELSE <<>>,
        stepsX |-> cfg.x.steps, stepsY |-> cfg.y.steps]

(* Pixel extension of a component: the region to fetch, and the pixels to   *)
(* repeat after it and to add before it.                                   *)
Extension(w, h, right, bottom, left, top) ==
  [w |-> w, h |-> h, right |-> right, bottom |-> bottom, left |-> left, top |-> top]
PerComponent(e1, e2) == [c0 |-> e1, c12 |-> e2, c3 |-> e1]

(* _dpu_plane_setup_scaler2_pixel_ext *)
PixelExt2(cfg) ==
  LET once(b) == IF b THEN 1 ELSE 0
      component(i) == Extension(cfg.x.sizes[i], cfg.y.sizes[i],
                                once(cfg.x.scale), once(cfg.y.scale), 0, 0)
  IN  PerComponent(component(1), component(2))

-----------------------------------------------------------------------------
(* QSEED3 *)
Swapped(rot90, a, b) == IF rot90 THEN b ELSE a

(* _dpu_plane_setup_scaler3: sizes and steps of the rotated source.  The     *)
(* destination and the filters stay unset when nothing is scaled.          *)
Scaler3Cfg(sspp, c, rot90) ==
  LET f == Fmt(c)
      w == Swapped(rot90, c.w, c.h)
      h == Swapped(rot90, c.h, c.w)
      x == PhaseStep(w, c.dw)
      y == PhaseStep(h, c.dh)
      enable == f.yuv \/ h # c.dh \/ w # c.dw
  IN  [enable |-> enable,
       stepsX |-> <<x, x \div f.hsub>>, stepsY |-> <<y, y \div f.vsub>>,
       srcW |-> <<w, w \div f.hsub>>, srcH |-> <<h, h \div f.vsub>>,
       preload |-> IF sspp.sblk.version >= 12288 THEN "QSEED4" ELSE "QSEED3",
       dst |-> IF enable THEN <<c.dw, c.dh>> ELSE <<0, 0>>,
       alphaFilter |-> enable]

(* _dpu_plane_setup_pixel_ext: all of the source counts as extension. *)
PixelExt3(c) ==
  LET f == Fmt(c) IN
  PerComponent(Extension(0, 0, 0, 0, c.w, c.h),
               Extension(0, 0, 0, 0, c.w \div f.hsub, c.h \div f.vsub))

-----------------------------------------------------------------------------
(* Figures *)

(* _dpu_plane_calc_fill_level.  Only YUV formats are pseudo-planar here. *)
FillLevel(c, mode) ==
  LET f    == Fmt(c)
      half == DEFAULT_PIXEL_RAM_SIZE \div 2
      room == IF f.yuv THEN IF f.hsub = 2 /\ f.vsub = 2 THEN half ELSE half * 2
              ELSE IF mode = "PARALLEL" THEN half * 2 ELSE DEFAULT_PIXEL_RAM_SIZE * 2
  IN  IF ~c.rt \/ c.w = 0 THEN 0 ELSE room \div ((c.w + 32) * f.bpp)

(* The LUT of _dpu_plane_set_qos_lut *)
QosLut(sspp, c, mode) ==
  GetQosLut(IF ~c.rt THEN msm8998_qos_nrt ELSE IF c.ubwc THEN sspp.macrotile ELSE sspp.linear,
            FillLevel(c, mode))

(* _dpu_plane_calc_clk *)
CalcClk(c, m) ==
  LET clk == AsU64(AsInt(c.dw * m.vtotal * m.fps))
  IN  IF c.h > c.dh THEN AsU64(clk * c.h) \div c.dh ELSE clk

-----------------------------------------------------------------------------
(* Checks *)

(* dpu_sspp_has_scaler, after _setup_layer_ops *)
HasScaler(sspp) ==
  /\ sspp.sblk.scaler
  /\ sspp.features \cap {"SCALER_QSEED2", "SCALER_QSEED3_COMPATIBLE"} # {}

(* drm_rotation_simplify: another way to say it if the angle is not supported. *)
Simplify(rotation, angles) ==
  IF rotation.angle \in angles THEN rotation
  ELSE [angle   |-> (rotation.angle + 180) % 360,
        reflect |-> {"X", "Y"} \ rotation.reflect]

(* dpu_plane_init_common: the angles a plane may be asked for, and those an *)
(* SSPP knows.                                                             *)
PlaneAngles(sspp) ==
  IF "INLINE_ROTATION" \in sspp.features THEN {0, 90, 180, 270} ELSE {0, 180}
SsppAngles(sspp) == IF "INLINE_ROTATION" \in sspp.features THEN {0, 90} ELSE {0}

PipeRotation(sspp, c) == Simplify(c.rotation, SsppAngles(sspp))

(* _dpu_plane_max_downscale_ratio *)
MaxDownscale(sspp) ==
  4 * 2 ^ IF "SCALER_QSEED2" \in sspp.features
          THEN Larger(MAX_HORZ_DECIMATION, MAX_VERT_DECIMATION) ELSE 0

(* dpu_plane_check_inline_rotation *)
CheckInlineRotation(sspp, c) ==
  /\ "INLINE_ROTATION" \in sspp.features
  /\ c.w <= sspp.sblk.rotation.maxheight
  /\ c.ubwc /\ c.name \in sspp.sblk.rotation.formats

(* drm_atomic_helper_check_plane_state: a scale of src to dst within limits. *)
ScaleWithin(src, dst, sspp) ==
  /\ dst > 0
  /\ (src * 65536) \div dst >= 65536 \div 20
  /\ src <= dst * MaxDownscale(sspp)

(* dpu_plane_atomic_check_nosspp, but for the limits of the stack and of    *)
(* the buffer.                                                             *)
CheckNoSspp(sspp, c) ==
  LET rot90 == c.rotation.angle \in {90, 270} IN
  /\ ScaleWithin(Swapped(rot90, c.w, c.h), c.dw, sspp)
  /\ ScaleWithin(Swapped(rot90, c.h, c.w), c.dh, sspp)
  /\ c.pitch <= 65535

(* dpu_plane_atomic_check_pipe, for mode m and the highest clock *)
CheckPipe(sspp, c, m, maxClk) ==
  LET yuv == Fmt(c).yuv IN
  /\ HasScaler(sspp) \/ (c.w = c.dw /\ c.h = c.dh)
  /\ "SCALER_QSEED2" \in sspp.features => CanBuild2(c)
  /\ yuv => sspp.sblk.csc
  /\ c.w >= IF yuv THEN 2 ELSE 1
  /\ c.h >= IF yuv THEN 2 ELSE 1
  /\ yuv => \A n \in {c.x, c.y, c.w, c.h} : n % 2 = 0
  /\ c.dw >= 1 /\ c.dh >= 1
  /\ PipeRotation(sspp, c).angle = 90 => CheckInlineRotation(sspp, c)
  /\ CalcClk(c, m) <= maxClk

(* The formats of dpu_plane_init, and what a plane may be asked with. *)
Offered(sspp, c) ==
  /\ c.name \in sspp.sblk.formats
  /\ FormatModSupported(c.name, c.ubwc, sspp.ubwc > 0)
  /\ c.rotation.angle \in PlaneAngles(sspp)
=============================================================================
