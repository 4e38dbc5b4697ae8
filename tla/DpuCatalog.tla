------------------------------ MODULE DpuCatalog ------------------------------
(***************************************************************************)
(* What the catalogue of the DPU says of a fetch pipe (SSPP): its features *)
(* and sub-blocks (dpu_hw_catalog.c), and its tables of QoS levels.        *)
(*                                                                         *)
(* The platform headers, which give each SSPP a mask and a sub-block, are  *)
(* outside this repository: an SSPP here is one of the pairs that the      *)
(* names of the masks and the sub-blocks tell to belong together.  Formats *)
(* are named by one of each class that the driver tells apart.             *)
(***************************************************************************)
EXTENDS Integers, Sequences

-----------------------------------------------------------------------------
(* Features *)
VIG_BASE_MASK    == {"QOS", "CDP", "TS_PREFILL", "EXCL_RECT"}
VIG_MASK         == VIG_BASE_MASK \cup {"CSC_10BIT"}
VIG_MSM8953_MASK == {"QOS", "SCALER_QSEED2", "CSC"}
VIG_MSM8996_MASK == VIG_MSM8953_MASK \cup {"CDP", "TS_PREFILL"}
VIG_MSM8998_MASK == VIG_MASK \cup {"SCALER_QSEED3_COMPATIBLE"}
VIG_SDM845_MASK_NO_SDMA == VIG_MSM8998_MASK
VIG_SDM845_MASK_SDMA    == VIG_SDM845_MASK_NO_SDMA \cup {"SMART_DMA_V2"}
VIG_SC7280_MASK_SDMA    == VIG_SDM845_MASK_SDMA \cup {"INLINE_ROTATION"}
DMA_MSM8953_MASK        == {"QOS"}
DMA_MSM8998_MASK == {"QOS", "TS_PREFILL", "TS_PREFILL_REC1", "CDP", "EXCL_RECT"}
DMA_SDM845_MASK_SDMA == DMA_MSM8998_MASK \cup {"SMART_DMA_V2"}

(* Formats: packed RGB of 32 and 16 bits and of 10 bits a component, and    *)
(* YUV subsampled twice, horizontally, and of 10 bits.                     *)
plane_formats == {"ARGB8888", "XRGB8888", "RGB565", "ARGB2101010"}
plane_formats_yuv_qseed2 == plane_formats \cup {"NV12", "NV16"}
plane_formats_yuv        == plane_formats_yuv_qseed2 \cup {"P010"}
rotation_v2_formats      == {"NV12"}

qcom_compressed_supported_formats ==
  {"ARGB8888", "XRGB8888", "ARGB2101010", "NV12", "P010"}

(* struct msm_format, of a table outside this repository: 10 bits (dx) and  *)
(* bytes per pixel (bpp) of what is fetched.                               *)
Rgb(alpha, dx, bpp) ==
  [yuv |-> FALSE, hsub |-> 1, vsub |-> 1, alpha |-> alpha, dx |-> dx, bpp |-> bpp]
Yuv(hsub, vsub, dx) ==
  [yuv |-> TRUE, hsub |-> hsub, vsub |-> vsub, alpha |-> FALSE, dx |-> dx, bpp |-> 2]
MsmFormat ==
  [ARGB8888 |-> Rgb(TRUE, FALSE, 4), XRGB8888 |-> Rgb(FALSE, FALSE, 4),
   RGB565 |-> Rgb(FALSE, FALSE, 2), ARGB2101010 |-> Rgb(TRUE, TRUE, 4),
   NV12 |-> Yuv(2, 2, FALSE), NV16 |-> Yuv(2, 1, FALSE), P010 |-> Yuv(2, 2, TRUE)]

(* dpu_plane_format_mod_supported, where UBWC can be decoded or not. *)
FormatModSupported(name, ubwc, hasUbwc) ==
  ubwc => hasUbwc /\ name \in qcom_compressed_supported_formats

-----------------------------------------------------------------------------
(* Sub-blocks *)
SSPP_SCALER_VER(major, minor) == major * 65536 + minor

NoRotation == [maxheight |-> 0, formats |-> {}]
Sblk(scaler, version, csc, formats) ==
  [scaler |-> scaler, version |-> version, csc |-> csc, formats |-> formats,
   rotation |-> NoRotation]

VIG_SBLK(version) == Sblk(TRUE, version, TRUE, plane_formats_yuv)
VIG_SBLK_ROT(version, rotation) == [VIG_SBLK(version) EXCEPT !.rotation = rotation]
VIG_SBLK_QSEED2   == Sblk(TRUE, 0, TRUE, plane_formats_yuv_qseed2)
DMA_SBLK          == Sblk(FALSE, 0, FALSE, plane_formats)

dpu_rot_sc7280_cfg_v2   == [maxheight |-> 1088, formats |-> rotation_v2_formats]
dpu_vig_sblk_qseed3_1_2 == VIG_SBLK(SSPP_SCALER_VER(1, 2))
dpu_vig_sblk_qseed3_3_2 == VIG_SBLK(SSPP_SCALER_VER(3, 2))
dpu_vig_sblk_qseed3_3_0_rot_v2 ==
  VIG_SBLK_ROT(SSPP_SCALER_VER(3, 0), dpu_rot_sc7280_cfg_v2)

MAX_HORZ_DECIMATION    == 4
MAX_VERT_DECIMATION    == 4
DEFAULT_PIXEL_RAM_SIZE == 50 * 1024

-----------------------------------------------------------------------------
(* QoS tables: entries of a fill level (fl) and the setting up to it; a     *)
(* last entry of level 0 is the default.                                   *)
Entry(fl, lut) == [fl |-> fl, lut |-> lut]
Levels(from, luts, default) ==
  [i \in 1..(Len(luts) + 1) |->
     IF i <= Len(luts) THEN Entry(from + i - 1, luts[i]) ELSE Entry(0, default)]

msm8998_qos_linear ==
  Levels(4, <<"1b", "5b", "15b", "55b", "155b", "555b", "1555b", "5555b", "15555b">>, "55555b")
msm8998_qos_macrotile == Levels(10, <<"1aaff", "5aaff", "15aaff">>, "55aaff")
sc7180_qos_linear    == <<Entry(0, "11222222335777")>>
sc7180_qos_macrotile == <<Entry(0, "11223344556677")>>
msm8998_qos_nrt      == <<Entry(0, "0")>>

(* _dpu_hw_get_qos_lut *)
GetQosLut(table, level) ==
  LET fits == {i \in DOMAIN table : level <= table[i].fl}
  IN  IF fits # {} THEN table[CHOOSE i \in fits : \A j \in fits : i <= j].lut
      ELSE IF table[Len(table)].fl = 0 THEN table[Len(table)].lut ELSE "0"

-----------------------------------------------------------------------------
(* SSPPs: mask and sub-block, version of the core and of its UBWC decoder   *)
(* (0: none), and the linear and macrotile QoS tables.                     *)
Sspp(features, sblk, core, ubwc, linear, macrotile) ==
  [features |-> features, sblk |-> sblk, core |-> core, ubwc |-> ubwc,
   linear |-> linear, macrotile |-> macrotile]

Msm8953Dma == Sspp(DMA_MSM8953_MASK, DMA_SBLK, 1, 0, msm8998_qos_linear, msm8998_qos_macrotile)
Msm8953Vig == Sspp(VIG_MSM8953_MASK, VIG_SBLK_QSEED2, 1, 0,
                   msm8998_qos_linear, msm8998_qos_macrotile)
Msm8996Vig == Sspp(VIG_MSM8996_MASK, VIG_SBLK_QSEED2, 1, 1,
                   msm8998_qos_linear, msm8998_qos_macrotile)
Msm8998Vig == Sspp(VIG_MSM8998_MASK, dpu_vig_sblk_qseed3_1_2, 3, 1,
                   msm8998_qos_linear, msm8998_qos_macrotile)
Sc7280Vig  == Sspp(VIG_SC7280_MASK_SDMA, dpu_vig_sblk_qseed3_3_0_rot_v2, 7, 4,
                   sc7180_qos_linear, sc7180_qos_macrotile)
Sm8550Vig  == Sspp(VIG_SDM845_MASK_SDMA, dpu_vig_sblk_qseed3_3_2, 9, 5,
                   sc7180_qos_linear, sc7180_qos_macrotile)
Sm8550Dma  == [Sm8550Vig EXCEPT !.features = DMA_SDM845_MASK_SDMA, !.sblk = DMA_SBLK]
=============================================================================
