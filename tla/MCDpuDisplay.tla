---------------------------- MODULE MCDpuDisplay ----------------------------
(***************************************************************************)
(* Instances of the modules of the DPU driver for TLC: the blocks of a     *)
(* display (DpuRm), the SSPPs of its planes (DpuPlanes), and the registers *)
(* of one SSPP (DpuPipe).  A behaviour shows one of them: who owns a block *)
(* or an SSPP, and which plane an SSPP shows, is settled before any of its *)
(* registers is written.                                                   *)
(***************************************************************************)
EXTENDS DpuRm, DpuPlanes, DpuPipe, TLC

CONSTANTS crtc1, crtc2, crtc3,
          Parts   \* those of "rm", "planes" and "pipe" to show

VARIABLE part

ThreeCrtcs == {crtc1, crtc2, crtc3}
Symmetry   == Permutations(ThreeCrtcs)

-----------------------------------------------------------------------------
(* The catalogues of the platforms are headers outside this repository:     *)
(* this is a DPU with four mixers in two pairs.                            *)
FourBlocks  == 0..3
FiveBlocks  == 0..4
TwoBlocks   == 0..1
OneBlock    == {0}
PairsOfFour == [m \in 0..3 |-> IF m % 2 = 0 THEN m + 1 ELSE m - 1]
SameIndex   == [m \in 0..3 |-> m]

Plain == [num_lm |-> 1, num_dspp |-> 0, num_intf |-> 1, num_dsc |-> 0, num_cdm |-> 0,
          cwb_enabled |-> FALSE]

(* A display with DSPP and CDM, one with DSC, a cloned pair of mixers with  *)
(* all of these on two interfaces, and a quad-pipe display.                *)
AllTopologies ==
  {[Plain EXCEPT !.num_dspp = 1, !.num_cdm = 1],
   [Plain EXCEPT !.num_dsc = 1],
   [Plain EXCEPT !.num_lm = 2, !.num_dspp = 2, !.num_dsc = 2, !.num_intf = 2, !.num_cdm = 1,
                 !.cwb_enabled = TRUE],
   [Plain EXCEPT !.num_lm = 4, !.num_dsc = 4, !.num_intf = 2]}

DsppTopologies == {Plain, [Plain EXCEPT !.num_dspp = 1]}

-----------------------------------------------------------------------------
(* A small plane at the top left, one at the bottom that is as wide as the  *)
(* display, and a video at the top left; and for them a DMA pipe that does  *)
(* multirect, and a VIG pipe that scales and converts.                     *)
Small == [rects |-> <<<<1>>, <<1, 0>>>>, needs |-> {}, wide |-> FALSE, rows |-> {1}, cols |-> {1}]
Wide  == [Small EXCEPT !.rects = <<<<2>>, <<1, 1>>>>, !.rows = {2}, !.cols = {1, 2}]
Video == [Small EXCEPT !.needs = {"scale", "yuv"}]

ThreeLayouts == {Small, Wide, Video}

DmaAndVig   == <<"DMA", "VIG">>
ThreePlanes == 1..3
DmaOnly     == {1}
VigOnly     == {2}
TwoSspps    == DmaOnly \cup VigOnly

-----------------------------------------------------------------------------
Show(name, w, h, dw, dh) ==
  [name |-> name, ubwc |-> FALSE, x |-> 0, y |-> 0, w |-> w, h |-> h,
   dx |-> 0, dy |-> 0, dw |-> dw, dh |-> dh, rotation |-> [angle |-> 0, reflect |-> {}],
   pitch |-> 256, fb |-> 1, rt |-> TRUE]

(* A picture, the same upside down for a writeback, videos enlarged and much *)
(* reduced, a picture just beyond what is reduced without decimation, and a *)
(* video on its side.                                                      *)
Picture == Show("XRGB8888", 40, 60, 40, 60)
Reduced == Show("ARGB8888", 410, 100, 100, 100)
MCSolos ==
  {Picture,
   [Picture EXCEPT !.rotation = [angle |-> 180, reflect |-> {"X"}], !.rt = FALSE],
   Show("NV12", 100, 60, 40, 90), Show("NV16", 400, 400, 40, 24), Reduced,
   [Show("NV12", 80, 60, 60, 80) EXCEPT !.ubwc = TRUE,
                                        !.rotation = [angle |-> 90, reflect |-> {}]]}

(* The halves of a picture, a compressed one beside the left and below the   *)
(* right half, and one with lines too long.                                *)
LeftHalf == [Picture EXCEPT !.dy = 20]
NextToIt == [Show("ARGB8888", 30, 20, 30, 20) EXCEPT
               !.ubwc = TRUE, !.dx = 40, !.dy = 88, !.fb = 2, !.pitch = 512]
MCHalves ==
  {LeftHalf, [LeftHalf EXCEPT !.x = 40, !.dx = 40], NextToIt,
   [NextToIt EXCEPT !.name = "RGB565", !.ubwc = FALSE, !.dx = 80, !.pitch = 65536]}

SixKinds ==
  {Msm8953Dma, Msm8953Vig, Msm8996Vig,
   Msm8998Vig, Sc7280Vig, Sm8550Dma}
Timing == [vtotal |-> 130, fps |-> 60]

ASSUME DisplayAssumption == PlaneAssumption

-----------------------------------------------------------------------------
(* The state of a part that a behaviour does not show. *)
NoBlocks == Init /\ ~hasLegacyCtls
NoPipe ==
  /\ sspp = Msm8953Dma /\ shown = <<>> /\ mode = "NONE" /\ error = {} /\ filled = <<>>
  /\ notUpdated = {} /\ toFlush = {} /\ reg = Reset /\ clocked = TRUE

InitParts ==
  /\ part \in Parts
  /\ IF part = "rm" THEN Init ELSE NoBlocks
  /\ PlanesInit
  /\ IF part = "pipe" THEN PipeInit ELSE NoPipe

NextParts ==
  \/ part = "rm" /\ Next /\ UNCHANGED <<part, planesVars, pipeVars>>
  \/ part = "planes" /\ PlanesNext /\ UNCHANGED <<part, vars, pipeVars>>
  \/ part = "pipe" /\ PipeNext /\ UNCHANGED <<part, vars, planesVars>>

SpecParts == InitParts /\ [][NextParts]_<<part, vars, planesVars, pipeVars>>

=============================================================================
