-------------------------- MODULE SemiplanarFormats --------------------------
(***************************************************************************)
(* The pixel formats that the software ISP makes (converter_softisp.cpp):  *)
(* a plane of luma and one of pairs of chroma, of which NV21 has the       *)
(* second first.                                                           *)
(***************************************************************************)
CONSTANTS NV12, NV21
=============================================================================
