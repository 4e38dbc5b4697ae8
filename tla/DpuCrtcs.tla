------------------------------ MODULE DpuCrtcs ------------------------------
(***************************************************************************)
(* Who may own a block of the display hardware.                            *)
(***************************************************************************)
CONSTANTS CRTCs, Free   \* the CRTCs; the owner of what none of them has
=============================================================================
