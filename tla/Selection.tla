------------------------------ MODULE Selection ------------------------------
(***************************************************************************)
(* What a filter leaves of a list: the loops of Thermal.cpp that skip what *)
(* does not match, and erase with remove_if; of simple.cpp those that look *)
(* for the links, pads and routes that match; of camera_device.cpp those   *)
(* over the streams that are JPEGs, or are not.                            *)
(***************************************************************************)
EXTENDS Integers, SequencesExt

(* The elements that are in S, in their order. *)
Selected(q, S) ==
  LET kept[n \in 0..Len(q)] ==
        IF n = 0 THEN <<>>
        ELSE IF q[n] \in S THEN Append(kept[n - 1], q[n]) ELSE kept[n - 1]
  IN  kept[Len(q)]
=============================================================================
