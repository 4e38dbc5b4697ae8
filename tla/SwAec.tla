------------------------------- MODULE SwAec -------------------------------
(***************************************************************************)
(* The software auto-exposure of the simple pipeline handler               *)
(* (SimpleCameraData::swAecFeedback() of libcamera,                        *)
(* pipeline/simple/simple.cpp), one step per raw frame.                    *)
(*                                                                         *)
(* The pixels are abstracted to their mean, and any mean may follow any    *)
(* other: the scene changes, and the sensor takes values up a frame or two *)
(* after they are set.  The limits are those of the sensor's controls,     *)
(* that of the exposure comes from the frame length of the sensor's mode.  *)
(* Products with a double are truncated to an integer; where the product   *)
(* is a whole number the double may lie just below it.                     *)
(***************************************************************************)
EXTENDS Integers

CONSTANTS
  Modes,                      \* the exposures of the sensor's modes: [min, max, def]
  gainMin, gainMax, gainDef,  \* its gains
  Means                       \* the means of frames: of 10 bits, and no less than 1

Target   == 200
SlowDown == [num |-> 7,  den |-> 10]
SpeedUp  == [num |-> 14, den |-> 10]

Steerable(min, max, def) == min \in Nat /\ max \in Nat /\ def \in min..max

ASSUME ModeAssumption == \A m \in Modes : Steerable(m.min, m.max, m.def)
ASSUME GainAssumption == Steerable(gainMin, gainMax, gainDef)
ASSUME MeanAssumption == Means \subseteq 1..1023

VARIABLES
  mode,          \* the mode the sensor is in, with the limits of its controls
  initialized, exposure, gain,   \* swAec_
  mean           \* history: the mean of the last frame, 0 for one not measured

vars == <<mode, initialized, exposure, gain, mean>>

-----------------------------------------------------------------------------
AtMost(a, b)  == IF a < b THEN a ELSE b
AtLeast(a, b) == IF a > b THEN a ELSE b

(* Target / m, no less than SlowDown and no more than SpeedUp. *)
Ratio(m) ==
  IF Target * SlowDown.den < SlowDown.num * m THEN SlowDown
  ELSE IF Target * SpeedUp.den > SpeedUp.num * m THEN SpeedUp
  ELSE [num |-> Target, den |-> m]

(* int(double(value) * num / den) *)
Truncated(value, num, den) ==
  {(value * num) \div den} \cup
    IF value # 0 /\ num % den # 0 /\ (value * num) % den = 0 THEN {(value * num) \div den - 1} ELSE {}

(* Mutant: gain does not pick up the rest. *)
UnderExposedExposureOnly(e, g, ratio) ==
  \E wantExp \in Truncated(e, ratio.num, ratio.den) :
    exposure' = e + AtMost(wantExp - e, mode.max - e) /\ gain' = g

UnderExposed(e, g, ratio) ==
  \E wantExp \in Truncated(e, ratio.num, ratio.den) :
    LET exp == e + AtMost(wantExp - e, mode.max - e)
    IN  /\ exposure' = exp
        /\ IF exp < wantExp /\ g < gainMax
           THEN \E raised \in Truncated(g, ratio.num, ratio.den) :
                   gain' = AtMost(raised, gainMax)
           ELSE gain' = g

(* Mutant: the exposure falls together with the gain. *)
OverExposedBoth(e, g, ratio) ==
  \E subGain \in Truncated(g, ratio.den - ratio.num, ratio.den),
     lowered \in Truncated(e, ratio.num, ratio.den) :
    gain' = AtLeast(g - subGain, gainMin) /\ exposure' = AtLeast(lowered, mode.min)

OverExposed(e, g, ratio) ==
  \E subGain \in Truncated(g, ratio.den - ratio.num, ratio.den) :
    /\ gain' = AtLeast(g - subGain, gainMin)
    /\ IF gain' = gainMin
       THEN \E lowered \in Truncated(e, ratio.num, ratio.den) :
               exposure' = AtLeast(lowered, mode.min)
       ELSE exposure' = e

-----------------------------------------------------------------------------
Init ==
  /\ mode \in Modes
  /\ initialized = FALSE /\ exposure = 0 /\ gain = 0 /\ mean = 0

(* The request sets the exposure: the frame is left alone. *)
ManualFrame ==
  /\ mean' = 0
  /\ UNCHANGED <<mode, initialized, exposure, gain>>

StartExposure == IF initialized THEN exposure ELSE mode.def
StartGain     == IF initialized THEN gain ELSE gainDef

(* The frame is too short, or cannot be mapped. *)
UnreadableFrame ==
  /\ initialized' = TRUE /\ exposure' = StartExposure /\ gain' = StartGain
  /\ mean' = 0
  /\ UNCHANGED mode

Frame ==
  \E m \in Means :
    /\ LET ratio == Ratio(m)
       IN  IF ratio.num >= ratio.den THEN UnderExposed(StartExposure, StartGain, ratio)
                                     ELSE OverExposed(StartExposure, StartGain, ratio)
    /\ initialized' = TRUE /\ mean' = m
    /\ UNCHANGED mode

(* The sensor does not take the values: setControls() fails. *)
FrameNotSet ==
  /\ \E m \in Means : mean' = m
  /\ initialized' = TRUE /\ exposure' = StartExposure /\ gain' = StartGain
  /\ UNCHANGED mode

(* The camera is configured anew: swAec_ goes on from where it was. *)
ChangeMode ==
  /\ mode' \in Modes
  /\ mean' = 0
  /\ UNCHANGED <<initialized, exposure, gain>>

Next == ManualFrame \/ UnreadableFrame \/ Frame \/ FrameNotSet \/ ChangeMode
Spec == Init /\ [][Next]_vars

-----------------------------------------------------------------------------
TypeOK ==
  /\ mode \in Modes /\ mean \in Means \cup {0}
  /\ initialized \in BOOLEAN
  /\ initialized => exposure \in Nat /\ gain \in gainMin..gainMax

(* Exposure first: gain, which costs noise, rises only when the exposure is at
   its ceiling, and the exposure falls only when the gain is at its floor,
   unless it is above the ceiling of a new mode (swAecFeedback).            *)
ExposureFirst ==
  [][initialized =>
       /\ gain' > gain => exposure' = mode.max
       /\ exposure' < exposure => gain' = gainMin \/ exposure > mode.max]_vars

(* While the sensor takes its values no frame moves either the wrong way within
   the limits of the mode (swAecFeedback: "towards a fixed mid-scale target"),
   and the loop stands still at a frame that is far too dark or too bright only
   where nothing can move.  For a dark one that is where both are at their
   ceilings, and where 40 percent of the value that is to be raised is less
   than one; for a bright one where both are at their floors, and where 30
   percent of a gain above its floor is less than one.                      *)
Brighter == exposure' > exposure \/ gain' > gain
Darker   == exposure' < exposure \/ gain' < gain
WithinLimits == exposure \in mode.min..mode.max

CanBrighten(e, g) == e >= 3 /\ (e < mode.max \/ (g >= 3 /\ g < gainMax))
CanDarken(e, g)   == IF g = gainMin THEN e > mode.min ELSE g >= 4

SteersToTarget ==
  [][(Frame /\ initialized /\ WithinLimits) =>
       /\ Brighter => ~Darker /\ mean' < Target
       /\ Darker => mean' > Target
       /\ Ratio(mean') = SpeedUp  => (Brighter <=> CanBrighten(exposure, gain))
       /\ Ratio(mean') = SlowDown => (Darker <=> CanDarken(exposure, gain))]_vars
=============================================================================
