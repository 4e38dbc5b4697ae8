----------------------- MODULE SequentialPartsProofs -----------------------
(***************************************************************************)
(* Seven of the parts that run to their end within one call: the           *)
(* auto-exposure of SwAec stays within the sensor's limits, prefers        *)
(* exposure to gain and steers towards its target, whatever the limits and *)
(* the frames are; the configurations that SimpleConfiguration accepts can *)
(* be made, and are accepted again, whatever is captured and asked for; the*)
(* clients of ThermalCallbacks are listed once; the answers of Thermal     *)
(* have each device that stays, whatever comes and goes; the planes that   *)
(* CameraBuffer finds lie in their dmabufs, apart from each other; the     *)
(* images of SoftIsp are whole, for any formats, sizes and scale; and of   *)
(* the streams that StreamConfigs is asked for each is made once, from one *)
(* that can be its source, within the limits and in the order promised.    *)
(***************************************************************************)
EXTENDS SwAec, SimpleConfiguration, StreamConfigs, ThermalCallbacks, Thermal, CameraBuffer,
        SoftIsp, DataLemmas

LEMMA TimesMonotone ==
  \A a, b, c \in Nat : a <= b => c * a <= c * b
  OBVIOUS

(* A product truncated to an integer: a natural number, and off by less than
   two.                                                                     *)
LEMMA TruncatedBounds ==
  ASSUME NEW value \in Nat, NEW num \in Nat, NEW den \in Nat \ {0},
         NEW q \in Truncated(value, num, den)
  PROVE  /\ q \in Nat
         /\ q * den <= value * num
         /\ num % den = 0 => q = (value * num) \div den
<1> DEFINE p == value * num
<1>1. p \in Nat
  OBVIOUS
<1>2. /\ p \div den \in Nat /\ p % den \in Nat
      /\ p = den * (p \div den) + (p % den)
  <2> HIDE DEF p
  <2> QED BY <1>1
<1> QED
  BY <1>1, <1>2 DEF Truncated

(* A ratio of one or more lowers nothing, and one that is one changes nothing. *)
LEMMA RaisedIsNoLess ==
  ASSUME NEW value \in Nat, NEW num \in Nat, NEW den \in Nat \ {0}, num >= den,
         NEW q \in Truncated(value, num, den)
  PROVE  q >= value /\ (num = den => q = value)
<1> DEFINE p == value * num
<1>1. p \in Nat /\ p >= value * den /\ (num = den => p = value * den)
  OBVIOUS
<1>2. p = den * (p \div den) + (p % den) /\ p % den \in 0..(den - 1) /\ p \div den \in Nat
  <2> HIDE DEF p
  <2> QED BY <1>1
<1>3. p \div den >= value
  <2> HIDE DEF p
  <2>1. CASE p \div den <= value - 1
    <3>1. den * (p \div den) <= den * (value - 1)
      BY <1>2, <2>1
    <3> QED BY <1>1, <1>2, <3>1
  <2> QED BY <1>2, <2>1
<1>4. ASSUME num = den
      PROVE  p \div den = value
  <2>1. p = value * den
    BY <1>1, <1>4
  <2> HIDE DEF p
  <2>2. CASE p \div den >= value + 1
    <3>1. den * (value + 1) <= den * (p \div den)
      BY <1>2, <2>2, TimesMonotone
    <3> QED BY <1>2, <2>1, <3>1
  <2> QED BY <1>2, <1>3, <2>2
<1>5. ASSUME num # den, p % den = 0, value # 0
      PROVE  (p \div den) - 1 >= value
  <2>1. p >= value * den + value
    BY <1>5
  <2> HIDE DEF p
  <2>2. CASE p \div den <= value
    <3>1. den * (p \div den) <= den * value
      BY <1>2, <2>2
    <3> QED BY <1>2, <1>5, <2>1, <3>1
  <2> QED BY <1>2, <2>2
<1>6. num = den => num % den = 0
  OBVIOUS
<1> QED
  BY <1>2, <1>3, <1>4, <1>5, <1>6 DEF Truncated

(* A ratio of less than one raises nothing. *)
LEMMA LoweredIsNoMore ==
  ASSUME NEW value \in Nat, NEW num \in Nat, NEW den \in Nat \ {0}, num < den,
         NEW q \in Truncated(value, num, den)
  PROVE  q <= value
<1>1. q \in Nat /\ q * den <= value * num
  BY TruncatedBounds
<1>2. value * num <= value * den
  OBVIOUS
<1>3. CASE q >= value + 1
  <2>1. q * den >= (value + 1) * den
    BY <1>1, <1>3
  <2> QED BY <1>1, <1>2, <2>1
<1> QED
  BY <1>1, <1>3

(* What moves at the limits of the ratio, and what is too small to. *)
LEMMA LimitsMove ==
  ASSUME NEW value \in Nat
  PROVE  /\ \A q \in Truncated(value, 14, 10) : IF value >= 3 THEN q > value ELSE q = value
         /\ value > 0 => \A q \in Truncated(value, 7, 10) : q < value
         /\ \A q \in Truncated(value, 3, 10) : IF value >= 4 THEN q > 0 ELSE q = 0
  BY DEF Truncated

(* The ratio of a frame: above one for a dark frame, below one for a bright one. *)
LEMMA RatioSide ==
  ASSUME NEW m \in 1..1023
  PROVE  /\ Ratio(m).num \in Nat /\ Ratio(m).den \in Nat \ {0}
         /\ m <= Target <=> Ratio(m).num >= Ratio(m).den
         /\ m <= Target \/ m > Target
         /\ m = Target => Ratio(m).num = Ratio(m).den
         /\ m > Target => Ratio(m).num < Ratio(m).den /\ Ratio(m).den - Ratio(m).num \in Nat
  BY DEF Ratio, Target, SlowDown, SpeedUp

-----------------------------------------------------------------------------
(* What swAec_ goes on from: the sensor's defaults or its last values. *)
LEMMA Starts ==
  ASSUME TypeOK
  PROVE  StartExposure \in Nat /\ StartGain \in gainMin..gainMax /\ StartGain \in Nat
  BY ModeAssumption, GainAssumption DEF TypeOK, StartExposure, StartGain, Steerable

(* A dark frame lowers neither, but for an exposure above its ceiling ... *)
Raised(e, g, m) ==
  /\ exposure' \in Nat /\ gain' \in gainMin..gainMax
  /\ exposure' = mode.max \/ (exposure' >= e /\ gain' = g)
  /\ gain' >= g
  /\ e <= mode.max => exposure' >= e
  /\ m = Target /\ e <= mode.max => exposure' = e /\ gain' = g
  /\ Ratio(m) = SpeedUp /\ e \in mode.min..mode.max =>
       (exposure' > e \/ gain' > g <=> CanBrighten(e, g))

(* ... and a bright one raises neither, but for an exposure below its floor. *)
Lowered(e, g, m) ==
  /\ exposure' \in Nat /\ gain' \in gainMin..gainMax
  /\ exposure' < e => gain' = gainMin
  /\ gain' <= g
  /\ e >= mode.min => exposure' <= e
  /\ Ratio(m) = SlowDown /\ e \in mode.min..mode.max =>
       (exposure' < e \/ gain' < g <=> CanDarken(e, g))

LEMMA UnderExposedRaises ==
  ASSUME TypeOK, NEW e \in Nat, NEW g \in gainMin..gainMax,
         NEW m \in 1..1023, m <= Target, UnderExposed(e, g, Ratio(m))
  PROVE  Raised(e, g, m)
<1> DEFINE num == Ratio(m).num
           den == Ratio(m).den
<1>1. num \in Nat /\ den \in Nat \ {0} /\ num >= den /\ (m = Target => num = den)
  BY RatioSide, ZenonT(60)
<1>2. g \in Nat /\ gainMin \in Nat /\ gainMax \in Nat /\ g <= gainMax
  BY GainAssumption DEF Steerable
<1>3. mode.max \in Nat /\ mode.min \in Nat
  BY ModeAssumption DEF TypeOK, Steerable
<1>4. PICK wantExp \in Truncated(e, num, den) :
        /\ exposure' = e + AtMost(wantExp - e, mode.max - e)
        /\ IF exposure' < wantExp /\ g < gainMax
           THEN \E raised \in Truncated(g, num, den) : gain' = AtMost(raised, gainMax)
           ELSE gain' = g
  BY DEF UnderExposed
<1>5. wantExp \in Nat /\ wantExp >= e /\ (num = den => wantExp = e)
  BY <1>1, TruncatedBounds, RaisedIsNoLess
<1>6. ASSUME NEW raised \in Truncated(g, num, den)
      PROVE  raised \in Nat /\ raised >= g
  BY <1>1, <1>2, TruncatedBounds, RaisedIsNoLess
<1>7. ASSUME Ratio(m) = SpeedUp
      PROVE  /\ IF e >= 3 THEN wantExp > e ELSE wantExp = e
             /\ \A raised \in Truncated(g, num, den) : IF g >= 3 THEN raised > g ELSE raised = g
  <2>1. num = 14 /\ den = 10
    BY <1>7 DEF SpeedUp
  <2> QED BY <2>1, <1>2, LimitsMove
<1> HIDE DEF num, den
<1>8. exposure' = (IF wantExp <= mode.max THEN wantExp ELSE mode.max)
  BY <1>3, <1>4, <1>5 DEF AtMost
<1>9. \/ gain' = g /\ ~(exposure' < wantExp /\ g < gainMax)
      \/ /\ exposure' < wantExp /\ g < gainMax
         /\ \E raised \in Truncated(g, num, den) : gain' = AtMost(raised, gainMax)
  BY <1>4
<1>10. /\ exposure' \in Nat /\ gain' \in gainMin..gainMax /\ gain' >= g
       /\ gain' # g => exposure' < wantExp
  BY <1>2, <1>3, <1>5, <1>6, <1>8, <1>9 DEF AtMost
<1>11. ASSUME Ratio(m) = SpeedUp, e \in mode.min..mode.max
       PROVE  exposure' > e \/ gain' > g <=> CanBrighten(e, g)
  <2>1. CASE e < 3
    <3>1. wantExp = e /\ exposure' = e
      BY <1>3, <1>7, <1>8, <1>11, <2>1
    <3>2. gain' = g
      BY <1>9, <3>1
    <3> QED BY <1>2, <2>1, <3>1, <3>2 DEF CanBrighten
  <2>2. CASE e >= 3 /\ e < mode.max
    <3>1. exposure' > e
      BY <1>3, <1>5, <1>7, <1>8, <1>11, <2>2
    <3> QED BY <2>2, <3>1 DEF CanBrighten
  <2>3. CASE e >= 3 /\ e = mode.max
    <3>1. wantExp > e /\ exposure' = e /\ exposure' < wantExp
      BY <1>3, <1>5, <1>7, <1>8, <1>11, <2>3
    <3>2. CASE g = gainMax
      BY <1>2, <1>3, <1>9, <2>3, <3>1, <3>2 DEF CanBrighten
    <3>3. CASE g < gainMax
      <4>1. PICK raised \in Truncated(g, num, den) : gain' = AtMost(raised, gainMax)
        BY <1>9, <3>1, <3>3
      <4>2. raised \in Nat /\ IF g >= 3 THEN raised > g ELSE raised = g
        BY <1>6, <1>7, <1>11
      <4>3. gain' > g <=> g >= 3
        BY <1>2, <3>3, <4>1, <4>2 DEF AtMost
      <4> QED BY <1>3, <2>3, <3>1, <3>3, <4>3 DEF CanBrighten
    <3> QED BY <1>2, <3>2, <3>3
  <2> QED BY <1>3, <1>11, <2>1, <2>2, <2>3
<1> QED
  BY SMTT(30), <1>1, <1>2, <1>3, <1>5, <1>8, <1>10, <1>11 DEF Raised

LEMMA OverExposedLowers ==
  ASSUME TypeOK, NEW e \in Nat, NEW g \in gainMin..gainMax,
         NEW m \in 1..1023, m > Target, OverExposed(e, g, Ratio(m))
  PROVE  Lowered(e, g, m)
<1> DEFINE num == Ratio(m).num
           den == Ratio(m).den
<1>1. num \in Nat /\ den \in Nat \ {0} /\ num < den /\ den - num \in Nat
  BY RatioSide, ZenonT(60)
<1>2. g \in Nat /\ gainMin \in Nat /\ gainMax \in Nat /\ g >= gainMin
  BY GainAssumption DEF Steerable
<1>3. mode.max \in Nat /\ mode.min \in Nat
  BY ModeAssumption DEF TypeOK, Steerable
<1>4. PICK subGain \in Truncated(g, den - num, den) :
        /\ gain' = AtLeast(g - subGain, gainMin)
        /\ IF gain' = gainMin
           THEN \E lowered \in Truncated(e, num, den) : exposure' = AtLeast(lowered, mode.min)
           ELSE exposure' = e
  BY DEF OverExposed
<1>5. subGain \in Nat
  BY <1>1, <1>2, TruncatedBounds
<1>6. ASSUME NEW lowered \in Truncated(e, num, den)
      PROVE  lowered \in Nat /\ lowered <= e
  BY <1>1, TruncatedBounds, LoweredIsNoMore
<1>7. ASSUME Ratio(m) = SlowDown
      PROVE  /\ IF g >= 4 THEN subGain > 0 ELSE subGain = 0
             /\ e > 0 => \A lowered \in Truncated(e, num, den) : lowered < e
  <2>1. num = 7 /\ den = 10 /\ den - num = 3
    BY <1>7 DEF SlowDown
  <2> QED BY <2>1, <1>2, LimitsMove
<1> HIDE DEF num, den
<1>8. gain' \in gainMin..gainMax /\ gain' <= g /\ (gain' = gainMin \/ gain' = g - subGain)
  BY <1>2, <1>4, <1>5 DEF AtLeast
<1>9. \/ gain' # gainMin /\ exposure' = e
      \/ /\ gain' = gainMin
         /\ \E lowered \in Truncated(e, num, den) : exposure' = AtLeast(lowered, mode.min)
  BY <1>4
<1>10. /\ exposure' \in Nat
       /\ exposure' < e => gain' = gainMin
       /\ e >= mode.min => exposure' <= e
  BY <1>3, <1>6, <1>9 DEF AtLeast
<1>11. ASSUME Ratio(m) = SlowDown, e \in mode.min..mode.max
       PROVE  exposure' < e \/ gain' < g <=> CanDarken(e, g)
  <2>1. CASE g = gainMin
    <3>1. gain' = gainMin
      BY <1>2, <1>8, <2>1
    <3>2. PICK lowered \in Truncated(e, num, den) : exposure' = AtLeast(lowered, mode.min)
      BY <1>9, <3>1
    <3>3. lowered \in Nat /\ lowered <= e /\ (e > 0 => lowered < e)
      BY <1>6, <1>7, <1>11
    <3>4. exposure' < e <=> e > mode.min
      BY <1>3, <1>11, <3>2, <3>3 DEF AtLeast
    <3> QED BY <1>2, <2>1, <3>1, <3>4 DEF CanDarken
  <2>2. CASE g # gainMin /\ g >= 4
    <3>1. gain' < g
      BY <1>2, <1>4, <1>5, <1>7, <1>11, <2>2 DEF AtLeast
    <3> QED BY <2>2, <3>1 DEF CanDarken
  <2>3. CASE g # gainMin /\ ~(g >= 4)
    <3>1. gain' = g
      BY <1>2, <1>4, <1>5, <1>7, <1>11, <2>3 DEF AtLeast
    <3>2. exposure' = e
      BY <1>9, <2>3, <3>1
    <3> QED BY <1>2, <1>3, <1>11, <2>3, <3>1, <3>2 DEF CanDarken
  <2> QED BY <2>1, <2>2, <2>3
<1> QED
  BY <1>8, <1>10, <1>11 DEF Lowered

-----------------------------------------------------------------------------
(* A measured frame is dark or bright, and goes on from where swAec_ was. *)
LEMMA FrameCases ==
  ASSUME TypeOK, Frame
  PROVE  \E m \in 1..1023, e \in Nat, g \in gainMin..gainMax :
           /\ m \in Means /\ mean' = m /\ initialized' = TRUE /\ mode' = mode
           /\ e = StartExposure /\ g = StartGain
           /\ \/ m <= Target /\ Raised(e, g, m)
              \/ m > Target /\ Lowered(e, g, m)
<1>1. PICK e \in Nat, g \in gainMin..gainMax : e = StartExposure /\ g = StartGain
  BY Starts
<1>2. PICK m \in Means :
        /\ IF Ratio(m).num >= Ratio(m).den
           THEN UnderExposed(e, g, Ratio(m))
           ELSE OverExposed(e, g, Ratio(m))
        /\ initialized' = TRUE /\ mean' = m /\ mode' = mode
  BY <1>1 DEF Frame, UnderExposed, OverExposed
<1>3. m \in 1..1023
  BY MeanAssumption
<1>4. (m <= Target <=> Ratio(m).num >= Ratio(m).den) /\ (m <= Target \/ m > Target)
  BY <1>3, RatioSide, ZenonT(60)
<1>5. CASE m <= Target
  <2>1. UnderExposed(e, g, Ratio(m))
    BY <1>2, <1>4, <1>5
  <2>2. Raised(e, g, m)
    BY <1>3, <1>5, <2>1, UnderExposedRaises, ZenonT(60)
  <2> QED BY <1>1, <1>2, <1>3, <1>5, <2>2, ZenonT(60)
<1>6. CASE m > Target
  <2>1. ~(m <= Target)
    BY <1>3, <1>6 DEF Target
  <2>2. OverExposed(e, g, Ratio(m))
    BY <1>2, <1>4, <2>1
  <2>3. Lowered(e, g, m)
    BY <1>3, <1>6, <2>2, OverExposedLowers, ZenonT(60)
  <2> QED BY <1>1, <1>2, <1>3, <1>6, <2>3, ZenonT(60)
<1> QED
  BY <1>4, <1>5, <1>6, ZenonT(60)

(* The gain is one the sensor has. *)
LEMMA TypeStep ==
  ASSUME TypeOK, [Next]_vars
  PROVE  TypeOK'
<1>1. CASE ManualFrame
  BY <1>1 DEF TypeOK, ManualFrame
<1>2. CASE UnreadableFrame
  BY <1>2, Starts DEF TypeOK, UnreadableFrame
<1>3. CASE Frame
  <2>1. PICK m \in 1..1023, e \in Nat, g \in gainMin..gainMax :
          /\ m \in Means /\ mean' = m /\ initialized' = TRUE /\ mode' = mode
          /\ \/ m <= Target /\ Raised(e, g, m)
             \/ m > Target /\ Lowered(e, g, m)
    BY <1>3, FrameCases, ZenonT(60)
  <2>2. exposure' \in Nat /\ gain' \in gainMin..gainMax
    BY <2>1 DEF Raised, Lowered
  <2> QED BY <2>1, <2>2 DEF TypeOK
<1>4. CASE FrameNotSet
  BY <1>4, Starts DEF TypeOK, FrameNotSet
<1>5. CASE ChangeMode
  BY <1>5 DEF TypeOK, ChangeMode
<1>6. CASE UNCHANGED vars
  BY <1>6 DEF TypeOK, vars
<1> QED
  BY <1>1, <1>2, <1>3, <1>4, <1>5, <1>6 DEF Next

LEMMA TypeInvariant == Spec => []TypeOK
<1>1. Init => TypeOK
  BY DEF Init, TypeOK
<1>2. TypeOK /\ [Next]_vars => TypeOK'
  BY TypeStep
<1> QED
  BY <1>1, <1>2, PTL DEF Spec

(* Once there are values, a frame goes on from them. *)
LEMMA GoesOn ==
  ASSUME TypeOK, initialized
  PROVE  StartExposure = exposure /\ StartGain = gain
  BY DEF StartExposure, StartGain

LEMMA ExposureFirstStep ==
  ASSUME TypeOK, [Next]_vars, initialized
  PROVE  /\ gain' > gain => exposure' = mode.max
         /\ exposure' < exposure => gain' = gainMin \/ exposure > mode.max
<1> DEFINE Kept == exposure' = exposure /\ gain' = gain
<1>1. exposure \in Nat /\ gain \in Nat /\ gain \in gainMin..gainMax /\ mode.max \in Nat
  BY ModeAssumption, GainAssumption DEF TypeOK, Steerable
<1>2. CASE Kept
  BY <1>1, <1>2
<1>3. CASE Frame
  <2>1. PICK m \in 1..1023, e \in Nat, g \in gainMin..gainMax :
          /\ e = exposure /\ g = gain
          /\ \/ m <= Target /\ Raised(e, g, m)
             \/ m > Target /\ Lowered(e, g, m)
    BY <1>3, FrameCases, GoesOn, ZenonT(60)
  <2>2. CASE m <= Target /\ Raised(e, g, m)
    <3>1. /\ exposure' \in Nat /\ gain' \in gainMin..gainMax
          /\ exposure' = mode.max \/ (exposure' >= e /\ gain' = g)
          /\ e <= mode.max => exposure' >= e
      BY <2>2 DEF Raised
    <3> QED BY <1>1, <2>1, <3>1
  <2>3. CASE m > Target /\ Lowered(e, g, m)
    <3>1. /\ exposure' < e => gain' = gainMin
          /\ gain' \in gainMin..gainMax /\ gain' <= g
      BY <2>3 DEF Lowered
    <3> QED BY <1>1, <2>1, <3>1, GainAssumption DEF Steerable
  <2> QED BY <2>1, <2>2, <2>3
<1>4. CASE ManualFrame \/ UnreadableFrame \/ FrameNotSet \/ ChangeMode \/ UNCHANGED vars
  BY <1>2, <1>4, GoesOn DEF ManualFrame, UnreadableFrame, FrameNotSet, ChangeMode, vars
<1> QED
  BY <1>3, <1>4 DEF Next

(* For any sensor, gain rises only when the exposure is at the ceiling of its
   mode, and the exposure falls only when the gain is at its floor or the mode
   no longer allows it.                                                     *)
THEOREM ExposurePreferred == Spec => ExposureFirst
<1>1. TypeOK /\ [Next]_vars =>
        [initialized => /\ gain' > gain => exposure' = mode.max
                        /\ exposure' < exposure => gain' = gainMin \/ exposure > mode.max]_vars
  BY ExposureFirstStep
<1> QED
  BY <1>1, TypeInvariant, PTL DEF Spec, ExposureFirst

LEMMA SteersStep ==
  ASSUME TypeOK, Frame, initialized, WithinLimits
  PROVE  /\ Brighter => ~Darker /\ mean' < Target
         /\ Darker => mean' > Target
         /\ Ratio(mean') = SpeedUp  => (Brighter <=> CanBrighten(exposure, gain))
         /\ Ratio(mean') = SlowDown => (Darker <=> CanDarken(exposure, gain))
<1>1. /\ exposure \in Nat /\ gain \in Nat /\ gain \in gainMin..gainMax
      /\ exposure \in mode.min..mode.max /\ mode.max \in Nat /\ mode.min \in Nat
      /\ gainMin \in Nat /\ gainMax \in Nat /\ Target \in Nat
  BY ModeAssumption, GainAssumption DEF TypeOK, Steerable, WithinLimits, Target
<1>2. PICK m \in 1..1023, e \in Nat, g \in gainMin..gainMax :
        /\ mean' = m /\ e = exposure /\ g = gain
        /\ \/ m <= Target /\ Raised(e, g, m)
           \/ m > Target /\ Lowered(e, g, m)
  BY FrameCases, GoesOn, ZenonT(60)
<1>3. CASE m <= Target /\ Raised(e, g, m)
  <2>3. /\ exposure' \in Nat /\ gain' \in gainMin..gainMax /\ gain' >= g
        /\ e <= mode.max => exposure' >= e
        /\ m = Target /\ e <= mode.max => exposure' = e /\ gain' = g
        /\ Ratio(m) = SpeedUp /\ e \in mode.min..mode.max =>
             (exposure' > e \/ gain' > g <=> CanBrighten(e, g))
    BY <1>3 DEF Raised
  <2>1. /\ exposure' \in Nat /\ gain' \in Nat /\ gain' >= gain /\ exposure' >= exposure
        /\ m = Target => exposure' = exposure /\ gain' = gain
        /\ Ratio(m) = SpeedUp => (Brighter <=> CanBrighten(exposure, gain))
    BY <1>1, <1>2, <2>3 DEF Brighter
  <2>2. Ratio(m) # SlowDown
    <3>1. Ratio(m).num >= Ratio(m).den
      BY <1>3, RatioSide, ZenonT(60)
    <3> QED BY <3>1 DEF SlowDown
  <2> QED BY <1>1, <1>2, <1>3, <2>1, <2>2 DEF Brighter, Darker
<1>4. CASE m > Target /\ Lowered(e, g, m)
  <2>3. /\ exposure' \in Nat /\ gain' \in gainMin..gainMax /\ gain' <= g
        /\ e >= mode.min => exposure' <= e
        /\ Ratio(m) = SlowDown /\ e \in mode.min..mode.max =>
             (exposure' < e \/ gain' < g <=> CanDarken(e, g))
    BY <1>4 DEF Lowered
  <2>1. /\ exposure' \in Nat /\ gain' \in Nat /\ gain' <= gain /\ exposure' <= exposure
        /\ Ratio(m) = SlowDown => (Darker <=> CanDarken(exposure, gain))
    BY <1>1, <1>2, <2>3 DEF Darker
  <2>2. Ratio(m) # SpeedUp
    <3>1. Ratio(m).num < Ratio(m).den
      BY <1>4, RatioSide, ZenonT(60)
    <3> QED BY <3>1 DEF SpeedUp
  <2> QED BY <1>1, <1>2, <1>4, <2>1, <2>2 DEF Brighter, Darker
<1> QED
  BY <1>2, <1>3, <1>4

(* For any sensor no frame is answered the wrong way, and a far too dark or too
   bright one is left without an answer exactly where nothing can move: at the
   limits, and where the change that is due is less than one.               *)
THEOREM LoopSteers == Spec => SteersToTarget
<1>1. TypeOK =>
        [(Frame /\ initialized /\ WithinLimits) =>
           /\ Brighter => ~Darker /\ mean' < Target
           /\ Darker => mean' > Target
           /\ Ratio(mean') = SpeedUp  => (Brighter <=> CanBrighten(exposure, gain))
           /\ Ratio(mean') = SlowDown => (Darker <=> CanDarken(exposure, gain))]_vars
  BY SteersStep
<1> QED
  BY <1>1, TypeInvariant, PTL DEF SteersToTarget

-----------------------------------------------------------------------------
Sizes   == [width : Nat, height : Nat]
Streams == [pixelFormat : PixelFormats, size : Sizes]

(* Fits is a partial order. *)
LEMMA FitsFacts ==
  /\ \A a \in Sizes : Fits(a, a)
  /\ \A a, b, c \in Sizes : Fits(a, b) /\ Fits(b, c) => Fits(a, c)
  /\ \A a, b \in Sizes : Fits(a, b) /\ Fits(b, a) => a = b
<1>1. \A a \in Sizes : a.width \in Nat /\ a.height \in Nat /\ a = [width |-> a.width, height |-> a.height]
  BY DEF Sizes
<1>2. \A a \in Sizes : Fits(a, a) BY <1>1 DEF Fits
<1>3. \A a, b, c \in Sizes : Fits(a, b) /\ Fits(b, c) => Fits(a, c)
  <2> TAKE a, b, c \in Sizes
  <2>1. {a.width, b.width, c.width, a.height, b.height, c.height} \subseteq Nat BY <1>1
  <2> QED BY <2>1 DEF Fits
<1>4. \A a, b \in Sizes : Fits(a, b) /\ Fits(b, a) => a = b
  <2> TAKE a, b \in Sizes
  <2> SUFFICES ASSUME Fits(a, b), Fits(b, a) PROVE a = b OBVIOUS
  <2>1. {a.width, b.width, a.height, b.height} \subseteq Nat BY <1>1
  <2>2. a.width = b.width /\ a.height = b.height BY <2>1 DEF Fits
  <2> QED BY <2>2, <1>1
<1> QED BY <1>2, <1>3, <1>4

(* ExpandTo gives the least size that two fit. *)
LEMMA ExpandToIsLub ==
  ASSUME NEW a \in Sizes, NEW b \in Sizes
  PROVE  /\ ExpandTo(a, b) \in Sizes
         /\ Fits(a, ExpandTo(a, b)) /\ Fits(b, ExpandTo(a, b))
         /\ \A c \in Sizes : Fits(a, c) /\ Fits(b, c) => Fits(ExpandTo(a, b), c)
<1>1. {a.width, b.width, a.height, b.height} \subseteq Nat BY DEF Sizes
<1> DEFINE e == ExpandTo(a, b)
<1>2. /\ e.width = Larger(a.width, b.width) /\ e.height = Larger(a.height, b.height)
      /\ e = [width |-> Larger(a.width, b.width), height |-> Larger(a.height, b.height)]
  BY DEF ExpandTo
<1>3. \A x, y \in Nat : /\ Larger(x, y) \in Nat /\ x <= Larger(x, y) /\ y <= Larger(x, y)
                        /\ \A z \in Nat : x <= z /\ y <= z => Larger(x, y) <= z
  BY DEF Larger
<1> HIDE DEF e
<1>4. e \in Sizes
  <2>1. Larger(a.width, b.width) \in Nat /\ Larger(a.height, b.height) \in Nat BY <1>1, <1>3
  <2> QED BY <1>2, <2>1 DEF Sizes
<1>5. Fits(a, e) /\ Fits(b, e) BY <1>1, <1>2, <1>3 DEF Fits
<1>6. ASSUME NEW c \in Sizes, Fits(a, c), Fits(b, c) PROVE Fits(e, c)
  <2>1. c.width \in Nat /\ c.height \in Nat BY DEF Sizes
  <2> QED BY <2>1, <1>1, <1>2, <1>3, <1>6 DEF Fits
<1> QED BY <1>4, <1>5, <1>6 DEF e

(* The size that accommodates some streams: the least that all fit. *)
Covers(m, asked, n) ==
  /\ m \in Sizes
  /\ \A i \in 1..n : Fits(asked[i].size, m)
  /\ \A c \in Sizes : (\A i \in 1..n : Fits(asked[i].size, c)) => Fits(m, c)

(* The fold of maxStreamSize in validate. *)
LEMMA MaxStreamSizeCovers ==
  ASSUME NEW asked \in Seq(Streams)
  PROVE  Covers(MaxStreamSize(asked), asked, Len(asked))
<1> DEFINE N == Len(asked)
           zero == [width |-> 0, height |-> 0]
           Turn == [p \in Sizes \X Streams |-> ExpandTo(p[1], p[2].size)]
           Is(g) == g = [s \in SUBSET (DOMAIN asked) |->
                           IF s = {} THEN zero
                           ELSE LET x == Max(s) IN ExpandTo(g[s \ {x}], asked[x].size)]
<1>0. N \in Nat /\ DOMAIN asked = 1..N /\ asked \in [1..N -> Streams] OBVIOUS
<1>1. zero \in Sizes BY DEF Sizes
<1>2. \A v \in Streams : v.size \in Sizes BY DEF Streams
<1>3. Turn \in [Sizes \X Streams -> Sizes]
  <2>1. \A p \in Sizes \X Streams : ExpandTo(p[1], p[2].size) \in Sizes
    BY <1>2, ExpandToIsLub
  <2> QED BY <2>1
<1>4. \A a \in Sizes, v \in Streams : Turn[<<a, v>>] = ExpandTo(a, v.size)
  <2> TAKE a \in Sizes, v \in Streams
  <2>1. <<a, v>> \in Sizes \X Streams /\ <<a, v>>[1] = a /\ <<a, v>>[2] = v OBVIOUS
  <2> QED BY <2>1
<1> HIDE DEF N, zero, Turn
<1>5. PICK it \in [SUBSET (1..N) -> Sizes] : IsFold(it, N, zero, Turn, asked)
  BY <1>0, <1>1, <1>3, FoldExists
<1>6. Is(it)
  <2>1. ASSUME NEW s \in SUBSET (1..N), s # {}
        PROVE  it[s] = ExpandTo(it[s \ {Max(s)}], asked[Max(s)].size)
    <3>1. Max(s) \in 1..N BY <1>0, <2>1, MaxInSet
    <3>2. s \ {Max(s)} \in SUBSET (1..N) OBVIOUS
    <3>3. it[s \ {Max(s)}] \in Sizes /\ asked[Max(s)] \in Streams BY <1>0, <3>1, <3>2
    <3>4. it[s] = Turn[<<it[s \ {Max(s)}], asked[Max(s)]>>] BY <1>5, <2>1 DEF IsFold
    <3> QED BY <3>3, <3>4, <1>4
  <2>2. it[{}] = zero BY <1>5 DEF IsFold
  <2>3. it = [s \in SUBSET (1..N) |->
                 IF s = {} THEN zero ELSE ExpandTo(it[s \ {Max(s)}], asked[Max(s)].size)]
    BY <2>1, <2>2
  <2> QED BY <2>3, <1>0, Zenon
<1> DEFINE iter == CHOOSE g : Is(g)
<1>7. Is(iter)
  <2> HIDE DEF Is
  <2> QED BY <1>6, Zenon
<1>8. MaxStreamSize(asked) = iter[DOMAIN asked]
  BY Zenon DEF MaxStreamSize, FoldLeft, MapThenFoldSet, zero
<1> HIDE DEF iter
<1>9. /\ iter[1..0] = zero
      /\ \A k \in 1..N : iter[1..k] = ExpandTo(iter[1..(k - 1)], asked[k].size)
  <2>1. \A k \in 0..N : 1..k \in SUBSET (1..N) BY <1>0
  <2>2. iter = [s \in SUBSET (1..N) |->
                 IF s = {} THEN zero ELSE ExpandTo(iter[s \ {Max(s)}], asked[Max(s)].size)]
    BY <1>7, <1>0, Zenon
  <2> HIDE DEF Is
  <2>3. 1..0 = {} /\ {} \in SUBSET (1..N) OBVIOUS
  <2>4. iter[1..0] = zero BY <2>2, <2>3
  <2>5. ASSUME NEW k \in 1..N PROVE iter[1..k] = ExpandTo(iter[1..(k - 1)], asked[k].size)
    <3>0. k \in Nat /\ k > 0 BY <1>0
    <3>1. Max(1..k) = k /\ (1..k) \ {k} = 1..(k - 1) /\ 1..k # {} BY <3>0, FoldPrefix
    <3>2. 1..k \in SUBSET (1..N) BY <2>1, <1>0
    <3>3. iter[1..k] = ExpandTo(iter[(1..k) \ {Max(1..k)}], asked[Max(1..k)].size)
      BY <2>2, <3>1, <3>2
    <3> QED BY <3>1, <3>3
  <2> QED BY <2>4, <2>5
<1> HIDE DEF Is
<1> DEFINE Good(n) == Covers(iter[1..n], asked, n)
           S == {n \in Nat : n <= N => Good(n)}
<1>10. Covers(iter[1..0], asked, 0)
  <2>1. \A c \in Sizes : Fits(zero, c) BY DEF Fits, Sizes, zero
  <2> QED BY <1>1, <1>9, <2>1 DEF Covers
<1>11. ASSUME NEW n \in Nat, n + 1 <= N, Covers(iter[1..n], asked, n)
       PROVE  Covers(iter[1..(n + 1)], asked, n + 1)
  <2> DEFINE a == iter[1..n]
             b == asked[n + 1].size
             e == iter[1..(n + 1)]
  <2>1. n + 1 \in 1..N /\ (n + 1) - 1 = n BY <1>0, <1>11
  <2>2. b \in Sizes BY <2>1, <1>0, <1>2
  <2>3. a \in Sizes BY <1>11 DEF Covers
  <2>4. e = ExpandTo(a, b) BY <2>1, <1>9
  <2>5. /\ \A i \in 1..n : Fits(asked[i].size, a) /\ asked[i].size \in Sizes
        /\ \A c \in Sizes : (\A i \in 1..n : Fits(asked[i].size, c)) => Fits(a, c)
    <3>1. \A i \in 1..n : i \in 1..N BY <2>1, <1>0
    <3> QED BY <1>11, <1>0, <1>2, <3>1 DEF Covers
  <2>6. \A i \in 1..(n + 1) : i \in 1..n \/ i = n + 1 OBVIOUS
  <2>7. n + 1 \in 1..(n + 1) /\ \A i \in 1..n : i \in 1..(n + 1) OBVIOUS
  <2> HIDE DEF a, e
  <2>8. /\ e \in Sizes /\ Fits(a, e) /\ Fits(b, e)
        /\ \A c \in Sizes : Fits(a, c) /\ Fits(b, c) => Fits(e, c)
    BY <2>2, <2>3, <2>4, ExpandToIsLub
  <2>9. \A i \in 1..(n + 1) : Fits(asked[i].size, e)
    <3>1. \A i \in 1..n : Fits(asked[i].size, e) BY <2>3, <2>5, <2>8, FitsFacts
    <3> QED BY <3>1, <2>6, <2>8
  <2>10. ASSUME NEW c \in Sizes, \A i \in 1..(n + 1) : Fits(asked[i].size, c) PROVE Fits(e, c)
    BY <2>5, <2>7, <2>8, <2>10
  <2>11. Covers(e, asked, n + 1) BY <2>8, <2>9, <2>10 DEF Covers
  <2> QED BY <2>11 DEF e
<1>12. 0 \in S /\ \A n \in Nat : n \in S => n + 1 \in S
  <2>1. Good(0) BY <1>10
  <2>2. \A n \in Nat : n + 1 <= N /\ Good(n) => Good(n + 1) BY <1>11
  <2> HIDE DEF Good
  <2> QED BY <1>0, <2>1, <2>2
<1> HIDE DEF S
<1>13. N \in S BY <1>0, <1>12, InductionOnNat
<1>14. Covers(iter[1..N], asked, N) BY <1>0, <1>13 DEF S
<1> QED BY <1>0, <1>8, <1>14 DEF N

(* configs_ is not empty. *)
Captured == \E n \in Nat \ {0} : captures \in [1..n -> Captures]

Positive == [width : Nat \ {0}, height : Nat \ {0}]

LEMMA CapturedTypes ==
  ASSUME Captured
  PROVE  /\ DOMAIN captures # {} /\ DOMAIN captures \subseteq Nat
         /\ \E n \in Nat \ {0} : DOMAIN captures = 1..n
         /\ \A i \in DOMAIN captures :
              /\ captures[i].captureFormat \in PixelFormats
              /\ CaptureSize(i) \in Positive /\ CaptureSize(i) \in Sizes
<1>1. PICK n \in Nat \ {0} : captures \in [1..n -> Captures] BY DEF Captured
<1>2. DOMAIN captures = 1..n /\ 1 \in 1..n BY <1>1
<1>3. ASSUME NEW i \in DOMAIN captures
      PROVE  captures[i].captureFormat \in PixelFormats /\ CaptureSize(i) \in Positive
  <2>1. captures[i] \in Captures BY <1>1, <1>2
  <2>2. captures[i].captureFormat \in PixelFormats BY <2>1 DEF PixelFormats
  <2> QED BY <2>1, <2>2, ConfigurationAssumption DEF CaptureSize, Positive
<1>4. Positive \subseteq Sizes BY DEF Positive, Sizes
<1> QED BY <1>2, <1>3, <1>4

LEMMA ProductGrows ==
  ASSUME NEW a \in Nat, NEW b \in Nat, NEW c \in Nat \ {0}, a < b
  PROVE  a * c < b * c /\ c * a < c * b
<1> DEFINE d == b - a
<1>1. d \in Nat \ {0} /\ b = a + d OBVIOUS
<1> HIDE DEF d
<1>2. d * c > 0
  <2>1. \A p, q \in Nat \ {0} : p * q > 0 OBVIOUS
  <2> QED BY <2>1, <1>1
<1>3. (a + d) * c = a * c + d * c /\ c * (a + d) = c * a + c * d /\ c * d = d * c BY <1>1
<1>4. b * c = a * c + d * c /\ c * b = c * a + d * c BY <1>1, <1>3
<1>5. a * c \in Nat /\ c * a \in Nat /\ d * c \in Nat BY <1>1
<1> QED BY <1>2, <1>4, <1>5

(* A frame in which another fits is smaller in no order only if it is as large. *)
LEMMA FitsNotSmaller ==
  ASSUME NEW a \in Positive, NEW b \in Positive, Fits(a, b), ~Smaller(a, b)
  PROVE  a = b
<1> DEFINE w == a.width
           h == a.height
           x == b.width
           y == b.height
<1>1. w \in Nat \ {0} /\ h \in Nat \ {0} /\ x \in Nat \ {0} /\ y \in Nat \ {0}
      /\ a = [width |-> w, height |-> h] /\ b = [width |-> x, height |-> y]
  BY DEF Positive
<1>2. w <= x /\ h <= y BY DEF Fits
<1>3. Area(a) = w * h /\ Area(b) = x * y /\ Area(a) \in Nat /\ Area(b) \in Nat BY <1>1 DEF Area
<1>4. ~(w * h < x * y) BY <1>3 DEF Smaller
<1> HIDE DEF w, h, x, y
<1>5. w = x /\ h = y
  <2>1. w * h \in Nat /\ x * h \in Nat /\ x * y \in Nat BY <1>1
  <2>2. w * h <= x * h /\ x * h <= x * y BY <1>1, <1>2
  <2>3. w < x => w * h < x * h BY <1>1, ProductGrows
  <2>4. h < y => x * h < x * y BY <1>1, ProductGrows
  <2> QED BY <1>1, <1>2, <1>4, <2>1, <2>2, <2>3, <2>4
<1> QED BY <1>1, <1>5

(* Of some frames one is the smallest, and one the largest. *)
LEMMA ExtremesExist ==
  ASSUME Captured, NEW S \in SUBSET DOMAIN captures, S # {}
  PROVE  SmallestOf(S) # {} /\ LargestOf(S) # {}
<1>1. PICK n \in Nat \ {0} : DOMAIN captures = 1..n BY CapturedTypes
<1> DEFINE area  == [i \in 1..n |-> Area(CaptureSize(i))]
           width == [i \in 1..n |-> CaptureSize(i).width]
<1>2. \A i \in 1..n : Area(CaptureSize(i)) \in Nat /\ CaptureSize(i).width \in Nat
  <2> TAKE i \in 1..n
  <2>1. CaptureSize(i) \in Sizes BY <1>1, CapturedTypes
  <2> QED BY <2>1 DEF Sizes, Area
<1>3. area \in [1..n -> Nat] /\ width \in [1..n -> Nat] BY <1>2
<1>4. \A i, j \in 1..n : Smaller(CaptureSize(i), CaptureSize(j))
                           <=> \/ area[i] < area[j]
                               \/ area[i] = area[j] /\ width[i] < width[j]
  BY DEF Smaller
<1>5. S \in SUBSET (1..n) BY <1>1
<1> HIDE DEF area, width
<1>6. LargestOf(S) # {}
  <2>1. PICK i \in S : \A j \in S : area[j] <= area[i] BY <1>3, <1>5, GreatestIndex
  <2> DEFINE E == {j \in S : area[j] = area[i]}
  <2>2. E \in SUBSET (1..n) /\ E # {} BY <1>5
  <2>3. PICK k \in E : \A j \in E : width[j] <= width[k] BY <1>3, <2>2, GreatestIndex
  <2>4. ASSUME NEW j \in S PROVE ~Smaller(CaptureSize(k), CaptureSize(j))
    <3>1. j \in 1..n /\ k \in 1..n /\ k \in S BY <1>5
    <3>2. area[k] = area[i] /\ area[j] <= area[i] BY <2>1
    <3>3. {area[j], area[k], width[j], width[k]} \subseteq Nat BY <1>3, <3>1
    <3>4. area[j] = area[i] => width[j] <= width[k] BY <2>3
    <3> QED BY <1>4, <3>1, <3>2, <3>3, <3>4
  <2> QED BY <2>4 DEF LargestOf
<1>7. SmallestOf(S) # {}
  <2> DEFINE A == {area[j] : j \in S}
  <2>1. A \in SUBSET Nat /\ A # {} BY <1>3, <1>5
  <2>2. PICK a \in A : \A b \in A : a <= b BY <2>1, LeastNatural
  <2> DEFINE E == {j \in S : area[j] = a}
             W == {width[j] : j \in E}
  <2>3. W \in SUBSET Nat /\ W # {} BY <1>3, <1>5, <2>2
  <2>4. PICK w \in W : \A b \in W : w <= b BY <2>3, LeastNatural
  <2>5. PICK k \in E : width[k] = w BY <2>4
  <2>6. ASSUME NEW j \in S PROVE ~Smaller(CaptureSize(j), CaptureSize(k))
    <3>1. j \in 1..n /\ k \in 1..n /\ k \in S BY <1>5
    <3>2. area[k] = a /\ a <= area[j] BY <2>2
    <3>3. {area[j], area[k], width[j], width[k]} \subseteq Nat BY <1>3, <3>1
    <3>4. area[j] = a => width[k] <= width[j]
      <4>1. ASSUME area[j] = a PROVE width[j] \in W BY <4>1
      <4> QED BY <4>1, <2>4, <2>5
    <3> QED BY <1>4, <3>1, <3>2, <3>3, <3>4
  <2> QED BY <2>6 DEF SmallestOf
<1> QED BY <1>6, <1>7

(* A frame that is picked is there, and is a smallest of those that are large
   enough, if any is.                                                       *)
LEMMA PickedIsThere ==
  ASSUME Captured, NEW asked \in Seq(Streams)
  PROVE  LET all == Candidates(asked)
             big == Accommodating(all, MaxStreamSize(asked))
         IN  /\ all \subseteq DOMAIN captures
             /\ Picked(asked) \in DOMAIN captures
             /\ big # {} => Picked(asked) \in big /\ Picked(asked) \in SmallestOf(big)
<1> DEFINE all == Candidates(asked)
           big == Accommodating(all, MaxStreamSize(asked))
           pool == IF big # {} THEN SmallestOf(big) ELSE LargestOf(all)
           known == {i \in DOMAIN asked : ConfigsOf(asked[i].pixelFormat) # {}}
           there == {f \in PixelFormats : ConfigsOf(f) # {}}
<1>1. \A f : ConfigsOf(f) \subseteq DOMAIN captures BY DEF ConfigsOf
<1>2. there \in SUBSET Nat /\ there # {}
  <2>1. PICK i \in DOMAIN captures : TRUE BY CapturedTypes
  <2>2. captures[i].captureFormat \in PixelFormats BY CapturedTypes
  <2>3. i \in ConfigsOf(captures[i].captureFormat) BY DEF ConfigsOf
  <2> QED BY <2>2, <2>3, ConfigurationAssumption
<1>3. ConfigsOf(Min(there)) # {} BY <1>2, MinInSet
<1>4. known # {} => ConfigsOf(asked[Min(known)].pixelFormat) # {}
  <2>1. known \in SUBSET Nat
    <3>1. DOMAIN asked \subseteq Nat OBVIOUS
    <3> QED BY <3>1
  <2> QED BY <2>1, MinInSet
<1>5. all = IF known # {} THEN ConfigsOf(asked[Min(known)].pixelFormat) ELSE ConfigsOf(Min(there))
  BY Zenon DEF Candidates
<1> HIDE DEF known, there
<1>6. all # {} /\ all \subseteq DOMAIN captures BY <1>1, <1>3, <1>4, <1>5
<1>7. big \subseteq all BY DEF Accommodating
<1>8. Picked(asked) = Min(pool) BY Zenon DEF Picked
<1> HIDE DEF all, big
<1>9. pool # {} /\ pool \subseteq all /\ (big # {} => pool = SmallestOf(big) /\ pool \subseteq big)
  <2>1. CASE big # {}
    <3>1. SmallestOf(big) # {} BY <2>1, <1>6, <1>7, ExtremesExist
    <3>2. SmallestOf(big) \subseteq big BY DEF SmallestOf
    <3> QED BY <2>1, <3>1, <3>2, <1>7
  <2>2. CASE big = {}
    <3>1. LargestOf(all) # {} BY <1>6, ExtremesExist
    <3>2. LargestOf(all) \subseteq all BY DEF LargestOf
    <3> QED BY <2>2, <3>1, <3>2
  <2> QED BY <2>1, <2>2
<1> HIDE DEF pool
<1>10. pool \in SUBSET Nat /\ pool # {} BY <1>6, <1>9, CapturedTypes
<1>11. Min(pool) \in pool BY <1>10, MinInSet
<1> QED BY <1>6, <1>8, <1>9, <1>11 DEF all, big

(* What a frame of p can be made into. *)
Makes(p, cfg) ==
  /\ cfg.pixelFormat \in ToSet(OutputFormats(p))
  /\ InRange(OutputRange(p), cfg.size) \/ cfg.size = CaptureSize(p)

Made(p, asked) ==
  /\ p \in DOMAIN captures /\ OutputFormats(p) # <<>>
  /\ asked \in Seq(Streams) /\ Len(asked) \in 1..StreamCount
  /\ \A i \in 1..Len(asked) : Makes(p, asked[i])

(* What a frame of p can be made into, as a set. *)
LEMMA OutputSet ==
  ASSUME converter \in BOOLEAN, NEW p
  PROVE  LET f == captures[p].captureFormat
         IN  /\ OutputFormats(p) # <<>> <=> (~converter \/ f \in Bayer)
             /\ ToSet(OutputFormats(p)) = IF ~converter THEN {f}
                                          ELSE IF f \in Bayer THEN {NV12, NV21} ELSE {}
             /\ OutputFormats(p) # <<>> => Head(OutputFormats(p)) \in ToSet(OutputFormats(p))
<1> DEFINE f == captures[p].captureFormat
<1>1. /\ ToSet(<<f>>) = {f} /\ <<f>> # <<>> /\ Head(<<f>>) = f
      /\ ToSet(<<NV12, NV21>>) = {NV12, NV21} /\ <<NV12, NV21>> # <<>> /\ Head(<<NV12, NV21>>) = NV12
      /\ ToSet(<<>>) = {}
  BY DEF ToSet
<1> QED BY <1>1 DEF OutputFormats

LEMMA Outputs ==
  ASSUME Captured, converter \in BOOLEAN, NEW p \in DOMAIN captures
  PROVE  ToSet(OutputFormats(p)) \subseteq PixelFormats
<1>1. captures[p].captureFormat \in PixelFormats BY CapturedTypes
<1>2. {NV12, NV21} \subseteq PixelFormats BY DEF PixelFormats
<1> QED BY <1>1, <1>2, OutputSet

(* The formats that are made of two captured ones are the same, or differ. *)
LEMMA OutputsAgree ==
  ASSUME converter \in BOOLEAN, NEW p, NEW q,
         NEW f \in ToSet(OutputFormats(p)), q \in ConfigsOf(f), OutputFormats(q) # <<>>
  PROVE  /\ ToSet(OutputFormats(q)) = ToSet(OutputFormats(p))
         /\ ~converter => captures[q].captureFormat = captures[p].captureFormat
<1>1. f = captures[q].captureFormat \/ f \in ToSet(OutputFormats(q)) BY DEF ConfigsOf
<1>2. CASE ~converter BY <1>1, <1>2, OutputSet
<1>3. CASE converter
  <2>1. captures[q].captureFormat \in Bayer BY <1>3, OutputSet
  <2>2. captures[p].captureFormat \in Bayer BY <1>3, OutputSet
  <2> QED BY <1>3, <2>1, <2>2, OutputSet
<1> QED BY <1>2, <1>3

(* The sizes that a frame of p can be made into. *)
LEMMA SizeOrder ==
  ASSUME Captured, converter \in BOOLEAN, NEW p \in DOMAIN captures
  PROVE  /\ OutputRange(p).max = CaptureSize(p)
         /\ OutputRange(p).min = IF converter THEN MinSize ELSE CaptureSize(p)
         /\ \A s \in Sizes : InRange(OutputRange(p), s) => Fits(s, CaptureSize(p))
         /\ ~converter => \A s \in Sizes : InRange(OutputRange(p), s) => s = CaptureSize(p)
<1>1. OutputRange(p).max = CaptureSize(p) /\ OutputRange(p).min = IF converter THEN MinSize ELSE CaptureSize(p)
  BY DEF OutputRange, CaptureSize
<1>2. CaptureSize(p) \in Sizes BY CapturedTypes
<1> QED BY <1>1, <1>2, FitsFacts DEF InRange

(* What validate makes of a stream can be made. *)
LEMMA AdjustedIsMade ==
  ASSUME Captured, converter \in BOOLEAN,
         NEW p \in DOMAIN captures, OutputFormats(p) # <<>>, NEW cfg \in Streams
  PROVE  Adjusted(p, cfg) \in Streams /\ Makes(p, Adjusted(p, cfg))
<1> DEFINE f == IF cfg.pixelFormat \in ToSet(OutputFormats(p)) THEN cfg.pixelFormat
                ELSE Head(OutputFormats(p))
           s == IF InRange(OutputRange(p), cfg.size) THEN cfg.size ELSE CaptureSize(p)
<1>1. f \in ToSet(OutputFormats(p)) /\ f \in PixelFormats BY OutputSet, Outputs
<1>2. s \in Sizes /\ (InRange(OutputRange(p), s) \/ s = CaptureSize(p))
  BY CapturedTypes DEF Streams
<1>3. Adjusted(p, cfg) = [pixelFormat |-> f, size |-> s] BY DEF Adjusted
<1> HIDE DEF f, s
<1> QED BY <1>1, <1>2, <1>3 DEF Streams, Makes

(* What can be made needs no adjustment. *)
LEMMA MadeIsKept ==
  ASSUME NEW p, NEW cfg \in Streams, Makes(p, cfg)
  PROVE  Adjusted(p, cfg) = cfg
<1>1. cfg = [pixelFormat |-> cfg.pixelFormat, size |-> cfg.size] BY DEF Streams
<1>2. Adjusted(p, cfg) = [pixelFormat |-> cfg.pixelFormat, size |-> cfg.size] BY DEF Adjusted, Makes
<1> QED BY <1>1, <1>2

(* If there is the format of the first stream, it decides. *)
LEMMA KnownFirst ==
  ASSUME NEW asked \in Seq(Streams), asked # <<>>, ConfigsOf(asked[1].pixelFormat) # {}
  PROVE  Candidates(asked) = ConfigsOf(asked[1].pixelFormat)
<1> DEFINE known == {i \in DOMAIN asked : ConfigsOf(asked[i].pixelFormat) # {}}
           there == {f \in PixelFormats : ConfigsOf(f) # {}}
<1>1. DOMAIN asked = 1..Len(asked) /\ Len(asked) \in Nat /\ 1 \in DOMAIN asked OBVIOUS
<1>2. known \in SUBSET Nat /\ 1 \in known /\ \A i \in known : 1 <= i BY <1>1
<1>3. Candidates(asked) = ConfigsOf(IF known # {} THEN asked[Min(known)].pixelFormat ELSE Min(there))
  BY Zenon DEF Candidates
<1> HIDE DEF known, there
<1>4. Min(known) \in known /\ Min(known) <= 1 BY <1>2, MinInSet
<1>5. Min(known) \in Nat /\ 1 <= Min(known) BY <1>2, <1>4
<1>6. Min(known) = 1 BY <1>4, <1>5
<1> QED BY <1>2, <1>3, <1>6

(* The choice is made again: of what can be made of p a frame is picked of which it *)
(* can be made.                                                            *)
LEMMA PickedAgain ==
  ASSUME Captured, converter \in BOOLEAN, NEW p, NEW asked,
         Made(p, asked), OutputFormats(Picked(asked)) # <<>>
  PROVE  /\ \A i \in 1..Len(asked) : Makes(Picked(asked), asked[i])
         /\ Len(asked) = 1 => (IsCaptured(Picked(asked), asked[1]) <=> IsCaptured(p, asked[1]))
<1> DEFINE q == Picked(asked)
           N == Len(asked)
           all == Candidates(asked)
           m == MaxStreamSize(asked)
           big == Accommodating(all, m)
<1>1. /\ p \in DOMAIN captures /\ asked \in Seq(Streams) /\ N \in 1..StreamCount
      /\ \A i \in 1..N : Makes(p, asked[i])
  BY DEF Made
<1>2. N \in Nat /\ 1 \in 1..N /\ asked # <<>> /\ \A i \in 1..N : asked[i] \in Streams
  BY <1>1
<1>3. \A i \in 1..N : asked[i].size \in Sizes /\ asked[i].pixelFormat \in ToSet(OutputFormats(p))
  BY <1>1, <1>2 DEF Makes, Streams
<1>4. CaptureSize(p) \in Sizes BY <1>1, CapturedTypes
<1>5. Covers(m, asked, N) BY <1>1, MaxStreamSizeCovers
<1>6. \A i \in 1..N : Fits(asked[i].size, CaptureSize(p))
  BY <1>1, <1>3, <1>4, SizeOrder, FitsFacts DEF Makes
<1>7. m \in Sizes /\ Fits(m, CaptureSize(p)) /\ \A i \in 1..N : Fits(asked[i].size, m)
  BY <1>4, <1>5, <1>6 DEF Covers
<1> HIDE DEF N, m
<1>8. p \in ConfigsOf(asked[1].pixelFormat) BY <1>1, <1>2, <1>3 DEF ConfigsOf
<1>9. all = ConfigsOf(asked[1].pixelFormat) BY <1>1, <1>2, <1>8, KnownFirst
<1>10. p \in big BY <1>7, <1>8, <1>9 DEF Accommodating
<1>11. q \in DOMAIN captures /\ q \in big /\ q \in SmallestOf(big)
  BY <1>1, <1>10, PickedIsThere DEF m
<1> HIDE DEF q, all, big
<1>12. q \in ConfigsOf(asked[1].pixelFormat) /\ Fits(m, CaptureSize(q))
  BY <1>9, <1>11 DEF big, Accommodating
<1>13. OutputFormats(q) # <<>> BY DEF q
<1>14. /\ ToSet(OutputFormats(q)) = ToSet(OutputFormats(p))
       /\ ~converter => captures[q].captureFormat = captures[p].captureFormat
  BY <1>2, <1>3, <1>12, <1>13, OutputsAgree
<1>15. CaptureSize(q) \in Sizes /\ CaptureSize(q) \in Positive /\ CaptureSize(p) \in Positive
  BY <1>1, <1>11, CapturedTypes
<1>16. ASSUME NEW i \in 1..N, asked[i].size = CaptureSize(p)
       PROVE  CaptureSize(q) = CaptureSize(p)
  <2>1. Fits(CaptureSize(p), m) BY <1>7, <1>16
  <2>2. Fits(CaptureSize(p), CaptureSize(q)) BY <2>1, <1>4, <1>7, <1>12, <1>15, FitsFacts
  <2>3. ~Smaller(CaptureSize(p), CaptureSize(q)) BY <1>10, <1>11 DEF SmallestOf
  <2> QED BY <2>2, <2>3, <1>15, FitsNotSmaller
<1>17. ASSUME NEW i \in 1..N PROVE Makes(q, asked[i])
  <2>1. asked[i].pixelFormat \in ToSet(OutputFormats(q)) BY <1>3, <1>14
  <2>2. CASE asked[i].size = CaptureSize(p) BY <2>1, <2>2, <1>16 DEF Makes
  <2>3. CASE asked[i].size # CaptureSize(p)
    <3>1. InRange(OutputRange(p), asked[i].size) BY <2>3, <1>1 DEF Makes
    <3>2. converter BY <3>1, <2>3, <1>1, <1>3, SizeOrder
    <3>3. Fits(MinSize, asked[i].size) BY <3>1, <3>2, <1>1, SizeOrder DEF InRange
    <3>4. Fits(asked[i].size, CaptureSize(q)) BY <1>3, <1>7, <1>12, <1>15, FitsFacts
    <3>5. InRange(OutputRange(q), asked[i].size) BY <3>2, <3>3, <3>4, <1>11, SizeOrder DEF InRange
    <3> QED BY <2>1, <3>5 DEF Makes
  <2> QED BY <2>2, <2>3
<1>18. ASSUME N = 1 PROVE IsCaptured(q, asked[1]) <=> IsCaptured(p, asked[1])
  <2>1. CASE converter
    <3>1. captures[p].captureFormat \in Bayer /\ captures[q].captureFormat \in Bayer
      BY <2>1, <1>13, <1>1, OutputSet DEF Made
    <3>2. asked[1].pixelFormat \in {NV12, NV21} BY <2>1, <3>1, <1>2, <1>3, OutputSet
    <3> QED BY <3>1, <3>2, ConfigurationAssumption DEF IsCaptured
  <2>2. CASE ~converter
    <3>1. asked[1].size = CaptureSize(p) BY <2>2, <1>1, <1>2, <1>3, SizeOrder DEF Makes
    <3>2. CaptureSize(q) = CaptureSize(p) BY <3>1, <1>2, <1>16
    <3> QED BY <2>2, <3>2, <1>14 DEF IsCaptured
  <2> QED BY <2>1, <2>2
<1> QED BY <1>17, <1>18 DEF q, N

(* No stream is left out of few enough. *)
LEMMA StreamedTyped ==
  ASSUME converter \in BOOLEAN, NEW asked \in Seq(Streams), asked # <<>>
  PROVE  /\ Streamed(asked) \in Seq(Streams) /\ Len(Streamed(asked)) \in 1..StreamCount
         /\ Len(asked) <= StreamCount => Streamed(asked) = asked
<1> DEFINE N == Len(asked)
           m == Min({N, StreamCount})
<1>1. N \in Nat /\ N > 0 /\ StreamCount \in Nat /\ StreamCount > 0 BY EmptySeq DEF StreamCount
<1>2. {N, StreamCount} \in SUBSET Nat /\ {N, StreamCount} # {} BY <1>1
<1>3. m \in {N, StreamCount} /\ m <= N /\ m <= StreamCount BY <1>2, MinInSet
<1>4. m \in 1..N /\ m \in 1..StreamCount /\ (N <= StreamCount => m = N) BY <1>1, <1>3
<1>5. Streamed(asked) = SubSeq(asked, 1, m) BY DEF Streamed
<1> HIDE DEF m
<1>6. /\ SubSeq(asked, 1, m) \in Seq(Streams) /\ Len(SubSeq(asked, 1, m)) = m
      /\ m = N => SubSeq(asked, 1, m) = asked
  BY <1>1, <1>4, SubSeqProperties
<1> QED BY <1>4, <1>5, <1>6

(* What validate() leaves of a configuration. *)
Validated(wanted, possible) ==
  LET p == Picked(Streamed(wanted))
  IN  /\ OutputFormats(p) # <<>> /\ p \in DOMAIN captures
      /\ pipeConfig' = p /\ transform' = TRUE
      /\ config' \in Seq(Streams) /\ Len(config') = Len(Streamed(wanted))
      /\ status' \in {"Valid", "Adjusted", "Invalid"}
      /\ needConversion' \in BOOLEAN /\ (needConversion' => converter)
      /\ status' # "Invalid" =>
           /\ config' = [i \in DOMAIN Streamed(wanted) |-> Adjusted(p, Streamed(wanted)[i])]
           /\ Made(p, config')
           /\ needConversion' = ~(Len(config') = 1 /\ IsCaptured(p, config'[1]))
           /\ status' = IF config' = wanted /\ possible THEN "Valid" ELSE "Adjusted"

LEMMA ValidateSteps ==
  ASSUME Captured, converter \in BOOLEAN,
         NEW wanted \in Seq(Streams), wanted # <<>>, NEW possible \in BOOLEAN,
         ValidateGiven(wanted, possible)
  PROVE  Validated(wanted, possible)
<1> DEFINE asked == Streamed(wanted)
           p == Picked(asked)
           made == [i \in DOMAIN asked |-> Adjusted(p, asked[i])]
           direct == Len(asked) = 1 /\ IsCaptured(p, made[1])
<1>1. asked \in Seq(Streams) /\ Len(asked) \in 1..StreamCount BY StreamedTyped
<1>2. PICK failed \in IF direct THEN {{}, {1}} ELSE {{i \in DOMAIN asked : ~HasStride(made[i])}} :
        /\ config' = [i \in DOMAIN asked |-> IF \A j \in failed : i <= j THEN made[i] ELSE asked[i]]
        /\ status' = IF failed # {} THEN "Invalid"
                     ELSE IF made = wanted /\ possible THEN "Valid" ELSE "Adjusted"
  BY Zenon DEF ValidateGiven
<1>3. OutputFormats(p) # <<>> /\ transform' = TRUE /\ pipeConfig' = p /\ needConversion' = ~direct
  BY Zenon DEF ValidateGiven
<1> HIDE DEF asked
<1>4. p \in DOMAIN captures BY <1>1, PickedIsThere
<1> HIDE DEF p
<1>5. \A i \in DOMAIN asked : asked[i] \in Streams /\ DOMAIN asked = 1..Len(asked) BY <1>1
<1>6. \A i \in DOMAIN asked : Adjusted(p, asked[i]) \in Streams /\ Makes(p, Adjusted(p, asked[i]))
  BY <1>3, <1>4, <1>5, AdjustedIsMade
<1>7. /\ made \in Seq(Streams) /\ Len(made) = Len(asked)
      /\ \A i \in 1..Len(asked) : made[i] \in Streams /\ Makes(p, made[i])
  BY <1>1, <1>5, <1>6
<1>8. Made(p, made) BY <1>1, <1>3, <1>4, <1>7 DEF Made
<1> HIDE DEF made
<1>9. config' \in Seq(Streams) /\ Len(config') = Len(asked)
  <2>1. \A i \in 1..Len(asked) : (IF \A j \in failed : i <= j THEN made[i] ELSE asked[i]) \in Streams
    BY <1>1, <1>5, <1>7
  <2>2. DOMAIN asked = 1..Len(asked) /\ Len(asked) \in Nat BY <1>1
  <2>3. config' \in [1..Len(asked) -> Streams] BY <1>2, <2>1, <2>2
  <2> QED BY <2>2, <2>3
<1>10. failed = {} => config' = made
  <2> SUFFICES ASSUME failed = {} PROVE config' = made OBVIOUS
  <2>1. config' = [i \in DOMAIN asked |-> made[i]] BY <1>2
  <2> QED BY <2>1 DEF made
<1>11. status' # "Invalid" => failed = {} BY <1>2
<1>12. status' \in {"Valid", "Adjusted", "Invalid"} BY <1>2
<1>13. ~converter => direct
  <2> SUFFICES ASSUME ~converter PROVE direct OBVIOUS
  <2>0. StreamCount = 1 BY DEF StreamCount
  <2>1. Len(asked) = 1
    <3>1. Len(asked) \in 1..1 BY <1>1, <2>0
    <3> QED BY <3>1
  <2>2. made[1] \in Streams /\ Makes(p, made[1]) BY <1>7, <2>1
  <2>3. made[1].pixelFormat = captures[p].captureFormat BY <2>2, OutputSet DEF Makes
  <2>4. made[1].size \in Sizes BY <2>2 DEF Streams
  <2>5. made[1].size = CaptureSize(p) BY <2>2, <2>4, <1>4, SizeOrder DEF Makes
  <2> QED BY <2>1, <2>3, <2>5 DEF IsCaptured
<1>14. needConversion' \in BOOLEAN /\ (needConversion' => converter) BY <1>3, <1>13
<1>15. ASSUME status' # "Invalid"
       PROVE  /\ config' = made /\ needConversion' = ~(Len(config') = 1 /\ IsCaptured(p, config'[1]))
              /\ status' = IF config' = wanted /\ possible THEN "Valid" ELSE "Adjusted"
  <2>1. failed = {} /\ config' = made BY <1>10, <1>11, <1>15
  <2>2. Len(config') = Len(asked) BY <1>9
  <2>3. needConversion' = ~(Len(config') = 1 /\ IsCaptured(p, config'[1]))
    BY <1>3, <2>1, <2>2
  <2>4. status' = IF config' = wanted /\ possible THEN "Valid" ELSE "Adjusted" BY <1>2, <2>1
  <2> QED BY <2>1, <2>3, <2>4
<1>16. made = [i \in DOMAIN asked |-> Adjusted(p, asked[i])] BY DEF made
<1> QED BY <1>3, <1>4, <1>8, <1>9, <1>12, <1>14, <1>15, <1>16, Zenon DEF Validated, asked, p

(* What validate() returned holds of the configuration it left.             *)
ConfigInv ==
  /\ Captured /\ converter \in BOOLEAN /\ transform \in BOOLEAN /\ needConversion \in BOOLEAN
  /\ config \in Seq(Streams)
  /\ \E i \in DOMAIN captures : OutputFormats(i) # <<>>
  /\ needConversion => converter
  /\ Accepted =>
       /\ Made(pipeConfig, config) /\ transform = TRUE
       /\ needConversion = ~(Len(config) = 1 /\ IsCaptured(pipeConfig, config[1]))

LEMMA ConfigInit ==
  ASSUME ConfigurationInit
  PROVE  ConfigInv
<1>1. Captured
  <2>1. PICK n \in 1..MaxConfigs : captures \in [1..n -> Captures] BY DEF ConfigurationInit
  <2>2. n \in Nat \ {0} BY ConfigurationAssumption
  <2> QED BY <2>1, <2>2 DEF Captured
<1>2. config \in Seq(Streams) BY DEF ConfigurationInit
<1> QED BY <1>1, <1>2 DEF ConfigurationInit, ConfigInv, Accepted

(* Ranges that reach as far as some of M. *)
Ranges(M) == [min : Sizes, max : M]

(* What a range is merged into. *)
MergeNext(merged, next) ==
  IF merged # <<>> /\ Fits(next.min, Last(merged).max)
  THEN [merged EXCEPT ![Len(merged)].max = next.max]
  ELSE Append(merged, next)

LEMMA MergeNextTyped ==
  ASSUME NEW M, NEW merged \in Seq(Ranges(M)), NEW next \in Ranges(M)
  PROVE  MergeNext(merged, next) \in Seq(Ranges(M)) /\ MergeNext(merged, next) # <<>>
<1> DEFINE L == Len(merged)
           x == MergeNext(merged, next)
<1>1. CASE merged # <<>> /\ Fits(next.min, Last(merged).max)
  <2>1. L \in 1..L /\ L \in Nat BY <1>1, EmptySeq
  <2>2. x = [merged EXCEPT ![L] = [merged[L] EXCEPT !.max = next.max]] BY <1>1 DEF MergeNext
  <2>3. merged[L] \in Ranges(M) BY <2>1, ElementOfSeq
  <2> DEFINE r == [merged[L] EXCEPT !.max = next.max]
  <2>4. r \in Ranges(M) BY <2>3 DEF Ranges
  <2> HIDE DEF r, x
  <2>5. x \in Seq(Ranges(M)) /\ Len(x) = L
    <3>1. x = [merged EXCEPT ![L] = r] BY <2>2 DEF r
    <3> HIDE DEF L
    <3> QED BY <3>1, <2>1, <2>4, ExceptSeq DEF L
  <2> QED BY <2>1, <2>5 DEF x
<1>2. CASE ~(merged # <<>> /\ Fits(next.min, Last(merged).max))
  <2>1. x = Append(merged, next) BY <1>2 DEF MergeNext
  <2> QED BY <2>1, AppendProperties
<1> QED BY <1>1, <1>2

(* The first of the merged ranges reaches as far as one of those merged.    *)
LEMMA MergedFirst ==
  ASSUME NEW M, NEW ranges \in Seq(Ranges(M)), ranges # <<>>
  PROVE  Merge(ranges)[1].max \in M
<1> DEFINE N == Len(ranges)
           T == Seq(Ranges(M))
           Turn == [p \in T \X Ranges(M) |-> MergeNext(p[1], p[2])]
           Is(g) == g = [s \in SUBSET (DOMAIN ranges) |->
                           IF s = {} THEN <<>>
                           ELSE LET x == Max(s)
                                IN  IF g[s \ {x}] # <<>> /\ Fits(ranges[x].min, Last(g[s \ {x}]).max)
                                    THEN [g[s \ {x}] EXCEPT ![Len(g[s \ {x}])].max = ranges[x].max]
                                    ELSE Append(g[s \ {x}], ranges[x])]
<1>0. N \in Nat /\ N > 0 /\ DOMAIN ranges = 1..N /\ ranges \in [1..N -> Ranges(M)] BY EmptySeq
<1>1. <<>> \in T OBVIOUS
<1>2. \A a \in T, v \in Ranges(M) : MergeNext(a, v) \in T BY MergeNextTyped
<1>3. Turn \in [T \X Ranges(M) -> T] BY <1>2
<1>4. \A a \in T, v \in Ranges(M) : Turn[<<a, v>>] = MergeNext(a, v)
  <2> TAKE a \in T, v \in Ranges(M)
  <2>1. <<a, v>> \in T \X Ranges(M) /\ <<a, v>>[1] = a /\ <<a, v>>[2] = v OBVIOUS
  <2> QED BY <2>1
<1> HIDE DEF N, T, Turn
<1>5. PICK it \in [SUBSET (1..N) -> T] : IsFold(it, N, <<>>, Turn, ranges)
  BY <1>0, <1>1, <1>3, FoldExists
<1>6. ASSUME NEW s \in SUBSET (1..N), s # {}
      PROVE  it[s] = MergeNext(it[s \ {Max(s)}], ranges[Max(s)])
  <2>1. Max(s) \in 1..N BY <1>0, <1>6, MaxInSet
  <2>2. s \ {Max(s)} \in SUBSET (1..N) OBVIOUS
  <2>3. it[s \ {Max(s)}] \in T /\ ranges[Max(s)] \in Ranges(M) BY <1>0, <2>1, <2>2
  <2>4. it[s] = Turn[<<it[s \ {Max(s)}], ranges[Max(s)]>>] BY <1>5, <1>6 DEF IsFold
  <2> QED BY <2>3, <2>4, <1>4
<1>7. \E g : Is(g)
  <2>1. it[{}] = <<>> BY <1>5 DEF IsFold
  <2>2. it = [s \in SUBSET (1..N) |->
                 IF s = {} THEN <<>> ELSE MergeNext(it[s \ {Max(s)}], ranges[Max(s)])]
    BY <1>6, <2>1
  <2>3. Is(it) BY <2>2, <1>0, Zenon DEF MergeNext
  <2> QED BY <2>3, Zenon
<1> DEFINE iter == CHOOSE g : Is(g)
<1>8. Is(iter)
  <2> HIDE DEF Is
  <2> QED BY <1>7, Zenon
<1>9. Merge(ranges) = iter[DOMAIN ranges] BY Zenon DEF Merge, FoldLeft, MapThenFoldSet
<1> HIDE DEF iter
<1>10. iter = [s \in SUBSET (1..N) |->
                IF s = {} THEN <<>> ELSE MergeNext(iter[s \ {Max(s)}], ranges[Max(s)])]
  BY <1>8, <1>0, Zenon DEF MergeNext
<1> HIDE DEF Is
<1> DEFINE S == {n \in Nat : n <= N => iter[1..n] \in T}
<1>11. iter[1..0] \in T
  <2>1. 1..0 = {} /\ {} \in SUBSET (1..N) OBVIOUS
  <2> QED BY <1>1, <1>10, <2>1
<1>12. ASSUME NEW k \in 1..N PROVE iter[1..k] = MergeNext(iter[1..(k - 1)], ranges[k])
  <2>0. k \in Nat /\ k > 0 BY <1>0
  <2>1. Max(1..k) = k /\ (1..k) \ {k} = 1..(k - 1) /\ 1..k # {} BY <2>0, FoldPrefix
  <2>2. 1..k \in SUBSET (1..N) BY <1>0
  <2> QED BY <1>10, <2>1, <2>2
<1>13. ASSUME NEW n \in Nat, n + 1 <= N, iter[1..n] \in T PROVE iter[1..(n + 1)] \in T
  <2>1. n + 1 \in 1..N /\ (n + 1) - 1 = n BY <1>0, <1>13
  <2>2. ranges[n + 1] \in Ranges(M) BY <1>0, <2>1
  <2> QED BY <1>12, <1>13, <1>2, <2>1, <2>2
<1>14. 0 \in S /\ \A n \in Nat : n \in S => n + 1 \in S BY <1>0, <1>11, <1>13
<1> HIDE DEF S
<1>15. \A n \in Nat : n <= N => iter[1..n] \in T BY <1>14, InductionOnNat DEF S
<1>16. N \in 1..N /\ N - 1 \in Nat /\ N - 1 <= N BY <1>0
<1>17. iter[1..(N - 1)] \in T /\ ranges[N] \in Ranges(M) BY <1>0, <1>15, <1>16
<1>18. iter[1..N] \in Seq(Ranges(M)) /\ iter[1..N] # <<>>
  <2> DEFINE a == iter[1..(N - 1)]
  <2>1. iter[1..N] = MergeNext(a, ranges[N]) BY <1>12, <1>16
  <2>2. a \in Seq(Ranges(M)) BY <1>17 DEF T
  <2> HIDE DEF a
  <2>3. ranges[N] \in Ranges(M) BY <1>17
  <2>4. MergeNext(a, ranges[N]) \in Seq(Ranges(M)) /\ MergeNext(a, ranges[N]) # <<>>
    BY <2>2, <2>3, MergeNextTyped
  <2> QED BY <2>1, <2>4
<1>19. iter[1..N][1] \in Ranges(M) BY <1>18, EmptySeq
<1> QED BY <1>0, <1>9, <1>19 DEF Ranges

(* What generateConfiguration() asks for is what some frame can be made into. *)
GenericStream(sizes) == [pixelFormat |-> FirstFormat, size |-> Merge(sizes)[1].max]

LEMMA GenericIsMade ==
  ASSUME Captured, converter \in BOOLEAN,
         \E i \in DOMAIN captures : OutputFormats(i) # <<>>,
         NEW sizes \in SortedSizes(FirstFormat)
  PROVE  GenericStream(sizes) \in Streams /\
         \E p \in DOMAIN captures : OutputFormats(p) # <<>> /\ Makes(p, GenericStream(sizes))
<1> DEFINE made == {i \in DOMAIN captures : FirstFormat \in ToSet(OutputFormats(i))}
           M == {CaptureSize(i) : i \in made}
           all == UNION {ToSet(OutputFormats(i)) : i \in DOMAIN captures}
<1>1. all \in SUBSET Nat /\ all # {}
  <2>1. \A i \in DOMAIN captures : ToSet(OutputFormats(i)) \subseteq Nat
    BY Outputs, ConfigurationAssumption
  <2>2. PICK i \in DOMAIN captures : OutputFormats(i) # <<>> OBVIOUS
  <2>3. Head(OutputFormats(i)) \in ToSet(OutputFormats(i)) BY <2>2, OutputSet
  <2> QED BY <2>1, <2>3
<1>2. FirstFormat \in all
  <2> HIDE DEF all
  <2>1. Min(all) \in all BY <1>1, MinInSet
  <2> QED BY <2>1 DEF FirstFormat, all
<1>3. made # {} BY <1>2
<1>4. IsFiniteSet(made) /\ Cardinality(made) \in Nat /\ Cardinality(made) # 0
  <2>1. PICK n \in Nat : DOMAIN captures = 1..n BY CapturedTypes
  <2>2. IsFiniteSet(1..n) BY <2>1, FS_Interval
  <2>3. IsFiniteSet(made) BY <2>1, <2>2, FS_Subset
  <2> QED BY <2>3, <1>3, FS_CardinalityType, FS_EmptySet
<1>5. \A i \in made : OutputRange(i) \in Ranges(M)
  <2> TAKE i \in made
  <2>1. i \in DOMAIN captures /\ CaptureSize(i) \in M /\ CaptureSize(i) \in Sizes BY CapturedTypes
  <2>2. MinSize \in Sizes BY ConfigurationAssumption DEF Sizes
  <2> HIDE DEF M
  <2>3. OutputRange(i) = [min |-> IF converter THEN MinSize ELSE CaptureSize(i), max |-> CaptureSize(i)]
    BY DEF OutputRange, CaptureSize
  <2> QED BY <2>1, <2>2, <2>3 DEF Ranges
<1> HIDE DEF M
<1>6. PICK listing \in SetToSeqs(made) : sizes = [k \in DOMAIN listing |-> OutputRange(listing[k])]
  BY Zenon DEF SortedSizes
<1>7. listing \in [1..Cardinality(made) -> made] BY <1>6 DEF SetToSeqs
<1> HIDE DEF made
<1>8. sizes \in Seq(Ranges(M)) /\ sizes # <<>>
  <2> DEFINE n == Cardinality(made)
  <2>1. n \in Nat /\ n > 0 BY <1>4
  <2> HIDE DEF n
  <2>2. DOMAIN listing = 1..n /\ \A k \in 1..n : listing[k] \in made BY <1>7 DEF n
  <2>3. sizes \in [1..n -> Ranges(M)] BY <1>5, <1>6, <2>2
  <2> QED BY <2>1, <2>3
<1>9. Merge(sizes)[1].max \in M BY <1>8, MergedFirst
<1>10. PICK p \in made : Merge(sizes)[1].max = CaptureSize(p) BY <1>9 DEF M
<1>11. p \in DOMAIN captures /\ FirstFormat \in ToSet(OutputFormats(p)) BY <1>10 DEF made
<1>12. OutputFormats(p) # <<>> BY <1>11 DEF ToSet
<1>13. CaptureSize(p) \in Sizes /\ FirstFormat \in PixelFormats BY <1>11, CapturedTypes, Outputs
<1>14. GenericStream(sizes) = [pixelFormat |-> FirstFormat, size |-> CaptureSize(p)]
  BY <1>10 DEF GenericStream
<1> HIDE DEF all
<1>15. GenericStream(sizes) \in Streams BY <1>13, <1>14 DEF Streams
<1>16. Makes(p, GenericStream(sizes)) BY <1>11, <1>14 DEF Makes
<1> QED BY <1>11, <1>12, <1>15, <1>16

(* generateConfiguration validates streams that a frame can be made into. *)
LEMMA GenericSteps ==
  ASSUME Captured, converter \in BOOLEAN,
         \E i \in DOMAIN captures : OutputFormats(i) # <<>>,
         NEW roles \in Nat \ {0}, GenerateConfiguration(roles)
  PROVE  \E wanted \in Seq(Streams), p \in DOMAIN captures :
           /\ wanted # <<>> /\ Len(wanted) = roles /\ OutputFormats(p) # <<>>
           /\ \A i \in 1..Len(wanted) : Makes(p, wanted[i])
           /\ Validated(wanted, TRUE) /\ UNCHANGED device
<1>0. roles \in Nat /\ roles > 0 OBVIOUS
<1>1. PICK sizes \in SortedSizes(FirstFormat) :
        ValidateGiven([i \in 1..roles |-> [pixelFormat |-> FirstFormat,
                                           size        |-> Merge(sizes)[1].max]], TRUE)
  BY Zenon DEF GenerateConfiguration
<1> DEFINE wanted == [i \in 1..roles |-> GenericStream(sizes)]
<1>2. ValidateGiven(wanted, TRUE) BY <1>1, Zenon DEF GenericStream
<1>3. PICK p \in DOMAIN captures : OutputFormats(p) # <<>> /\ Makes(p, GenericStream(sizes))
  BY GenericIsMade
<1>4. wanted \in Seq(Streams) /\ Len(wanted) = roles /\ wanted # <<>>
  <2>1. GenericStream(sizes) \in Streams BY GenericIsMade
  <2> QED BY <1>0, <2>1
<1>5. \A i \in 1..Len(wanted) : Makes(p, wanted[i]) BY <1>3, <1>4
<1> HIDE DEF wanted
<1>6. Validated(wanted, TRUE)
  <2>1. TRUE \in BOOLEAN OBVIOUS
  <2> QED BY <1>2, <1>4, <2>1, ValidateSteps
<1>7. UNCHANGED device BY DEF GenerateConfiguration
<1> QED BY <1>3, <1>4, <1>5, <1>6, <1>7

LEMMA ValidatedKeeps ==
  ASSUME ConfigInv, UNCHANGED device, NEW wanted, NEW possible, Validated(wanted, possible)
  PROVE  ConfigInv'
<1> DEFINE p == Picked(Streamed(wanted))
<1>1. captures' = captures /\ converter' = converter BY DEF device
<1>2. \A i : OutputFormats(i)' = OutputFormats(i) BY <1>1 DEF OutputFormats
<1>3. Captured' /\ converter' \in BOOLEAN /\ (\E i \in DOMAIN captures' : OutputFormats(i)' # <<>>)
  BY <1>1, <1>2 DEF ConfigInv, Captured
<1>4. /\ transform' = TRUE /\ pipeConfig' = p /\ config' \in Seq(Streams)
      /\ needConversion' \in BOOLEAN /\ (needConversion' => converter)
      /\ status' # "Invalid" =>
           /\ Made(p, config')
           /\ needConversion' = ~(Len(config') = 1 /\ IsCaptured(p, config'[1]))
  BY Zenon DEF Validated
<1> HIDE DEF p
<1>5. status' # "Invalid" =>
        /\ Made(pipeConfig, config)'
        /\ needConversion' = ~(Len(config') = 1 /\ IsCaptured(pipeConfig, config[1])')
  <2> SUFFICES ASSUME status' # "Invalid"
               PROVE  /\ Made(pipeConfig, config)'
                      /\ needConversion' = ~(Len(config') = 1 /\ IsCaptured(pipeConfig, config[1])')
    OBVIOUS
  <2>1. Made(pipeConfig, config)'
    BY <1>1, <1>4 DEF Made, Makes, OutputFormats, OutputRange, InRange, CaptureSize, StreamCount
  <2>2. IsCaptured(pipeConfig, config[1])' <=> IsCaptured(p, config'[1])
    BY <1>1, <1>4 DEF IsCaptured, CaptureSize
  <2> QED BY <1>4, <2>1, <2>2
<1>6. Accepted' => status' # "Invalid" BY DEF Accepted
<1> QED BY <1>1, <1>3, <1>4, <1>5, <1>6 DEF ConfigInv

LEMMA ConfigStep ==
  ASSUME ConfigInv, [ConfigurationNext]_configurationVars
  PROVE  ConfigInv'
<1>0. Captured /\ converter \in BOOLEAN /\ transform \in BOOLEAN /\ config \in Seq(Streams)
      /\ \E i \in DOMAIN captures : OutputFormats(i) # <<>>
  BY DEF ConfigInv
<1>1. CASE Ask
  <2>1. config' \in Seq(Streams)
    <3>1. PICK n \in 0..MaxAsked : config' \in [1..n -> Requested] BY <1>1 DEF Ask
    <3>2. n \in Nat BY ConfigurationAssumption
    <3>3. Requested \subseteq Streams BY ConfigurationAssumption DEF Streams, Sizes
    <3> QED BY <3>1, <3>2, <3>3
  <2>2. ~Accepted' BY <1>1 DEF Ask, Accepted
  <2>3. captures' = captures /\ converter' = converter BY <1>1 DEF Ask, device
  <2> QED BY <1>1, <2>1, <2>2, <2>3 DEF Ask, ConfigInv, Captured, OutputFormats
<1>2. CASE ValidateEmpty \/ ValidateCrashes
  <2>1. ~Accepted' BY <1>2 DEF ValidateEmpty, ValidateCrashes, Accepted
  <2>2. UNCHANGED <<captures, converter, config, transform, needConversion>>
    BY <1>2 DEF ValidateEmpty, ValidateCrashes, device
  <2> QED BY <2>1, <2>2 DEF ConfigInv, Captured, OutputFormats
<1>3. CASE Validate
  <2>1. Validated(config, transform)
    BY <1>0, <1>3, ValidateSteps DEF Validate
  <2>2. UNCHANGED device BY <1>3 DEF Validate
  <2> QED BY <2>1, <2>2, ValidatedKeeps
<1>4. CASE \E roles \in 1..MaxAsked : GenerateConfiguration(roles)
  <2>1. PICK roles \in 1..MaxAsked : GenerateConfiguration(roles) BY <1>4
  <2>2. roles \in Nat \ {0} BY ConfigurationAssumption
  <2>3. PICK wanted \in Seq(Streams) : Validated(wanted, TRUE) /\ UNCHANGED device
    BY <1>0, <2>1, <2>2, GenericSteps
  <2> QED BY <2>3, ValidatedKeeps
<1>5. CASE UNCHANGED configurationVars
  BY <1>5 DEF configurationVars, device, ConfigInv, Accepted, Captured, Made, Makes, OutputFormats, OutputRange,
     InRange, CaptureSize, StreamCount, IsCaptured
<1> QED BY <1>1, <1>2, <1>3, <1>4, <1>5 DEF ConfigurationNext

THEOREM ConfigInvariant == ConfigurationSpec => []ConfigInv
<1>1. ConfigurationInit => ConfigInv BY ConfigInit
<1>2. ConfigInv /\ [ConfigurationNext]_configurationVars => ConfigInv' BY ConfigStep
<1> QED BY <1>1, <1>2, PTL DEF ConfigurationSpec

(* Every stream of a configuration that validate accepts, or has adjusted, is
   no larger than the frames it is made of, and goes through a converter that
   reads them, or is what is captured, alone: for whatever the video device
   captures and the application asks for.                                   *)
THEOREM ConfigurationsCanBeMade == ConfigurationSpec => []StreamsCanBeMade
<1>1. ConfigInv => StreamsCanBeMade
  <2> SUFFICES ASSUME ConfigInv, Accepted
               PROVE  /\ \A i \in DOMAIN config : Fits(config[i].size, CaptureSize(pipeConfig))
                      /\ IF needConversion THEN captures[pipeConfig].captureFormat \in Bayer
                         ELSE Len(config) = 1 /\ IsCaptured(pipeConfig, config[1])
    BY DEF ConfigInv, StreamsCanBeMade
  <2>1. Captured /\ converter \in BOOLEAN /\ (needConversion => converter)
    BY DEF ConfigInv
  <2>2. Made(pipeConfig, config) /\ needConversion = ~(Len(config) = 1 /\ IsCaptured(pipeConfig, config[1]))
    BY DEF ConfigInv
  <2>3. /\ pipeConfig \in DOMAIN captures /\ OutputFormats(pipeConfig) # <<>>
        /\ config \in Seq(Streams) /\ \A i \in 1..Len(config) : Makes(pipeConfig, config[i])
    BY <2>2 DEF Made
  <2>4. CaptureSize(pipeConfig) \in Sizes BY <2>1, <2>3, CapturedTypes
  <2>5. ASSUME NEW i \in DOMAIN config PROVE Fits(config[i].size, CaptureSize(pipeConfig))
    <3>1. i \in 1..Len(config) /\ config[i] \in Streams BY <2>3
    <3>2. config[i].size \in Sizes BY <3>1 DEF Streams
    <3>3. InRange(OutputRange(pipeConfig), config[i].size) \/ config[i].size = CaptureSize(pipeConfig)
      BY <2>3, <3>1 DEF Makes
    <3> QED BY <2>1, <2>3, <2>4, <3>2, <3>3, SizeOrder, FitsFacts
  <2>6. needConversion => captures[pipeConfig].captureFormat \in Bayer
    BY <2>1, <2>3, OutputSet
  <2> QED BY <2>2, <2>5, <2>6
<1> QED BY <1>1, ConfigInvariant, PTL

(* Nothing is adjusted that was, or that was accepted. *)
LEMMA ValidIsKept ==
  ASSUME ConfigInv, Accepted, Validate, status' # "Invalid"
  PROVE  config' = config /\ status' = "Valid" /\ needConversion' = needConversion
<1>1. /\ Captured /\ converter \in BOOLEAN /\ config \in Seq(Streams) /\ transform = TRUE
      /\ Made(pipeConfig, config) /\ needConversion \in BOOLEAN
      /\ needConversion = ~(Len(config) = 1 /\ IsCaptured(pipeConfig, config[1]))
  BY DEF ConfigInv
<1>2. config # <<>> /\ ValidateGiven(config, transform) BY DEF Validate
<1>3. Streamed(config) = config
  <2>1. Len(config) <= StreamCount
    <3>1. Len(config) \in 1..StreamCount BY <1>1 DEF Made
    <3> QED BY <3>1
  <2> QED BY <1>1, <1>2, <2>1, StreamedTyped
<1> DEFINE p == Picked(config)
<1>4. Validated(config, TRUE) BY <1>1, <1>2, ValidateSteps
<1>5. /\ OutputFormats(p) # <<>>
      /\ config' = [i \in DOMAIN config |-> Adjusted(p, config[i])]
      /\ needConversion' = ~(Len(config') = 1 /\ IsCaptured(p, config'[1]))
      /\ status' = IF config' = config THEN "Valid" ELSE "Adjusted"
  BY <1>3, <1>4 DEF Validated
<1>6. /\ \A i \in 1..Len(config) : Makes(p, config[i])
      /\ Len(config) = 1 => (IsCaptured(p, config[1]) <=> IsCaptured(pipeConfig, config[1]))
  BY <1>1, <1>5, PickedAgain
<1> HIDE DEF p
<1>7. \A i \in DOMAIN config : Adjusted(p, config[i]) = config[i]
  <2> TAKE i \in DOMAIN config
  <2>1. i \in 1..Len(config) /\ config[i] \in Streams BY <1>1
  <2> QED BY <2>1, <1>6, MadeIsKept
<1>8. config' = config
  <2>1. config = [i \in DOMAIN config |-> config[i]] BY <1>1
  <2> QED BY <1>5, <1>7, <2>1
<1> QED BY <1>1, <1>5, <1>6, <1>8

(* Nor what generateConfiguration asks for. *)
LEMMA GeneratedIsValid ==
  ASSUME ConfigInv, NEW roles \in 1..StreamCount, GenerateConfiguration(roles)
  PROVE  status' # "Adjusted"
<1>1. /\ Captured /\ converter \in BOOLEAN
      /\ \E i \in DOMAIN captures : OutputFormats(i) # <<>>
  BY DEF ConfigInv
<1>2. roles \in Nat \ {0} /\ roles <= StreamCount BY DEF StreamCount
<1>3. PICK wanted \in Seq(Streams), p \in DOMAIN captures :
        /\ wanted # <<>> /\ Len(wanted) = roles /\ OutputFormats(p) # <<>>
        /\ \A i \in 1..Len(wanted) : Makes(p, wanted[i])
        /\ Validated(wanted, TRUE) /\ UNCHANGED device
  BY <1>1, <1>2, GenericSteps
<1>4. Made(p, wanted) BY <1>3 DEF Made
<1>5. Streamed(wanted) = wanted BY <1>1, <1>2, <1>3, StreamedTyped
<1> DEFINE q == Picked(wanted)
<1>6. /\ OutputFormats(q) # <<>>
      /\ status' # "Invalid" =>
           /\ config' = [i \in DOMAIN wanted |-> Adjusted(q, wanted[i])]
           /\ status' = IF config' = wanted THEN "Valid" ELSE "Adjusted"
  BY <1>3, <1>5 DEF Validated
<1>7. \A i \in 1..Len(wanted) : Makes(q, wanted[i]) BY <1>1, <1>4, <1>6, PickedAgain
<1> HIDE DEF q
<1>8. \A i \in DOMAIN wanted : Adjusted(q, wanted[i]) = wanted[i]
  <2> TAKE i \in DOMAIN wanted
  <2>1. i \in 1..Len(wanted) /\ wanted[i] \in Streams BY <1>3
  <2> QED BY <2>1, <1>7, MadeIsKept
<1>9. [i \in DOMAIN wanted |-> Adjusted(q, wanted[i])] = wanted
  <2>1. wanted = [i \in DOMAIN wanted |-> wanted[i]] BY <1>3
  <2> QED BY <1>8, <2>1
<1> QED BY <1>6, <1>9

(* What validate accepts, or has adjusted, it accepts as it is when it is asked
   again, and what generateConfiguration proposes for as many roles as there
   are streams it does not adjust.                                          *)
THEOREM AnswersStayValid == ConfigurationSpec => AnswersAreValid
<1>1. ConfigInv =>
        ((Accepted /\ Validate /\ status' # "Invalid")
           => config' = config /\ status' = "Valid" /\ needConversion' = needConversion)
  BY ValidIsKept
<1>2. ConfigInv =>
        \A roles \in 1..StreamCount : GenerateConfiguration(roles) => status' # "Adjusted"
  BY GeneratedIsValid
<1> QED BY <1>1, <1>2, ConfigInvariant, PTL DEF AnswersAreValid

-----------------------------------------------------------------------------
(* Each client once, and those that were told so. *)
ListsClients(q, t) ==
  /\ q \in Seq(Callbacks)
  /\ \A i, j \in 1..Len(q) : q[i].binder = q[j].binder => i = j
  /\ \A b \in Binders : b \in t <=> \E i \in 1..Len(q) : q[i].binder = b

ClientsInv ==
  /\ callbacks \in [Lists -> Seq(Callbacks)] /\ told \in [Lists -> SUBSET Binders]
  /\ \A which \in Lists : ListsClients(callbacks[which], told[which])

LEMMA EqualIsBinder ==
  ASSUME NEW c \in Callbacks, NEW d \in Callbacks
  PROVE  InterfacesEqual(c, d) <=> c.binder = d.binder
BY CallbacksAssumption DEF InterfacesEqual

LEMMA ClientRegisters ==
  ASSUME NEW q, NEW t, ListsClients(q, t), NEW c \in Callbacks,
         \A i \in 1..Len(q) : q[i].binder # c.binder
  PROVE  ListsClients(Append(q, c), t \cup {c.binder})
<1> DEFINE p == Append(q, c)
           L == Len(q)
<1>1. q \in Seq(Callbacks) /\ L \in Nat BY DEF ListsClients
<1>2. /\ p \in Seq(Callbacks) /\ Len(p) = L + 1 /\ p[L + 1] = c /\ \A i \in 1..L : p[i] = q[i]
      /\ \A i \in 1..(L + 1) : i \in 1..L \/ i = L + 1
      /\ L + 1 \in 1..(L + 1) /\ \A i \in 1..L : i \in 1..(L + 1)
  BY <1>1, AppendProperties
<1>3. /\ \A i, j \in 1..L : q[i].binder = q[j].binder => i = j
      /\ \A b \in Binders : b \in t <=> \E i \in 1..L : q[i].binder = b
      /\ \A i \in 1..L : q[i].binder # c.binder
  BY DEF ListsClients
<1> HIDE DEF p, L
<1>4. \A i, j \in 1..Len(p) : p[i].binder = p[j].binder => i = j BY <1>2, <1>3
<1>5. ASSUME NEW b \in Binders
      PROVE  b \in t \cup {c.binder} <=> \E i \in 1..Len(p) : p[i].binder = b
  <2>1. CASE b = c.binder BY <2>1, <1>2
  <2>2. CASE b # c.binder BY <2>2, <1>2, <1>3
  <2> QED BY <2>1, <2>2
<1> QED BY <1>2, <1>4, <1>5 DEF ListsClients, p

LEMMA ClientUnregisters ==
  ASSUME NEW q, NEW t, ListsClients(q, t), NEW c \in Callbacks
  PROVE  ListsClients(Selected(q, {k \in Callbacks : ~InterfacesEqual(k, c)}), t \ {c.binder})
<1> DEFINE S == {k \in Callbacks : ~InterfacesEqual(k, c)}
           p == Selected(q, S)
           N == Len(q)
<1>1. /\ q \in Seq(Callbacks) /\ N \in Nat
      /\ \A i, j \in 1..N : q[i].binder = q[j].binder => i = j
      /\ \A b \in Binders : b \in t <=> \E i \in 1..N : q[i].binder = b
  BY DEF ListsClients
<1>2. \A j \in 1..N : q[j] \in S <=> q[j].binder # c.binder
  <2> TAKE j \in 1..N
  <2>1. q[j] \in Callbacks BY <1>1
  <2> QED BY <2>1, EqualIsBinder
<1>3. Selects(p, q, N, S, Callbacks) BY <1>1, SelectedSelects
<1> HIDE DEF p, S, N
<1>4. /\ p \in Seq(Callbacks) /\ Len(p) \in Nat
      /\ \A i \in 1..Len(p) : \E j \in 1..N : p[i] = q[j] /\ q[j] \in S
      /\ \A j \in 1..N : q[j] \in S => \E i \in 1..Len(p) : p[i] = q[j]
      /\ \A i, k \in 1..Len(p) : i < k => \E a, b \in 1..N : a < b /\ p[i] = q[a] /\ p[k] = q[b]
  <2>1. p \in Seq(Callbacks) BY <1>3 DEF Selects
  <2>2. \A i \in 1..Len(p) : \E j \in 1..N : p[i] = q[j] /\ q[j] \in S BY <1>3 DEF Selects
  <2>3. \A j \in 1..N : q[j] \in S => \E i \in 1..Len(p) : p[i] = q[j] BY <1>3 DEF Selects
  <2>4. \A i, k \in 1..Len(p) : i < k => \E a, b \in 1..N : a < b /\ p[i] = q[a] /\ p[k] = q[b]
    BY <1>3 DEF Selects
  <2>5. Len(p) \in Nat BY <2>1
  <2> QED BY <2>1, <2>2, <2>3, <2>4, <2>5, Zenon
<1>5. \A i, k \in 1..Len(p) : i < k => p[i].binder # p[k].binder
  <2> SUFFICES ASSUME NEW i \in 1..Len(p), NEW k \in 1..Len(p), i < k
               PROVE  p[i].binder # p[k].binder
    OBVIOUS
  <2>1. PICK a \in 1..N, b \in 1..N : a < b /\ p[i] = q[a] /\ p[k] = q[b] BY <1>4
  <2>2. a # b BY <1>1, <2>1
  <2> QED BY <1>1, <2>1, <2>2
<1>6. \A i, k \in 1..Len(p) : p[i].binder = p[k].binder => i = k
  <2> TAKE i, k \in 1..Len(p)
  <2>1. i \in Nat /\ k \in Nat /\ (i < k \/ k < i \/ i = k) BY <1>4
  <2> QED BY <2>1, <1>5
<1>7. ASSUME NEW b \in Binders
      PROVE  b \in t \ {c.binder} <=> \E i \in 1..Len(p) : p[i].binder = b
  <2>1. ASSUME NEW i \in 1..Len(p), p[i].binder = b PROVE b \in t \ {c.binder}
    <3>1. PICK j \in 1..N : p[i] = q[j] /\ q[j] \in S BY <1>4
    <3> QED BY <1>1, <1>2, <2>1, <3>1
  <2>2. ASSUME b \in t \ {c.binder} PROVE \E i \in 1..Len(p) : p[i].binder = b
    <3>1. PICK j \in 1..N : q[j].binder = b BY <1>1, <2>2
    <3>2. q[j] \in S BY <1>2, <2>2, <3>1
    <3> QED BY <1>4, <3>1, <3>2
  <2> QED BY <2>1, <2>2
<1> QED BY <1>4, <1>6, <1>7 DEF ListsClients, p, S

LEMMA CallStep ==
  ASSUME ClientsInv, NEW which \in Lists, NEW c \in Callbacks, Register(which, c) \/ Unregister(which, c)
  PROVE  ClientsInv'
<1> DEFINE q == callbacks[which]
           t == told[which]
<1>1. /\ callbacks \in [Lists -> Seq(Callbacks)] /\ told \in [Lists -> SUBSET Binders]
      /\ q \in Seq(Callbacks) /\ t \in SUBSET Binders /\ ListsClients(q, t)
      /\ c.binder \in Binders
  BY DEF ClientsInv, Binders
<1>2. Known(which, c) <=> \E i \in 1..Len(q) : q[i].binder = c.binder
  <2>1. Known(which, c) <=> \E i \in 1..Len(q) : InterfacesEqual(q[i], c) BY <1>1 DEF Known, ToSet
  <2>2. \A i \in 1..Len(q) : q[i] \in Callbacks BY <1>1
  <2> HIDE DEF q
  <2> QED BY <2>1, <2>2, EqualIsBinder
<1> HIDE DEF q, t
<1>3. PICK p, u : /\ p \in Seq(Callbacks) /\ u \in SUBSET Binders /\ ListsClients(p, u)
                  /\ callbacks' = [callbacks EXCEPT ![which] = p]
                  /\ told' = [told EXCEPT ![which] = u]
  <2>1. CASE Register(which, c)
    <3>1. ListsClients(Append(q, c), t \cup {c.binder})
      <4>1. \A i \in 1..Len(q) : q[i].binder # c.binder BY <1>2, <2>1 DEF Register
      <4> QED BY <1>1, <4>1, ClientRegisters
    <3>2. Append(q, c) \in Seq(Callbacks) /\ t \cup {c.binder} \in SUBSET Binders BY <1>1
    <3>3. /\ callbacks' = [callbacks EXCEPT ![which] = Append(q, c)]
          /\ told' = [told EXCEPT ![which] = t \cup {c.binder}]
      BY <2>1 DEF Register, q, t
    <3> QED BY <3>1, <3>2, <3>3
  <2>2. CASE Unregister(which, c)
    <3> DEFINE p == Selected(q, {k \in Callbacks : ~InterfacesEqual(k, c)})
    <3>1. ListsClients(p, t \ {c.binder}) BY <1>1, ClientUnregisters
    <3>2. p \in Seq(Callbacks) /\ t \ {c.binder} \in SUBSET Binders BY <1>1, <3>1 DEF ListsClients
    <3>3. callbacks' = [callbacks EXCEPT ![which] = p] /\ told' = [told EXCEPT ![which] = t \ {c.binder}]
      BY <2>2 DEF Unregister, q, t
    <3> HIDE DEF p
    <3> QED BY <3>1, <3>2, <3>3
  <2> QED BY <2>1, <2>2
<1>4. \A l \in Lists : /\ callbacks'[l] = IF l = which THEN p ELSE callbacks[l]
                       /\ told'[l] = IF l = which THEN u ELSE told[l]
  BY <1>1, <1>3
<1>5. callbacks' \in [Lists -> Seq(Callbacks)] /\ told' \in [Lists -> SUBSET Binders]
  BY <1>1, <1>3
<1>6. \A l \in Lists : ListsClients(callbacks'[l], told'[l])
  BY <1>3, <1>4 DEF ClientsInv
<1> QED BY <1>5, <1>6 DEF ClientsInv

(* A client that was told that it is registered is listed once.             *)
THEOREM ClientsStayListedOnce == CallbacksSpec => []ClientsAreListedOnce
<1>1. CallbacksInit => ClientsInv
  <2> SUFFICES ASSUME CallbacksInit PROVE ClientsInv OBVIOUS
  <2>1. \A which \in Lists : callbacks[which] = <<>> /\ told[which] = {} BY DEF CallbacksInit
  <2>2. ListsClients(<<>>, {}) BY DEF ListsClients
  <2>3. callbacks \in [Lists -> Seq(Callbacks)] /\ told \in [Lists -> SUBSET Binders]
    BY DEF CallbacksInit
  <2> QED BY <2>1, <2>2, <2>3 DEF ClientsInv
<1>2. ClientsInv /\ [CallbacksNext]_callbacksVars => ClientsInv'
  <2> SUFFICES ASSUME ClientsInv, [CallbacksNext]_callbacksVars PROVE ClientsInv' OBVIOUS
  <2>1. CASE CallbacksNext
    <3>1. PICK which \in Lists, c \in Callbacks : Register(which, c) \/ Unregister(which, c)
      BY <2>1 DEF CallbacksNext, RegisterThermalChangedCallback, UnregisterThermalChangedCallback,
         RegisterCoolingDeviceChangedCallback, UnregisterCoolingDeviceChangedCallback, Lists
    <3> QED BY <3>1, CallStep
  <2>2. CASE UNCHANGED callbacksVars BY <2>2 DEF callbacksVars, ClientsInv
  <2> QED BY <2>1, <2>2
<1>3. ClientsInv => ClientsAreListedOnce
  <2> SUFFICES ASSUME ClientsInv, NEW which \in Lists, NEW b \in Binders
               PROVE  Cardinality({i \in DOMAIN callbacks[which] : callbacks[which][i].binder = b})
                        = IF b \in told[which] THEN 1 ELSE 0
    BY DEF ClientsAreListedOnce
  <2> DEFINE q == callbacks[which]
             at == {i \in DOMAIN q : q[i].binder = b}
  <2>1. /\ DOMAIN q = 1..Len(q) /\ \A i, j \in 1..Len(q) : q[i].binder = q[j].binder => i = j
        /\ b \in told[which] <=> \E i \in 1..Len(q) : q[i].binder = b
    BY DEF ClientsInv, ListsClients
  <2> HIDE DEF q
  <2>2. CASE b \in told[which]
    <3>1. PICK i \in 1..Len(q) : q[i].binder = b BY <2>1, <2>2
    <3>2. at = {i} BY <2>1, <3>1
    <3> QED BY <2>2, <3>2, FS_Singleton DEF q
  <2>3. CASE b \notin told[which]
    <3>1. at = {} BY <2>1, <2>3
    <3> QED BY <2>3, <3>1, FS_EmptySet DEF q
  <2> QED BY <2>2, <2>3
<1> QED BY <1>1, <1>2, <1>3, PTL DEF CallbacksSpec

-----------------------------------------------------------------------------
Increases(f, m) == \A i, j \in 1..m : i < j => f[i] < f[j]

(* What a call that is asked of e, which is d, is to be answered with. *)
Answered(op, e, d) ==
  IF d # NotThere /\ (op = "getTemperatureThresholds" \/ d.value # NoNumber)
  THEN {Expected(op, e, d)} ELSE {}

(* The entries that are to be read: of those that stay, the ones that are there. *)
Listed(entries, S, st) ==
  /\ entries \in Seq(Nat) /\ Increases(entries, Len(entries))
  /\ \A i \in 1..Len(entries) : entries[i] \in DOMAIN S
  /\ st \subseteq DOMAIN S
  /\ \A e \in st : S[e] # NotThere <=> \E i \in 1..Len(entries) : entries[i] = e

(* The answers after the first m entries. *)
Collected(f, entries, m, op, S, st) ==
  /\ f \in Seq(ToSet(f))
  /\ \A i, j \in 1..Len(f) : i < j => f[i].of < f[j].of
  /\ \A i \in 1..Len(f) : \E k \in 1..m : f[i].of = entries[k]
  /\ \A k \in 1..m : entries[k] \in st =>
       {a \in ToSet(f) : a.of = entries[k]} = Answered(op, entries[k], S[entries[k]])

LEMMA CollectNone ==
  ASSUME NEW f, NEW entries, NEW m \in Nat, NEW op, NEW S, NEW st,
         Listed(entries, S, st), m + 1 <= Len(entries), Collected(f, entries, m, op, S, st),
         entries[m + 1] \in st => Answered(op, entries[m + 1], S[entries[m + 1]]) = {}
  PROVE  Collected(f, entries, m + 1, op, S, st)
<1> DEFINE n == m + 1
<1>1. /\ n \in Nat /\ n \in 1..Len(entries) /\ \A k \in 1..n : k \in 1..m \/ k = n
      /\ \A k \in 1..m : k \in 1..n /\ k \in 1..Len(entries) /\ k < n
  BY DEF Listed
<1>2. \A k \in 1..m : entries[k] # entries[n]
  <2> TAKE k \in 1..m
  <2>1. entries[k] < entries[n] /\ entries[k] \in Nat BY <1>1 DEF Listed, Increases
  <2> QED BY <2>1
<1>3. f \in Seq(ToSet(f)) /\ \A i \in 1..Len(f) : \E k \in 1..m : f[i].of = entries[k]
  BY DEF Collected
<1> HIDE DEF n
<1>4. {a \in ToSet(f) : a.of = entries[n]} = {}
  <2> SUFFICES ASSUME NEW a \in ToSet(f), a.of = entries[n] PROVE FALSE OBVIOUS
  <2>1. PICK i \in 1..Len(f) : a = f[i]
    <3>1. DOMAIN f = 1..Len(f) BY <1>3
    <3> QED BY <3>1 DEF ToSet
  <2> QED BY <2>1, <1>2, <1>3
<1>5. \A k \in 1..n : entries[k] \in st =>
        {a \in ToSet(f) : a.of = entries[k]} = Answered(op, entries[k], S[entries[k]])
  <2> SUFFICES ASSUME NEW k \in 1..n, entries[k] \in st
               PROVE  {a \in ToSet(f) : a.of = entries[k]} = Answered(op, entries[k], S[entries[k]])
    OBVIOUS
  <2>1. CASE k \in 1..m BY <2>1 DEF Collected
  <2>2. CASE k = n BY <2>2, <1>4 DEF n
  <2> QED BY <1>1, <2>1, <2>2
<1>6. \A i \in 1..Len(f) : \E k \in 1..n : f[i].of = entries[k] BY <1>1, <1>3
<1>7. Collected(f, entries, n, op, S, st) BY <1>3, <1>5, <1>6 DEF Collected
<1> QED BY <1>7 DEF n

LEMMA CollectOne ==
  ASSUME NEW f, NEW entries, NEW m \in Nat, NEW op, NEW S, NEW st,
         Listed(entries, S, st), m + 1 <= Len(entries), Collected(f, entries, m, op, S, st),
         NEW x, x.of = entries[m + 1],
         entries[m + 1] \in st => Answered(op, entries[m + 1], S[entries[m + 1]]) = {x}
  PROVE  Collected(Append(f, x), entries, m + 1, op, S, st)
<1> DEFINE n == m + 1
           T == ToSet(f) \cup {x}
           g == Append(f, x)
           L == Len(f)
<1>1. /\ n \in Nat /\ n \in 1..Len(entries) /\ n \in 1..n /\ \A k \in 1..n : k \in 1..m \/ k = n
      /\ \A k \in 1..m : k \in 1..n /\ k \in 1..Len(entries) /\ k < n
  BY DEF Listed
<1>2. \A k \in 1..m : entries[k] < entries[n] /\ entries[k] # entries[n]
  <2> TAKE k \in 1..m
  <2>1. entries[k] < entries[n] /\ entries[k] \in Nat BY <1>1 DEF Listed, Increases
  <2> QED BY <2>1
<1>3. /\ f \in Seq(ToSet(f)) /\ f \in Seq(T) /\ x \in T /\ L \in Nat
      /\ \A i \in 1..L : \E k \in 1..m : f[i].of = entries[k]
      /\ \A i, j \in 1..L : i < j => f[i].of < f[j].of
  <2>1. /\ f \in Seq(ToSet(f))
        /\ \A i \in 1..L : \E k \in 1..m : f[i].of = entries[k]
        /\ \A i, j \in 1..L : i < j => f[i].of < f[j].of
    BY Zenon DEF Collected, L
  <2>2. f \in Seq(T) /\ L \in Nat BY <2>1
  <2> QED BY <2>1, <2>2
<1>4. /\ g \in Seq(T) /\ Len(g) = L + 1 /\ g[L + 1] = x /\ \A i \in 1..L : g[i] = f[i]
      /\ \A i \in 1..Len(g) : i \in 1..L \/ i = L + 1
      /\ \A i \in 1..L : i < L + 1
  <2> HIDE DEF T
  <2> QED BY <1>3, AppendProperties
<1>5. ToSet(g) = T
  <2> HIDE DEF T
  <2>1. ToSet(g) = ToSet(f) \cup {x} BY <1>3, AppendElements
  <2> QED BY <2>1 DEF T
<1>6. \A a \in ToSet(f) : \E k \in 1..m : a.of = entries[k]
  <2> TAKE a \in ToSet(f)
  <2>1. PICK i \in 1..L : a = f[i]
    <3>1. DOMAIN f = 1..L BY <1>3
    <3> QED BY <3>1 DEF ToSet
  <2> QED BY <2>1, <1>3
<1> HIDE DEF n, g, L
<1>7. \A i \in 1..Len(g) : \E k \in 1..n : g[i].of = entries[k]
  <2> TAKE i \in 1..Len(g)
  <2>1. CASE i \in 1..L BY <2>1, <1>1, <1>3, <1>4
  <2>2. CASE i = L + 1
    <3>1. g[i].of = entries[n] BY <2>2, <1>4 DEF n
    <3> QED BY <3>1, <1>1
  <2> QED BY <1>4, <2>1, <2>2
<1>8. \A i, j \in 1..Len(g) : i < j => g[i].of < g[j].of
  <2> SUFFICES ASSUME NEW i \in 1..Len(g), NEW j \in 1..Len(g), i < j PROVE g[i].of < g[j].of
    OBVIOUS
  <2>1. i \in 1..L BY <1>3, <1>4
  <2>2. CASE j \in 1..L BY <2>1, <2>2, <1>3, <1>4
  <2>3. CASE j = L + 1
    <3>1. g[j].of = entries[n] BY <2>3, <1>4 DEF n
    <3> QED BY <2>1, <3>1, <1>2, <1>3, <1>4
  <2> QED BY <1>4, <2>2, <2>3
<1>9. \A k \in 1..n : entries[k] \in st =>
        {a \in ToSet(g) : a.of = entries[k]} = Answered(op, entries[k], S[entries[k]])
  <2> SUFFICES ASSUME NEW k \in 1..n, entries[k] \in st
               PROVE  {a \in ToSet(g) : a.of = entries[k]} = Answered(op, entries[k], S[entries[k]])
    OBVIOUS
  <2>0. x.of = entries[n] BY DEF n
  <2>1. CASE k \in 1..m
    <3>1. {a \in ToSet(g) : a.of = entries[k]} = {a \in ToSet(f) : a.of = entries[k]}
      BY <2>0, <2>1, <1>2, <1>5
    <3> QED BY <2>1, <3>1 DEF Collected
  <2>2. CASE k = n
    <3>1. {a \in ToSet(g) : a.of = entries[k]} = {x}
      BY <2>0, <2>2, <1>2, <1>5, <1>6
    <3> QED BY <2>2, <3>1 DEF n
  <2> QED BY <1>1, <2>1, <2>2
<1>10. g \in Seq(ToSet(g)) BY <1>4, <1>5
<1>11. Collected(g, entries, n, op, S, st) BY <1>7, <1>8, <1>9, <1>10 DEF Collected
<1> QED BY <1>11 DEF n, g

-----------------------------------------------------------------------------
(* What is listed when a call begins: what is there. *)
LEMMA ListedFirst ==
  ASSUME NEW T, NEW S \in Seq(T)
  PROVE  LET there == {e \in DOMAIN S : S[e] # NotThere}
         IN  Listed(Selected([e \in DOMAIN S |-> e], there), S, DOMAIN S)
<1> DEFINE there == {e \in DOMAIN S : S[e] # NotThere}
           q == [e \in DOMAIN S |-> e]
           r == Selected(q, there)
           N == Len(S)
<1>1. N \in Nat /\ DOMAIN S = 1..N OBVIOUS
<1>2. q \in Seq(Nat) /\ Len(q) = N /\ \A e \in 1..N : q[e] = e BY <1>1
<1> HIDE DEF q, N
<1>3. Selects(r, q, N, there, Nat) BY <1>2, SelectedSelects
<1> HIDE DEF r
<1>4. r \in Seq(Nat) /\ Len(r) \in Nat BY <1>3 DEF Selects
<1>5. \A i \in 1..Len(r) : r[i] \in DOMAIN S /\ S[r[i]] # NotThere
  <2> TAKE i \in 1..Len(r)
  <2>1. PICK j \in 1..N : r[i] = q[j] /\ q[j] \in there BY <1>3 DEF Selects
  <2> QED BY <2>1
<1>6. \A e \in DOMAIN S : S[e] # NotThere => \E i \in 1..Len(r) : r[i] = e
  <2> SUFFICES ASSUME NEW e \in 1..N, S[e] # NotThere PROVE \E i \in 1..Len(r) : r[i] = e
    BY <1>1
  <2>1. q[e] = e /\ q[e] \in there
    <3>1. q[e] = e /\ e \in DOMAIN S BY <1>1, <1>2
    <3> QED BY <3>1
  <2>2. \A j \in 1..N : q[j] \in there => \E i \in 1..Len(r) : r[i] = q[j]
    BY <1>3 DEF Selects
  <2> HIDE DEF there
  <2> QED BY <2>1, <2>2
<1>7. Increases(r, Len(r))
  <2> SUFFICES ASSUME NEW i \in 1..Len(r), NEW k \in 1..Len(r), i < k PROVE r[i] < r[k]
    BY DEF Increases
  <2>1. PICK a \in 1..N, b \in 1..N : a < b /\ r[i] = q[a] /\ r[k] = q[b]
    BY <1>3 DEF Selects
  <2> QED BY <2>1, <1>2
<1>8. Listed(r, S, DOMAIN S) BY <1>4, <1>5, <1>6, <1>7 DEF Listed
<1> QED BY <1>8 DEF r, q

-----------------------------------------------------------------------------
(* The thresholds of the first n trip points. *)
OfTypes(trips, n, types) == {i \in 1..n : trips[i].type \in types}
HotAfter(trips, n) ==
  LET light    == OfTypes(trips, n, {"passive", "hot"})
      shutdown == OfTypes(trips, n, {"critical"})
  IN  [severity \in 0..6 |->
         CASE severity = 1 /\ light # {}    -> Celsius(trips[Min(light)].milli)
           [] severity = 6 /\ shutdown # {} -> Celsius(trips[Max(shutdown)].milli)
           [] OTHER -> NoNumber]

TripType == [type : STRING, milli : Int]

LEMMA HotNone == ASSUME NEW trips PROVE HotAfter(trips, 0) = NanThresholds
<1>1. 1..0 = {} OBVIOUS
<1>2. \A types : OfTypes(trips, 0, types) = {} BY <1>1 DEF OfTypes
<1> QED BY <1>2 DEF HotAfter, NanThresholds

LEMMA OfTypesNext ==
  ASSUME NEW trips, NEW n \in Nat, NEW types
  PROVE  OfTypes(trips, n + 1, types)
           = OfTypes(trips, n, types) \cup (IF trips[n + 1].type \in types THEN {n + 1} ELSE {})
<1>1. 1..(n + 1) = (1..n) \cup {n + 1} OBVIOUS
<1> QED BY <1>1 DEF OfTypes

LEMMA MinKept ==
  ASSUME NEW n \in Nat, NEW A \in SUBSET (1..n)
  PROVE  Min(A \cup {n + 1}) = IF A = {} THEN n + 1 ELSE Min(A)
<1>1. A = {} => Min(A \cup {n + 1}) = n + 1 BY DEF Min
<1>2. ASSUME A # {} PROVE Min(A \cup {n + 1}) = Min(A)
  <2>1. A \in SUBSET Nat /\ A # {} BY <1>2
  <2>2. Min(A) \in A /\ \A y \in A : Min(A) <= y BY <2>1, MinInSet
  <2>3. \A x \in A : x <= n /\ x \in Nat OBVIOUS
  <2> DEFINE a == Min(A)
             B == A \cup {n + 1}
  <2>6. a \in A /\ a \in Nat /\ a <= n /\ \A y \in A : a <= y BY <2>2, <2>3
  <2> HIDE DEF a
  <2>4. \A x \in B : (\A y \in B : x <= y) <=> x = a
    <3> TAKE x \in B
    <3>1. x \in Nat BY <2>3
    <3>2. ASSUME \A y \in B : x <= y PROVE x = a
      <4>1. x <= a /\ x # n + 1 BY <3>2, <3>1, <2>6
      <4>2. a <= x BY <4>1, <2>6
      <4> QED BY <4>1, <4>2, <3>1, <2>6
    <3>3. \A y \in B : a <= y BY <2>6, <2>3
    <3> QED BY <3>2, <3>3
  <2>5. B \in SUBSET Nat /\ B # {} BY <2>3
  <2>7. Min(B) \in B /\ \A y \in B : Min(B) <= y BY <2>5, MinInSet
  <2>8. Min(B) = a BY <2>4, <2>7
  <2> QED BY <2>8, <1>2 DEF a
<1> QED BY <1>1, <1>2

LEMMA MaxNext ==
  ASSUME NEW n \in Nat, NEW A \in SUBSET (1..n)
  PROVE  Max(A \cup {n + 1}) = n + 1
<1>1. \A x \in A : x \in Nat /\ x < n + 1 OBVIOUS
<1>2. \A x \in A \cup {n + 1} : (\A y \in A \cup {n + 1} : x >= y) <=> x = n + 1 BY <1>1
<1> QED BY <1>2 DEF Max

(* A trip point more, by WithTrip. *)
LEMMA HotNext ==
  ASSUME NEW trips \in Seq(TripType), NEW n \in Nat, n + 1 \in 1..Len(trips)
  PROVE  HotAfter(trips, n + 1)
           = WithTrip(HotAfter(trips, n), trips[n + 1].type, Celsius(trips[n + 1].milli))
<1> DEFINE m == n + 1
           LS == {"passive", "hot"}
           SS == {"critical"}
           light == OfTypes(trips, n, LS)
           shutdown == OfTypes(trips, n, SS)
           old == HotAfter(trips, n)
           new == HotAfter(trips, m)
           L(A) == IF A # {} THEN Celsius(trips[Min(A)].milli) ELSE NoNumber
           H(A) == IF A # {} THEN Celsius(trips[Max(A)].milli) ELSE NoNumber
           type == trips[m].type
           c == Celsius(trips[m].milli)
<1>0. /\ NoNumber \notin Int
      /\ \A i \in 1..m : trips[i].type \in STRING /\ Celsius(trips[i].milli) \in Int
  <2>1. NoNumber \notin Int BY ThermalAssumption
  <2>2. ASSUME NEW i \in 1..m PROVE trips[i].type \in STRING /\ Celsius(trips[i].milli) \in Int
    <3>1. i \in 1..Len(trips) OBVIOUS
    <3>2. trips[i] \in TripType BY <3>1
    <3>3. trips[i].type \in STRING /\ trips[i].milli \in Int BY <3>2 DEF TripType
    <3> QED BY <3>3 DEF Celsius
  <2> QED BY <2>1, <2>2
<1>1. light \in SUBSET (1..n) /\ shutdown \in SUBSET (1..n) BY DEF OfTypes
<1>2. /\ OfTypes(trips, m, LS) = light \cup (IF type \in LS THEN {m} ELSE {})
      /\ OfTypes(trips, m, SS) = shutdown \cup (IF type \in SS THEN {m} ELSE {})
  <2> HIDE DEF LS, SS, m
  <2>1. m = n + 1 BY DEF m
  <2>2. OfTypes(trips, m, LS) = OfTypes(trips, n, LS) \cup (IF trips[m].type \in LS THEN {m} ELSE {})
    BY <2>1, OfTypesNext
  <2>3. OfTypes(trips, m, SS) = OfTypes(trips, n, SS) \cup (IF trips[m].type \in SS THEN {m} ELSE {})
    BY <2>1, OfTypesNext
  <2> QED BY <2>2, <2>3
<1> HIDE DEF light, shutdown, LS, SS
<1>3. old = [severity \in 0..6 |-> CASE severity = 1 -> L(light) [] severity = 6 -> H(shutdown)
                                     [] OTHER -> NoNumber]
  BY DEF HotAfter, light, shutdown, LS, SS
<1>4. new = [severity \in 0..6 |-> CASE severity = 1 -> L(OfTypes(trips, m, LS))
                                     [] severity = 6 -> H(OfTypes(trips, m, SS))
                                     [] OTHER -> NoNumber]
  BY DEF HotAfter, LS, SS
<1>5. light # {} => L(light) # NoNumber
  <2> SUFFICES ASSUME light # {} PROVE L(light) # NoNumber OBVIOUS
  <2>1. light \in SUBSET Nat BY <1>1
  <2>2. Min(light) \in light BY <2>1, MinInSet
  <2>3. Min(light) \in 1..m
    <3>1. Min(light) \in 1..n BY <2>2, <1>1
    <3> HIDE DEF light
    <3> QED BY <3>1
  <2>4. Celsius(trips[Min(light)].milli) \in Int BY <2>3, <1>0
  <2> QED BY <2>4, <1>0
<1>6. m = n + 1 OBVIOUS
<1> HIDE DEF m, c, type, old, new
<1>7. CASE type = "critical"
  <2>1. type \notin LS /\ type \in SS BY <1>7 DEF LS, SS
  <2>2. L(OfTypes(trips, m, LS)) = L(light) BY <2>1, <1>2
  <2>3. H(OfTypes(trips, m, SS)) = c
    <3>1. OfTypes(trips, m, SS) = shutdown \cup {m} BY <2>1, <1>2
    <3>2. Max(shutdown \cup {m}) = m BY <1>1, <1>6, MaxNext
    <3> QED BY <3>1, <3>2 DEF c
  <2>4. WithTrip(old, type, c) = [old EXCEPT ![6] = c] BY <1>7 DEF WithTrip, ShutdownSeverity
  <2>5. new = [old EXCEPT ![6] = c]
    <3> HIDE DEF L, H
    <3> QED BY <2>2, <2>3, <1>3, <1>4
  <2> QED BY <2>4, <2>5 DEF old, new, type, c, m
<1>8. CASE type \in LS
  <2>1. type \in LS /\ type \notin SS /\ type # "critical" BY <1>8 DEF LS, SS
  <2>2. H(OfTypes(trips, m, SS)) = H(shutdown) BY <2>1, <1>2
  <2>3. L(OfTypes(trips, m, LS)) = IF light = {} THEN c ELSE L(light)
    <3>1. OfTypes(trips, m, LS) = light \cup {m} BY <2>1, <1>2
    <3>2. Min(light \cup {m}) = IF light = {} THEN m ELSE Min(light) BY <1>1, <1>6, MinKept
    <3> QED BY <3>1, <3>2 DEF c
  <2>6. 1 \in 0..6 OBVIOUS
  <2>7. old[1] = L(light) BY <1>3, <2>6
  <2>8. old[1] = NoNumber <=> light = {} BY <2>7, <1>5
  <2>4. CASE light = {}
    <3>1. WithTrip(old, type, c) = [old EXCEPT ![1] = c]
      BY <2>4, <2>8, <2>1 DEF WithTrip, LightSeverity, LS
    <3>2. new = [old EXCEPT ![1] = c]
      <4> HIDE DEF L, H
      <4> QED BY <2>2, <2>3, <2>4, <1>3, <1>4
    <3> QED BY <3>1, <3>2 DEF old, new, type, c, m
  <2>5. CASE light # {}
    <3>1. WithTrip(old, type, c) = old
      BY <2>5, <2>8, <2>1 DEF WithTrip, LightSeverity, LS
    <3>2. new = old
      <4> HIDE DEF L, H
      <4> QED BY <2>2, <2>3, <2>5, <1>3, <1>4
    <3> QED BY <3>1, <3>2 DEF old, new, type, c, m
  <2> QED BY <2>4, <2>5
<1>9. CASE type # "critical" /\ type \notin LS
  <2>1. type \notin SS BY <1>9 DEF SS
  <2>2. WithTrip(old, type, c) = old BY <1>9 DEF WithTrip, LS
  <2>3. new = old
    <3> HIDE DEF L, H
    <3>1. OfTypes(trips, m, LS) = light /\ OfTypes(trips, m, SS) = shutdown BY <2>1, <1>9, <1>2
    <3> QED BY <3>1, <1>3, <1>4
  <2> QED BY <2>2, <2>3 DEF old, new, type, c, m
<1> QED BY <1>7, <1>8, <1>9

-----------------------------------------------------------------------------
Entries(kind) == Devices[kind] \cup {NotThere}

(* A call has these fields. *)
Fields == {"op", "entries", "step", "at", "name", "trip", "milli", "hot"}

(* What the call c knows of the driver d that it is at, and that stays. *)
AtEntry(c, d) ==
  /\ c.step = "type" => c.trip = 1 /\ c.hot = NanThresholds
  /\ c.step # "type" => c.name = d.name
  /\ c.step = "value" => c.op # "getTemperatureThresholds"
  /\ c.step \in {"trip", "tripType"} =>
       /\ c.op = "getTemperatureThresholds"
       /\ c.trip \in 1..(Len(d.trips) + 1) /\ c.hot = HotAfter(d.trips, c.trip - 1)
  /\ c.step = "tripType" => c.trip \in 1..Len(d.trips) /\ c.milli = d.trips[c.trip].milli

IsCall(c) ==
  /\ DOMAIN c = Fields /\ c.op \in Calls
  /\ c.step \in {"type", "value", "trip", "tripType"}
  /\ c.at \in 1..(Len(c.entries) + 1)

(* A call c that is answered, of which f is found, with S the entries of its kind. *)
Answering(c, f, S, st) ==
  /\ IsCall(c)
  /\ Listed(c.entries, S, st)
  /\ Collected(f, c.entries, c.at - 1, c.op, S, st)
  /\ c.at <= Len(c.entries) /\ c.entries[c.at] \in st => AtEntry(c, S[c.entries[c.at]])

Boarded(s) == s \in [thermal_zone   : Seq(Entries("thermal_zone")),
                     cooling_device : Seq(Entries("cooling_device"))]

CallInv ==
  /\ Boarded(sysfs)
  /\ call = Idle \/ (reply = NoReply /\ Answering(call, found, sysfs[Kind(call.op)], steady))
  /\ SteadyDevicesAreTold

LEMMA CallFacts ==
  ASSUME NEW c, IsCall(c)
  PROVE  c # Idle
BY DEF IsCall, Idle, Calls

LEMMA BoardedKind ==
  ASSUME NEW s, Boarded(s), NEW op \in Calls
  PROVE  s[Kind(op)] \in Seq(Entries(Kind(op))) /\ Kind(op) \in {"thermal_zone", "cooling_device"}
<1>1. s["thermal_zone"] \in Seq(Entries("thermal_zone")) /\ s["cooling_device"] \in Seq(Entries("cooling_device"))
  BY DEF Boarded
<1> QED BY <1>1 DEF Kind

(* A driver that stays is there. *)
LEMMA SteadyIsThere ==
  ASSUME NEW c, NEW f, NEW S, NEW st, Answering(c, f, S, st), c.at <= Len(c.entries),
         c.entries[c.at] \in st
  PROVE  S[c.entries[c.at]] # NotThere /\ AtEntry(c, S[c.entries[c.at]])
<1>1. c.at \in 1..Len(c.entries) BY DEF Answering, IsCall, Listed
<1> QED BY <1>1 DEF Answering, Listed

(* The zone of the entry, if it stays, has trip points. *)
LEMMA ZoneTrips ==
  ASSUME NEW s, Boarded(s), NEW c, NEW f, NEW st, c.op = "getTemperatureThresholds",
         Answering(c, f, s[Kind(c.op)], st), c.at <= Len(c.entries), c.entries[c.at] \in st
  PROVE  s[Kind(c.op)][c.entries[c.at]].trips \in Seq(TripType)
<1> DEFINE S == s[Kind(c.op)]
           e == c.entries[c.at]
<1>1. Kind(c.op) = "thermal_zone" BY DEF Kind
<1>2. S \in Seq(Entries("thermal_zone")) BY <1>1 DEF Boarded
<1>3. e \in DOMAIN S BY DEF Answering, Listed
<1>4. S[e] # NotThere BY SteadyIsThere
<1> HIDE DEF S, e
<1>5. S[e] \in Devices.thermal_zone BY <1>2, <1>3, <1>4 DEF Entries
<1>6. S[e].trips \in Seq(TripType) BY <1>5, ThermalAssumption DEF TripType
<1> QED BY <1>6 DEF S, e

(* The next entry. *)
LEMMA NextFacts ==
  ASSUME NEW c, IsCall(c), NEW x, x = NextEntry(c)
  PROVE  /\ DOMAIN x = Fields /\ x.op = c.op /\ x.entries = c.entries /\ x.at = c.at + 1
         /\ x.step = "type" /\ x.trip = 1 /\ x.hot = NanThresholds
BY DEF IsCall, NextEntry, Fields

LEMMA NextAnswering ==
  ASSUME NEW c, NEW f, NEW S, NEW st, IsCall(c), Listed(c.entries, S, st), c.at <= Len(c.entries),
         Collected(f, c.entries, c.at, c.op, S, st), NEW x, x = NextEntry(c)
  PROVE  Answering(x, f, S, st)
<1>1. /\ DOMAIN x = Fields /\ x.op = c.op /\ x.entries = c.entries /\ x.at = c.at + 1
      /\ x.step = "type" /\ x.trip = 1 /\ x.hot = NanThresholds
  BY NextFacts
<1>2. c.at \in 1..Len(c.entries) /\ Len(c.entries) \in Nat BY DEF IsCall, Listed
<1>3. IsCall(x)
  <2>1. x.at \in 1..(Len(x.entries) + 1) BY <1>1, <1>2
  <2> QED BY <1>1, <2>1 DEF IsCall
<1>4. x.at - 1 = c.at BY <1>1, <1>2
<1>5. AtEntry(x, S[x.entries[x.at]]) BY <1>1 DEF AtEntry
<1> QED BY <1>1, <1>3, <1>4, <1>5 DEF Answering

(* Nothing is found of the entry. *)
LEMMA SkipAnswering ==
  ASSUME NEW c, NEW f, NEW S, NEW st, Answering(c, f, S, st), c.at <= Len(c.entries),
         c.entries[c.at] \in st => Answered(c.op, c.entries[c.at], S[c.entries[c.at]]) = {},
         NEW x, x = NextEntry(c)
  PROVE  Answering(x, f, S, st)
<1> DEFINE m == c.at - 1
<1>1. IsCall(c) /\ Listed(c.entries, S, st) /\ Collected(f, c.entries, m, c.op, S, st)
  BY DEF Answering
<1>2. m \in Nat /\ m + 1 = c.at BY <1>1 DEF IsCall, Listed
<1> HIDE DEF m
<1>3. Collected(f, c.entries, m + 1, c.op, S, st) BY <1>1, <1>2, CollectNone
<1> QED BY <1>1, <1>2, <1>3, NextAnswering

(* x is found of the entry. *)
LEMMA FindAnswering ==
  ASSUME NEW c, NEW f, NEW S, NEW st, Answering(c, f, S, st), c.at <= Len(c.entries),
         NEW y, y.of = c.entries[c.at],
         c.entries[c.at] \in st => Answered(c.op, c.entries[c.at], S[c.entries[c.at]]) = {y},
         NEW x, x = NextEntry(c)
  PROVE  Answering(x, Append(f, y), S, st)
<1> DEFINE m == c.at - 1
<1>1. IsCall(c) /\ Listed(c.entries, S, st) /\ Collected(f, c.entries, m, c.op, S, st)
  BY DEF Answering
<1>2. m \in Nat /\ m + 1 = c.at BY <1>1 DEF IsCall, Listed
<1> HIDE DEF m
<1>3. Collected(Append(f, y), c.entries, m + 1, c.op, S, st) BY <1>1, <1>2, CollectOne
<1> QED BY <1>1, <1>2, <1>3, NextAnswering

(* The same entry, another step of it. *)
LEMMA StepAnswering ==
  ASSUME NEW c, NEW f, NEW S, NEW st, Answering(c, f, S, st), c.at <= Len(c.entries),
         NEW x, DOMAIN x = Fields, x.op = c.op, x.entries = c.entries, x.at = c.at,
         x.step \in {"type", "value", "trip", "tripType"},
         c.entries[c.at] \in st => AtEntry(x, S[c.entries[c.at]])
  PROVE  Answering(x, f, S, st)
BY DEF Answering, IsCall

-----------------------------------------------------------------------------
(* A call begins with what is there. *)
LEMMA BeginKeeps ==
  ASSUME CallInv, NEW op \in Calls, Begin(op) PROVE CallInv'
<1> DEFINE S == sysfs[Kind(op)]
           L == ListThermalEntries(Kind(op))
<1>0. Boarded(sysfs) BY DEF CallInv
<1>1. S \in Seq(Entries(Kind(op))) BY <1>0, BoardedKind
<1>2. Listed(L, S, DOMAIN S)
  <2> DEFINE there == {e \in DOMAIN S : S[e] # NotThere}
             r == Selected([e \in DOMAIN S |-> e], there)
  <2>1. Listed(r, S, DOMAIN S)
    <3> HIDE DEF S
    <3> QED BY <1>1, ListedFirst
  <2>2. L = r BY DEF ListThermalEntries
  <2> QED BY <2>1, <2>2
<1>3. call' = [op |-> op, entries |-> L, step |-> "type", at |-> 1,
               name |-> <<>>, trip |-> 1, milli |-> 0, hot |-> NanThresholds]
  BY DEF Begin
<1>4. found' = <<>> /\ reply' = NoReply /\ steady' = DOMAIN S /\ sysfs' = sysfs BY DEF Begin
<1> HIDE DEF S, L
<1>5. /\ DOMAIN call' = Fields /\ call'.op = op /\ call'.entries = L /\ call'.step = "type"
      /\ call'.at = 1 /\ call'.trip = 1 /\ call'.hot = NanThresholds
  BY <1>3 DEF Fields
<1>6. IsCall(call')
  <2>1. 1 \in 1..(Len(L) + 1) BY <1>2 DEF Listed
  <2> QED BY <1>5, <2>1 DEF IsCall
<1>7. Collected(<<>>, L, 0, op, S, DOMAIN S)
  <2>1. Len(<<>>) = 0 /\ <<>> \in Seq(ToSet(<<>>)) OBVIOUS
  <2> QED BY <2>1 DEF Collected
<1>8. AtEntry(call', S[L[1]]) BY <1>5 DEF AtEntry
<1>9. Answering(call', found', S, steady') BY <1>2, <1>4, <1>5, <1>6, <1>7, <1>8 DEF Answering
<1>10. S = sysfs'[Kind(call'.op)] BY <1>4, <1>5 DEF S
<1>11. Answering(call', found', sysfs'[Kind(call'.op)], steady') BY <1>9, <1>10
<1>12. SteadyDevicesAreTold' BY <1>4 DEF SteadyDevicesAreTold
<1> QED BY <1>0, <1>4, <1>11, <1>12 DEF CallInv

(* What a step that reads has to show. *)
LEMMA ReadingKeeps ==
  ASSUME CallInv, call # Idle, UNCHANGED <<sysfs, reply, steady>>, call'.op = call.op,
         Answering(call', found', sysfs[Kind(call.op)], steady)
  PROVE  CallInv'
BY DEF CallInv, SteadyDevicesAreTold

LEMMA ReadTypeKeeps == ASSUME CallInv, ReadType PROVE CallInv'
<1> DEFINE S == sysfs[Kind(call.op)]
<1>1. /\ call # Idle /\ call.step = "type" /\ call.at <= Len(call.entries)
      /\ UNCHANGED <<sysfs, found, reply, steady>>
  BY DEF ReadType, Reading
<1>2. Answering(call, found, S, steady) BY <1>1 DEF CallInv
<1>3. IsCall(call) /\ DOMAIN call = Fields /\ call.op \in Calls BY <1>2 DEF Answering, IsCall
<1>4. Device = S[call.entries[call.at]] BY DEF Device, Entry
<1> HIDE DEF S
<1>5. CASE Device = NotThere
  <2>1. call' = NextEntry(call) BY <1>5 DEF ReadType
  <2>2. call.entries[call.at] \in steady => Answered(call.op, call.entries[call.at], S[call.entries[call.at]]) = {}
    BY <1>4, <1>5 DEF Answered
  <2>3. Answering(call', found, S, steady) BY <1>1, <1>2, <2>1, <2>2, SkipAnswering
  <2>4. call'.op = call.op BY <1>3, <2>1, NextFacts
  <2> QED BY <1>1, <2>3, <2>4, ReadingKeeps DEF S
<1>6. CASE Device # NotThere
  <2> DEFINE s == IF call.op = "getTemperatureThresholds" THEN "trip" ELSE "value"
  <2>1. call' = [call EXCEPT !.name = Device.name, !.step = s] BY <1>6 DEF ReadType
  <2>2. s \in {"trip", "value"} OBVIOUS
  <2> HIDE DEF s
  <2>3. /\ DOMAIN call' = Fields /\ call'.op = call.op /\ call'.entries = call.entries
        /\ call'.at = call.at /\ call'.step = s /\ call'.name = Device.name
        /\ call'.trip = call.trip /\ call'.hot = call.hot
    BY <2>1, <1>3 DEF Fields
  <2>4. ASSUME call.entries[call.at] \in steady PROVE AtEntry(call', S[call.entries[call.at]])
    <3> DEFINE d == S[call.entries[call.at]]
    <3>1. AtEntry(call, d) BY <1>1, <1>2, <2>4, SteadyIsThere
    <3>2. call.trip = 1 /\ call.hot = NanThresholds BY <3>1, <1>1 DEF AtEntry
    <3>3. call.op = "getTemperatureThresholds" => 1 \in 1..(Len(d.trips) + 1)
      <4> SUFFICES ASSUME call.op = "getTemperatureThresholds" PROVE 1 \in 1..(Len(d.trips) + 1)
        OBVIOUS
      <4>1. Boarded(sysfs) BY DEF CallInv
      <4>2. d.trips \in Seq(TripType) BY <4>1, <1>1, <1>2, <2>4, ZoneTrips DEF S
      <4> HIDE DEF d
      <4> QED BY <4>2
    <3>7. 1 - 1 = 0 OBVIOUS
    <3>4. NanThresholds = HotAfter(d.trips, 0) BY HotNone
    <3>5. call'.name = d.name BY <2>3, <1>4
    <3> HIDE DEF d
    <3>6. AtEntry(call', d) BY <2>2, <2>3, <3>2, <3>3, <3>4, <3>5, <3>7 DEF AtEntry, s
    <3> QED BY <3>6 DEF d
  <2>5. Answering(call', found, S, steady) BY <1>1, <1>2, <2>2, <2>3, <2>4, StepAnswering
  <2> QED BY <1>1, <2>3, <2>5, ReadingKeeps DEF S
<1> QED BY <1>5, <1>6

LEMMA ReadValueKeeps == ASSUME CallInv, ReadValue PROVE CallInv'
<1> DEFINE S == sysfs[Kind(call.op)]
           e == call.entries[call.at]
           y == IF call.op = "getTemperatures" THEN Temperature(Entry, call.name, Device.value)
                ELSE Cooling(Entry, call.name, Device.value)
<1>1. /\ call # Idle /\ call.step = "value" /\ call.at <= Len(call.entries)
      /\ UNCHANGED <<sysfs, reply, steady>> /\ call' = NextEntry(call)
  BY DEF ReadValue, Reading
<1>2. Answering(call, found, S, steady) BY <1>1 DEF CallInv
<1>3. IsCall(call) /\ DOMAIN call = Fields /\ call.op \in Calls BY <1>2 DEF Answering, IsCall
<1>4. Device = S[e] /\ Entry = e BY DEF Device, Entry
<1>5. call'.op = call.op BY <1>1, <1>3, NextFacts
<1>6. e \in steady => S[e] # NotThere /\ AtEntry(call, S[e]) BY <1>1, <1>2, SteadyIsThere
<1>7. y.of = e BY <1>4 DEF Temperature, Cooling
<1>8. found' = IF Device = NotThere \/ Device.value = NoNumber THEN found ELSE Append(found, y)
  BY DEF ReadValue
<1>9. ASSUME e \in steady, Device # NotThere PROVE call.op # "getTemperatureThresholds" /\ call.name = S[e].name
  BY <1>1, <1>6, <1>9 DEF AtEntry
<1>10. ASSUME e \in steady, Device # NotThere PROVE y = Expected(call.op, e, S[e])
  BY <1>3, <1>4, <1>9, <1>10 DEF Expected, Calls
<1> HIDE DEF S, e, y
<1>11. CASE Device = NotThere \/ Device.value = NoNumber
  <2>1. found' = found BY <1>8, <1>11
  <2>2. ASSUME e \in steady PROVE Answered(call.op, e, S[e]) = {}
    BY <1>4, <1>6, <1>9, <1>11, <2>2 DEF Answered
  <2>3. Answering(call', found', S, steady) BY <1>1, <1>2, <2>1, <2>2, SkipAnswering DEF e
  <2> QED BY <1>1, <1>5, <2>3, ReadingKeeps DEF S
<1>12. CASE ~(Device = NotThere \/ Device.value = NoNumber)
  <2>1. found' = Append(found, y) BY <1>8, <1>12
  <2>2. ASSUME e \in steady PROVE Answered(call.op, e, S[e]) = {y}
    BY <1>4, <1>10, <1>12, <2>2 DEF Answered
  <2>3. Answering(call', found', S, steady) BY <1>1, <1>2, <1>7, <2>1, <2>2, FindAnswering DEF e
  <2> QED BY <1>1, <1>5, <2>3, ReadingKeeps DEF S
<1> QED BY <1>11, <1>12

LEMMA ReadTripTempKeeps == ASSUME CallInv, ReadTripTemp PROVE CallInv'
<1> DEFINE S == sysfs[Kind(call.op)]
           e == call.entries[call.at]
           d == S[e]
<1>1. /\ call # Idle /\ call.step = "trip" /\ call.at <= Len(call.entries)
      /\ UNCHANGED <<sysfs, reply, steady>>
  BY DEF ReadTripTemp, Reading
<1>2. Answering(call, found, S, steady) /\ Boarded(sysfs) BY <1>1 DEF CallInv
<1>3. IsCall(call) /\ DOMAIN call = Fields /\ call.op \in Calls BY <1>2 DEF Answering, IsCall
<1>4. Device = d /\ Entry = e BY DEF Device, Entry
<1>6. e \in steady => d # NotThere /\ AtEntry(call, d) BY <1>1, <1>2, SteadyIsThere
<1>7. ASSUME e \in steady
      PROVE  /\ call.op = "getTemperatureThresholds" /\ call.name = d.name
             /\ call.trip \in 1..(Len(d.trips) + 1) /\ call.hot = HotAfter(d.trips, call.trip - 1)
  BY <1>1, <1>6, <1>7 DEF AtEntry
<1>8. ASSUME e \in steady PROVE d.trips \in Seq(TripType)
  BY <1>1, <1>2, <1>7, <1>8, ZoneTrips
<1> HIDE DEF S, e, d
<1>9. CASE HasTrip
  <2>1. call' = [call EXCEPT !.milli = Device.trips[call.trip].milli, !.step = "tripType"] /\ found' = found
    BY <1>9 DEF ReadTripTemp
  <2>2. /\ DOMAIN call' = Fields /\ call'.op = call.op /\ call'.entries = call.entries
        /\ call'.at = call.at /\ call'.step = "tripType" /\ call'.name = call.name
        /\ call'.trip = call.trip /\ call'.hot = call.hot
        /\ call'.milli = Device.trips[call.trip].milli
    BY <2>1, <1>3 DEF Fields
  <2>3. ASSUME e \in steady PROVE AtEntry(call', d)
    <3>1. call.trip \in 1..Len(d.trips) BY <1>4, <1>8, <1>9, <2>3 DEF HasTrip
    <3>2. call'.milli = d.trips[call'.trip].milli BY <2>2, <1>4
    <3> QED BY <2>2, <2>3, <1>7, <3>1, <3>2 DEF AtEntry
  <2>4. Answering(call', found, S, steady) BY <1>1, <1>2, <2>2, <2>3, StepAnswering DEF e, d
  <2> QED BY <1>1, <2>1, <2>2, <2>4, ReadingKeeps DEF S
<1>10. CASE ~HasTrip
  <2> DEFINE y == Threshold(Entry, call.name, call.hot)
  <2>1. call' = NextEntry(call) /\ found' = Append(found, y) BY <1>10 DEF ReadTripTemp
  <2>2. y.of = e BY <1>4 DEF Threshold
  <2>3. ASSUME e \in steady PROVE Answered(call.op, e, d) = {y}
    <3>1. Len(d.trips) \in Nat /\ DOMAIN d.trips = 1..Len(d.trips) BY <1>8, <2>3
    <3>2. call.trip \notin 1..Len(d.trips) BY <1>4, <1>6, <1>10, <2>3, <3>1 DEF HasTrip
    <3>3. call.trip - 1 = Len(d.trips) BY <1>7, <2>3, <3>1, <3>2
    <3>4. call.hot = HotAfter(d.trips, Len(d.trips)) BY <1>7, <2>3, <3>3
    <3>5. Expected(call.op, e, d) = Threshold(e, d.name, HotAfter(d.trips, Len(d.trips)))
      <4> DEFINE n == Len(d.trips)
                 Of(types) == {i \in DOMAIN d.trips : d.trips[i].type \in types}
                 light == Of({"passive", "hot"})
                 shutdown == Of({"critical"})
                 H == [severity \in 0..6 |->
                         CASE severity = 1 /\ light # {}    -> Celsius(d.trips[Min(light)].milli)
                           [] severity = 6 /\ shutdown # {} -> Celsius(d.trips[Max(shutdown)].milli)
                           [] OTHER -> NoNumber]
      <4>1. \A types : Of(types) = OfTypes(d.trips, n, types) BY <3>1 DEF OfTypes
      <4>2. H = HotAfter(d.trips, n)
        <5> HIDE DEF Of, n
        <5> QED BY <4>1 DEF HotAfter
      <4>3. Expected("getTemperatureThresholds", e, d) = Threshold(e, d.name, H)
        <5>1. "getTemperatureThresholds" # "getCoolingDevices" /\ "getTemperatureThresholds" # "getTemperatures"
          OBVIOUS
        <5> QED BY <5>1, Zenon DEF Expected
      <4> HIDE DEF H
      <4> QED BY <4>2, <4>3, <1>7, <2>3
    <3>6. y = Expected(call.op, e, d) BY <3>4, <3>5, <1>4, <1>7, <2>3
    <3> QED BY <3>6, <1>6, <1>7, <2>3 DEF Answered
  <2> HIDE DEF y
  <2>4. Answering(call', found', S, steady) BY <1>1, <1>2, <2>1, <2>2, <2>3, FindAnswering DEF e, d
  <2>5. call'.op = call.op BY <1>3, <2>1, NextFacts
  <2> QED BY <1>1, <2>4, <2>5, ReadingKeeps DEF S
<1> QED BY <1>9, <1>10

-----------------------------------------------------------------------------
(* A trip point more is known. *)
LEMMA ReadTripTypeKeeps == ASSUME CallInv, ReadTripType PROVE CallInv'
<1> DEFINE S == sysfs[Kind(call.op)]
           e == call.entries[call.at]
           d == S[e]
           type == IF HasTrip THEN Device.trips[call.trip].type ELSE ""
           h == WithTrip(call.hot, type, Celsius(call.milli))
<1>1. /\ call # Idle /\ call.step = "tripType" /\ call.at <= Len(call.entries)
      /\ UNCHANGED <<sysfs, found, reply, steady>>
  BY DEF ReadTripType, Reading
<1>2. Answering(call, found, S, steady) /\ Boarded(sysfs) BY <1>1 DEF CallInv
<1>3. IsCall(call) /\ DOMAIN call = Fields /\ call.op \in Calls BY <1>2 DEF Answering, IsCall
<1>4. Device = d BY DEF Device, Entry
<1>6. e \in steady => d # NotThere /\ AtEntry(call, d) BY <1>1, <1>2, SteadyIsThere
<1>7. ASSUME e \in steady
      PROVE  /\ call.op = "getTemperatureThresholds" /\ call.name = d.name
             /\ call.trip \in 1..Len(d.trips) /\ call.hot = HotAfter(d.trips, call.trip - 1)
             /\ call.milli = d.trips[call.trip].milli
  BY <1>1, <1>6, <1>7 DEF AtEntry
<1>8. ASSUME e \in steady PROVE d.trips \in Seq(TripType)
  BY <1>1, <1>2, <1>7, <1>8, ZoneTrips
<1>9. call' = [call EXCEPT !.hot = h, !.trip = call.trip + 1, !.step = "trip"]
  BY DEF ReadTripType
<1> HIDE DEF S, e, d, h, type
<1>10. /\ DOMAIN call' = Fields /\ call'.op = call.op /\ call'.entries = call.entries
       /\ call'.at = call.at /\ call'.step = "trip" /\ call'.name = call.name
       /\ call'.trip = call.trip + 1 /\ call'.hot = h
  BY <1>3, <1>9 DEF Fields
<1>11. ASSUME e \in steady PROVE AtEntry(call', d)
  <2> DEFINE n == call.trip - 1
             L == Len(d.trips)
  <2>1. d.trips \in Seq(TripType) /\ L \in Nat /\ DOMAIN d.trips = 1..L BY <1>8, <1>11
  <2>2. n \in Nat /\ n + 1 = call.trip /\ n + 1 \in 1..L /\ call.trip + 1 \in 1..(L + 1)
    BY <1>7, <1>11, <2>1
  <2>3. HasTrip BY <1>4, <1>6, <1>11, <2>1, <2>2 DEF HasTrip
  <2>4. type = d.trips[n + 1].type BY <1>4, <2>2, <2>3 DEF type
  <2>5. call.milli = d.trips[n + 1].milli /\ call.hot = HotAfter(d.trips, n) BY <1>7, <1>11, <2>2
  <2>6. call'.trip - 1 = n + 1 BY <1>10, <2>2
  <2> HIDE DEF n
  <2>7. HotAfter(d.trips, n + 1)
          = WithTrip(HotAfter(d.trips, n), d.trips[n + 1].type, Celsius(d.trips[n + 1].milli))
    BY <2>1, <2>2, HotNext
  <2>8. h = HotAfter(d.trips, n + 1) BY <2>4, <2>5, <2>7 DEF h
  <2> QED BY <1>7, <1>10, <1>11, <2>2, <2>6, <2>8 DEF AtEntry
<1>12. Answering(call', found, S, steady) BY <1>1, <1>2, <1>10, <1>11, StepAnswering DEF e, d
<1> QED BY <1>1, <1>10, <1>12, ReadingKeeps DEF S

(* What vanishes or appears does not stay. *)
LEMMA HotplugKeeps ==
  ASSUME CallInv, NEW e \in DOMAIN sysfs[Kind(call.op)],
         NEW driver \in Devices[Kind(call.op)] \cup {NotThere}, Hotplug(e, driver)
  PROVE  CallInv'
<1> DEFINE K == Kind(call.op)
           S == sysfs[K]
           U == [S EXCEPT ![e] = driver]
           st == steady \ {e}
           c == call
<1>1. call # Idle /\ UNCHANGED <<call, found, reply>> /\ steady' = st BY DEF Hotplug
<1>2. sysfs' = [sysfs EXCEPT ![K] = U] BY DEF Hotplug
<1>3. Boarded(sysfs) /\ Answering(call, found, S, steady) /\ reply = NoReply BY <1>1 DEF CallInv
<1>4. call.op \in Calls /\ IsCall(c) BY <1>3 DEF Answering, IsCall
<1>5. S \in Seq(Entries(K)) /\ K \in {"thermal_zone", "cooling_device"} BY <1>3, <1>4, BoardedKind
<1>6. driver \in Entries(K) BY DEF Entries
<1>0. e \in DOMAIN S OBVIOUS
<1> HIDE DEF S, K
<1>7. U \in Seq(Entries(K)) /\ DOMAIN U = DOMAIN S /\ \A x \in DOMAIN S : x # e => U[x] = S[x]
  <2> DEFINE n == Len(S)
             T == Entries(K)
  <2>1. S \in [1..n -> T] /\ n \in Nat /\ DOMAIN S = 1..n BY <1>5
  <2> HIDE DEF n, T
  <2>2. U \in [1..n -> T] BY <2>1, <1>0, <1>6 DEF T
  <2>3. U \in Seq(T) BY <2>1, <2>2
  <2>4. DOMAIN U = DOMAIN S /\ \A x \in DOMAIN S : x # e => U[x] = S[x] OBVIOUS
  <2> QED BY <2>3, <2>4 DEF T
<1> HIDE DEF U, st, c
<1>8. sysfs'[K] = U BY <1>2, <1>3, <1>5 DEF Boarded
<1>9. Boarded(sysfs') BY <1>2, <1>3, <1>5, <1>7 DEF Boarded
<1>10. st \in SUBSET steady /\ e \notin st BY DEF st
<1>11. Listed(c.entries, S, steady) /\ Collected(found, c.entries, c.at - 1, c.op, S, steady)
  BY <1>3 DEF Answering, c
<1>12. \A x \in st : x \in DOMAIN S /\ U[x] = S[x]
  BY <1>7, <1>10, <1>11 DEF Listed
<1>13. Listed(c.entries, U, st) BY <1>7, <1>10, <1>11, <1>12 DEF Listed
<1>14. Collected(found, c.entries, c.at - 1, c.op, U, st) BY <1>10, <1>11, <1>12 DEF Collected
<1>15. c.at <= Len(c.entries) /\ c.entries[c.at] \in st => AtEntry(c, U[c.entries[c.at]])
  BY <1>3, <1>10, <1>12 DEF Answering, c
<1>16. Answering(c, found, U, st) BY <1>4, <1>13, <1>14, <1>15 DEF Answering
<1>17. Answering(call', found', sysfs'[Kind(call'.op)], steady') BY <1>1, <1>8, <1>16 DEF c, K
<1>18. reply' = NoReply BY <1>1, <1>3
<1>19. SteadyDevicesAreTold' BY <1>18 DEF SteadyDevicesAreTold
<1> QED BY <1>9, <1>17, <1>18, <1>19 DEF CallInv

(* What the whole call has found is what is due. *)
LEMMA ReturnKeeps ==
  ASSUME CallInv, NEW wanted \in Wanted, Return(wanted)
  PROVE  CallInv'
<1> DEFINE S == sysfs[Kind(call.op)]
           N == Len(call.entries)
           op == call.op
           right == {a \in ToSet(found) : wanted \in {"any", a.type}}
           r == Selected(found, right)
           q == call.entries
<1>1. /\ call # Idle /\ call.at > N /\ call' = Idle /\ sysfs' = sysfs /\ steady' = steady
      /\ reply' = [op |-> op, wanted |-> wanted, list |-> r]
  BY DEF Return
<1>2. Answering(call, found, S, steady) /\ Boarded(sysfs) BY <1>1 DEF CallInv
<1>3. /\ Listed(q, S, steady) /\ N \in Nat /\ Collected(found, q, N, op, S, steady)
  <2>1. Listed(q, S, steady) /\ IsCall(call) /\ Collected(found, q, call.at - 1, op, S, steady)
    BY <1>2 DEF Answering
  <2>2. N \in Nat BY <2>1 DEF Listed
  <2>3. call.at - 1 = N BY <1>1, <2>1, <2>2 DEF IsCall
  <2> QED BY <2>1, <2>2, <2>3
<1> DEFINE T == ToSet(found)
<1>4. /\ found \in Seq(T) /\ \A i, j \in 1..Len(found) : i < j => found[i].of < found[j].of
      /\ \A i \in 1..Len(found) : \E k \in 1..N : found[i].of = q[k]
      /\ \A k \in 1..N : q[k] \in steady => {a \in T : a.of = q[k]} = Answered(op, q[k], S[q[k]])
  BY <1>3 DEF Collected
<1>5. T = {found[i] : i \in 1..Len(found)}
  <2>1. DOMAIN found = 1..Len(found) BY <1>4
  <2> QED BY <2>1 DEF ToSet
<1> HIDE DEF T, q, S, N, op
<1>6. Selects(r, found, Len(found), right, T) BY <1>4, SelectedSelects
<1>7. right = {a \in T : wanted \in {"any", a.type}} BY DEF T
<1> HIDE DEF r, right
<1>8. r \in Seq(T) /\ DOMAIN r = 1..Len(r) BY <1>6 DEF Selects
<1>9. ToSet(r) = right
  <2>1. ToSet(r) = {r[i] : i \in 1..Len(r)} BY <1>8 DEF ToSet
  <2>2. ASSUME NEW a \in ToSet(r) PROVE a \in right
    <3>1. PICK i \in 1..Len(r) : a = r[i] BY <2>1
    <3> QED BY <3>1, <1>6 DEF Selects
  <2>3. ASSUME NEW a \in right PROVE a \in ToSet(r)
    <3>1. PICK j \in 1..Len(found) : a = found[j] BY <1>5, <1>7
    <3>2. PICK i \in 1..Len(r) : r[i] = found[j] BY <3>1, <1>6 DEF Selects
    <3> QED BY <3>1, <3>2, <2>1
  <2> QED BY <2>2, <2>3
<1>10. \A i, j \in DOMAIN r : i < j => r[i].of < r[j].of
  <2> SUFFICES ASSUME NEW i \in 1..Len(r), NEW j \in 1..Len(r), i < j PROVE r[i].of < r[j].of
    BY <1>8
  <2>1. PICK a \in 1..Len(found), b \in 1..Len(found) : a < b /\ r[i] = found[a] /\ r[j] = found[b]
    BY <1>6 DEF Selects
  <2> QED BY <2>1, <1>4
<1>11. ASSUME NEW e \in steady
       PROVE  LET driver == S[e]
                  said   == {a \in ToSet(r) : a.of = e}
                  due    == /\ driver # NotThere
                            /\ op = "getTemperatureThresholds" \/ driver.value # NoNumber
                            /\ wanted \in {"any", Expected(op, e, driver).type}
              IN  said = IF due THEN {Expected(op, e, driver)} ELSE {}
  <2> DEFINE d == S[e]
             said == {a \in ToSet(r) : a.of = e}
             of == {a \in T : a.of = e}
             x == Expected(op, e, d)
  <2>1. said = {a \in of : wanted \in {"any", a.type}} BY <1>7, <1>9
  <2>5. d # NotThere <=> \E k \in 1..N : q[k] = e
    <3>1. \A z \in steady : S[z] # NotThere <=> \E k \in 1..N : q[k] = z
      BY <1>3 DEF Listed, N, q
    <3> QED BY <3>1, <1>11
  <2>2. of = Answered(op, e, d)
    <3>1. CASE d = NotThere
      <4>1. \A k \in 1..N : q[k] # e BY <2>5, <3>1
      <4>2. of = {}
        <5> SUFFICES ASSUME NEW a \in T, a.of = e PROVE FALSE OBVIOUS
        <5>1. PICK i \in 1..Len(found) : a = found[i] BY <1>5
        <5> QED BY <5>1, <4>1, <1>4
      <4> QED BY <3>1, <4>2 DEF Answered
    <3>2. CASE d # NotThere
      <4>1. PICK k \in 1..N : q[k] = e BY <2>5, <3>2
      <4> QED BY <4>1, <1>4, <1>11
    <3> QED BY <3>1, <3>2
  <2> HIDE DEF d, said, of, x
  <2>3. of = IF d # NotThere /\ (op = "getTemperatureThresholds" \/ d.value # NoNumber) THEN {x} ELSE {}
    BY <2>2 DEF Answered, x
  <2>4. said = IF /\ d # NotThere
                  /\ op = "getTemperatureThresholds" \/ d.value # NoNumber
                  /\ wanted \in {"any", x.type}
               THEN {x} ELSE {}
    BY <2>1, <2>3
  <2> QED BY <2>4 DEF d, said, x
<1>12. reply'.op = op /\ reply'.wanted = wanted /\ reply'.list = r BY <1>1
<1>13. S = sysfs'[Kind(reply'.op)] BY <1>1, <1>12 DEF S, op
<1>14. SteadyDevicesAreTold'
  <2>1. \A i, j \in DOMAIN reply'.list : i < j => reply'.list[i].of < reply'.list[j].of
    BY <1>10, <1>12
  <2>2. ASSUME NEW e \in steady'
        PROVE  LET driver == sysfs'[Kind(reply'.op)][e]
                   said   == {a \in ToSet(reply'.list) : a.of = e}
                   due    == /\ driver # NotThere
                             /\ reply'.op = "getTemperatureThresholds" \/ driver.value # NoNumber
                             /\ reply'.wanted \in {"any", Expected(reply'.op, e, driver).type}
               IN  said = IF due THEN {Expected(reply'.op, e, driver)} ELSE {}
    <3>1. e \in steady BY <1>1
    <3> QED BY <3>1, <1>11, <1>12, <1>13
  <2> QED BY <2>1, <2>2 DEF SteadyDevicesAreTold
<1> QED BY <1>1, <1>2, <1>14 DEF CallInv

LEMMA CallInit == ASSUME ThermalInit PROVE CallInv
<1>1. Boarded(sysfs) BY ThermalAssumption DEF ThermalInit, Boarded, Entries
<1> QED BY <1>1 DEF ThermalInit, CallInv, SteadyDevicesAreTold

(* A device that stays in place during a call is in its answer once, with its
   own values and in the order of the entries, whatever else comes and goes, for
   any board, devices and types asked for (getCoolingDevices, getTemperatures,
   getTemperatureThresholds).                                               *)
THEOREM SteadyDevicesStayTold ==
  ThermalSpec => []SteadyDevicesAreTold
<1>1. ThermalInit => CallInv BY CallInit
<1>2. ASSUME CallInv, [ThermalNext]_thermalVars PROVE CallInv'
  <2>1. CASE UNCHANGED thermalVars
    BY <1>2, <2>1 DEF thermalVars, CallInv, SteadyDevicesAreTold
  <2>2. ASSUME NEW op \in Calls, Begin(op) PROVE CallInv' BY <1>2, <2>2, BeginKeeps
  <2>3. CASE ReadType BY <1>2, <2>3, ReadTypeKeeps
  <2>4. CASE ReadValue BY <1>2, <2>4, ReadValueKeeps
  <2>5. CASE ReadTripTemp BY <1>2, <2>5, ReadTripTempKeeps
  <2>6. CASE ReadTripType BY <1>2, <2>6, ReadTripTypeKeeps
  <2>7. ASSUME NEW wanted \in Wanted, Return(wanted) PROVE CallInv' BY <1>2, <2>7, ReturnKeeps
  <2>8. ASSUME NEW e \in DOMAIN sysfs[Kind(call.op)],
               NEW driver \in Devices[Kind(call.op)] \cup {NotThere}, Hotplug(e, driver)
        PROVE  CallInv'
    BY <1>2, <2>8, HotplugKeeps
  <2> QED BY <1>2, <2>1, <2>2, <2>3, <2>4, <2>5, <2>6, <2>7, <2>8, Zenon DEF ThermalNext
<1>3. CallInv => SteadyDevicesAreTold BY DEF CallInv
<1> QED BY <1>1, <1>2, <1>3, PTL DEF ThermalSpec

-----------------------------------------------------------------------------
FdNext(fds, fd) == IF fd < 0 \/ fd \in ToSet(fds) THEN fds ELSE Append(fds, fd)

(* Descriptors, each once. *)
EachOnce == {q \in Seq(Nat) : \A i, j \in 1..Len(q) : i # j => q[i] # q[j]}

LEMMA FdNextKeeps ==
  ASSUME NEW fds \in EachOnce, NEW fd \in Int
  PROVE  FdNext(fds, fd) \in EachOnce
<1>1. CASE fd < 0 \/ fd \in ToSet(fds) BY <1>1 DEF FdNext
<1>2. CASE ~(fd < 0 \/ fd \in ToSet(fds))
  <2> DEFINE L == Len(fds)
             x == Append(fds, fd)
  <2>1. fds \in Seq(Nat) /\ \A i, j \in 1..L : i # j => fds[i] # fds[j] BY DEF EachOnce
  <2>2. fd \in Nat /\ L \in Nat BY <1>2, <2>1
  <2>3. /\ x \in Seq(Nat) /\ Len(x) = L + 1 /\ x[L + 1] = fd /\ \A i \in 1..L : x[i] = fds[i]
    BY <2>1, <2>2, AppendProperties
  <2>4. \A i \in 1..L : fds[i] # fd
    <3>1. DOMAIN fds = 1..L BY <2>1
    <3> QED BY <3>1, <1>2 DEF ToSet
  <2> HIDE DEF x, L
  <2>5. ASSUME NEW i \in 1..Len(x), NEW j \in 1..Len(x), i # j PROVE x[i] # x[j]
    <3>1. CASE i \in 1..L /\ j \in 1..L BY <3>1, <2>1, <2>3, <2>5
    <3>2. CASE i = L + 1 /\ j \in 1..L BY <3>2, <2>3, <2>4
    <3>3. CASE i \in 1..L /\ j = L + 1 BY <3>3, <2>3, <2>4
    <3> QED BY <2>2, <2>3, <2>5, <3>1, <3>2, <3>3
  <2>6. x \in EachOnce BY <2>3, <2>5 DEF EachOnce
  <2>7. FdNext(fds, fd) = x BY <1>2 DEF FdNext, x
  <2> QED BY <2>6, <2>7
<1> QED BY <1>1, <1>2

LEMMA FdsEachOnce ==
  ASSUME NEW b, b.fds \in Seq(Int)
  PROVE  Fds(b) \in EachOnce
<1> DEFINE q == b.fds
           N == Len(q)
           R == EachOnce
           Turn == [p \in R \X Int |-> FdNext(p[1], p[2])]
           Is(g) == g = [s \in SUBSET (DOMAIN b.fds) |->
                           IF s = {} THEN <<>>
                           ELSE LET x == Max(s)
                                IN  IF b.fds[x] < 0 \/ b.fds[x] \in ToSet(g[s \ {x}]) THEN g[s \ {x}]
                                    ELSE Append(g[s \ {x}], b.fds[x])]
<1>0. N \in Nat /\ DOMAIN q = 1..N /\ q \in [1..N -> Int] OBVIOUS
<1>1. <<>> \in R BY DEF EachOnce
<1>2. \A a \in R, v \in Int : FdNext(a, v) \in R BY FdNextKeeps
<1>3. Turn \in [R \X Int -> R] BY <1>2
<1>4. \A a \in R, v \in Int : Turn[<<a, v>>] = FdNext(a, v)
  <2> TAKE a \in R, v \in Int
  <2>1. <<a, v>> \in R \X Int /\ <<a, v>>[1] = a /\ <<a, v>>[2] = v OBVIOUS
  <2> QED BY <2>1
<1> HIDE DEF N, R, Turn
<1>5. PICK it \in [SUBSET (1..N) -> R] : IsFold(it, N, <<>>, Turn, q)
  BY <1>0, <1>1, <1>3, FoldExists
<1>6. ASSUME NEW s \in SUBSET (1..N), s # {}
      PROVE  it[s] = FdNext(it[s \ {Max(s)}], q[Max(s)])
  <2>1. Max(s) \in 1..N BY <1>0, <1>6, MaxInSet
  <2>2. s \ {Max(s)} \in SUBSET (1..N) OBVIOUS
  <2>3. it[s \ {Max(s)}] \in R /\ q[Max(s)] \in Int BY <1>0, <2>1, <2>2
  <2>4. it[s] = Turn[<<it[s \ {Max(s)}], q[Max(s)]>>] BY <1>5, <1>6 DEF IsFold
  <2> QED BY <2>3, <2>4, <1>4
<1>7. \E g : Is(g)
  <2>1. it[{}] = <<>> BY <1>5 DEF IsFold
  <2>2. it = [s \in SUBSET (1..N) |->
                 IF s = {} THEN <<>> ELSE FdNext(it[s \ {Max(s)}], q[Max(s)])]
    BY <1>6, <2>1
  <2>3. Is(it) BY <2>2, <1>0, Zenon DEF FdNext, q
  <2> QED BY <2>3, Zenon
<1> DEFINE iter == CHOOSE g : Is(g)
<1>8. Is(iter)
  <2> HIDE DEF Is
  <2> QED BY <1>7, Zenon
<1>9. Fds(b) = iter[DOMAIN b.fds] BY Zenon DEF Fds, FoldLeft, MapThenFoldSet
<1> HIDE DEF iter
<1>10. iter = [s \in SUBSET (1..N) |->
                IF s = {} THEN <<>> ELSE FdNext(iter[s \ {Max(s)}], q[Max(s)])]
  BY <1>8, <1>0, Zenon DEF FdNext, q
<1> HIDE DEF Is
<1>11. iter[1..0] \in R
  <2>1. 1..0 = {} /\ {} \in SUBSET (1..N) OBVIOUS
  <2>2. iter[1..0] = <<>> BY <1>10, <2>1
  <2> QED BY <2>2, <1>1
<1>12. ASSUME NEW n \in Nat, n + 1 <= N, iter[1..n] \in R
       PROVE  iter[1..(n + 1)] \in R
  <2>0. n + 1 \in Nat /\ n + 1 > 0 /\ (n + 1) - 1 = n BY <1>12
  <2>1. Max(1..(n + 1)) = n + 1 /\ (1..(n + 1)) \ {n + 1} = 1..n /\ 1..(n + 1) # {}
    BY <2>0, FoldPrefix
  <2>2. 1..(n + 1) \in SUBSET (1..N) BY <1>0, <1>12
  <2>3. iter[1..(n + 1)] = FdNext(iter[1..n], q[n + 1]) BY <1>10, <2>1, <2>2
  <2>4. q[n + 1] \in Int
    <3>1. n + 1 \in 1..N BY <1>0, <1>12
    <3> QED BY <3>1, <1>0
  <2> QED BY <1>2, <1>12, <2>3, <2>4
<1> DEFINE Z == {n \in Nat : n <= N => iter[1..n] \in R}
<1>13. 0 \in Z /\ \A n \in Nat : n \in Z => n + 1 \in Z BY <1>0, <1>11, <1>12
<1> HIDE DEF Z
<1>14. N \in Z BY <1>0, <1>13, InductionOnNat
<1>15. iter[1..N] \in R BY <1>0, <1>14 DEF Z
<1>16. DOMAIN b.fds = 1..N BY <1>0 DEF q
<1> QED BY <1>9, <1>15, <1>16 DEF R

-----------------------------------------------------------------------------
HandleFormats == Semiplanar \cup {Mjpeg}

(* A format has one plane or two, none of them empty. *)
LEMMA PlaneFacts ==
  ASSUME NEW format \in HandleFormats, NEW s \in BufferSizes
  PROVE  /\ NumPlanes(format) \in 1..2
         /\ \A i \in 1..NumPlanes(format) : PlaneSize(format, s, i) \in Nat \ {0}
<1>1. s.width \in Nat \ {0} /\ s.height \in Nat \ {0} BY HandleAssumption
<1>2. ((s.width + 1) \div 2) \in Nat \ {0} /\ ((s.height + 1) \div 2) \in Nat \ {0}
  BY <1>1
<1>3. StrideOf(format, s) \in Nat \ {0} BY <1>1, <1>2 DEF StrideOf
<1>4. \A a, c \in Nat \ {0} : a * c \in Nat \ {0} OBVIOUS
<1>5. \A i : PlaneSize(format, s, i) \in Nat \ {0}
  <2> TAKE i
  <2>1. (IF i = 2 THEN (s.height + 1) \div 2 ELSE s.height) \in Nat \ {0} BY <1>1, <1>2
  <2> QED BY <2>1, <1>3, <1>4 DEF PlaneSize
<1>6. NumPlanes(format) \in 1..2 BY DEF NumPlanes
<1> QED BY <1>5, <1>6

LEMMA SmallerOf ==
  ASSUME NEW a \in Int, NEW c \in Int
  PROVE  Min({a, c}) = IF a <= c THEN a ELSE c
BY DEF Min

(* What is told of the planes of a handle. *)
Told(b, format, s) ==
  LET info   == FrameBuffer(b, format, s)
      End(i) == info[i].offset + info[i].length
  IN  /\ \A i \in DOMAIN info : info[i].length > 0 /\ End(i) <= b.length[info[i].dmabuf]
      /\ \A i, j \in DOMAIN info :
           i < j /\ info[i].dmabuf = info[j].dmabuf =>
             End(i) <= info[j].offset \/ End(j) <= info[i].offset

LEMMA DistinctDmabufs ==
  ASSUME NEW q \in EachOnce, NEW f, ~(Cardinality({f[x] : x \in ToSet(q)}) < Len(q))
  PROVE  \A i, j \in 1..Len(q) : i # j => f[q[i]] # f[q[j]]
<1> DEFINE L == Len(q)
           g == [i \in 1..L |-> f[q[i]]]
<1>1. L \in Nat /\ DOMAIN q = 1..L BY DEF EachOnce
<1>2. {f[x] : x \in ToSet(q)} = {g[i] : i \in 1..L} BY <1>1 DEF ToSet
<1> SUFFICES ASSUME NEW i \in 1..L, NEW j \in 1..L, i # j, f[q[i]] = f[q[j]] PROVE FALSE
  OBVIOUS
<1>3. g[i] = g[j] OBVIOUS
<1> DEFINE S == (1..L) \ {j}
<1> HIDE DEF g, L
<1>4. IsFiniteSet(1..L) /\ Cardinality(1..L) = L
  <2>1. 1 \in Int /\ L \in Int BY <1>1
  <2>2. IsFiniteSet(1..L) /\ Cardinality(1..L) = IF 1 > L THEN 0 ELSE L - 1 + 1
    BY <2>1, FS_Interval
  <2> QED BY <2>2, <1>1
<1>5. IsFiniteSet(S) /\ Cardinality(S) = L - 1 BY <1>4, FS_RemoveElement
<1>6. {g[k] : k \in 1..L} = {g[k] : k \in S} BY <1>3
<1> HIDE DEF S
<1>7. Cardinality({g[k] : k \in S}) \in Nat /\ Cardinality({g[k] : k \in S}) <= L - 1
  BY <1>5, ImageFinite
<1>8. ~(Cardinality({g[k] : k \in S}) < L) BY <1>2, <1>6 DEF L
<1> QED BY <1>1, <1>7, <1>8

LEMMA GrallocTold ==
  ASSUME NEW format \in HandleFormats, NEW s \in BufferSizes, NEW b \in Buffers(format, s),
         GrallocLayoutValid(b, format), ~FromGralloc(b).error
  PROVE  Told(b, format, s)
BY HandleAssumption, Zenon DEF Told, HandleFormats

(* What a plane that is found by its format has. *)
LEMMA FromFormatFacts ==
  ASSUME NEW format \in HandleFormats, NEW s \in BufferSizes, NEW b \in Buffers(format, s),
         ~GrallocLayoutValid(b, format), Fds(b) # <<>>
  PROVE  LET info == FrameBuffer(b, format, s)
             n    == NumPlanes(format)
         IN  /\ DOMAIN info = 1..n
             /\ \A i \in 1..n :
                  /\ info[i].dmabuf = b.dmabuf[PlaneFd(b, format, i)]
                  /\ info[i].offset = OffsetOf(b, format, s, i)
                  /\ info[i].length = IF PlaneSize(format, s, i) <= Room(b, format, s, i)
                                      THEN PlaneSize(format, s, i) ELSE Room(b, format, s, i)
                  /\ info[i].offset \in Nat
                  /\ LengthOf(b, PlaneFd(b, format, i)) \in Int
                  /\ Room(b, format, s, i) \in Int
<1> DEFINE n == NumPlanes(format)
           info == FrameBuffer(b, format, s)
           k == Constructed(b, format, s)
<1>1. k = FromFormat(b, format, s) BY DEF Constructed
<1>2. k.planeInfo = [i \in 1..n |-> PlaneFromFormat(b, format, s, i)]
  BY <1>1 DEF FromFormat
<1>3. n \in 1..2 /\ \A i \in 1..n : PlaneSize(format, s, i) \in Nat \ {0} BY PlaneFacts
<1>4. info = [i \in 1..n |->
                [dmabuf |-> b.dmabuf[k.planeInfo[i].fd], offset |-> k.planeInfo[i].offset,
                 length |-> k.planeInfo[i].size, stride |-> k.planeInfo[i].stride]]
  BY <1>2 DEF FrameBuffer
<1>5. Fds(b) \in EachOnce /\ \A fd \in ToSet(Fds(b)) : LengthOf(b, fd) \in Int
  <2>1. b.fds \in Seq(Int) /\ \A fd \in ToSet(Fds(b)) : LengthOf(b, fd) \in Int
    BY HandleAssumption DEF HandleFormats
  <2> QED BY <2>1, FdsEachOnce
<1>6. ASSUME NEW i \in 1..n
      PROVE  /\ PlaneFd(b, format, i) \in ToSet(Fds(b))
             /\ OffsetOf(b, format, s, i) \in Nat
  <2>1. Fds(b) \in Seq(Nat) BY <1>5 DEF EachOnce
  <2>2. 1 \in DOMAIN Fds(b) BY <2>1
  <2>3. PerPlaneFds(b, format) => i \in DOMAIN Fds(b) BY <2>1, <1>3 DEF PerPlaneFds
  <2>4. PlaneFd(b, format, i) \in ToSet(Fds(b)) BY <2>2, <2>3 DEF PlaneFd, ToSet
  <2>5. OffsetOf(b, format, s, i) \in Nat
    <3>1. 1 \in 1..n BY <1>3
    <3>2. PlaneSize(format, s, 1) \in Nat BY <1>3, <3>1
    <3> QED BY <3>2 DEF OffsetOf
  <2> QED BY <2>4, <2>5
<1> HIDE DEF n, k, info
<1>7. ASSUME NEW i \in 1..n
      PROVE  /\ info[i].dmabuf = b.dmabuf[PlaneFd(b, format, i)]
             /\ info[i].offset = OffsetOf(b, format, s, i)
             /\ info[i].length = Min({PlaneSize(format, s, i), Room(b, format, s, i)})
  <2>1. k.planeInfo[i] = PlaneFromFormat(b, format, s, i) BY <1>2
  <2>2. info[i].dmabuf = b.dmabuf[k.planeInfo[i].fd] /\ info[i].offset = k.planeInfo[i].offset
        /\ info[i].length = k.planeInfo[i].size
    BY <1>4
  <2> QED BY <2>1, <2>2 DEF PlaneFromFormat
<1>8. ASSUME NEW i \in 1..n
      PROVE  LengthOf(b, PlaneFd(b, format, i)) \in Int /\ Room(b, format, s, i) \in Int
  <2>1. LengthOf(b, PlaneFd(b, format, i)) \in Int BY <1>5, <1>6
  <2> QED BY <2>1, <1>6 DEF Room
<1>9. DOMAIN info = 1..n BY <1>4
<1>10. ASSUME NEW i \in 1..n
       PROVE  info[i].length = IF PlaneSize(format, s, i) <= Room(b, format, s, i)
                               THEN PlaneSize(format, s, i) ELSE Room(b, format, s, i)
  <2>1. PlaneSize(format, s, i) \in Int BY <1>3
  <2>2. Min({PlaneSize(format, s, i), Room(b, format, s, i)})
          = IF PlaneSize(format, s, i) <= Room(b, format, s, i)
            THEN PlaneSize(format, s, i) ELSE Room(b, format, s, i)
    BY <2>1, <1>8, SmallerOf
  <2> QED BY <1>7, <2>2
<1> QED BY <1>6, <1>7, <1>8, <1>9, <1>10 DEF n, info

LEMMA FormatTold ==
  ASSUME NEW format \in HandleFormats, NEW s \in BufferSizes, NEW b \in Buffers(format, s),
         ~GrallocLayoutValid(b, format), Fds(b) # <<>>,
         \A i \in 1..NumPlanes(format) : ~(Room(b, format, s, i) <= 0),
         ~(Cardinality({b.dmabuf[fd] : fd \in ToSet(Fds(b))}) < Len(Fds(b)))
  PROVE  Told(b, format, s)
<1> DEFINE n == NumPlanes(format)
           info == FrameBuffer(b, format, s)
           P(i) == PlaneSize(format, s, i)
           R(i) == Room(b, format, s, i)
           O(i) == OffsetOf(b, format, s, i)
           D(i) == PlaneFd(b, format, i)
<1>1. /\ DOMAIN info = 1..n
      /\ \A i \in 1..n :
           /\ info[i].dmabuf = b.dmabuf[D(i)] /\ info[i].offset = O(i)
           /\ info[i].length = IF P(i) <= R(i) THEN P(i) ELSE R(i)
           /\ info[i].offset \in Nat /\ LengthOf(b, D(i)) \in Int /\ R(i) \in Int
  BY FromFormatFacts
<1>2. n \in 1..2 /\ \A i \in 1..n : P(i) \in Nat \ {0} BY PlaneFacts
<1>3. \A i \in 1..n : R(i) > 0 BY <1>1
<1>4. \A i \in 1..n : R(i) = b.length[info[i].dmabuf] - info[i].offset /\ b.length[info[i].dmabuf] \in Int
  BY <1>1 DEF Room, LengthOf
<1>5. O(1) = 0 /\ (PerPlaneFds(b, format) \/ O(2) = P(1)) BY DEF OffsetOf
<1>6. PerPlaneFds(b, format) /\ n = 2 => b.dmabuf[D(1)] # b.dmabuf[D(2)]
  <2> SUFFICES ASSUME PerPlaneFds(b, format), n = 2 PROVE b.dmabuf[D(1)] # b.dmabuf[D(2)] OBVIOUS
  <2>0. b.fds \in Seq(Int) BY HandleAssumption DEF HandleFormats
  <2>1. Fds(b) \in EachOnce BY <2>0, FdsEachOnce
  <2>2. \A i, j \in 1..Len(Fds(b)) : i # j => b.dmabuf[Fds(b)[i]] # b.dmabuf[Fds(b)[j]]
    BY <2>1, DistinctDmabufs
  <2>3. Len(Fds(b)) \in Nat /\ Len(Fds(b)) >= 2 BY <2>1 DEF PerPlaneFds, EachOnce
  <2>4. 1 \in 1..Len(Fds(b)) /\ 2 \in 1..Len(Fds(b)) BY <2>3
  <2>5. D(1) = Fds(b)[1] /\ D(2) = Fds(b)[2] BY DEF PlaneFd
  <2> QED BY <2>2, <2>4, <2>5
<1> HIDE DEF n, info, P, R, O, D
<1>7. ASSUME NEW i \in DOMAIN info
      PROVE  info[i].length > 0 /\ info[i].offset + info[i].length <= b.length[info[i].dmabuf]
  <2>1. i \in 1..n BY <1>1
  <2>2. P(i) \in Nat \ {0} /\ R(i) \in Int /\ R(i) > 0 /\ info[i].offset \in Nat
        /\ info[i].length = (IF P(i) <= R(i) THEN P(i) ELSE R(i))
        /\ R(i) = b.length[info[i].dmabuf] - info[i].offset /\ b.length[info[i].dmabuf] \in Int
    BY <2>1, <1>1, <1>2, <1>3, <1>4
  <2>3. info[i].length \in Int /\ info[i].length > 0 /\ info[i].length <= R(i) BY <2>2
  <2> QED BY <2>2, <2>3
<1>8. ASSUME NEW i \in DOMAIN info, NEW j \in DOMAIN info, i < j, info[i].dmabuf = info[j].dmabuf
      PROVE  info[i].offset + info[i].length <= info[j].offset
  <2>1. i = 1 /\ j = 2 /\ n = 2 /\ 1 \in 1..n /\ 2 \in 1..n
    <3>1. i \in 1..n /\ j \in 1..n BY <1>1
    <3> QED BY <1>2, <1>8, <3>1
  <2>2. b.dmabuf[D(1)] = b.dmabuf[D(2)] BY <2>1, <1>1, <1>8
  <2>3. O(2) = P(1) BY <2>1, <2>2, <1>5, <1>6
  <2>4. info[1].offset = 0 /\ info[2].offset = P(1) BY <2>1, <2>3, <1>1, <1>5
  <2>5. info[1].length <= P(1) /\ info[1].length \in Int BY <2>1, <1>1, <1>2
  <2> QED BY <2>1, <2>4, <2>5, <1>2
<1> QED BY <1>7, <1>8 DEF Told, info

(* Planes that have room are not cut. *)
LEMMA FormatWhole ==
  ASSUME NEW format \in HandleFormats, NEW s \in BufferSizes, NEW b \in Buffers(format, s),
         ~GrallocLayoutValid(b, format), Fds(b) # <<>>,
         LET n == NumPlanes(format)
         IN  IF n = 1 \/ Len(Fds(b)) = 1
             THEN LengthOf(b, Fds(b)[1])
                    >= PlaneSize(format, s, 1) + IF n = 2 THEN PlaneSize(format, s, 2) ELSE 0
             ELSE \A i \in 1..n : LengthOf(b, Fds(b)[i]) >= PlaneSize(format, s, i)
  PROVE  \A i \in 1..NumPlanes(format) : PlaneSize(format, s, i) <= Room(b, format, s, i)
<1> DEFINE n == NumPlanes(format)
           P(i) == PlaneSize(format, s, i)
           R(i) == Room(b, format, s, i)
           O(i) == OffsetOf(b, format, s, i)
           D(i) == PlaneFd(b, format, i)
<1>1. \A i \in 1..n : LengthOf(b, D(i)) \in Int /\ R(i) \in Int BY FromFormatFacts
<1>2. n \in 1..2 /\ \A i \in 1..n : P(i) \in Nat \ {0} BY PlaneFacts
<1>3. \A i \in 1..n : R(i) = LengthOf(b, D(i)) - O(i) BY DEF Room
<1>4. Len(Fds(b)) \in Nat /\ Len(Fds(b)) # 0
  <2>1. b.fds \in Seq(Int) BY HandleAssumption DEF HandleFormats
  <2>2. Fds(b) \in Seq(Nat) BY <2>1, FdsEachOnce DEF EachOnce
  <2>3. Len(Fds(b)) = 0 => Fds(b) = <<>> BY <2>2
  <2> QED BY <2>2, <2>3
<1>5. PerPlaneFds(b, format) <=> ~(n = 1 \/ Len(Fds(b)) = 1)
  <2> DEFINE L == Len(Fds(b))
  <2>1. PerPlaneFds(b, format) <=> n > 1 /\ L >= n BY DEF PerPlaneFds
  <2>2. n \in {1, 2} /\ L \in Nat /\ L # 0 BY <1>2, <1>4
  <2> HIDE DEF n, L
  <2>3. n > 1 /\ L >= n <=> ~(n = 1 \/ L = 1) BY <2>2
  <2> QED BY <2>1, <2>3 DEF L
<1>6. CASE n = 1 \/ Len(Fds(b)) = 1
  <2>1. LengthOf(b, Fds(b)[1]) >= P(1) + IF n = 2 THEN P(2) ELSE 0 BY <1>6
  <2>2. \A i \in 1..n : D(i) = Fds(b)[1] /\ O(i) = IF i = 2 THEN P(1) ELSE 0
    BY <1>5, <1>6 DEF PlaneFd, OffsetOf
  <2> HIDE DEF n, P, R, O, D
  <2>3. \A i \in 1..n : P(i) <= R(i)
    <3> TAKE i \in 1..n
    <3>1. R(i) = LengthOf(b, Fds(b)[1]) - (IF i = 2 THEN P(1) ELSE 0) /\ LengthOf(b, Fds(b)[1]) \in Int
      BY <1>1, <1>3, <2>2
    <3>2. 1 \in 1..n /\ (i = 1 \/ (i = 2 /\ n = 2)) BY <1>2
    <3>3. P(i) \in Nat /\ P(1) \in Nat BY <1>2, <3>2
    <3>4. CASE i = 1
      <4>1. n = 2 => P(2) \in Nat BY <1>2
      <4> QED BY <2>1, <3>1, <3>3, <3>4, <4>1
    <3>5. CASE i = 2 /\ n = 2 BY <2>1, <3>1, <3>3, <3>5
    <3> QED BY <3>2, <3>4, <3>5
  <2> QED BY <2>3 DEF n, P, R
<1>7. CASE ~(n = 1 \/ Len(Fds(b)) = 1)
  <2>1. \A i \in 1..n : LengthOf(b, Fds(b)[i]) >= P(i) BY <1>7
  <2>2. \A i \in 1..n : D(i) = Fds(b)[i] /\ O(i) = 0 BY <1>5, <1>7 DEF PlaneFd, OffsetOf
  <2> HIDE DEF n, P, R, O, D
  <2>3. \A i \in 1..n : P(i) <= R(i)
    <3> TAKE i \in 1..n
    <3>1. R(i) = LengthOf(b, Fds(b)[i]) - 0 /\ LengthOf(b, Fds(b)[i]) \in Int BY <1>1, <1>3, <2>2
    <3>2. LengthOf(b, Fds(b)[i]) >= P(i) /\ P(i) \in Nat BY <1>2, <2>1
    <3> QED BY <3>1, <3>2
  <2> QED BY <2>3 DEF n, P, R
<1> QED BY <1>6, <1>7

(* What is known of a handle that was looked at: what it was constructed with. *)
BufferInv ==
  LET k == Constructed(camera3Buffer, pixelFormat, size)
  IN  /\ pixelFormat \in HandleFormats /\ size \in BufferSizes
      /\ camera3Buffer \in Buffers(pixelFormat, size)
      /\ bufferState \in {"new", "built", "refused", "mapped", "unmapped"}
      /\ bufferState = "refused" => k.error /\ buffer.error
      /\ bufferState \in {"built", "mapped", "unmapped"} =>
           /\ ~k.error
           /\ buffer.planeInfo = k.planeInfo /\ buffer.fd = k.fd
      /\ bufferState = "mapped" =>
           planes = [i \in DOMAIN k.planeInfo |->
                       [dmabuf |-> camera3Buffer.dmabuf[k.fd],
                        offset |-> k.planeInfo[i].offset, size |-> k.planeInfo[i].size]]

LEMMA BufferInitInv == BufferInit => BufferInv
BY DEF BufferInit, BufferInv, HandleFormats

LEMMA BufferNextInv ==
  ASSUME BufferInv, [BufferNext]_bufferVars
  PROVE  BufferInv'
<1> DEFINE k == Constructed(camera3Buffer, pixelFormat, size)
<1>1. CASE Construct
  <2>1. k' = k /\ buffer' = k BY <1>1 DEF Construct
  <2> HIDE DEF k
  <2>2. CASE k.error
    <3>1. bufferState' = "refused" /\ buffer'.error BY <1>1, <2>1, <2>2 DEF Construct
    <3> QED BY <1>1, <2>1, <2>2, <3>1 DEF Construct, BufferInv, k
  <2>3. CASE ~k.error
    <3>1. bufferState' = "built" BY <1>1, <2>1, <2>3 DEF Construct
    <3> QED BY <1>1, <2>1, <2>3, <3>1 DEF Construct, BufferInv, k
  <2> QED BY <2>2, <2>3
<1>2. CASE Map
  <2>1. /\ bufferState \in {"built", "unmapped"} /\ bufferState' = "mapped"
        /\ UNCHANGED <<camera3Buffer, pixelFormat, size, buffer>>
        /\ planes' = [i \in DOMAIN buffer.planeInfo |->
                        [dmabuf |-> camera3Buffer.dmabuf[buffer.fd],
                         offset |-> buffer.planeInfo[i].offset,
                         size   |-> buffer.planeInfo[i].size]]
    BY <1>2 DEF Map
  <2>2. k' = k BY <2>1
  <2>3. ~k.error /\ buffer.planeInfo = k.planeInfo /\ buffer.fd = k.fd BY <2>1 DEF BufferInv
  <2>4. planes' = [i \in DOMAIN k.planeInfo |->
                     [dmabuf |-> camera3Buffer.dmabuf[k.fd],
                      offset |-> k.planeInfo[i].offset, size |-> k.planeInfo[i].size]]
    BY <2>1, <2>3, Zenon
  <2>5. pixelFormat \in HandleFormats /\ size \in BufferSizes /\ camera3Buffer \in Buffers(pixelFormat, size)
    BY DEF BufferInv
  <2> QED BY <2>1, <2>2, <2>3, <2>4, <2>5 DEF BufferInv
<1>3. CASE MapFails
  <2>1. /\ bufferState \in {"built", "unmapped"} /\ bufferState' = "unmapped"
        /\ UNCHANGED <<camera3Buffer, pixelFormat, size>>
        /\ buffer' = [buffer EXCEPT !.error = TRUE]
    BY <1>3 DEF MapFails
  <2>2. k' = k BY <2>1
  <2>3. ~k.error /\ buffer.planeInfo = k.planeInfo /\ buffer.fd = k.fd BY <2>1 DEF BufferInv
  <2>4. buffer'.planeInfo = buffer.planeInfo /\ buffer'.fd = buffer.fd BY <2>1
  <2> QED BY <2>1, <2>2, <2>3, <2>4 DEF BufferInv
<1>4. CASE UNCHANGED bufferVars BY <1>4 DEF bufferVars, BufferInv
<1> QED BY <1>1, <1>2, <1>3, <1>4 DEF BufferNext

-----------------------------------------------------------------------------
(* What is told of a handle of which the construction did not fail. *)
LEMMA ToldOfConstructed ==
  ASSUME NEW format \in HandleFormats, NEW s \in BufferSizes, NEW b \in Buffers(format, s),
         ~Constructed(b, format, s).error
  PROVE  LET k    == Constructed(b, format, s)
             info == FrameBuffer(b, format, s)
         IN  /\ DOMAIN info = DOMAIN k.planeInfo
             /\ 1 \in DOMAIN info
             /\ info[1].dmabuf = b.dmabuf[k.fd]
             /\ \A i \in DOMAIN info : /\ info[i].offset = k.planeInfo[i].offset
                                       /\ info[i].length = k.planeInfo[i].size
<1> DEFINE n == NumPlanes(format)
           k == Constructed(b, format, s)
           info == FrameBuffer(b, format, s)
<1>1. info = [i \in DOMAIN k.planeInfo |->
                [dmabuf |-> b.dmabuf[k.planeInfo[i].fd], offset |-> k.planeInfo[i].offset,
                 length |-> k.planeInfo[i].size, stride |-> k.planeInfo[i].stride]]
  BY DEF FrameBuffer
<1>2. n \in 1..2 BY PlaneFacts
<1>3. 1 \in DOMAIN k.planeInfo /\ k.planeInfo[1].fd = k.fd
  <2>1. CASE GrallocLayoutValid(b, format)
    <3>1. k = FromGralloc(b) BY <2>1 DEF Constructed
    <3>2. k.planeInfo = b.gralloc /\ k.fd = b.gralloc[1].fd BY <3>1 DEF FromGralloc
    <3>3. b.gralloc # None => DOMAIN b.gralloc = 1..Len(b.gralloc)
      BY HandleAssumption, Zenon DEF HandleFormats
    <3>4. DOMAIN b.gralloc = 1..n BY <2>1, <3>3 DEF GrallocLayoutValid
    <3>5. 1 \in 1..n BY <1>2
    <3> QED BY <3>2, <3>4, <3>5
  <2>2. CASE ~GrallocLayoutValid(b, format)
    <3>1. k = FromFormat(b, format, s) BY <2>2 DEF Constructed
    <3>2. Fds(b) # <<>> BY <3>1 DEF FromFormat
    <3>3. /\ k.planeInfo = [i \in 1..n |-> PlaneFromFormat(b, format, s, i)]
          /\ k.fd = Fds(b)[1]
      BY <3>1, <3>2 DEF FromFormat
    <3>4. 1 \in 1..n BY <1>2
    <3>5. PlaneFromFormat(b, format, s, 1).fd = Fds(b)[1] BY DEF PlaneFromFormat, PlaneFd
    <3> QED BY <3>3, <3>4, <3>5
  <2> QED BY <2>1, <2>2
<1> HIDE DEF k, info
<1> QED BY <1>1, <1>3 DEF k, info

LEMMA BufferInvFits ==
  ASSUME BufferInv
  PROVE  PlanesFit
<1> DEFINE b == camera3Buffer
           k == Constructed(b, pixelFormat, size)
           tells == FrameBuffer(b, pixelFormat, size)
           gralloc == GrallocLayoutValid(b, pixelFormat)
<1> SUFFICES ASSUME bufferState # "new", ~Ambiguous
             PROVE  PlanesFit
  BY DEF PlanesFit
<1>1. pixelFormat \in HandleFormats /\ size \in BufferSizes /\ b \in Buffers(pixelFormat, size)
  BY DEF BufferInv
<1>2. ASSUME ~buffer.error PROVE Told(b, pixelFormat, size)
  <2>1. ~k.error BY <1>2 DEF BufferInv
  <2>2. CASE gralloc
    <3>1. ~FromGralloc(b).error BY <2>1, <2>2 DEF Constructed
    <3> QED BY <1>1, <2>2, <3>1, GrallocTold
  <2>3. CASE ~gralloc
    <3>1. ~FromFormat(b, pixelFormat, size).error BY <2>1, <2>3 DEF Constructed
    <3>2. Fds(b) # <<>> BY <3>1 DEF FromFormat
    <3>3. \A i \in 1..NumPlanes(pixelFormat) : ~(Room(b, pixelFormat, size, i) <= 0)
      BY <3>1, <3>2 DEF FromFormat
    <3>4. ~(Cardinality({b.dmabuf[fd] : fd \in ToSet(Fds(b))}) < Len(Fds(b)))
      BY <2>3 DEF Ambiguous
    <3> QED BY <1>1, <2>3, <3>2, <3>3, <3>4, FormatTold
  <2> QED BY <2>2, <2>3
<1>3. ASSUME ~gralloc, HasRoom
      PROVE  /\ bufferState # "refused"
             /\ \A i \in DOMAIN tells : tells[i].length = PlaneSize(pixelFormat, size, i)
  <2>1. Fds(b) # <<>> BY <1>3 DEF HasRoom
  <2>2. \A i \in 1..NumPlanes(pixelFormat) :
          PlaneSize(pixelFormat, size, i) <= Room(b, pixelFormat, size, i)
    BY <1>1, <1>3, <2>1, FormatWhole DEF HasRoom
  <2>3. /\ DOMAIN tells = 1..NumPlanes(pixelFormat)
        /\ \A i \in 1..NumPlanes(pixelFormat) :
             /\ tells[i].length = IF PlaneSize(pixelFormat, size, i) <= Room(b, pixelFormat, size, i)
                                  THEN PlaneSize(pixelFormat, size, i)
                                  ELSE Room(b, pixelFormat, size, i)
             /\ Room(b, pixelFormat, size, i) \in Int
    BY <1>1, <1>3, <2>1, FromFormatFacts
  <2>4. \A i \in 1..NumPlanes(pixelFormat) : PlaneSize(pixelFormat, size, i) \in Nat \ {0}
    BY <1>1, PlaneFacts
  <2>5. \A i \in 1..NumPlanes(pixelFormat) : ~(Room(b, pixelFormat, size, i) <= 0)
    BY <2>2, <2>3, <2>4
  <2>6. ~k.error BY <1>3, <2>1, <2>5 DEF Constructed, FromFormat
  <2>7. bufferState # "refused" BY <2>6 DEF BufferInv
  <2> QED BY <2>2, <2>3, <2>7
<1>4. ASSUME bufferState = "mapped", \A i \in DOMAIN tells : tells[i].dmabuf = tells[1].dmabuf
      PROVE  \A i \in DOMAIN tells :
               planes[i] = [dmabuf |-> tells[i].dmabuf, offset |-> tells[i].offset,
                            size |-> tells[i].length]
  <2>1. /\ ~k.error
        /\ planes = [i \in DOMAIN k.planeInfo |->
                       [dmabuf |-> b.dmabuf[k.fd],
                        offset |-> k.planeInfo[i].offset, size |-> k.planeInfo[i].size]]
    BY <1>4 DEF BufferInv
  <2>2. /\ DOMAIN tells = DOMAIN k.planeInfo /\ tells[1].dmabuf = b.dmabuf[k.fd]
        /\ \A i \in DOMAIN tells : /\ tells[i].offset = k.planeInfo[i].offset
                                   /\ tells[i].length = k.planeInfo[i].size
    BY <1>1, <2>1, ToldOfConstructed
  <2> HIDE DEF k, tells, b
  <2> QED BY <1>4, <2>1, <2>2
<1> QED BY <1>2, <1>3, <1>4, Zenon DEF PlanesFit, Told

(* However its descriptors are shared and however long its dmabufs are, the
   planes of a valid buffer lie within their dmabuf and apart from each other
   (CameraBuffer, createFrameBuffer).                                       *)
THEOREM PlanesFitTheirBuffers == BufferSpec => []PlanesFit
<1>1. BufferInit => BufferInv BY BufferInitInv
<1>2. BufferInv /\ [BufferNext]_bufferVars => BufferInv' BY BufferNextInv
<1>3. BufferInv => PlanesFit BY BufferInvFits
<1> QED BY <1>1, <1>2, <1>3, PTL DEF BufferSpec

-----------------------------------------------------------------------------
(* SoftIsp.  The bands of the workers cover the frame; the four pixels      *)
(* about a place are next to it; the bytes that are written lie within      *)
(* their planes, each apart from the others, where the reader of the buffer *)
(* looks for them.                                                          *)

(* The least of two numbers is one of them. *)
LEMMA Lesser ==
  ASSUME NEW a \in Int, NEW c \in Int
  PROVE  Min({a, c}) = IF a <= c THEN a ELSE c
BY DEF Min

-----------------------------------------------------------------------------
(* The bands of the workers are one after the other, from the first row to the
   last.                                                                    *)
LEMMA Bands ==
  ASSUME inputSize.height \in Nat, inputSize.height >= 2
  PROVE  /\ workerCount \in 2..4
         /\ First(0) = 0 /\ First(workerCount) = inputSize.height
         /\ \A w \in 0..(workerCount - 1) :
              First(w) \in Nat /\ First(w + 1) \in Nat /\ First(w) <= First(w + 1)
<1> DEFINE h == inputSize.height
<1>1. workerCount = IF 4 <= h THEN 4 ELSE h BY Lesser DEF workerCount
<1>2. CASE workerCount = 2
  <2>1. /\ First(0) = 0 /\ First(1) = h \div 2 /\ First(2) = h
    BY <1>2 DEF First
  <2> QED BY <1>2, <2>1
<1>3. CASE workerCount = 3
  <2>1. /\ First(0) = 0 /\ First(1) = h \div 3 /\ First(2) = (h * 2) \div 3 /\ First(3) = h
    BY <1>3 DEF First
  <2> QED BY <1>3, <2>1
<1>4. CASE workerCount = 4
  <2>1. /\ First(0) = 0 /\ First(1) = h \div 4 /\ First(2) = (h * 2) \div 4
        /\ First(3) = (h * 3) \div 4 /\ First(4) = h
    BY <1>4 DEF First
  <2> QED BY <1>4, <2>1
<1> QED BY <1>1, <1>2, <1>3, <1>4

(* The rows of the bands are all rows. *)
LEMMA BandsAreAll ==
  ASSUME inputSize.height \in Nat, inputSize.height >= 2
  PROVE  UNION {First(w)..(First(w + 1) - 1) : w \in 0..(workerCount - 1)}
           = 0..(inputSize.height - 1)
<1> DEFINE h == inputSize.height
           Band(w) == First(w)..(First(w + 1) - 1)
<1>1. /\ workerCount \in 2..4 /\ h \in Nat
      /\ First(0) = 0 /\ First(workerCount) = h
      /\ \A w \in 0..(workerCount - 1) :
           First(w) \in Nat /\ First(w + 1) \in Nat /\ First(w) <= First(w + 1)
  BY Bands
<1> HIDE DEF h
<1>2. CASE workerCount = 2
  <2>1. 0..(workerCount - 1) = {0, 1} BY <1>2
  <2>2. First(0) = 0 /\ First(1) \in Nat /\ First(2) = h /\ First(1) <= First(2) /\ 0 + 1 = 1 /\ 1 + 1 = 2
    BY <1>1, <1>2, <2>1
  <2>3. UNION {Band(w) : w \in {0, 1}} = Band(0) \cup Band(1) OBVIOUS
  <2>4. Band(0) = 0..(First(1) - 1) /\ Band(1) = First(1)..(h - 1) BY <2>2
  <2>5. (0..(First(1) - 1)) \cup (First(1)..(h - 1)) = 0..(h - 1) BY <1>1, <2>2
  <2> QED BY <2>1, <2>3, <2>4, <2>5 DEF h
<1>3. CASE workerCount = 3
  <2>1. 0..(workerCount - 1) = {0, 1, 2} BY <1>3
  <2>2. /\ First(0) = 0 /\ First(1) \in Nat /\ First(2) \in Nat /\ First(3) = h
        /\ First(1) <= First(2) /\ First(2) <= First(3) /\ 0 + 1 = 1 /\ 1 + 1 = 2 /\ 2 + 1 = 3
    BY <1>1, <1>3, <2>1
  <2>3. UNION {Band(w) : w \in {0, 1, 2}} = Band(0) \cup Band(1) \cup Band(2) OBVIOUS
  <2>4. /\ Band(0) = 0..(First(1) - 1) /\ Band(1) = First(1)..(First(2) - 1)
        /\ Band(2) = First(2)..(h - 1)
    BY <2>2
  <2>5. (0..(First(1) - 1)) \cup (First(1)..(First(2) - 1)) \cup (First(2)..(h - 1)) = 0..(h - 1)
    BY <1>1, <2>2
  <2> QED BY <2>1, <2>3, <2>4, <2>5 DEF h
<1>4. CASE workerCount = 4
  <2>1. 0..(workerCount - 1) = {0, 1, 2, 3} BY <1>4
  <2>2. /\ First(0) = 0 /\ First(1) \in Nat /\ First(2) \in Nat /\ First(3) \in Nat /\ First(4) = h
        /\ First(1) <= First(2) /\ First(2) <= First(3) /\ First(3) <= First(4)
        /\ 0 + 1 = 1 /\ 1 + 1 = 2 /\ 2 + 1 = 3 /\ 3 + 1 = 4
    BY <1>1, <1>4, <2>1
  <2>3. UNION {Band(w) : w \in {0, 1, 2, 3}} = Band(0) \cup Band(1) \cup Band(2) \cup Band(3) OBVIOUS
  <2>4. /\ Band(0) = 0..(First(1) - 1) /\ Band(1) = First(1)..(First(2) - 1)
        /\ Band(2) = First(2)..(First(3) - 1) /\ Band(3) = First(3)..(h - 1)
    BY <2>2
  <2>5. (0..(First(1) - 1)) \cup (First(1)..(First(2) - 1)) \cup (First(2)..(First(3) - 1))
          \cup (First(3)..(h - 1)) = 0..(h - 1)
    BY <1>1, <2>2
  <2> QED BY <2>1, <2>3, <2>4, <2>5 DEF h
<1> QED BY <1>1, <1>2, <1>3, <1>4

-----------------------------------------------------------------------------
(* Beside a pixel, or on it, is every colour. *)
LEMMA EveryColour ==
  ASSUME order \in Mosaics,
         inputSize.height \in Nat, inputSize.height >= 2,
         inputSize.width \in Nat, inputSize.width >= 2,
         NEW r \in 0..(inputSize.height - 1), NEW c \in 0..(inputSize.width - 1),
         NEW target \in {"R", "G", "B"}
  PROVE  Samples(r, c, target) # {}
<1> DEFINE Beside(x, n, a) == IF x % 2 = a THEN x ELSE IF x = 0 THEN 1 ELSE x - 1
<1>1. PICK i \in 1..4 : order[i] = target BY DEF Mosaics
<1>2. PICK a \in 0..1, b \in 0..1 : i = 2 * a + b + 1
  <2>1. i = 2 * 0 + 0 + 1 \/ i = 2 * 0 + 1 + 1 \/ i = 2 * 1 + 0 + 1 \/ i = 2 * 1 + 1 + 1 OBVIOUS
  <2>2. 0 \in 0..1 /\ 1 \in 0..1 OBVIOUS
  <2> QED BY <2>1, <2>2
<1>3. ASSUME NEW n \in Nat, n >= 2, NEW x \in 0..(n - 1), NEW p \in 0..1
      PROVE  /\ Beside(x, n, p) \in 0..(n - 1) /\ Beside(x, n, p) \in (x - 1)..(x + 1)
             /\ Beside(x, n, p) % 2 = p
  BY <1>3
<1> DEFINE r2 == Beside(r, inputSize.height, a)
           c2 == Beside(c, inputSize.width, b)
<1>4. /\ r2 \in 0..(inputSize.height - 1) /\ r2 \in (r - 1)..(r + 1) /\ r2 % 2 = a
      /\ c2 \in 0..(inputSize.width - 1) /\ c2 \in (c - 1)..(c + 1) /\ c2 % 2 = b
  BY <1>3
<1> HIDE DEF r2, c2
<1>5. colorAt(r2, c2) = target BY <1>1, <1>2, <1>4 DEF colorAt
<1>6. CASE colorAt(r, c) = target BY <1>6 DEF Samples
<1>7. CASE colorAt(r, c) # target
  <2>1. <<r2, c2>> \in ((r - 1)..(r + 1)) \X ((c - 1)..(c + 1)) BY <1>4
  <2>2. InFrame(r2, c2) BY <1>4 DEF InFrame
  <2>3. <<r2, c2>> \in Samples(r, c, target) BY <1>5, <1>7, <2>1, <2>2 DEF Samples
  <2> QED BY <2>3
<1> QED BY <1>6, <1>7

(* The input coordinates of an output coordinate are there, and nearest to its
   place.                                                                   *)
LEMMA WeightedIsNear ==
  ASSUME NEW to \in Nat \ {0}, NEW from \in Nat \ {0}, NEW d \in 0..(to - 1)
  PROVE  /\ Weighted(Position(d, from, to), from) # {}
         /\ Weighted(Position(d, from, to), from) \subseteq Near(d, from, to)
<1> DEFINE P == Position(d, from, to)
           x == P \div One
           M == to - 1
           N == d * (from - 1)
<1>1. x \in Weighted(P, from) BY DEF Weighted
<1>2. CASE ~(to > 1 /\ from > 1)
  <2>1. P = 0 BY <1>2 DEF Position
  <2>2. 0 \div One = 0 /\ 0 % One = 0 BY IspAssumption
  <2>3. Weighted(0, from) = {0} BY <2>2 DEF Weighted
  <2>4. Near(d, from, to) = {0} BY <1>2 DEF Near
  <2> QED BY <2>1, <2>3, <2>4
<1>3. CASE to > 1 /\ from > 1
  <2>1. M \in Nat \ {0} /\ One \in Nat \ {0} /\ N \in Nat /\ N * One \in Nat
    BY <1>3, IspAssumption, ProductIsNat
  <2>2. P = (N * One) \div M BY <1>3 DEF Position
  <2>3. Near(d, from, to) = {y \in 0..(from - 1) : N - y * M < M /\ -(N - y * M) < M}
    BY <1>3 DEF Near
  <2>4. N <= M * (from - 1)
    <3>1. d <= M /\ d \in Nat /\ M \in Nat /\ from - 1 \in Nat OBVIOUS
    <3> HIDE DEF M
    <3> QED BY <3>1, TimesGrows DEF N
  <2> HIDE DEF M, N, P, x
  <2>5. P \in Nat /\ P * M <= N * One /\ N * One < P * M + M
    <3> DEFINE K == N * One
    <3>0. K \in Nat /\ M \in Nat \ {0} /\ P = K \div M BY <2>1, <2>2
    <3> HIDE DEF K
    <3>1. K \div M \in Nat /\ K % M \in 0..(M - 1) /\ K = (K \div M) * M + (K % M)
      BY <3>0, Divided
    <3>2. P * M \in Nat BY <3>0, <3>1, ProductIsNat
    <3>3. P \in Nat /\ P * M <= K /\ K < P * M + M BY <3>0, <3>1, <3>2
    <3> QED BY <3>3 DEF K
  <2>6. x \in Nat /\ P % One \in 0..(One - 1) /\ P = x * One + (P % One)
    BY <2>1, <2>5, Divided DEF x
  <2>7. x * M \in Nat /\ x * One \in Nat BY <2>1, <2>6, ProductIsNat
  (* x is the quotient of N and M. *)
  <2>8. (x * M) * One <= N * One /\ N * One < (x * M + M) * One
    <3>1. x * One <= P /\ P + 1 <= x * One + One BY <2>1, <2>5, <2>6, <2>7
    <3>2. (x * One) * M <= P * M BY <3>1, <2>1, <2>5, <2>7, TimesGrows
    <3>3. (P + 1) * M <= (x * One + One) * M BY <3>1, <2>1, <2>5, <2>7, TimesGrows
    <3>4. (P + 1) * M = P * M + M /\ (x * One) * M = (x * M) * One
          /\ (x * One + One) * M = (x * M + M) * One
      BY <2>1, <2>5, <2>6
    <3>5. P * M \in Nat /\ (x * M) * One \in Nat /\ (x * M + M) * One \in Nat
      BY <2>1, <2>5, <2>7, ProductIsNat
    <3> QED BY <2>1, <2>5, <3>2, <3>3, <3>4, <3>5
  <2>9. x * M <= N /\ N < x * M + M
    <3>1. ~(N < x * M)
      <4> SUFFICES ASSUME N < x * M PROVE FALSE OBVIOUS
      <4>1. N * One + One <= (x * M) * One BY <2>1, <2>7, NextRow
      <4> QED BY <4>1, <2>1, <2>7, <2>8, ProductIsNat
    <3>2. ~(x * M + M <= N)
      <4> SUFFICES ASSUME x * M + M <= N PROVE FALSE OBVIOUS
      <4>1. (x * M + M) * One <= N * One BY <2>1, <2>7, TimesGrows
      <4>2. (x * M + M) * One \in Nat BY <2>1, <2>7, ProductIsNat
      <4> QED BY <4>1, <4>2, <2>1, <2>8
    <3> QED BY <2>1, <2>7, <3>1, <3>2
  <2>10. x <= from - 1
    <3>1. ~(from - 1 < x)
      <4> SUFFICES ASSUME from - 1 < x PROVE FALSE OBVIOUS
      <4>1. (from - 1) * M + M <= x * M BY <1>3, <2>1, <2>6, NextRow
      <4>2. (from - 1) * M \in Nat /\ M * (from - 1) = (from - 1) * M BY <1>3, <2>1
      <4> QED BY <4>1, <4>2, <2>1, <2>4, <2>7, <2>9
    <3> QED BY <2>6, <3>1
  <2>11. x \in Near(d, from, to) BY <2>1, <2>3, <2>6, <2>7, <2>9, <2>10
  <2>12. ASSUME P % One # 0 PROVE Min({x + 1, from - 1}) \in Near(d, from, to)
    <3>1. Min({x + 1, from - 1}) = IF x + 1 <= from - 1 THEN x + 1 ELSE from - 1
      <4>1. x + 1 \in Int /\ from - 1 \in Int BY <2>6
      <4> QED BY <4>1, Lesser
    <3>2. CASE ~(x + 1 <= from - 1)
      <4>1. from - 1 = x BY <2>6, <2>10, <3>2
      <4> QED BY <4>1, <2>11, <3>1, <3>2
    <3>3. CASE x + 1 <= from - 1
      <4>1. x * M < N
        <5>1. x * One + 1 <= P BY <2>12, <2>5, <2>6, <2>7
        <5>2. (x * One + 1) * M <= P * M BY <5>1, <2>1, <2>5, <2>7, TimesGrows
        <5>3. (x * One + 1) * M = (x * M) * One + M BY <2>1, <2>6
        <5>4. (x * M) * One \in Nat /\ P * M \in Nat BY <2>1, <2>5, <2>7, ProductIsNat
        <5>5. (x * M) * One < N * One BY <2>1, <2>5, <5>2, <5>3, <5>4
        <5>6. x * M # N BY <5>5, <2>1
        <5> QED BY <2>1, <2>7, <2>9, <5>6
      <4>2. (x + 1) * M = x * M + M BY <2>1, <2>6
      <4>3. x + 1 \in 0..(from - 1) BY <2>6, <3>3
      <4> QED BY <2>1, <2>3, <2>7, <2>9, <3>1, <3>3, <4>1, <4>2, <4>3
    <3> QED BY <3>2, <3>3
  <2>13. Weighted(P, from) = {x} \cup IF P % One = 0 THEN {} ELSE {Min({x + 1, from - 1})}
    BY DEF Weighted, x
  <2> QED BY <1>1, <2>11, <2>12, <2>13 DEF P
<1> QED BY <1>2, <1>3

-----------------------------------------------------------------------------
(* The rows of an image in its planes. *)
YRow(cfg, layout) == IF layout[1].stride # 0 THEN layout[1].stride ELSE cfg.size.width
UvRow(cfg, layout) ==
  IF Len(layout) > 1 /\ layout[2].stride # 0 THEN layout[2].stride ELSE YRow(cfg, layout)
UvStart(cfg, layout) == IF Len(layout) > 1 THEN 0 ELSE YRow(cfg, layout) * cfg.size.height

HalfUp(n) == (n + 1) \div 2

(* Planes that an image fits in, with the luma apart from the chroma, and rows
   as the reader knows them.                                                *)
Fitting(cfg, dst) ==
  LET layout == dst.planes
      R1     == YRow(cfg, layout)
      R2     == UvRow(cfg, layout)
      start  == UvStart(cfg, layout)
      w      == cfg.size.width
      h      == cfg.size.height
  IN  /\ cfg.format \in {NV12, NV21}
      /\ w \in Nat \ {0} /\ h \in Nat \ {0}
      /\ R1 \in Nat /\ R2 \in Nat /\ start \in Nat
      /\ w <= R1 /\ 2 * HalfUp(w) <= R2
      /\ Len(layout) \in {1, 2}
      /\ \A i \in 1..Len(layout) : layout[i].offset \in Nat /\ layout[i].length \in Nat
      /\ h * R1 <= layout[1].length
      /\ start + HalfUp(h) * R2 <= layout[Len(layout)].length
      /\ Len(layout) = 1 => h * R1 <= start
      /\ Len(layout) = 2 /\ layout[1].dmabuf = layout[2].dmabuf =>
           \/ layout[1].offset + layout[1].length <= layout[2].offset
           \/ layout[2].offset + layout[2].length <= layout[1].offset
      /\ dst.exported => Stride(cfg.size) = R1 /\ Stride(cfg.size) = R2
                            /\ Stride(cfg.size) * h = start
      /\ ~dst.exported => layout[1].stride = R1 /\ layout[2].stride = R2 /\ start = 0

(* A buffer of exportBuffers() fits unless its size is odd, *)
LEMMA ExportedFits ==
  ASSUME NEW index, outputs[index] \in OutputConfigs, outputs[index].format \in {NV12, NV21},
         ~Odd(outputs[index])
  PROVE  Fitting(outputs[index], Exported(index))
<1> DEFINE cfg == outputs[index]
           w == cfg.size.width
           h == cfg.size.height
           S == Stride(cfg.size)
           b == Exported(index)
           n == FrameSize(cfg.size)
<1>1. cfg.size \in OutputSizes BY DEF OutputConfigs
<1>2. w \in Nat \ {0} /\ h \in Nat \ {0} BY <1>1, IspAssumption
<1>3. ~(h % 2 = 1) /\ ~(w % Align # 0) BY DEF Odd
<1>4. Align \in Nat \ {0} /\ Align % 2 = 0 BY IspAssumption
<1>51. w = (w \div Align) * Align /\ w \div Align \in Nat
  <2>1. w = (w \div Align) * Align + (w % Align) /\ w \div Align \in Nat BY <1>2, <1>4, Divided
  <2> QED BY <2>1, <1>3, <1>2, <1>4, ProductIsNat
<1>5. S = w
  <2>1. w = (w \div Align) * Align /\ w \div Align \in Nat BY <1>51
  <2>2. w = (w \div Align) * Align BY <2>1
  <2>3. Align - 1 \in 0..(Align - 1) BY <1>4
  <2>4. ((w \div Align) * Align + (Align - 1)) \div Align = w \div Align
    BY <2>1, <2>3, <1>4, DividedIs
  <2>5. (w \div Align) * Align + (Align - 1) = w + Align - 1 BY <2>2, <1>2, <1>4
  <2> QED BY <2>2, <2>4, <2>5 DEF Stride
<1>6. PICK k \in Nat : h = 2 * k BY <1>2, <1>3
<1>7. w % 2 = 0
  <2>1. PICK q \in Nat : w = q * Align BY <1>51
  <2>2. PICK a \in Nat : Align = 2 * a BY <1>4
  <2>3. w = 2 * (q * a) /\ q * a \in Nat BY <2>1, <2>2, ProductIsNat
  <2> HIDE DEF w
  <2> QED BY <2>3
<1>8. /\ b.exported = TRUE /\ Len(b.planes) = 1
      /\ b.planes[1].stride = 0 /\ b.planes[1].offset = 0 /\ b.planes[1].length = n
  BY DEF Exported
<1>9. YRow(cfg, b.planes) = w /\ UvRow(cfg, b.planes) = w /\ UvStart(cfg, b.planes) = w * h
  BY <1>8 DEF YRow, UvRow, UvStart
<1>10. n = 3 * (w * k)
  <2>1. S * h * 3 = (3 * (w * k)) * 2 + 0 BY <1>2, <1>5, <1>6
  <2>2. 3 * (w * k) \in Nat /\ 0 \in 0..(2 - 1) BY <1>2, ProductIsNat
  <2>3. ((3 * (w * k)) * 2 + 0) \div 2 = 3 * (w * k) BY <2>2, DividedIs
  <2> QED BY <2>1, <2>3 DEF FrameSize
<1>11. 2 * HalfUp(w) = w /\ HalfUp(h) = k
  <2> HIDE DEF w, h
  <2> QED BY <1>2, <1>6, <1>7 DEF HalfUp
<1>12. h * w = 2 * (w * k) /\ w * h = 2 * (w * k) /\ HalfUp(h) * w = w * k /\ w * k \in Nat
  BY <1>2, <1>6, <1>11, ProductIsNat
<1>13. n \in Nat /\ h * w <= n /\ w * h + HalfUp(h) * w <= n BY <1>10, <1>12
<1> HIDE DEF S, n, b, w, h
<1>14. cfg.format \in {NV12, NV21} OBVIOUS
<1> HIDE DEF cfg
<1>15. \A i \in 1..Len(b.planes) : b.planes[i].offset \in Nat /\ b.planes[i].length \in Nat
  BY <1>8, <1>13
<1>16. /\ w <= YRow(cfg, b.planes) /\ 2 * HalfUp(w) <= UvRow(cfg, b.planes)
       /\ YRow(cfg, b.planes) \in Nat /\ UvRow(cfg, b.planes) \in Nat
       /\ UvStart(cfg, b.planes) \in Nat
  BY <1>2, <1>9, <1>11, <1>12
<1>17. /\ h * YRow(cfg, b.planes) <= b.planes[1].length
       /\ UvStart(cfg, b.planes) + HalfUp(h) * UvRow(cfg, b.planes) <= b.planes[Len(b.planes)].length
       /\ h * YRow(cfg, b.planes) <= UvStart(cfg, b.planes)
  BY <1>8, <1>9, <1>12, <1>13
<1>18. S = YRow(cfg, b.planes) /\ S = UvRow(cfg, b.planes) /\ S * h = UvStart(cfg, b.planes)
  BY <1>5, <1>9
<1>19. Fitting(cfg, b)
  BY <1>2, <1>8, <1>14, <1>15, <1>16, <1>17, <1>18 DEF Fitting, w, h, S
<1> QED BY <1>19 DEF cfg, b

(* and so does a buffer of the framework. *)
LEMMA HalFits ==
  ASSUME NEW cfg \in OutputConfigs, cfg.format \in {NV12, NV21}, NEW dst,
         ~dst.exported, dst.planes \in HalPlanes(cfg.format, cfg.size)
  PROVE  Fitting(cfg, dst)
<1> DEFINE w == cfg.size.width
           h == cfg.size.height
           p == dst.planes
<1>1. cfg.size \in OutputSizes BY DEF OutputConfigs
<1>2. w \in Nat \ {0} /\ h \in Nat \ {0} BY <1>1, IspAssumption
<1>3. HoldImage(p, cfg.size) BY <1>1, IspAssumption
<1> HIDE DEF p
<1>4. /\ Len(p) = 2
      /\ p[1].offset \in Nat /\ p[1].length \in Nat /\ p[1].stride \in Nat
      /\ p[2].offset \in Nat /\ p[2].length \in Nat /\ p[2].stride \in Nat
      /\ p[1].stride >= w /\ p[2].stride >= 2 * HalfUp(w)
      /\ p[1].length >= p[1].stride * h /\ p[2].length >= p[2].stride * HalfUp(h)
      /\ p[1].dmabuf = p[2].dmabuf =>
           p[1].offset + p[1].length <= p[2].offset \/ p[2].offset + p[2].length <= p[1].offset
  <2>1. 1 \in 1..2 /\ 2 \in 1..2 OBVIOUS
  <2> QED BY <1>3, <2>1 DEF HoldImage, HalfUp
<1> HIDE DEF w, h
<1>5. HalfUp(w) \in Nat \ {0} /\ HalfUp(h) \in Nat BY <1>2 DEF HalfUp
<1>6. p[1].stride # 0 /\ p[2].stride # 0 BY <1>2, <1>4, <1>5
<1>7. YRow(cfg, p) = p[1].stride /\ UvRow(cfg, p) = p[2].stride /\ UvStart(cfg, p) = 0
  BY <1>4, <1>6 DEF YRow, UvRow, UvStart
<1>8. h * p[1].stride = p[1].stride * h /\ HalfUp(h) * p[2].stride = p[2].stride * HalfUp(h)
      /\ p[1].stride * h \in Nat /\ p[2].stride * HalfUp(h) \in Nat
  BY <1>2, <1>4, <1>5, ProductIsNat
<1>9. \A i \in 1..Len(p) : p[i].offset \in Nat /\ p[i].length \in Nat
  <2>1. 1..Len(p) = {1, 2} BY <1>4
  <2> QED BY <1>4, <2>1
<1>10. /\ w <= YRow(cfg, p) /\ 2 * HalfUp(w) <= UvRow(cfg, p)
       /\ YRow(cfg, p) \in Nat /\ UvRow(cfg, p) \in Nat /\ UvStart(cfg, p) \in Nat
       /\ h * YRow(cfg, p) <= p[1].length
       /\ UvStart(cfg, p) + HalfUp(h) * UvRow(cfg, p) <= p[Len(p)].length
  BY <1>2, <1>4, <1>5, <1>7, <1>8
<1> QED BY <1>2, <1>4, <1>7, <1>9, <1>10 DEF Fitting, w, h, p

-----------------------------------------------------------------------------
(* The samples of an image, *)
Lumas(s)   == {"Y"} \X (0..(s.height - 1)) \X (0..(s.width - 1))
Chromas(s) == {"U", "V"} \X (0..((s.height - 1) \div 2)) \X (0..((s.width - 1) \div 2))

(* and the bytes that Writes has for them, by name. *)
LumaWrite(cfg, layout, dy, dx) ==
  [what |-> <<"Y", dy, dx>>, plane |-> 1, at |-> dy * YRow(cfg, layout) + dx,
   from |-> From(dy, dx, cfg.size)]

BlockOf(cfg, dy, dx) ==
  ((dy..(dy + 1)) \cap (0..(cfg.size.height - 1))) \X ((dx..(dx + 1)) \cap (0..(cfg.size.width - 1)))

ChromaWrite(cfg, layout, name, dy, dx, n) ==
  [what |-> <<name, dy \div 2, dx \div 2>>, plane |-> Len(layout),
   at   |-> UvStart(cfg, layout) + (dy \div 2) * UvRow(cfg, layout) + dx + n,
   from |-> UNION {From(p[1], p[2], cfg.size) : p \in BlockOf(cfg, dy, dx)}]

FirstChroma(cfg)  == IF cfg.format = NV21 THEN "V" ELSE "U"
SecondChroma(cfg) == IF cfg.format = NV21 THEN "U" ELSE "V"

EvenIn(s) == {d \in s : d % 2 = 0}

(* Writes is made of these. *)
LEMMA WritesAre ==
  ASSUME NEW cfg, NEW layout
  PROVE  Writes(cfg, layout) =
           {LumaWrite(cfg, layout, dy, dx) : dy \in 0..(cfg.size.height - 1), dx \in 0..(cfg.size.width - 1)}
           \cup {ChromaWrite(cfg, layout, FirstChroma(cfg), dy, dx, 0) :
                   dy \in EvenIn(0..(cfg.size.height - 1)), dx \in EvenIn(0..(cfg.size.width - 1))}
           \cup {ChromaWrite(cfg, layout, SecondChroma(cfg), dy, dx, 1) :
                   dy \in EvenIn(0..(cfg.size.height - 1)), dx \in EvenIn(0..(cfg.size.width - 1))}
BY DEF Writes, LumaWrite, ChromaWrite, BlockOf, EvenIn, YRow, UvRow, UvStart,
      FirstChroma, SecondChroma

(* The even numbers below n, and their halves. *)
LEMMA Halves ==
  ASSUME NEW n \in Nat \ {0}
  PROVE  /\ (n - 1) \div 2 \in Nat /\ HalfUp(n) = (n - 1) \div 2 + 1
         /\ \A d \in EvenIn(0..(n - 1)) : d \div 2 \in 0..((n - 1) \div 2) /\ d = 2 * (d \div 2)
         /\ \A x \in 0..((n - 1) \div 2) : 2 * x \in EvenIn(0..(n - 1)) /\ (2 * x) \div 2 = x
BY DEF HalfUp, EvenIn

(* Each sample of an image is written, and nothing else. *)
LEMMA EverySample ==
  ASSUME NEW cfg, NEW layout, cfg.size.width \in Nat \ {0}, cfg.size.height \in Nat \ {0}
  PROVE  {w.what : w \in Writes(cfg, layout)} = Lumas(cfg.size) \cup Chromas(cfg.size)
<1> DEFINE h == cfg.size.height
           v == cfg.size.width
           first == FirstChroma(cfg)
           second == SecondChroma(cfg)
           W == Writes(cfg, layout)
<1>1. W = {LumaWrite(cfg, layout, dy, dx) : dy \in 0..(h - 1), dx \in 0..(v - 1)}
          \cup {ChromaWrite(cfg, layout, first, dy, dx, 0) :
                  dy \in EvenIn(0..(h - 1)), dx \in EvenIn(0..(v - 1))}
          \cup {ChromaWrite(cfg, layout, second, dy, dx, 1) :
                  dy \in EvenIn(0..(h - 1)), dx \in EvenIn(0..(v - 1))}
  BY WritesAre
<1>2. {first, second} = {"U", "V"} BY DEF FirstChroma, SecondChroma
<1>3. /\ \A d \in EvenIn(0..(h - 1)) : d \div 2 \in 0..((h - 1) \div 2)
      /\ \A x \in 0..((h - 1) \div 2) : 2 * x \in EvenIn(0..(h - 1)) /\ (2 * x) \div 2 = x
      /\ \A d \in EvenIn(0..(v - 1)) : d \div 2 \in 0..((v - 1) \div 2)
      /\ \A x \in 0..((v - 1) \div 2) : 2 * x \in EvenIn(0..(v - 1)) /\ (2 * x) \div 2 = x
  BY Halves
<1> HIDE DEF W, first, second
<1>4. ASSUME NEW w \in W PROVE w.what \in Lumas(cfg.size) \cup Chromas(cfg.size)
  <2>1. CASE \E dy \in 0..(h - 1), dx \in 0..(v - 1) : w = LumaWrite(cfg, layout, dy, dx)
    <3>1. PICK dy \in 0..(h - 1), dx \in 0..(v - 1) : w = LumaWrite(cfg, layout, dy, dx) BY <2>1
    <3>2. w.what = <<"Y", dy, dx>> BY <3>1 DEF LumaWrite
    <3> QED BY <3>2 DEF Lumas
  <2>2. ASSUME NEW name \in {"U", "V"}, NEW n, NEW dy \in EvenIn(0..(h - 1)), NEW dx \in EvenIn(0..(v - 1)),
               w = ChromaWrite(cfg, layout, name, dy, dx, n)
        PROVE  w.what \in Chromas(cfg.size)
    <3>1. w.what = <<name, dy \div 2, dx \div 2>> BY <2>2 DEF ChromaWrite
    <3>2. dy \div 2 \in 0..((h - 1) \div 2) /\ dx \div 2 \in 0..((v - 1) \div 2) BY <1>3
    <3> HIDE DEF h, v
    <3>3. w.what \in {"U", "V"} \X (0..((h - 1) \div 2)) \X (0..((v - 1) \div 2)) BY <3>1, <3>2
    <3> QED BY <3>3 DEF Chromas, h, v
  <2> HIDE DEF h, v
  <2>3. \/ \E dy \in 0..(h - 1), dx \in 0..(v - 1) : w = LumaWrite(cfg, layout, dy, dx)
        \/ \E dy \in EvenIn(0..(h - 1)), dx \in EvenIn(0..(v - 1)) :
             w = ChromaWrite(cfg, layout, first, dy, dx, 0) \/ w = ChromaWrite(cfg, layout, second, dy, dx, 1)
    BY <1>1
  <2>4. first \in {"U", "V"} /\ second \in {"U", "V"} BY <1>2
  <2> QED BY <2>1, <2>2, <2>3, <2>4, Zenon
<1>5. ASSUME NEW q \in Lumas(cfg.size) PROVE \E w \in W : w.what = q
  <2>1. PICK dy \in 0..(h - 1), dx \in 0..(v - 1) : q = <<"Y", dy, dx>> BY DEF Lumas
  <2>2. LumaWrite(cfg, layout, dy, dx) \in W BY <1>1
  <2>3. LumaWrite(cfg, layout, dy, dx).what = q BY <2>1 DEF LumaWrite
  <2> QED BY <2>2, <2>3
<1>6. ASSUME NEW q \in Chromas(cfg.size) PROVE \E w \in W : w.what = q
  <2>1. PICK name \in {"U", "V"}, y \in 0..((h - 1) \div 2), x \in 0..((v - 1) \div 2) : q = <<name, y, x>>
    BY DEF Chromas
  <2>2. /\ 2 * y \in EvenIn(0..(h - 1)) /\ (2 * y) \div 2 = y
        /\ 2 * x \in EvenIn(0..(v - 1)) /\ (2 * x) \div 2 = x
    BY <1>3
  <2>3. \A n : ChromaWrite(cfg, layout, name, 2 * y, 2 * x, n).what = q
    BY <2>1, <2>2 DEF ChromaWrite
  <2> HIDE DEF h, v
  <2>4. CASE name = first
    <3>1. ChromaWrite(cfg, layout, first, 2 * y, 2 * x, 0) \in W BY <1>1, <2>2
    <3> QED BY <3>1, <2>3, <2>4
  <2>5. CASE name = second
    <3>1. ChromaWrite(cfg, layout, second, 2 * y, 2 * x, 1) \in W BY <1>1, <2>2
    <3> QED BY <3>1, <2>3, <2>5
  <2> QED BY <1>2, <2>4, <2>5
<1> QED BY <1>4, <1>5, <1>6 DEF W

(* Where the reader of a buffer takes samples from. *)
LEMMA ReadAtIs ==
  ASSUME NEW cfg, NEW dst, Fitting(cfg, dst), dst.exported \in BOOLEAN
  PROVE  /\ \A y, x : ReadAt(cfg, dst, <<"Y", y, x>>) = y * YRow(cfg, dst.planes) + x
         /\ \A name \in {"U", "V"} : \A y, x :
              ReadAt(cfg, dst, <<name, y, x>>) =
                UvStart(cfg, dst.planes) + y * UvRow(cfg, dst.planes) + 2 * x
                  + IF name = SecondChroma(cfg) THEN 1 ELSE 0
<1> DEFINE p == dst.planes
           Row1 == IF dst.exported THEN Stride(cfg.size) ELSE p[1].stride
           Row2 == IF dst.exported THEN Stride(cfg.size) ELSE p[2].stride
           start == IF dst.exported THEN Stride(cfg.size) * cfg.size.height ELSE 0
<1>1. Row1 = YRow(cfg, p) /\ Row2 = UvRow(cfg, p) /\ start = UvStart(cfg, p) BY DEF Fitting
<1> HIDE DEF Row1, Row2, start, p
<1>2. \A y, x : ReadAt(cfg, dst, <<"Y", y, x>>) = y * Row1 + x BY DEF ReadAt, Row1, p
<1>3. ASSUME NEW name \in {"U", "V"}, NEW y, NEW x
      PROVE  ReadAt(cfg, dst, <<name, y, x>>) =
               start + y * Row2 + 2 * x + IF name = SecondChroma(cfg) THEN 1 ELSE 0
  <2>1. ((name = "U") = (cfg.format = NV21)) <=> name = SecondChroma(cfg)
    BY DEF SecondChroma
  <2>2. name # "Y" OBVIOUS
  <2>3. ReadAt(cfg, dst, <<name, y, x>>) =
          start + y * Row2 + 2 * x + IF (name = "U") = (cfg.format = NV21) THEN 1 ELSE 0
    BY <2>2 DEF ReadAt, Row2, start, p
  <2> QED BY <2>1, <2>3
<1> QED BY <1>1, <1>2, <1>3 DEF p

(* The plane of a sample. *)
PlaneOf(layout, what) == IF what[1] = "Y" THEN 1 ELSE Len(layout)

(* Places of samples within their planes. *)
LEMMA PlacesFit ==
  ASSUME NEW cfg, NEW dst, Fitting(cfg, dst), dst.exported \in BOOLEAN,
         NEW q \in Lumas(cfg.size) \cup Chromas(cfg.size)
  PROVE  /\ ReadAt(cfg, dst, q) \in Nat
         /\ ReadAt(cfg, dst, q) < dst.planes[PlaneOf(dst.planes, q)].length
         /\ q[1] = "Y" => ReadAt(cfg, dst, q) < cfg.size.height * YRow(cfg, dst.planes)
         /\ q[1] # "Y" => ReadAt(cfg, dst, q) >= UvStart(cfg, dst.planes)
<1> DEFINE p == dst.planes
           h == cfg.size.height
           v == cfg.size.width
           R1 == YRow(cfg, p)
           R2 == UvRow(cfg, p)
           start == UvStart(cfg, p)
<1>1. /\ v \in Nat \ {0} /\ h \in Nat \ {0} /\ R1 \in Nat /\ R2 \in Nat /\ start \in Nat
      /\ v <= R1 /\ 2 * HalfUp(v) <= R2
      /\ \A i \in 1..Len(p) : p[i].length \in Nat
      /\ Len(p) \in {1, 2}
      /\ h * R1 <= p[1].length /\ start + HalfUp(h) * R2 <= p[Len(p)].length
  BY DEF Fitting
<1>2. /\ (h - 1) \div 2 \in Nat /\ HalfUp(h) = (h - 1) \div 2 + 1
      /\ (v - 1) \div 2 \in Nat /\ HalfUp(v) = (v - 1) \div 2 + 1
  <2> HIDE DEF h, v
  <2> QED BY <1>1, Halves
<1>3. CASE q \in Lumas(cfg.size)
  <2>1. PICK y \in 0..(h - 1), x \in 0..(v - 1) : q = <<"Y", y, x>> BY <1>3 DEF Lumas
  <2>2. ReadAt(cfg, dst, q) = y * R1 + x BY <2>1, ReadAtIs
  <2>3. PlaneOf(p, q) = 1 /\ q[1] = "Y" BY <2>1 DEF PlaneOf
  <2> HIDE DEF h, v, R1, R2, start, p
  <2>40. y \in Nat /\ y < h /\ h \in Nat /\ R1 \in Nat BY <1>1
  <2>4. y * R1 + R1 <= h * R1 /\ y * R1 \in Nat /\ h * R1 \in Nat
    BY <2>40, NextRow, ProductIsNat
  <2>5. y * R1 + x \in Nat /\ y * R1 + x < h * R1
    <3>1. x \in Nat /\ x < R1 BY <1>1
    <3> DEFINE before == y * R1
               all == h * R1
    <3>2. before \in Nat /\ all \in Nat /\ before + R1 <= all BY <2>4
    <3> HIDE DEF before, all
    <3>3. before + x \in Nat /\ before + x < all BY <1>1, <3>1, <3>2
    <3> QED BY <3>3 DEF before, all
  <2>6. 1 \in 1..Len(p) BY <1>1
  <2>7. y * R1 + x < p[1].length BY <1>1, <2>4, <2>5, <2>6
  <2> QED BY <2>2, <2>3, <2>5, <2>7 DEF h, R1, p
<1>4. CASE q \in Chromas(cfg.size)
  <2>1. PICK name \in {"U", "V"}, y \in 0..((h - 1) \div 2), x \in 0..((v - 1) \div 2) : q = <<name, y, x>>
    BY <1>4 DEF Chromas
  <2> DEFINE n == IF name = SecondChroma(cfg) THEN 1 ELSE 0
  <2>2. ReadAt(cfg, dst, q) = start + y * R2 + 2 * x + n BY <2>1, ReadAtIs
  <2>3. PlaneOf(p, q) = Len(p) /\ q[1] # "Y" BY <2>1 DEF PlaneOf
  <2>4. n \in 0..1 OBVIOUS
  <2> HIDE DEF h, v, R1, R2, start, p, n
  <2>5. y \in Nat /\ y < HalfUp(h) /\ HalfUp(h) \in Nat BY <1>2
  <2>6. y * R2 + R2 <= HalfUp(h) * R2 /\ y * R2 \in Nat /\ HalfUp(h) * R2 \in Nat
    BY <1>1, <2>5, NextRow, ProductIsNat
  <2>7. x \in Nat /\ 2 * x + n < R2
    <3> DEFINE e == (v - 1) \div 2
    <3>1. e \in Nat /\ HalfUp(v) = e + 1 /\ x \in 0..e BY <1>2
    <3> HIDE DEF e
    <3> QED BY <1>1, <2>4, <3>1
  <2>8. start + y * R2 + 2 * x + n \in Nat /\ start + y * R2 + 2 * x + n >= start
        /\ start + y * R2 + 2 * x + n < start + HalfUp(h) * R2
    <3> DEFINE before == y * R2
               all == HalfUp(h) * R2
    <3>1. before \in Nat /\ all \in Nat /\ before + R2 <= all BY <2>6
    <3>2. start \in Nat /\ R2 \in Nat /\ n \in Nat BY <1>1, <2>4
    <3> HIDE DEF before, all
    <3>3. start + before + 2 * x + n \in Nat /\ start + before + 2 * x + n >= start
          /\ start + before + 2 * x + n < start + all
      BY <2>7, <3>1, <3>2
    <3> QED BY <3>3 DEF before, all
  <2>9. Len(p) \in 1..Len(p) BY <1>1
  <2>10. p[Len(p)].length \in Nat BY <1>1, <2>9
  <2>11. start + y * R2 + 2 * x + n < p[Len(p)].length
    <3> DEFINE at == start + y * R2 + 2 * x + n
               end == start + HalfUp(h) * R2
    <3>1. end \in Int /\ end <= p[Len(p)].length BY <1>1, <2>6
    <3>2. at \in Nat /\ at < end BY <2>8
    <3> HIDE DEF at, end
    <3>3. at < p[Len(p)].length BY <2>10, <3>1, <3>2
    <3> QED BY <3>3 DEF at
  <2> QED BY <2>2, <2>3, <2>8, <2>11 DEF start, p
<1> QED BY <1>3, <1>4

(* What is written is where it is read, in its plane, and made of what is next
   to its place.                                                            *)
LEMMA AsRead ==
  ASSUME inputSize.height \in Nat \ {0}, inputSize.width \in Nat \ {0},
         NEW cfg, NEW dst, Fitting(cfg, dst), dst.exported \in BOOLEAN,
         NEW w \in Writes(cfg, dst.planes)
  PROVE  /\ w.plane = PlaneOf(dst.planes, w.what)
         /\ w.at = ReadAt(cfg, dst, w.what)
         /\ w.what[1] = "Y" =>
              w.from \subseteq Near(w.what[2], inputSize.height, cfg.size.height)
                                 \X Near(w.what[3], inputSize.width, cfg.size.width)
         /\ w.from # {}
<1> DEFINE p == dst.planes
           h == cfg.size.height
           v == cfg.size.width
<1>1. v \in Nat \ {0} /\ h \in Nat \ {0} BY DEF Fitting
<1>2. ASSUME NEW dy \in 0..(h - 1), NEW dx \in 0..(v - 1)
      PROVE  /\ From(dy, dx, cfg.size) # {}
             /\ From(dy, dx, cfg.size) \subseteq Near(dy, inputSize.height, h) \X Near(dx, inputSize.width, v)
  <2> HIDE DEF h, v
  <2> DEFINE Wy == Weighted(Position(dy, inputSize.height, h), inputSize.height)
             Wx == Weighted(Position(dx, inputSize.width, v), inputSize.width)
  <2>1. Wy # {} /\ Wy \subseteq Near(dy, inputSize.height, h) BY <1>1, WeightedIsNear
  <2>2. Wx # {} /\ Wx \subseteq Near(dx, inputSize.width, v) BY <1>1, WeightedIsNear
  <2>3. From(dy, dx, cfg.size) = Wy \X Wx BY DEF From, h, v
  <2> HIDE DEF Wy, Wx
  <2>4. Wy \X Wx # {}
    <3>1. PICK y \in Wy, x \in Wx : TRUE BY <2>1, <2>2
    <3>2. <<y, x>> \in Wy \X Wx OBVIOUS
    <3> QED BY <3>2
  <2>5. \A A, B, C, D : A \subseteq C /\ B \subseteq D => A \X B \subseteq C \X D OBVIOUS
  <2> QED BY <2>1, <2>2, <2>3, <2>4, <2>5
<1>3. \/ \E dy \in 0..(h - 1), dx \in 0..(v - 1) : w = LumaWrite(cfg, p, dy, dx)
      \/ \E dy \in EvenIn(0..(h - 1)), dx \in EvenIn(0..(v - 1)) :
           w = ChromaWrite(cfg, p, FirstChroma(cfg), dy, dx, 0) \/ w = ChromaWrite(cfg, p, SecondChroma(cfg), dy, dx, 1)
  BY WritesAre
<1>4. ASSUME NEW dy \in 0..(h - 1), NEW dx \in 0..(v - 1), w = LumaWrite(cfg, p, dy, dx)
      PROVE  /\ w.plane = PlaneOf(p, w.what)
             /\ w.at = ReadAt(cfg, dst, w.what)
             /\ w.what[1] = "Y" =>
                  w.from \subseteq Near(w.what[2], inputSize.height, h)
                                     \X Near(w.what[3], inputSize.width, v)
             /\ w.from # {}
  <2>1. /\ w.what = <<"Y", dy, dx>> /\ w.plane = 1 /\ w.at = dy * YRow(cfg, p) + dx
        /\ w.from = From(dy, dx, cfg.size)
    BY <1>4 DEF LumaWrite
  <2>2. w.what[1] = "Y" /\ w.what[2] = dy /\ w.what[3] = dx BY <2>1
  <2>3. ReadAt(cfg, dst, w.what) = dy * YRow(cfg, p) + dx BY <2>1, ReadAtIs
  <2>4. PlaneOf(p, w.what) = 1 BY <2>2 DEF PlaneOf
  <2> QED BY <1>2, <2>1, <2>2, <2>3, <2>4
<1>5. ASSUME NEW dy \in EvenIn(0..(h - 1)), NEW dx \in EvenIn(0..(v - 1)), NEW name \in {"U", "V"}, NEW n,
             n = (IF name = SecondChroma(cfg) THEN 1 ELSE 0), w = ChromaWrite(cfg, p, name, dy, dx, n)
      PROVE  /\ w.plane = PlaneOf(p, w.what)
             /\ w.at = ReadAt(cfg, dst, w.what)
             /\ w.what[1] # "Y"
             /\ w.from # {}
  <2>1. /\ w.what = <<name, dy \div 2, dx \div 2>> /\ w.plane = Len(p)
        /\ w.at = UvStart(cfg, p) + (dy \div 2) * UvRow(cfg, p) + dx + n
        /\ w.from = UNION {From(b[1], b[2], cfg.size) : b \in BlockOf(cfg, dy, dx)}
    BY <1>5 DEF ChromaWrite
  <2>2. w.what[1] # "Y" BY <2>1
  <2>3. ReadAt(cfg, dst, w.what) = UvStart(cfg, p) + (dy \div 2) * UvRow(cfg, p) + 2 * (dx \div 2) + n
    BY <2>1, <1>5, ReadAtIs
  <2>4. dx = 2 * (dx \div 2)
    <3> HIDE DEF h, v
    <3> QED BY <1>1, Halves
  <2>5. PlaneOf(p, w.what) = Len(p) BY <2>2 DEF PlaneOf
  <2>6. dy \in 0..(h - 1) /\ dx \in 0..(v - 1) BY DEF EvenIn
  <2>7. <<dy, dx>> \in BlockOf(cfg, dy, dx)
    <3>1. dy \in dy..(dy + 1) /\ dx \in dx..(dx + 1) BY <1>1, <2>6
    <3> QED BY <2>6, <3>1 DEF BlockOf
  <2>8. w.from # {}
    <3>1. From(dy, dx, cfg.size) # {} BY <1>2, <2>6
    <3>2. From(dy, dx, cfg.size) \subseteq w.from BY <2>1, <2>7
    <3> QED BY <3>1, <3>2
  <2> HIDE DEF p
  <2> QED BY <2>1, <2>2, <2>3, <2>4, <2>5, <2>8
<1>6. FirstChroma(cfg) \in {"U", "V"} /\ SecondChroma(cfg) \in {"U", "V"}
      /\ FirstChroma(cfg) # SecondChroma(cfg)
  BY DEF FirstChroma, SecondChroma
<1> HIDE DEF p, h, v
<1>7. CASE \E dy \in 0..(h - 1), dx \in 0..(v - 1) : w = LumaWrite(cfg, p, dy, dx)
  BY <1>4, <1>7, Zenon DEF p, h, v
<1>8. CASE \E dy \in EvenIn(0..(h - 1)), dx \in EvenIn(0..(v - 1)) :
             w = ChromaWrite(cfg, p, FirstChroma(cfg), dy, dx, 0) \/ w = ChromaWrite(cfg, p, SecondChroma(cfg), dy, dx, 1)
  <2>1. PICK dy \in EvenIn(0..(h - 1)), dx \in EvenIn(0..(v - 1)) :
             w = ChromaWrite(cfg, p, FirstChroma(cfg), dy, dx, 0) \/ w = ChromaWrite(cfg, p, SecondChroma(cfg), dy, dx, 1)
    BY <1>8
  <2>2. \E name \in {"U", "V"} : \E n : /\ n = (IF name = SecondChroma(cfg) THEN 1 ELSE 0)
                                          /\ w = ChromaWrite(cfg, p, name, dy, dx, n)
    BY <1>6, <2>1
  <2> QED BY <1>5, <2>2, Zenon DEF p, h, v
<1> QED BY <1>3, <1>7, <1>8

(* The byte of a sample. *)
ByteOf(cfg, dst, q) ==
  <<dst.planes[PlaneOf(dst.planes, q)].dmabuf,
    dst.planes[PlaneOf(dst.planes, q)].offset + ReadAt(cfg, dst, q)>>

(* Samples of the same plane are in different bytes. *)
LEMMA LumasApart ==
  ASSUME NEW cfg, NEW dst, Fitting(cfg, dst), dst.exported \in BOOLEAN,
         NEW q \in Lumas(cfg.size), NEW r \in Lumas(cfg.size),
         ReadAt(cfg, dst, q) = ReadAt(cfg, dst, r)
  PROVE  q = r
<1> DEFINE h == cfg.size.height
           v == cfg.size.width
           R1 == YRow(cfg, dst.planes)
<1>1. v \in Nat \ {0} /\ h \in Nat \ {0} /\ R1 \in Nat /\ v <= R1 BY DEF Fitting
<1>2. PICK y \in 0..(h - 1), x \in 0..(v - 1) : q = <<"Y", y, x>> BY DEF Lumas
<1>3. PICK b \in 0..(h - 1), a \in 0..(v - 1) : r = <<"Y", b, a>> BY DEF Lumas
<1>4. ReadAt(cfg, dst, q) = y * R1 + x /\ ReadAt(cfg, dst, r) = b * R1 + a
  BY <1>2, <1>3, ReadAtIs
<1> HIDE DEF h, v, R1
<1>5. y \in Nat /\ b \in Nat /\ x \in 0..(R1 - 1) /\ a \in 0..(R1 - 1) BY <1>1
<1>6. y * R1 + x = b * R1 + a BY <1>4
<1>7. y = b /\ x = a BY <1>1, <1>5, <1>6, RowMajor
<1> QED BY <1>2, <1>3, <1>7

LEMMA ChromasApart ==
  ASSUME NEW cfg, NEW dst, Fitting(cfg, dst), dst.exported \in BOOLEAN,
         NEW q \in Chromas(cfg.size), NEW r \in Chromas(cfg.size),
         ReadAt(cfg, dst, q) = ReadAt(cfg, dst, r)
  PROVE  q = r
<1> DEFINE h == cfg.size.height
           v == cfg.size.width
           e == (v - 1) \div 2
           R2 == UvRow(cfg, dst.planes)
           start == UvStart(cfg, dst.planes)
           N(name) == IF name = SecondChroma(cfg) THEN 1 ELSE 0
<1>1. /\ v \in Nat \ {0} /\ h \in Nat \ {0} /\ R2 \in Nat /\ start \in Nat
      /\ 2 * HalfUp(v) <= R2
  BY DEF Fitting
<1>2. e \in Nat /\ HalfUp(v) = e + 1 /\ (h - 1) \div 2 \in Nat
  <2> HIDE DEF h, v
  <2> QED BY <1>1, Halves
<1>3. PICK m \in {"U", "V"}, y \in 0..((h - 1) \div 2), x \in 0..e : q = <<m, y, x>> BY DEF Chromas
<1>4. PICK k \in {"U", "V"}, b \in 0..((h - 1) \div 2), a \in 0..e : r = <<k, b, a>> BY DEF Chromas
<1>5. /\ ReadAt(cfg, dst, q) = start + y * R2 + 2 * x + N(m)
      /\ ReadAt(cfg, dst, r) = start + b * R2 + 2 * a + N(k)
  BY <1>3, <1>4, ReadAtIs
<1>6. N(m) \in 0..1 /\ N(k) \in 0..1 /\ (N(m) = N(k) => m = k) BY DEF SecondChroma
<1> HIDE DEF h, v, R2, start, N, e
<1>7. /\ y \in Nat /\ b \in Nat /\ x \in Nat /\ a \in Nat
      /\ 2 * x + N(m) \in 0..(R2 - 1) /\ 2 * a + N(k) \in 0..(R2 - 1)
  BY <1>1, <1>2, <1>6
<1>8. y * R2 + (2 * x + N(m)) = b * R2 + (2 * a + N(k))
  <2> DEFINE i == y * R2
             j == b * R2
  <2>1. i \in Nat /\ j \in Nat BY <1>1, <1>7, ProductIsNat
  <2>2. start + i + 2 * x + N(m) = start + j + 2 * a + N(k) BY <1>5
  <2> HIDE DEF i, j
  <2>3. i + (2 * x + N(m)) = j + (2 * a + N(k)) BY <2>1, <2>2, <1>1, <1>6, <1>7
  <2> QED BY <2>3 DEF i, j
<1>9. y = b /\ 2 * x + N(m) = 2 * a + N(k) BY <1>1, <1>7, <1>8, RowMajor
<1>10. x = a /\ N(m) = N(k) BY <1>6, <1>7, <1>9
<1> QED BY <1>3, <1>4, <1>6, <1>9, <1>10

(* Samples are in bytes of their own: luma and chroma are in planes that lie
   apart, or apart in one plane.                                            *)
LEMMA BytesApart ==
  ASSUME NEW cfg, NEW dst, Fitting(cfg, dst), dst.exported \in BOOLEAN,
         NEW q \in Lumas(cfg.size) \cup Chromas(cfg.size),
         NEW r \in Lumas(cfg.size) \cup Chromas(cfg.size),
         ByteOf(cfg, dst, q) = ByteOf(cfg, dst, r)
  PROVE  q = r
<1> DEFINE p == dst.planes
           At(k) == ReadAt(cfg, dst, k)
<1>1. /\ Len(p) \in {1, 2}
      /\ \A i \in 1..Len(p) : p[i].offset \in Nat /\ p[i].length \in Nat
      /\ cfg.size.height * YRow(cfg, p) <= p[1].length
      /\ Len(p) = 1 => cfg.size.height * YRow(cfg, p) <= UvStart(cfg, p)
      /\ Len(p) = 2 /\ p[1].dmabuf = p[2].dmabuf =>
           \/ p[1].offset + p[1].length <= p[2].offset
           \/ p[2].offset + p[2].length <= p[1].offset
      /\ cfg.size.height \in Nat /\ YRow(cfg, p) \in Nat /\ UvStart(cfg, p) \in Nat
  BY DEF Fitting
<1>2. \A k \in Lumas(cfg.size) : k[1] = "Y" BY DEF Lumas
<1>3. \A k \in Chromas(cfg.size) : k[1] # "Y" BY DEF Chromas
<1>4. \A k \in Lumas(cfg.size) \cup Chromas(cfg.size) :
        /\ At(k) \in Nat /\ At(k) < p[PlaneOf(p, k)].length
        /\ k[1] = "Y" => At(k) < cfg.size.height * YRow(cfg, p)
        /\ k[1] # "Y" => At(k) >= UvStart(cfg, p)
  BY PlacesFit
<1>5. \A k \in Lumas(cfg.size) : PlaneOf(p, k) = 1 BY <1>2 DEF PlaneOf
<1>6. \A k \in Chromas(cfg.size) : PlaneOf(p, k) = Len(p) BY <1>3 DEF PlaneOf
<1>7. p[PlaneOf(p, q)].dmabuf = p[PlaneOf(p, r)].dmabuf
      /\ p[PlaneOf(p, q)].offset + At(q) = p[PlaneOf(p, r)].offset + At(r)
  BY DEF ByteOf
<1>8. 1 \in 1..Len(p) /\ Len(p) \in 1..Len(p) BY <1>1
<1> HIDE DEF p, At
<1>9. ASSUME PlaneOf(p, q) = PlaneOf(p, r), PlaneOf(p, q) \in 1..Len(p) PROVE At(q) = At(r)
  <2>1. p[PlaneOf(p, q)].offset \in Nat BY <1>1, <1>9
  <2>2. At(q) \in Nat /\ At(r) \in Nat BY <1>4
  <2> QED BY <1>7, <1>9, <2>1, <2>2
<1>10. ASSUME NEW l \in Lumas(cfg.size), NEW c \in Chromas(cfg.size),
              p[PlaneOf(p, l)].dmabuf = p[PlaneOf(p, c)].dmabuf,
              p[PlaneOf(p, l)].offset + At(l) = p[PlaneOf(p, c)].offset + At(c)
       PROVE  FALSE
  <2>1. PlaneOf(p, l) = 1 /\ PlaneOf(p, c) = Len(p) BY <1>5, <1>6
  <2> DEFINE all == cfg.size.height * YRow(cfg, p)
  <2>2. all \in Nat BY <1>1, ProductIsNat
  <2>3. At(l) \in Nat /\ At(c) \in Nat /\ At(l) < all /\ At(l) < p[1].length
        /\ At(c) < p[Len(p)].length /\ At(c) >= UvStart(cfg, p)
    BY <1>2, <1>3, <1>4, <2>1
  <2>4. /\ p[1].offset \in Nat /\ p[1].length \in Nat
        /\ p[Len(p)].offset \in Nat /\ p[Len(p)].length \in Nat
    BY <1>1, <1>8
  <2>5. p[1].dmabuf = p[Len(p)].dmabuf /\ p[1].offset + At(l) = p[Len(p)].offset + At(c)
    BY <1>10, <2>1
  <2>6. Len(p) = 1 => all <= UvStart(cfg, p) BY <1>1
  <2>7. Len(p) = 2 => \/ p[1].offset + p[1].length <= p[Len(p)].offset
                      \/ p[Len(p)].offset + p[Len(p)].length <= p[1].offset
    BY <1>1, <2>5
  <2>8. UvStart(cfg, p) \in Nat BY <1>1
  <2> HIDE DEF all
  <2>9. CASE Len(p) = 1 BY <2>2, <2>3, <2>4, <2>5, <2>6, <2>8, <2>9
  <2>10. CASE Len(p) = 2
    <3>1. At(l) < p[1].length /\ At(c) < p[Len(p)].length BY <2>3
    <3>2. CASE p[1].offset + p[1].length <= p[Len(p)].offset BY <2>3, <2>4, <2>5, <3>1, <3>2
    <3>3. CASE p[Len(p)].offset + p[Len(p)].length <= p[1].offset BY <2>3, <2>4, <2>5, <3>1, <3>3
    <3> QED BY <2>7, <2>10, <3>2, <3>3
  <2> QED BY <1>1, <2>9, <2>10
<1>11. CASE q \in Lumas(cfg.size) /\ r \in Lumas(cfg.size)
  <2>1. At(q) = At(r) BY <1>5, <1>8, <1>9, <1>11
  <2> QED BY <1>11, <2>1, LumasApart DEF At
<1>12. CASE q \in Chromas(cfg.size) /\ r \in Chromas(cfg.size)
  <2>1. At(q) = At(r) BY <1>6, <1>8, <1>9, <1>12
  <2> QED BY <1>12, <2>1, ChromasApart DEF At
<1>13. ~(q \in Lumas(cfg.size) /\ r \in Chromas(cfg.size)) BY <1>7, <1>10
<1>14. ~(q \in Chromas(cfg.size) /\ r \in Lumas(cfg.size)) BY <1>7, <1>10
<1> QED BY <1>11, <1>12, <1>13, <1>14

(* There are finitely many samples, *)
LEMMA SamplesFinite ==
  ASSUME NEW s, s.height \in Nat \ {0}, s.width \in Nat \ {0}
  PROVE  IsFiniteSet(Lumas(s) \cup Chromas(s))
<1> DEFINE n == s.height
           m == s.width
           Triples(A, B, C) == A \X B \X C
<1>1. ASSUME NEW A, NEW B, NEW C, IsFiniteSet(A), IsFiniteSet(B), IsFiniteSet(C)
      PROVE  IsFiniteSet(Triples(A, B, C))
  <2> DEFINE D == A \X (B \X C)
             f == [t \in D |-> <<t[1], t[2][1], t[2][2]>>]
  <2>1. IsFiniteSet(B \X C) BY <1>1, FS_Product
  <2>2. IsFiniteSet(D) BY <1>1, <2>1, FS_Product
  <2>3. Triples(A, B, C) = {f[t] : t \in D}
    <3>1. ASSUME NEW t \in D PROVE f[t] \in Triples(A, B, C) OBVIOUS
    <3>2. ASSUME NEW u \in Triples(A, B, C) PROVE \E t \in D : f[t] = u
      <4>1. PICK x \in A, y \in B, z \in C : u = <<x, y, z>> OBVIOUS
      <4>2. <<x, <<y, z>>>> \in D OBVIOUS
      <4>3. f[<<x, <<y, z>>>>] = u BY <4>1, <4>2
      <4> QED BY <4>2, <4>3
    <3> QED BY <3>1, <3>2
  <2> HIDE DEF f, D
  <2>4. IsFiniteSet({f[t] : t \in D}) BY <2>2, ImageFinite
  <2> QED BY <2>3, <2>4
<1>2. \A k \in Int : IsFiniteSet(0..k) BY FS_Interval
<1>3. IsFiniteSet({"Y"}) /\ IsFiniteSet({"U", "V"})
  <2>1. IsFiniteSet({}) BY FS_EmptySet
  <2>2. IsFiniteSet({"Y"}) /\ IsFiniteSet({"U"}) BY <2>1, FS_AddElement
  <2>3. IsFiniteSet({"U"} \cup {"V"}) BY <2>2, FS_AddElement
  <2>4. {"U"} \cup {"V"} = {"U", "V"} OBVIOUS
  <2> QED BY <2>2, <2>3, <2>4
<1> DEFINE y == n - 1
           x == m - 1
           b == (n - 1) \div 2
           a == (m - 1) \div 2
<1>4. y \in Int /\ x \in Int /\ b \in Int /\ a \in Int
  <2> HIDE DEF n, m
  <2>1. n \in Nat /\ m \in Nat BY DEF n, m
  <2> QED BY <2>1
<1> HIDE DEF y, x, b, a
<1>5. IsFiniteSet(0..y) /\ IsFiniteSet(0..x) /\ IsFiniteSet(0..b) /\ IsFiniteSet(0..a) BY <1>2, <1>4
<1> HIDE DEF Triples
<1>6. IsFiniteSet(Triples({"Y"}, 0..y, 0..x)) BY <1>1, <1>3, <1>5
<1>7. IsFiniteSet(Triples({"U", "V"}, 0..b, 0..a)) BY <1>1, <1>3, <1>5
<1>8. IsFiniteSet(Triples({"Y"}, 0..y, 0..x) \cup Triples({"U", "V"}, 0..b, 0..a))
  BY <1>6, <1>7, FS_Union
<1>9. /\ Lumas(s) = Triples({"Y"}, 0..y, 0..x)
      /\ Chromas(s) = Triples({"U", "V"}, 0..b, 0..a)
  BY DEF Lumas, Chromas, Triples, y, x, b, a
<1> QED BY <1>8, <1>9

(* so there are as many bytes as samples. *)
LEMMA ByteCount ==
  ASSUME inputSize.height \in Nat \ {0}, inputSize.width \in Nat \ {0},
         NEW cfg, NEW dst, Fitting(cfg, dst), dst.exported \in BOOLEAN
  PROVE  LET Byte(w) == <<dst.planes[w.plane].dmabuf, dst.planes[w.plane].offset + w.at>>
         IN  Cardinality({Byte(w) : w \in Writes(cfg, dst.planes)})
           = Cardinality(Lumas(cfg.size) \cup Chromas(cfg.size))
<1> DEFINE p == dst.planes
           W == Writes(cfg, p)
           S == Lumas(cfg.size) \cup Chromas(cfg.size)
           f == [q \in S |-> ByteOf(cfg, dst, q)]
           Byte(w) == <<p[w.plane].dmabuf, p[w.plane].offset + w.at>>
           bytes == {Byte(w) : w \in W}
<1>1. cfg.size.width \in Nat \ {0} /\ cfg.size.height \in Nat \ {0} BY DEF Fitting
<1>2. {w.what : w \in W} = S BY <1>1, EverySample
<1>3. \A w \in W : w.plane = PlaneOf(p, w.what) /\ w.at = ReadAt(cfg, dst, w.what) BY AsRead
<1>4. IsFiniteSet(S) BY <1>1, SamplesFinite
<1>5. \A q, r \in S : f[q] = f[r] => q = r BY BytesApart
<1>6. \A w \in W : w.what \in S /\ Byte(w) = f[w.what]
  BY <1>2, <1>3 DEF ByteOf
<1>7. \A q \in S : \E w \in W : w.what = q BY <1>2
<1> HIDE DEF S, f, p, W, Byte
<1>8. bytes = {f[q] : q \in S} BY <1>6, <1>7
<1>9. Cardinality({f[q] : q \in S}) = Cardinality(S) BY <1>4, <1>5, ImageFinite
<1> QED BY <1>8, <1>9 DEF S, p, W, Byte

-----------------------------------------------------------------------------
(* What the converter knows: how it is configured, whose buffers it has, which
   rows the workers are through with, and what is written.                  *)
IspInv ==
  /\ order \in Mosaics /\ configured \in BOOLEAN
  /\ conversion \in {"idle", "debayer", "write", "announced"}
  /\ configured =>
       /\ inputSize.width \in Nat /\ inputSize.width >= 2
       /\ inputSize.height \in Nat /\ inputSize.height >= 2
       /\ \A i \in DOMAIN outputs : outputs[i] \in OutputConfigs /\ outputs[i].format \in {NV12, NV21}
  /\ conversion # "idle" =>
       /\ configured
       /\ \A i \in DOMAIN given : i \in DOMAIN outputs /\ given[i] \in Given(i)
       /\ \A i \in DOMAIN image : image[i] = Writes(outputs[i], given[i].planes)
  /\ conversion = "debayer" =>
       /\ DOMAIN row = 0..(workerCount - 1)
       /\ \A w \in DOMAIN row : row[w] \in Nat /\ First(w) <= row[w] /\ row[w] <= First(w + 1)
       /\ rgb = UNION {First(w)..(row[w] - 1) : w \in DOMAIN row}
  /\ conversion \in {"write", "announced"} => rgb = 0..(inputSize.height - 1)
  /\ conversion = "announced" /\ result = 0 => DOMAIN given \subseteq DOMAIN image

(* The invariant holds at first, *)
LEMMA IspInitInv == IspInit => IspInv
<1> SUFFICES ASSUME IspInit PROVE IspInv OBVIOUS
<1>1. <<"G", "R", "B", "G">> \in Mosaics
  <2> DEFINE m == <<"G", "R", "B", "G">>
  <2>1. m \in [1..4 -> {"R", "G", "B"}] OBVIOUS
  <2>2. m[1] = "G" /\ m[2] = "R" /\ m[3] = "B" /\ 1 \in 1..4 /\ 2 \in 1..4 /\ 3 \in 1..4 OBVIOUS
  <2> QED BY <2>1, <2>2 DEF Mosaics
<1> QED BY <1>1 DEF IspInit, IspInv

(* and each action keeps it.  configure() accepts a readable format and a size
   that is not too small, or the converter is not configured. *)
LEMMA ConfigureKeeps ==
  ASSUME IspInv, Configure
  PROVE  IspInv'
<1>1. PICK format \in InputFormats, s \in InputSizes : \E cfgs \in Asked(s) :
        LET readable == Readable(format)
            large    == s.width >= MinInput /\ s.height >= MinInput
            refused  == {i \in DOMAIN cfgs : cfgs[i].format \notin {NV12, NV21}}
            taken    == IF refused = {} THEN cfgs ELSE SubSeq(cfgs, 1, Min(refused) - 1)
        IN  /\ order' = (IF readable THEN BayerOrder[format] ELSE order)
            /\ inputSize' = (IF readable /\ large THEN s ELSE inputSize)
            /\ outputs' = (IF readable /\ large THEN taken ELSE outputs)
            /\ configured' = (readable /\ large /\ refused = {})
  BY DEF Configure
<1>2. PICK cfgs \in Asked(s) :
        LET readable == Readable(format)
            large    == s.width >= MinInput /\ s.height >= MinInput
            refused  == {i \in DOMAIN cfgs : cfgs[i].format \notin {NV12, NV21}}
            taken    == IF refused = {} THEN cfgs ELSE SubSeq(cfgs, 1, Min(refused) - 1)
        IN  /\ order' = (IF readable THEN BayerOrder[format] ELSE order)
            /\ inputSize' = (IF readable /\ large THEN s ELSE inputSize)
            /\ outputs' = (IF readable /\ large THEN taken ELSE outputs)
            /\ configured' = (readable /\ large /\ refused = {})
  BY <1>1
<1>3. conversion = "idle" /\ UNCHANGED <<conversion, given, rgb, row, image, result>> BY DEF Configure
<1>4. order' \in Mosaics BY <1>2, IspAssumption DEF IspInv, Readable
<1>5. configured' \in BOOLEAN BY <1>2
<1>6. ASSUME configured'
      PROVE  /\ (inputSize.width)' \in Nat /\ (inputSize.width)' >= 2
             /\ (inputSize.height)' \in Nat /\ (inputSize.height)' >= 2
             /\ \A i \in DOMAIN outputs' :
                  outputs'[i] \in OutputConfigs /\ outputs'[i].format \in {NV12, NV21}
  <2>1. /\ s.width >= MinInput /\ s.height >= MinInput
        /\ {i \in DOMAIN cfgs : cfgs[i].format \notin {NV12, NV21}} = {}
        /\ inputSize' = s /\ outputs' = cfgs
    BY <1>2, <1>6
  <2>2. s.width \in Nat /\ s.height \in Nat /\ MinInput \in Nat /\ MinInput >= 2 BY IspAssumption
  <2>3. \A i \in DOMAIN cfgs : cfgs[i] \in OutputConfigs BY DEF Asked
  <2> QED BY <2>1, <2>2, <2>3
<1> QED BY <1>3, <1>4, <1>5, <1>6 DEF IspInv

(* What depends on the sizes alone. *)
LEMMA SameFrame ==
  ASSUME UNCHANGED <<inputSize, outputs>>
  PROVE  /\ \A i : Given(i)' = Given(i) /\ outputs[i]' = outputs[i]
         /\ \A cfg, p : Writes(cfg, p)' = Writes(cfg, p)
         /\ workerCount' = workerCount /\ \A v : First(v)' = First(v)
BY DEF Given, Exported, Writes, From, workerCount, First

(* Workers begin at the first row of their bands. *)
LEMMA QueueKeeps ==
  ASSUME IspInv, QueueBuffers
  PROVE  IspInv'
<1>1. /\ conversion = "idle" /\ configured /\ conversion' = "debayer" /\ rgb' = {}
      /\ row' = [w \in 0..(workerCount - 1) |-> First(w)]
      /\ image' = <<>> /\ UNCHANGED <<order, inputSize, outputs, configured>>
  BY DEF QueueBuffers
<1>2. \A i \in DOMAIN given' : i \in DOMAIN outputs /\ given'[i] \in Given(i)
  <2>1. PICK indices \in (SUBSET DOMAIN outputs) \ {{}} :
          \E buffers \in [indices -> UNION {Given(i) : i \in indices}] :
            (\A i \in indices : buffers[i] \in Given(i)) /\ given' = buffers
    BY DEF QueueBuffers
  <2> QED BY <2>1
<1>3. inputSize.height \in Nat /\ inputSize.height >= 2 BY <1>1 DEF IspInv
<1>4. /\ workerCount \in 2..4
      /\ \A w \in 0..(workerCount - 1) :
           First(w) \in Nat /\ First(w + 1) \in Nat /\ First(w) <= First(w + 1)
  BY <1>3, Bands
<1>5. workerCount' = workerCount /\ (\A w : First(w)' = First(w)) BY <1>1 DEF workerCount, First
<1>6. \A i : Given(i)' = Given(i) BY <1>1 DEF Given, Exported
<1>7. \A w \in 0..(workerCount - 1) : First(w)..(First(w) - 1) = {} BY <1>4
<1>8. UNION {First(w)..(row'[w] - 1) : w \in DOMAIN row'} = {}
  <2>1. DOMAIN row' = 0..(workerCount - 1) /\ \A w \in DOMAIN row' : row'[w] = First(w) BY <1>1
  <2> QED BY <1>7, <2>1
<1>9. \A w \in DOMAIN row' : row'[w] \in Nat /\ First(w) <= row'[w] /\ row'[w] <= First(w + 1)
  BY <1>1, <1>4
<1> QED BY <1>1, <1>2, <1>5, <1>6, <1>8, <1>9 DEF IspInv

(* A worker adds its row to those that are of this frame. *)
LEMMA ProcessRowKeeps ==
  ASSUME IspInv, NEW w \in DOMAIN row, ProcessRow(w)
  PROVE  IspInv'
<1>1. /\ conversion = "debayer" /\ row[w] < First(w + 1) /\ rgb' = rgb \cup {row[w]}
      /\ row' = [row EXCEPT ![w] = @ + 1]
      /\ UNCHANGED <<order, inputSize, outputs, configured, conversion, given, image, result>>
  BY DEF ProcessRow
<1>2. /\ DOMAIN row = 0..(workerCount - 1)
      /\ \A v \in DOMAIN row : row[v] \in Nat /\ First(v) <= row[v] /\ row[v] <= First(v + 1)
      /\ rgb = UNION {First(v)..(row[v] - 1) : v \in DOMAIN row}
      /\ inputSize.height \in Nat /\ inputSize.height >= 2
  BY <1>1 DEF IspInv
<1>3. \A v \in DOMAIN row : First(v) \in Nat /\ First(v + 1) \in Nat BY <1>2, Bands
<1>4. workerCount' = workerCount /\ (\A v : First(v)' = First(v)) BY <1>1, SameFrame
<1>5. DOMAIN row' = DOMAIN row /\ \A v \in DOMAIN row : row'[v] = IF v = w THEN row[v] + 1 ELSE row[v]
  BY <1>1
<1>6. \A v \in DOMAIN row' : row'[v] \in Nat /\ First(v) <= row'[v] /\ row'[v] <= First(v + 1)
  BY <1>1, <1>2, <1>3, <1>5
<1>7. First(w)..(row[w] + 1 - 1) = (First(w)..(row[w] - 1)) \cup {row[w]}
  <2> DEFINE a == First(w)
             b == row[w]
  <2>1. a \in Nat /\ b \in Nat /\ a <= b BY <1>2, <1>3
  <2> HIDE DEF a, b
  <2>2. a..(b + 1 - 1) = (a..(b - 1)) \cup {b} BY <2>1
  <2> QED BY <2>2 DEF a, b
<1>8. rgb' = UNION {First(v)..(row'[v] - 1) : v \in DOMAIN row'}
  <2> DEFINE A(v) == First(v)..(row[v] - 1)
             B(v) == First(v)..(row'[v] - 1)
  <2>1. B(w) = A(w) \cup {row[w]} BY <1>5, <1>7
  <2>2. ASSUME NEW v \in DOMAIN row, v # w PROVE B(v) = A(v)
    <3>1. row'[v] = row[v] BY <1>5, <2>2
    <3> QED BY <3>1
  <2>3. rgb = UNION {A(v) : v \in DOMAIN row} /\ rgb' = rgb \cup {row[w]}
    <3>1. rgb' = rgb \cup {row[w]} BY <1>1
    <3>2. rgb = UNION {A(v) : v \in DOMAIN row} BY <1>2
    <3> QED BY <3>1, <3>2
  <2> HIDE DEF A, B
  <2>4. ASSUME NEW x \in rgb' PROVE \E v \in DOMAIN row : x \in B(v)
    <3>1. CASE x = row[w] BY <2>1, <3>1
    <3>2. CASE x \in rgb
      <4>1. PICK v \in DOMAIN row : x \in A(v) BY <2>3, <3>2
      <4>2. x \in B(v) BY <2>1, <2>2, <4>1
      <4> QED BY <4>2
    <3> QED BY <2>3, <2>4, <3>1, <3>2
  <2>5. ASSUME NEW v \in DOMAIN row, NEW x \in B(v) PROVE x \in rgb'
    <3>1. x \in A(v) \/ x = row[w]
      <4>1. CASE v = w BY <2>1, <4>1
      <4>2. CASE v # w BY <2>2, <4>2
      <4> QED BY <4>1, <4>2
    <3> QED BY <2>3, <3>1
  <2>6. rgb' = UNION {B(v) : v \in DOMAIN row} BY <2>4, <2>5
  <2> QED BY <2>6, <1>5 DEF B
<1>9. \A i : Given(i)' = Given(i) BY <1>1, SameFrame
<1>10. ~(conversion' \in {"write", "announced"}) /\ conversion' # "idle" BY <1>1
<1>11. \A i \in DOMAIN image' : image'[i] = Writes(outputs[i], given[i].planes)'
  BY <1>1, SameFrame DEF IspInv
<1>12. \A i \in DOMAIN given' : i \in DOMAIN outputs' /\ given'[i] \in Given(i)'
  BY <1>1, <1>9 DEF IspInv
<1>13. configured' /\ conversion' = "debayer" /\ order' \in Mosaics /\ configured' \in BOOLEAN
       /\ (inputSize.width)' \in Nat /\ (inputSize.width)' >= 2
       /\ (inputSize.height)' \in Nat /\ (inputSize.height)' >= 2
       /\ \A i \in DOMAIN outputs' : outputs'[i] \in OutputConfigs /\ outputs'[i].format \in {NV12, NV21}
  BY <1>1 DEF IspInv
<1>14. DOMAIN row' = 0..(workerCount - 1) BY <1>2, <1>5
<1> QED BY <1>4, <1>6, <1>8, <1>10, <1>11, <1>12, <1>13, <1>14 DEF IspInv

(* When all workers are through, all rows are. *)
LEMMA JoinKeeps ==
  ASSUME IspInv, Join
  PROVE  IspInv'
<1>1. /\ conversion = "debayer" /\ conversion' = "write" /\ (\A w \in DOMAIN row : row[w] = First(w + 1))
      /\ UNCHANGED <<order, inputSize, outputs, configured, given, rgb, row, image, result>>
  BY DEF Join
<1>2. /\ DOMAIN row = 0..(workerCount - 1)
      /\ rgb = UNION {First(v)..(row[v] - 1) : v \in DOMAIN row}
      /\ inputSize.height \in Nat /\ inputSize.height >= 2
  BY <1>1 DEF IspInv
<1>3. rgb = UNION {First(v)..(First(v + 1) - 1) : v \in 0..(workerCount - 1)} BY <1>1, <1>2
<1>4. rgb = 0..(inputSize.height - 1) BY <1>2, <1>3, BandsAreAll
<1>5. \A i : Given(i)' = Given(i) BY <1>1, SameFrame
<1>6. \A i \in DOMAIN image' : image'[i] = Writes(outputs[i], given[i].planes)'
  BY <1>1, SameFrame DEF IspInv
<1>7. rgb' = 0..((inputSize.height)' - 1) BY <1>1, <1>4
<1> QED BY <1>1, <1>5, <1>6, <1>7 DEF IspInv

(* An image is written as Writes has it. *)
LEMMA WriteKeeps ==
  ASSUME IspInv, WriteOutput
  PROVE  IspInv'
<1> DEFINE index == Min(Unwritten)
<1>1. /\ conversion = "write"
      /\ image' = [i \in DOMAIN image \cup {index} |->
                     IF i = index THEN Writes(outputs[i], given[i].planes) ELSE image[i]]
      /\ UNCHANGED <<order, inputSize, outputs, configured, conversion, given, rgb, row, result>>
  BY DEF WriteOutput
<1>2. \A i \in DOMAIN image : image[i] = Writes(outputs[i], given[i].planes) BY <1>1 DEF IspInv
<1> HIDE DEF index
<1>3. \A i \in DOMAIN image' : image'[i] = Writes(outputs[i], given[i].planes) BY <1>1, <1>2
<1>4. \A i : Given(i)' = Given(i) BY <1>1, SameFrame
<1>5. \A i \in DOMAIN image' : image'[i] = Writes(outputs[i], given[i].planes)'
  BY <1>1, <1>3, SameFrame
<1>6. conversion' = "write" /\ rgb' = 0..((inputSize.height)' - 1) BY <1>1 DEF IspInv
<1> QED BY <1>1, <1>4, <1>5, <1>6 DEF IspInv

(* The buffers are announced when all are written, or when there is an error. *)
LEMMA AnnounceKeeps ==
  ASSUME IspInv, Announce
  PROVE  IspInv'
<1>1. /\ conversion = "write" /\ (result # 0 \/ Unwritten = {}) /\ conversion' = "announced"
      /\ UNCHANGED <<order, inputSize, outputs, configured, given, rgb, row, image, result>>
  BY DEF Announce
<1>2. result' = 0 => DOMAIN given' \subseteq DOMAIN image' BY <1>1 DEF Unwritten
<1>3. \A i : Given(i)' = Given(i) BY <1>1, SameFrame
<1>4. \A i \in DOMAIN image' : image'[i] = Writes(outputs[i], given[i].planes)'
  BY <1>1, SameFrame DEF IspInv
<1>5. rgb' = 0..((inputSize.height)' - 1) BY <1>1 DEF IspInv
<1> QED BY <1>1, <1>2, <1>3, <1>4, <1>5 DEF IspInv

(* An error leaves what was written. *)
LEMMA MapFailsKeeps ==
  ASSUME IspInv, OutputMapFails
  PROVE  IspInv'
<1>1. /\ conversion = "write"
      /\ UNCHANGED <<order, inputSize, outputs, configured, conversion, given, rgb, row, image>>
  BY DEF OutputMapFails
<1>2. \A i : Given(i)' = Given(i) BY <1>1, SameFrame
<1>3. \A i \in DOMAIN image' : image'[i] = Writes(outputs[i], given[i].planes)'
  BY <1>1, SameFrame DEF IspInv
<1>4. rgb' = 0..((inputSize.height)' - 1) BY <1>1 DEF IspInv
<1> QED BY <1>1, <1>2, <1>3, <1>4 DEF IspInv

(* Any step keeps the invariant. *)
LEMMA IspKeeps == IspInv /\ [IspNext]_ispVars => IspInv'
<1> SUFFICES ASSUME IspInv, [IspNext]_ispVars PROVE IspInv' OBVIOUS
<1>1. CASE Configure BY <1>1, ConfigureKeeps
<1>2. CASE QueueBuffers BY <1>2, QueueKeeps
<1>3. CASE \E w \in DOMAIN row : ProcessRow(w) BY <1>3, ProcessRowKeeps
<1>4. CASE Join BY <1>4, JoinKeeps
<1>5. CASE WriteOutput BY <1>5, WriteKeeps
<1>6. CASE OutputMapFails BY <1>6, MapFailsKeeps
<1>7. CASE Announce BY <1>7, AnnounceKeeps
<1>8. CASE ReturnFromQueue BY <1>8 DEF ReturnFromQueue, IspInv
<1>9. CASE UNCHANGED ispVars
  <2>1. UNCHANGED <<inputSize, outputs>> /\ UNCHANGED <<order, configured, conversion, given, rgb, row, image, result>>
    BY <1>9 DEF ispVars
  <2>2. \A i : Given(i)' = Given(i) BY <2>1, SameFrame
  <2>3. workerCount' = workerCount /\ \A v : First(v)' = First(v) BY <2>1, SameFrame
  <2>4. conversion' # "idle" =>
          \A i \in DOMAIN image' : image'[i] = Writes(outputs[i], given[i].planes)'
    BY <2>1, SameFrame DEF IspInv
  <2>5. conversion' = "debayer" =>
          /\ DOMAIN row' = 0..(workerCount - 1)
          /\ \A w \in DOMAIN row' : row'[w] \in Nat /\ First(w) <= row'[w] /\ row'[w] <= First(w + 1)
          /\ rgb' = UNION {First(w)..(row'[w] - 1) : w \in DOMAIN row'}
    BY <2>1 DEF IspInv
  <2> QED BY <2>1, <2>2, <2>3, <2>4, <2>5 DEF IspInv
<1> QED BY <1>1, <1>2, <1>3, <1>4, <1>5, <1>6, <1>7, <1>8, <1>9 DEF IspNext

-----------------------------------------------------------------------------
(* What ImageIsWhole says of an announced image. *)
WholeImage(cfg, dst, writes) ==
  LET layout == dst.planes
      Byte(w) == <<layout[w.plane].dmabuf, layout[w.plane].offset + w.at>>
      luma   == {"Y"} \X (0..(cfg.size.height - 1)) \X (0..(cfg.size.width - 1))
      chroma == {"U", "V"} \X (0..((cfg.size.height - 1) \div 2))
                           \X (0..((cfg.size.width - 1) \div 2))
  IN  /\ {w.what : w \in writes} = luma \cup chroma
      /\ Cardinality({Byte(w) : w \in writes}) = Cardinality(luma \cup chroma)
      /\ \A w \in writes :
           /\ w.at < layout[w.plane].length
           /\ w.at = ReadAt(cfg, dst, w.what)
           /\ w.what[1] = "Y" =>
                w.from \subseteq Near(w.what[2], inputSize.height, cfg.size.height)
                                   \X Near(w.what[3], inputSize.width, cfg.size.width)
           /\ w.from # {}

(* What is written to a buffer that it fits in is whole. *)
LEMMA WrittenIsWhole ==
  ASSUME inputSize.height \in Nat \ {0}, inputSize.width \in Nat \ {0},
         NEW cfg, NEW dst, Fitting(cfg, dst), dst.exported \in BOOLEAN
  PROVE  WholeImage(cfg, dst, Writes(cfg, dst.planes))
<1> DEFINE p == dst.planes
           W == Writes(cfg, p)
           Byte(w) == <<p[w.plane].dmabuf, p[w.plane].offset + w.at>>
<1>1. cfg.size.width \in Nat \ {0} /\ cfg.size.height \in Nat \ {0} BY DEF Fitting
<1>2. {w.what : w \in W} = Lumas(cfg.size) \cup Chromas(cfg.size) BY <1>1, EverySample
<1>3. Cardinality({Byte(w) : w \in W}) = Cardinality(Lumas(cfg.size) \cup Chromas(cfg.size))
  BY ByteCount
<1>4. ASSUME NEW w \in W
      PROVE  /\ w.at < p[w.plane].length
             /\ w.at = ReadAt(cfg, dst, w.what)
             /\ w.what[1] = "Y" =>
                  w.from \subseteq Near(w.what[2], inputSize.height, cfg.size.height)
                                     \X Near(w.what[3], inputSize.width, cfg.size.width)
             /\ w.from # {}
  <2>1. w.what \in Lumas(cfg.size) \cup Chromas(cfg.size) BY <1>2
  <2>2. w.plane = PlaneOf(p, w.what) /\ w.at = ReadAt(cfg, dst, w.what) BY AsRead
  <2>3. ReadAt(cfg, dst, w.what) < p[PlaneOf(p, w.what)].length BY <2>1, PlacesFit
  <2>4. /\ w.what[1] = "Y" =>
             w.from \subseteq Near(w.what[2], inputSize.height, cfg.size.height)
                                \X Near(w.what[3], inputSize.width, cfg.size.width)
        /\ w.from # {}
    BY AsRead
  <2> QED BY <2>2, <2>3, <2>4
<1> HIDE DEF W
<1> QED BY <1>2, <1>3, <1>4, Zenon DEF WholeImage, Lumas, Chromas, W

(* The invariant implies the property. *)
LEMMA IspInvIsEnough == IspInv => ImageIsWhole
<1> SUFFICES ASSUME IspInv, conversion = "announced", result = 0
      PROVE  /\ rgb = 0..(inputSize.height - 1)
             /\ \A r \in rgb, c \in 0..(inputSize.width - 1), target \in {"R", "G", "B"} :
                  Samples(r, c, target) # {}
             /\ \A i \in DOMAIN given : ~(given[i].exported /\ Odd(outputs[i])) =>
                  WholeImage(outputs[i], given[i], image[i])
  BY Zenon DEF ImageIsWhole, WholeImage
<1>1. /\ configured /\ rgb = 0..(inputSize.height - 1) /\ DOMAIN given \subseteq DOMAIN image
      /\ order \in Mosaics
  BY DEF IspInv
<1>2. /\ inputSize.width \in Nat /\ inputSize.width >= 2
      /\ inputSize.height \in Nat /\ inputSize.height >= 2
  BY <1>1 DEF IspInv
<1>3. ASSUME NEW r \in rgb, NEW c \in 0..(inputSize.width - 1), NEW target \in {"R", "G", "B"}
      PROVE  Samples(r, c, target) # {}
  BY <1>1, <1>2, EveryColour
<1>4. ASSUME NEW i \in DOMAIN given, ~(given[i].exported /\ Odd(outputs[i]))
      PROVE  WholeImage(outputs[i], given[i], image[i])
  <2> DEFINE cfg == outputs[i]
             dst == given[i]
  <2>1. /\ cfg \in OutputConfigs /\ cfg.format \in {NV12, NV21}
        /\ dst \in Given(i) /\ image[i] = Writes(cfg, dst.planes)
    BY <1>1 DEF IspInv
  <2>2. Fitting(cfg, dst) /\ dst.exported \in BOOLEAN
    <3>1. CASE dst = Exported(i)
      <4>1. dst.exported = TRUE BY <3>1 DEF Exported
      <4>2. ~Odd(outputs[i]) BY <1>4, <4>1
      <4> QED BY <2>1, <3>1, <4>1, <4>2, ExportedFits
    <3>2. CASE dst \in [exported : {FALSE}, planes : HalPlanes(outputs[i].format, outputs[i].size)]
      <4>1. ~dst.exported /\ dst.exported \in BOOLEAN
            /\ dst.planes \in HalPlanes(cfg.format, cfg.size)
        BY <3>2
      <4> QED BY <2>1, <4>1, HalFits
    <3> QED BY <2>1, <3>1, <3>2 DEF Given
  <2>3. inputSize.height \in Nat \ {0} /\ inputSize.width \in Nat \ {0} BY <1>2
  <2> QED BY <2>1, <2>2, <2>3, WrittenIsWhole
<1> QED BY <1>1, <1>3, <1>4

(* An image that queueBuffers() announces without an error is whole, for any
   input and output sizes, mosaics and fixed-point scale, and whatever order
   the workers do their rows in: of this frame alone, with each sample where
   the reader of the buffer looks for it, made of the pixels next to its place. *)
THEOREM ImagesAreWhole == IspSpec => []ImageIsWhole
<1>1. IspInit => IspInv BY IspInitInv
<1>2. IspInv /\ [IspNext]_ispVars => IspInv' BY IspKeeps
<1>3. IspInv => ImageIsWhole BY IspInvIsEnough
<1> QED BY <1>1, <1>2, <1>3, PTL DEF IspSpec

-----------------------------------------------------------------------------
(* StreamConfigs *)
ListedStreams == DOMAIN list

ListedWell == list \in Seq(RequestedStreams)

MadeTypes == {"Direct", "Internal", "Mapped"}
Roles     == {"StillCapture", "YuvSnapshot", "VideoRecording", "Viewfinder", "none"}

StreamEntry  == [stream : ListedStreams, type : MadeTypes]
StreamConfig == [streams : Seq(StreamEntry), size : Int, format : Int, role : Roles]

(* Every stream that is placed is in one place: first in its configuration, or
   mapped, and of the configuration's size.                                 *)
PlacedOnce(cs) ==
  \A k, l \in 1..Len(cs) : \A m \in 1..Len(cs[k].streams), n \in 1..Len(cs[l].streams) :
    cs[k].streams[m].stream = cs[l].streams[n].stream => k = l /\ m = n

WellMade(cs) ==
  /\ cs \in Seq(StreamConfig)
  /\ \A k \in 1..Len(cs) :
       /\ Len(cs[k].streams) > 0
       /\ \A n \in 1..Len(cs[k].streams) :
            /\ list[cs[k].streams[n].stream].size = cs[k].size
            /\ (n = 1) = (cs[k].streams[n].type # "Mapped")
  /\ PlacedOnce(cs)

IsPlaced(cs, i) ==
  \E k \in 1..Len(cs) : \E n \in 1..Len(cs[k].streams) : cs[k].streams[n].stream = i

(* Those of D are placed. *)
Fills(cs, D) == \A i \in ListedStreams : i \in D <=> IsPlaced(cs, i)

SamePlace(k, m, l, n) == k = l /\ m = n

LEMMA OncePlaced ==
  ASSUME NEW cs, PlacedOnce(cs), NEW k \in 1..Len(cs), NEW l \in 1..Len(cs),
         NEW m \in 1..Len(cs[k].streams), NEW n \in 1..Len(cs[l].streams),
         cs[k].streams[m].stream = cs[l].streams[n].stream
  PROVE  SamePlace(k, m, l, n)
BY DEF PlacedOnce, SamePlace

LEMMA ConfigParts ==
  ASSUME NEW c \in StreamConfig
  PROVE  /\ c = [streams |-> c.streams, size |-> c.size, format |-> c.format, role |-> c.role]
         /\ c.streams \in Seq(StreamEntry) /\ c.size \in Int /\ c.format \in Int /\ c.role \in Roles
<1> DEFINE Q == Seq(StreamEntry)
<1>1. c \in [streams : Q, size : Int, format : Int, role : Roles] BY DEF StreamConfig
<1> HIDE DEF Q
<1>2. /\ c = [streams |-> c.streams, size |-> c.size, format |-> c.format, role |-> c.role]
      /\ c.streams \in Q /\ c.size \in Int /\ c.format \in Int /\ c.role \in Roles
  BY <1>1
<1> QED BY <1>2 DEF Q

LEMMA ConfigOf ==
  ASSUME NEW q \in Seq(StreamEntry), NEW extent \in Int, NEW format \in Int, NEW role \in Roles
  PROVE  [streams |-> q, size |-> extent, format |-> format, role |-> role] \in StreamConfig
<1> DEFINE Q == Seq(StreamEntry)
<1>1. q \in Q OBVIOUS
<1> HIDE DEF Q
<1>2. [streams |-> q, size |-> extent, format |-> format, role |-> role]
        \in [streams : Q, size : Int, format : Int, role : Roles]
  BY <1>1
<1> QED BY <1>2 DEF Q, StreamConfig

LEMMA ListedStream ==
  ASSUME ListedWell, NEW i \in ListedStreams
  PROVE  /\ i \in Nat \ {0} /\ ListedStreams = 1..Len(list) /\ Len(list) \in Nat
         /\ list[i].size \in Int /\ list[i].format \in DOMAIN ToPixelFormat
         /\ ToPixelFormat[list[i].format] \in Int /\ ToPixelFormat[Blob] \in Int /\ NV12 \in Int
<1>1. ListedStreams = 1..Len(list) /\ Len(list) \in Nat /\ list[i] \in RequestedStreams
  BY DEF ListedWell, ListedStreams
<1> QED BY <1>1, RequestedAssumption

LEMMA ConfigForType ==
  ASSUME ListedWell, NEW i \in ListedStreams, NEW type \in MadeTypes, NEW format \in Int, NEW role \in Roles
  PROVE  LET c == ConfigFor(i, type, format, role)
         IN  /\ c \in StreamConfig
             /\ Len(c.streams) = 1 /\ c.streams[1].stream = i /\ c.streams[1].type = type
             /\ c.size = list[i].size /\ c.format = format /\ c.role = role
<1> DEFINE e == [stream |-> i, type |-> type]
           q == <<e>>
           c == [streams |-> q, size |-> list[i].size, format |-> format, role |-> role]
<1>1. ConfigFor(i, type, format, role) = c BY DEF ConfigFor
<1>2. e \in StreamEntry /\ e.stream = i /\ e.type = type BY DEF StreamEntry
<1> HIDE DEF e
<1>3. q \in Seq(StreamEntry) /\ Len(q) = 1 /\ q[1] = e BY <1>2
<1>4. list[i].size \in Int BY ListedStream
<1> HIDE DEF q
<1>5. c \in StreamConfig BY <1>3, <1>4, ConfigOf
<1>6. c.streams = q /\ c.size = list[i].size /\ c.format = format /\ c.role = role OBVIOUS
<1> HIDE DEF c
<1> QED BY <1>1, <1>2, <1>3, <1>5, <1>6

LEMMA MapOntoType ==
  ASSUME NEW c \in StreamConfig, NEW i \in ListedStreams
  PROVE  LET d == MapOnto(c, i)
             N == Len(c.streams)
         IN  /\ d \in StreamConfig /\ N \in Nat
             /\ Len(d.streams) = N + 1
             /\ \A n \in 1..N : d.streams[n] = c.streams[n]
             /\ d.streams[N + 1].stream = i /\ d.streams[N + 1].type = "Mapped"
             /\ d.size = c.size /\ d.format = c.format /\ d.role = c.role
<1> DEFINE e == [stream |-> i, type |-> "Mapped"]
           q == Append(c.streams, e)
           d == MapOnto(c, i)
           N == Len(c.streams)
<1>1. d = [c EXCEPT !.streams = q] BY DEF MapOnto
<1>2. e \in StreamEntry /\ e.stream = i /\ e.type = "Mapped" BY DEF StreamEntry, MadeTypes
<1>3. /\ c = [streams |-> c.streams, size |-> c.size, format |-> c.format, role |-> c.role]
      /\ c.streams \in Seq(StreamEntry) /\ c.size \in Int /\ c.format \in Int /\ c.role \in Roles
  BY ConfigParts
<1> HIDE DEF e, d
<1>4. /\ q \in Seq(StreamEntry) /\ N \in Nat /\ Len(q) = N + 1
      /\ \A n \in 1..N : q[n] = c.streams[n]
      /\ q[N + 1] = e
  BY <1>2, <1>3, AppendProperties
<1> HIDE DEF q
<1>5. d = [streams |-> q, size |-> c.size, format |-> c.format, role |-> c.role] BY <1>1, <1>3
<1>6. d \in StreamConfig BY <1>3, <1>4, <1>5, ConfigOf
<1>7. d.streams = q /\ d.size = c.size /\ d.format = c.format /\ d.role = c.role BY <1>5
<1> QED BY <1>2, <1>4, <1>6, <1>7 DEF d

LEMMA MinHost ==
  ASSUME NEW N \in Nat, NEW S \in SUBSET (1..N), S # {}
  PROVE  Min(S) \in S
BY MinInSet

LEMMA PlaceType ==
  ASSUME NEW cs \in Seq(StreamConfig), NEW hosts \in SUBSET DOMAIN cs, NEW i \in ListedStreams,
         NEW own \in StreamConfig
  PROVE  LET r == Place(cs, hosts, i, own)
         IN  /\ r \in Seq(StreamConfig)
             /\ hosts # {} => /\ Len(r) = Len(cs) /\ Min(hosts) \in hosts
                              /\ \A k \in 1..Len(cs) : k # Min(hosts) => r[k] = cs[k]
                              /\ r[Min(hosts)] = MapOnto(cs[Min(hosts)], i)
             /\ hosts = {} => r = Append(cs, own)
<1> DEFINE r == Place(cs, hosts, i, own)
           m == Min(hosts)
<1>1. CASE hosts = {}
  <2>1. r = Append(cs, own) BY <1>1 DEF Place
  <2> QED BY <1>1, <2>1
<1>2. CASE hosts # {}
  <2>0. Len(cs) \in Nat /\ DOMAIN cs = 1..Len(cs) OBVIOUS
  <2>1. m \in hosts /\ m \in 1..Len(cs) BY <1>2, <2>0, MinHost
  <2> HIDE DEF m
  <2>2. r = [cs EXCEPT ![m] = MapOnto(@, i)] BY <1>2 DEF Place, m
  <2>3. cs[m] \in StreamConfig BY <2>1
  <2> DEFINE d == MapOnto(cs[m], i)
  <2>4. d \in StreamConfig BY <2>3, MapOntoType
  <2>5. r = [cs EXCEPT ![m] = d] BY <2>2
  <2> HIDE DEF r, d
  <2>6. r \in Seq(StreamConfig) BY <2>1, <2>4, <2>5, ExceptSeq
  <2>7. Len(r) = Len(cs) /\ r[m] = d /\ \A k \in 1..Len(cs) : k # m => r[k] = cs[k]
    BY <2>0, <2>1, <2>5
  <2> QED BY <1>2, <2>1, <2>6, <2>7 DEF m, d, r
<1> QED BY <1>1, <1>2

(* A stream that is placed nowhere is placed, and nothing else moves. *)
LEMMA PlaceKeepsMade ==
  ASSUME ListedWell, NEW cs, WellMade(cs), NEW D, Fills(cs, D), NEW i \in ListedStreams, i \notin D,
         NEW hosts \in SUBSET {k \in DOMAIN cs : cs[k].size = list[i].size},
         NEW type \in {"Direct", "Internal"}, NEW format \in Int, NEW role \in Roles
  PROVE  LET r == Place(cs, hosts, i, ConfigFor(i, type, format, role))
         IN  WellMade(r) /\ Fills(r, D \cup {i})
<1> DEFINE c == ConfigFor(i, type, format, role)
           r == Place(cs, hosts, i, c)
           N == Len(cs)
           m == Min(hosts)
<1>1. cs \in Seq(StreamConfig) /\ N \in Nat /\ DOMAIN cs = 1..N BY DEF WellMade
<1>2. /\ c \in StreamConfig
      /\ Len(c.streams) = 1 /\ c.streams[1].stream = i /\ c.streams[1].type = type
      /\ c.size = list[i].size
  BY ConfigForType DEF MadeTypes
<1> HIDE DEF c
<1>3. /\ r \in Seq(StreamConfig)
      /\ hosts # {} => /\ Len(r) = N /\ m \in hosts
                       /\ \A k \in 1..N : k # m => r[k] = cs[k]
                       /\ r[m] = MapOnto(cs[m], i)
      /\ hosts = {} => r = Append(cs, c)
  <2>1. hosts \in SUBSET DOMAIN cs OBVIOUS
  <2>2. cs \in Seq(StreamConfig) /\ c \in StreamConfig BY <1>1, <1>2
  <2> HIDE DEF r, m
  <2>3. /\ Place(cs, hosts, i, c) \in Seq(StreamConfig)
        /\ hosts # {} => /\ Len(Place(cs, hosts, i, c)) = Len(cs) /\ Min(hosts) \in hosts
                         /\ \A k \in 1..Len(cs) : k # Min(hosts) => Place(cs, hosts, i, c)[k] = cs[k]
                         /\ Place(cs, hosts, i, c)[Min(hosts)] = MapOnto(cs[Min(hosts)], i)
        /\ hosts = {} => Place(cs, hosts, i, c) = Append(cs, c)
    BY <2>1, <2>2, PlaceType
  <2> QED BY <2>3 DEF r, m
<1>4. \A k \in 1..N :
        /\ cs[k] \in StreamConfig /\ Len(cs[k].streams) \in Nat /\ Len(cs[k].streams) > 0
        /\ \A n \in 1..Len(cs[k].streams) :
             /\ list[cs[k].streams[n].stream].size = cs[k].size
             /\ (n = 1) = (cs[k].streams[n].type # "Mapped")
  <2> TAKE k \in 1..N
  <2>1. cs[k] \in StreamConfig BY <1>1
  <2>2. cs[k].streams \in Seq(StreamEntry) BY <2>1, ConfigParts
  <2> QED BY <2>1, <2>2 DEF WellMade
<1>5. \A k \in 1..N : \A n \in 1..Len(cs[k].streams) : cs[k].streams[n].stream # i
  BY DEF Fills, IsPlaced
<1> HIDE DEF r, m
(* Every place of r is one of cs or that of i. *)
<1> DEFINE L(k) == Len(r[k].streams)
           New(k, n) == r[k].streams[n].stream = i
           Old(k, n) == /\ k \in 1..N /\ n \in 1..Len(cs[k].streams)
                        /\ r[k].streams[n] = cs[k].streams[n] /\ r[k].size = cs[k].size
<1>6. \E a \in 1..Len(r), b \in Nat \ {0} :
        /\ Len(r) \in Nat /\ N <= Len(r)
        /\ b = L(a) /\ New(a, b) /\ list[i].size = r[a].size
        /\ (b = 1) = (r[a].streams[b].type # "Mapped")
        /\ \A k \in 1..Len(r) : /\ L(k) \in Nat /\ L(k) > 0
                                /\ \A n \in 1..L(k) : (k = a /\ n = b) \/ Old(k, n)
        /\ \A k \in 1..N : \A n \in 1..Len(cs[k].streams) : n \in 1..L(k) /\ Old(k, n)
  <2>1. CASE hosts = {}
    <3>1. Len(r) = N + 1 /\ r[N + 1] = c /\ \A k \in 1..N : r[k] = cs[k]
      BY <1>1, <1>2, <1>3, <2>1, AppendProperties
    <3>2. L(N + 1) = 1 /\ New(N + 1, 1) /\ list[i].size = r[N + 1].size
          /\ r[N + 1].streams[1].type # "Mapped"
      BY <1>2, <3>1
    <3>3. \A k \in 1..N : L(k) = Len(cs[k].streams) /\ \A n \in 1..Len(cs[k].streams) : Old(k, n)
      BY <3>1
    <3> HIDE DEF L, New, Old
    <3>4. \A k \in 1..(N + 1) : k \in 1..N \/ k = N + 1 BY <1>1
    <3>5. N + 1 \in 1..Len(r) BY <1>1, <3>1
    <3>6. \A k \in 1..Len(r) : /\ L(k) \in Nat /\ L(k) > 0
                               /\ \A n \in 1..L(k) : (k = N + 1 /\ n = 1) \/ Old(k, n)
      <4> TAKE k \in 1..Len(r)
      <4>1. CASE k \in 1..N BY <1>4, <3>3, <4>1
      <4>2. CASE k = N + 1 BY <3>2, <4>2
      <4> QED BY <3>1, <3>4, <4>1, <4>2
    <3>7. \A k \in 1..N : \A n \in 1..Len(cs[k].streams) : n \in 1..L(k) /\ Old(k, n) BY <3>3
    <3>8. /\ N + 1 \in 1..Len(r) /\ 1 \in Nat \ {0}
          /\ Len(r) \in Nat /\ N <= Len(r)
          /\ 1 = L(N + 1) /\ New(N + 1, 1) /\ list[i].size = r[N + 1].size
          /\ (1 = 1) = (r[N + 1].streams[1].type # "Mapped")
      BY <1>1, <3>1, <3>2, <3>5
    <3> QED BY <3>6, <3>7, <3>8
  <2>2. CASE hosts # {}
    <3>1. /\ m \in 1..N /\ Len(r) = N /\ cs[m].size = list[i].size
          /\ \A k \in 1..N : k # m => r[k] = cs[k]
          /\ r[m] = MapOnto(cs[m], i)
      BY <1>1, <1>3, <2>2
    <3> DEFINE M == Len(cs[m].streams)
    <3>2. cs[m] \in StreamConfig /\ M \in Nat /\ M > 0 BY <1>4, <3>1
    <3>3. /\ L(m) = M + 1
          /\ \A n \in 1..M : r[m].streams[n] = cs[m].streams[n]
          /\ r[m].streams[M + 1].stream = i /\ r[m].streams[M + 1].type = "Mapped"
          /\ r[m].size = cs[m].size
      BY <3>1, <3>2, MapOntoType
    <3>4. \A k \in 1..N : k # m => L(k) = Len(cs[k].streams) /\ \A n \in 1..Len(cs[k].streams) : Old(k, n)
      BY <3>1
    <3>5. \A n \in 1..M : Old(m, n) BY <3>1, <3>3
    <3>6. New(m, M + 1) BY <3>3
    <3> HIDE DEF L, New, Old
    <3>7. \A k \in 1..Len(r) : /\ L(k) \in Nat /\ L(k) > 0
                               /\ \A n \in 1..L(k) : (k = m /\ n = M + 1) \/ Old(k, n)
      <4> TAKE k \in 1..Len(r)
      <4>1. CASE k # m BY <1>4, <3>1, <3>4, <4>1
      <4>2. CASE k = m
        <5> HIDE DEF M
        <5>1. \A n \in 1..(M + 1) : n \in 1..M \/ n = M + 1 BY <3>2
        <5> QED BY <3>2, <3>3, <3>5, <4>2, <5>1
      <4> QED BY <4>1, <4>2
    <3>8. \A k \in 1..N : \A n \in 1..Len(cs[k].streams) : n \in 1..L(k) /\ Old(k, n)
      <4> TAKE k \in 1..N
      <4>1. CASE k # m BY <3>4, <4>1
      <4>2. CASE k = m
        <5>1. \A n \in 1..M : n \in 1..(M + 1) BY <3>2
        <5> QED BY <3>3, <3>5, <4>2, <5>1
      <4> QED BY <4>1, <4>2
    <3>9. M + 1 \in Nat \ {0} /\ M + 1 # 1 /\ m \in 1..Len(r) /\ list[i].size = r[m].size
      BY <3>1, <3>2, <3>3
    <3> HIDE DEF M
    <3> QED BY <1>1, <3>1, <3>3, <3>6, <3>7, <3>8, <3>9
  <2> QED BY <2>1, <2>2
<1>7. PICK a \in 1..Len(r), b \in Nat \ {0} :
        /\ Len(r) \in Nat /\ N <= Len(r)
        /\ b = L(a) /\ New(a, b) /\ list[i].size = r[a].size
        /\ (b = 1) = (r[a].streams[b].type # "Mapped")
        /\ \A k \in 1..Len(r) : /\ L(k) \in Nat /\ L(k) > 0
                                /\ \A n \in 1..L(k) : (k = a /\ n = b) \/ Old(k, n)
        /\ \A k \in 1..N : \A n \in 1..Len(cs[k].streams) : n \in 1..L(k) /\ Old(k, n)
  BY <1>6
<1>8. ASSUME NEW k \in 1..Len(r), NEW n \in 1..L(k)
      PROVE  /\ list[r[k].streams[n].stream].size = r[k].size
             /\ (n = 1) = (r[k].streams[n].type # "Mapped")
  <2>1. CASE k = a /\ n = b BY <1>7, <2>1
  <2>2. CASE Old(k, n) BY <1>4, <2>2
  <2> QED BY <1>7, <2>1, <2>2
<1>9. PlacedOnce(r)
  <2> SUFFICES ASSUME NEW k \in 1..Len(r), NEW l \in 1..Len(r), NEW j \in 1..L(k), NEW n \in 1..L(l),
                      r[k].streams[j].stream = r[l].streams[n].stream
               PROVE  k = l /\ j = n
    BY DEF PlacedOnce
  <2>1. (k = a /\ j = b) \/ Old(k, j) BY <1>7
  <2>2. (l = a /\ n = b) \/ Old(l, n) BY <1>7
  <2>3. r[a].streams[b].stream = i BY <1>7
  <2>4. CASE Old(k, j) /\ Old(l, n)
    <3>1. PlacedOnce(cs) BY DEF WellMade
    <3>2. /\ k \in 1..Len(cs) /\ j \in 1..Len(cs[k].streams)
          /\ l \in 1..Len(cs) /\ n \in 1..Len(cs[l].streams)
          /\ cs[k].streams[j].stream = cs[l].streams[n].stream
      BY <2>4
    <3>3. SamePlace(k, j, l, n) BY <3>1, <3>2, OncePlaced
    <3> QED BY <3>3 DEF SamePlace
  <2>5. CASE Old(k, j) /\ l = a /\ n = b BY <1>5, <2>3, <2>5
  <2>6. CASE Old(l, n) /\ k = a /\ j = b BY <1>5, <2>3, <2>6
  <2> QED BY <2>1, <2>2, <2>4, <2>5, <2>6
<1>10. WellMade(r) BY <1>3, <1>7, <1>8, <1>9 DEF WellMade
<1>11. Fills(r, D \cup {i})
  <2> SUFFICES ASSUME NEW x \in ListedStreams PROVE x \in D \cup {i} <=> IsPlaced(r, x) BY DEF Fills
  <2>1. x \in D <=> IsPlaced(cs, x) BY DEF Fills
  <2>2. ASSUME x \in D PROVE IsPlaced(r, x)
    <3>1. PICK k \in 1..N : \E n \in 1..Len(cs[k].streams) : cs[k].streams[n].stream = x
      BY <2>1, <2>2 DEF IsPlaced
    <3>2. PICK n \in 1..Len(cs[k].streams) : cs[k].streams[n].stream = x BY <3>1
    <3>3. n \in 1..L(k) /\ Old(k, n) /\ k \in 1..Len(r) BY <1>1, <1>7
    <3> QED BY <3>2, <3>3 DEF IsPlaced
  <2>3. IsPlaced(r, i)
    <3>1. b \in 1..L(a) BY <1>7
    <3> QED BY <1>7, <3>1 DEF IsPlaced
  <2>4. ASSUME IsPlaced(r, x) PROVE x \in D \cup {i}
    <3>1. PICK k \in 1..Len(r) : \E n \in 1..L(k) : r[k].streams[n].stream = x BY <2>4 DEF IsPlaced
    <3>2. PICK n \in 1..L(k) : r[k].streams[n].stream = x BY <3>1
    <3>3. CASE k = a /\ n = b BY <1>7, <3>2, <3>3
    <3>4. CASE Old(k, n)
      <4>1. IsPlaced(cs, x) BY <3>2, <3>4 DEF IsPlaced
      <4> QED BY <2>1, <4>1
    <3> QED BY <1>7, <3>3, <3>4
  <2> QED BY <2>2, <2>3, <2>4
<1> QED BY <1>10, <1>11 DEF r, c

LEMMA AddJpegType ==
  ASSUME ListedWell, NEW cs \in Seq(StreamConfig), NEW i \in ListedStreams
  PROVE  AddJpeg(cs, i) \in Seq(StreamConfig)
<1> DEFINE hosts == {k \in DOMAIN cs : /\ cs[k].role = "StillCapture"
                                     /\ list[cs[k].streams[1].stream].size = list[i].size}
           c == ConfigFor(i, "Internal", ToPixelFormat[Blob], "StillCapture")
<1>1. hosts \in SUBSET DOMAIN cs OBVIOUS
<1>2. c \in StreamConfig BY ListedStream, ConfigForType DEF MadeTypes, Roles
<1>3. AddJpeg(cs, i) = Place(cs, hosts, i, c) BY DEF AddJpeg
<1> HIDE DEF hosts, c
<1> QED BY <1>1, <1>2, <1>3, PlaceType

LEMMA AddJpegRuns ==
  ASSUME ListedWell, NEW base \in Seq(StreamConfig), NEW q \in Seq(ListedStreams)
  PROVE  \E h \in [0..Len(q) -> Seq(StreamConfig)] :
           /\ h[0] = base /\ h[Len(q)] = FoldLeft(AddJpeg, base, q)
           /\ \A n \in 1..Len(q) : h[n] = AddJpeg(h[n - 1], q[n])
<1> DEFINE N == Len(q)
           R == Seq(StreamConfig)
           X == ListedStreams
           Turn == [p \in R \X X |-> AddJpeg(p[1], p[2])]
           Is(g) == g = [s \in SUBSET (DOMAIN q) |->
                           IF s = {} THEN base
                           ELSE LET x == Max(s) IN AddJpeg(g[s \ {x}], q[x])]
<1>0. N \in Nat /\ DOMAIN q = 1..N /\ q \in [1..N -> X] OBVIOUS
<1>1. \A a \in R, v \in X : AddJpeg(a, v) \in R BY AddJpegType
<1> HIDE DEF R, X
<1>2. Turn \in [R \X X -> R] BY <1>1
<1>3. \A a \in R, v \in X : Turn[<<a, v>>] = AddJpeg(a, v)
  <2> TAKE a \in R, v \in X
  <2>1. <<a, v>> \in R \X X /\ <<a, v>>[1] = a /\ <<a, v>>[2] = v OBVIOUS
  <2> QED BY <2>1
<1> HIDE DEF N, Turn
<1>4. base \in R BY DEF R
<1>5. PICK it \in [SUBSET (1..N) -> R] : IsFold(it, N, base, Turn, q)
  BY <1>0, <1>2, <1>4, FoldExists
<1>6. ASSUME NEW s \in SUBSET (1..N), s # {}
      PROVE  it[s] = AddJpeg(it[s \ {Max(s)}], q[Max(s)])
  <2>1. Max(s) \in 1..N BY <1>0, <1>6, MaxInSet
  <2>2. s \ {Max(s)} \in SUBSET (1..N) OBVIOUS
  <2>3. it[s \ {Max(s)}] \in R /\ q[Max(s)] \in X BY <1>0, <2>1, <2>2
  <2>4. it[s] = Turn[<<it[s \ {Max(s)}], q[Max(s)]>>] BY <1>5, <1>6 DEF IsFold
  <2> QED BY <2>3, <2>4, <1>3
<1>7. Is(it)
  <2>1. it[{}] = base BY <1>5 DEF IsFold
  <2>2. it = [s \in SUBSET (1..N) |->
                IF s = {} THEN base ELSE AddJpeg(it[s \ {Max(s)}], q[Max(s)])]
    BY <1>6, <2>1
  <2> QED BY <2>2, <1>0, Zenon
<1> DEFINE iter == CHOOSE g : Is(g)
<1>8. Is(iter)
  <2> HIDE DEF Is
  <2> QED BY <1>7, Zenon
<1>9. FoldLeft(AddJpeg, base, q) = iter[DOMAIN q] BY Zenon DEF FoldLeft, MapThenFoldSet
<1> HIDE DEF iter
<1>10. iter = [s \in SUBSET (1..N) |->
                IF s = {} THEN base ELSE AddJpeg(iter[s \ {Max(s)}], q[Max(s)])]
  BY <1>8, <1>0, Zenon
<1> HIDE DEF Is
<1>11. iter[{}] = base
  <2>1. {} \in SUBSET (1..N) OBVIOUS
  <2> QED BY <1>10, <2>1
<1>12. ASSUME NEW s \in SUBSET (1..N), s # {}, iter[s \ {Max(s)}] \in R
       PROVE  iter[s] = Turn[<<iter[s \ {Max(s)}], q[Max(s)]>>]
  <2>1. Max(s) \in 1..N BY <1>0, <1>12, MaxInSet
  <2>2. q[Max(s)] \in X BY <1>0, <2>1
  <2>3. iter[s] = AddJpeg(iter[s \ {Max(s)}], q[Max(s)]) BY <1>10, <1>12
  <2> QED BY <1>3, <1>12, <2>2, <2>3
<1>13. PICK h \in [0..N -> R] : TakesTurns(h, N, base, Turn, q, iter[1..N])
  <2>1. FoldsOver(iter, N, base, Turn, q, R) BY <1>11, <1>12 DEF FoldsOver
  <2>2. N \in Nat /\ q \in [1..N -> X] BY <1>0
  <2> QED BY <1>2, <1>4, <2>1, <2>2, FoldTurns
<1>14. \A n \in 1..N : h[n] = AddJpeg(h[n - 1], q[n])
  <2> TAKE n \in 1..N
  <2>1. n - 1 \in 0..N BY <1>0
  <2> QED BY <1>0, <1>3, <1>13, <2>1 DEF TakesTurns
<1>15. h[N] = FoldLeft(AddJpeg, base, q) /\ h[0] = base BY <1>0, <1>9, <1>13 DEF TakesTurns
<1> QED BY <1>13, <1>14, <1>15 DEF N, R

LEMMA AddOtherType ==
  ASSUME ListedWell, NEW cs \in Seq(StreamConfig), NEW i \in ListedStreams
  PROVE  AddOther(cs, i) \in Seq(StreamConfig)
<1> DEFINE hosts == {k \in DOMAIN cs : cs[k].size = list[i].size
                                     /\ cs[k].format = ToPixelFormat[list[i].format]}
           c == ConfigFor(i, "Direct", ToPixelFormat[list[i].format], "none")
<1>1. hosts \in SUBSET DOMAIN cs OBVIOUS
<1>2. c \in StreamConfig BY ListedStream, ConfigForType DEF MadeTypes, Roles
<1>3. AddOther(cs, i) = Place(cs, hosts, i, c) BY DEF AddOther
<1> HIDE DEF hosts, c
<1> QED BY <1>1, <1>2, <1>3, PlaceType

LEMMA AddOtherRuns ==
  ASSUME ListedWell, NEW base \in Seq(StreamConfig), NEW q \in Seq(ListedStreams)
  PROVE  \E h \in [0..Len(q) -> Seq(StreamConfig)] :
           /\ h[0] = base /\ h[Len(q)] = FoldLeft(AddOther, base, q)
           /\ \A n \in 1..Len(q) : h[n] = AddOther(h[n - 1], q[n])
<1> DEFINE N == Len(q)
           R == Seq(StreamConfig)
           X == ListedStreams
           Turn == [p \in R \X X |-> AddOther(p[1], p[2])]
           Is(g) == g = [s \in SUBSET (DOMAIN q) |->
                           IF s = {} THEN base
                           ELSE LET x == Max(s) IN AddOther(g[s \ {x}], q[x])]
<1>0. N \in Nat /\ DOMAIN q = 1..N /\ q \in [1..N -> X] OBVIOUS
<1>1. \A a \in R, v \in X : AddOther(a, v) \in R BY AddOtherType
<1> HIDE DEF R, X
<1>2. Turn \in [R \X X -> R] BY <1>1
<1>3. \A a \in R, v \in X : Turn[<<a, v>>] = AddOther(a, v)
  <2> TAKE a \in R, v \in X
  <2>1. <<a, v>> \in R \X X /\ <<a, v>>[1] = a /\ <<a, v>>[2] = v OBVIOUS
  <2> QED BY <2>1
<1> HIDE DEF N, Turn
<1>4. base \in R BY DEF R
<1>5. PICK it \in [SUBSET (1..N) -> R] : IsFold(it, N, base, Turn, q)
  BY <1>0, <1>2, <1>4, FoldExists
<1>6. ASSUME NEW s \in SUBSET (1..N), s # {}
      PROVE  it[s] = AddOther(it[s \ {Max(s)}], q[Max(s)])
  <2>1. Max(s) \in 1..N BY <1>0, <1>6, MaxInSet
  <2>2. s \ {Max(s)} \in SUBSET (1..N) OBVIOUS
  <2>3. it[s \ {Max(s)}] \in R /\ q[Max(s)] \in X BY <1>0, <2>1, <2>2
  <2>4. it[s] = Turn[<<it[s \ {Max(s)}], q[Max(s)]>>] BY <1>5, <1>6 DEF IsFold
  <2> QED BY <2>3, <2>4, <1>3
<1>7. Is(it)
  <2>1. it[{}] = base BY <1>5 DEF IsFold
  <2>2. it = [s \in SUBSET (1..N) |->
                IF s = {} THEN base ELSE AddOther(it[s \ {Max(s)}], q[Max(s)])]
    BY <1>6, <2>1
  <2> QED BY <2>2, <1>0, Zenon
<1> DEFINE iter == CHOOSE g : Is(g)
<1>8. Is(iter)
  <2> HIDE DEF Is
  <2> QED BY <1>7, Zenon
<1>9. FoldLeft(AddOther, base, q) = iter[DOMAIN q] BY Zenon DEF FoldLeft, MapThenFoldSet
<1> HIDE DEF iter
<1>10. iter = [s \in SUBSET (1..N) |->
                IF s = {} THEN base ELSE AddOther(iter[s \ {Max(s)}], q[Max(s)])]
  BY <1>8, <1>0, Zenon
<1> HIDE DEF Is
<1>11. iter[{}] = base
  <2>1. {} \in SUBSET (1..N) OBVIOUS
  <2> QED BY <1>10, <2>1
<1>12. ASSUME NEW s \in SUBSET (1..N), s # {}, iter[s \ {Max(s)}] \in R
       PROVE  iter[s] = Turn[<<iter[s \ {Max(s)}], q[Max(s)]>>]
  <2>1. Max(s) \in 1..N BY <1>0, <1>12, MaxInSet
  <2>2. q[Max(s)] \in X BY <1>0, <2>1
  <2>3. iter[s] = AddOther(iter[s \ {Max(s)}], q[Max(s)]) BY <1>10, <1>12
  <2> QED BY <1>3, <1>12, <2>2, <2>3
<1>13. PICK h \in [0..N -> R] : TakesTurns(h, N, base, Turn, q, iter[1..N])
  <2>1. FoldsOver(iter, N, base, Turn, q, R) BY <1>11, <1>12 DEF FoldsOver
  <2>2. N \in Nat /\ q \in [1..N -> X] BY <1>0
  <2> QED BY <1>2, <1>4, <2>1, <2>2, FoldTurns
<1>14. \A n \in 1..N : h[n] = AddOther(h[n - 1], q[n])
  <2> TAKE n \in 1..N
  <2>1. n - 1 \in 0..N BY <1>0
  <2> QED BY <1>0, <1>3, <1>13, <2>1 DEF TakesTurns
<1>15. h[N] = FoldLeft(AddOther, base, q) /\ h[0] = base BY <1>0, <1>9, <1>13 DEF TakesTurns
<1> QED BY <1>13, <1>14, <1>15 DEF N, R

LEMMA AddJpegByNv12Type ==
  ASSUME ListedWell, NEW cs \in Seq(StreamConfig), NEW i \in ListedStreams
  PROVE  AddJpegByNv12(cs, i) \in Seq(StreamConfig)
<1> DEFINE hosts == {k \in DOMAIN cs : cs[k].size = list[i].size}
           c == ConfigFor(i, "Internal", NV12, "none")
<1>1. hosts \in SUBSET DOMAIN cs OBVIOUS
<1>2. c \in StreamConfig BY ListedStream, ConfigForType DEF MadeTypes, Roles
<1>3. AddJpegByNv12(cs, i) = Place(cs, hosts, i, c) BY DEF AddJpegByNv12
<1> HIDE DEF hosts, c
<1> QED BY <1>1, <1>2, <1>3, PlaceType

LEMMA AddJpegByNv12Runs ==
  ASSUME ListedWell, NEW base \in Seq(StreamConfig), NEW q \in Seq(ListedStreams)
  PROVE  \E h \in [0..Len(q) -> Seq(StreamConfig)] :
           /\ h[0] = base /\ h[Len(q)] = FoldLeft(AddJpegByNv12, base, q)
           /\ \A n \in 1..Len(q) : h[n] = AddJpegByNv12(h[n - 1], q[n])
<1> DEFINE N == Len(q)
           R == Seq(StreamConfig)
           X == ListedStreams
           Turn == [p \in R \X X |-> AddJpegByNv12(p[1], p[2])]
           Is(g) == g = [s \in SUBSET (DOMAIN q) |->
                           IF s = {} THEN base
                           ELSE LET x == Max(s) IN AddJpegByNv12(g[s \ {x}], q[x])]
<1>0. N \in Nat /\ DOMAIN q = 1..N /\ q \in [1..N -> X] OBVIOUS
<1>1. \A a \in R, v \in X : AddJpegByNv12(a, v) \in R BY AddJpegByNv12Type
<1> HIDE DEF R, X
<1>2. Turn \in [R \X X -> R] BY <1>1
<1>3. \A a \in R, v \in X : Turn[<<a, v>>] = AddJpegByNv12(a, v)
  <2> TAKE a \in R, v \in X
  <2>1. <<a, v>> \in R \X X /\ <<a, v>>[1] = a /\ <<a, v>>[2] = v OBVIOUS
  <2> QED BY <2>1
<1> HIDE DEF N, Turn
<1>4. base \in R BY DEF R
<1>5. PICK it \in [SUBSET (1..N) -> R] : IsFold(it, N, base, Turn, q)
  BY <1>0, <1>2, <1>4, FoldExists
<1>6. ASSUME NEW s \in SUBSET (1..N), s # {}
      PROVE  it[s] = AddJpegByNv12(it[s \ {Max(s)}], q[Max(s)])
  <2>1. Max(s) \in 1..N BY <1>0, <1>6, MaxInSet
  <2>2. s \ {Max(s)} \in SUBSET (1..N) OBVIOUS
  <2>3. it[s \ {Max(s)}] \in R /\ q[Max(s)] \in X BY <1>0, <2>1, <2>2
  <2>4. it[s] = Turn[<<it[s \ {Max(s)}], q[Max(s)]>>] BY <1>5, <1>6 DEF IsFold
  <2> QED BY <2>3, <2>4, <1>3
<1>7. Is(it)
  <2>1. it[{}] = base BY <1>5 DEF IsFold
  <2>2. it = [s \in SUBSET (1..N) |->
                IF s = {} THEN base ELSE AddJpegByNv12(it[s \ {Max(s)}], q[Max(s)])]
    BY <1>6, <2>1
  <2> QED BY <2>2, <1>0, Zenon
<1> DEFINE iter == CHOOSE g : Is(g)
<1>8. Is(iter)
  <2> HIDE DEF Is
  <2> QED BY <1>7, Zenon
<1>9. FoldLeft(AddJpegByNv12, base, q) = iter[DOMAIN q] BY Zenon DEF FoldLeft, MapThenFoldSet
<1> HIDE DEF iter
<1>10. iter = [s \in SUBSET (1..N) |->
                IF s = {} THEN base ELSE AddJpegByNv12(iter[s \ {Max(s)}], q[Max(s)])]
  BY <1>8, <1>0, Zenon
<1> HIDE DEF Is
<1>11. iter[{}] = base
  <2>1. {} \in SUBSET (1..N) OBVIOUS
  <2> QED BY <1>10, <2>1
<1>12. ASSUME NEW s \in SUBSET (1..N), s # {}, iter[s \ {Max(s)}] \in R
       PROVE  iter[s] = Turn[<<iter[s \ {Max(s)}], q[Max(s)]>>]
  <2>1. Max(s) \in 1..N BY <1>0, <1>12, MaxInSet
  <2>2. q[Max(s)] \in X BY <1>0, <2>1
  <2>3. iter[s] = AddJpegByNv12(iter[s \ {Max(s)}], q[Max(s)]) BY <1>10, <1>12
  <2> QED BY <1>3, <1>12, <2>2, <2>3
<1>13. PICK h \in [0..N -> R] : TakesTurns(h, N, base, Turn, q, iter[1..N])
  <2>1. FoldsOver(iter, N, base, Turn, q, R) BY <1>11, <1>12 DEF FoldsOver
  <2>2. N \in Nat /\ q \in [1..N -> X] BY <1>0
  <2> QED BY <1>2, <1>4, <2>1, <2>2, FoldTurns
<1>14. \A n \in 1..N : h[n] = AddJpegByNv12(h[n - 1], q[n])
  <2> TAKE n \in 1..N
  <2>1. n - 1 \in 0..N BY <1>0
  <2> QED BY <1>0, <1>3, <1>13, <2>1 DEF TakesTurns
<1>15. h[N] = FoldLeft(AddJpegByNv12, base, q) /\ h[0] = base BY <1>0, <1>9, <1>13 DEF TakesTurns
<1> QED BY <1>13, <1>14, <1>15 DEF N, R

Rising(q) == \A i, k \in 1..Len(q) : i < k => q[i] < q[k]

LEMMA Parted ==
  ASSUME ListedWell
  PROVE  /\ Jpegs \in Seq(ListedStreams) /\ Len(Jpegs) \in Nat /\ Rising(Jpegs)
         /\ ToSet(Jpegs) = {i \in ListedStreams : IsJpeg(i)}
         /\ Others \in Seq(ListedStreams) /\ Len(Others) \in Nat /\ Rising(Others)
         /\ ToSet(Others) = {i \in ListedStreams : ~IsJpeg(i)}
<1> DEFINE N == Len(list)
           J == {i \in DOMAIN list : IsJpeg(i)}
           O == {i \in DOMAIN list : ~IsJpeg(i)}
<1>1. N \in Nat /\ ListedStreams = 1..N /\ DOMAIN list = 1..N BY DEF ListedWell, ListedStreams
<1>2. Indices \in Seq(1..N) /\ Len(Indices) = N /\ \A i \in 1..N : Indices[i] = i
  <2>1. Indices = [i \in 1..N |-> i] BY <1>1 DEF Indices
  <2> HIDE DEF N
  <2> QED BY <1>1, <2>1
<1>3. J \in SUBSET (1..N) /\ O \in SUBSET (1..N) BY <1>1
<1>4. Jpegs = Selected(Indices, J) /\ Others = Selected(Indices, O) BY DEF Jpegs, Others
<1>5. J = {i \in ListedStreams : IsJpeg(i)} /\ O = {i \in ListedStreams : ~IsJpeg(i)} BY DEF ListedStreams
<1> HIDE DEF N, J, O
<1>6. ASSUME NEW S \in SUBSET (1..N), NEW r, r = Selected(Indices, S)
      PROVE  r \in Seq(ListedStreams) /\ Len(r) \in Nat /\ Rising(r) /\ ToSet(r) = S
  <2>1. /\ r \in Seq(1..N) /\ Len(r) \in Nat /\ DOMAIN r = 1..Len(r)
        /\ \A i \in 1..Len(r) : r[i] \in S
        /\ \A x \in S : \E i \in 1..Len(r) : r[i] = x
        /\ \A i, k \in 1..Len(r) : i < k => r[i] < r[k]
    <3>1. HasInOrder(Selected(Indices, S), N, S) BY <1>1, <1>2, SelectedNumbers
    <3> QED BY <1>6, <3>1 DEF HasInOrder
  <2>2. ToSet(r) = S BY <2>1 DEF ToSet
  <2> QED BY <1>1, <2>1, <2>2 DEF Rising
<1>7. Jpegs \in Seq(ListedStreams) /\ Len(Jpegs) \in Nat /\ Rising(Jpegs) /\ ToSet(Jpegs) = J
  BY <1>3, <1>4, <1>6
<1>8. Others \in Seq(ListedStreams) /\ Len(Others) \in Nat /\ Rising(Others) /\ ToSet(Others) = O
  BY <1>3, <1>4, <1>6
<1> QED BY <1>5, <1>7, <1>8

(* i has been placed: mapped onto a host of its size, or on its own. *)
Places(r, cs, i) ==
  \E hosts \in SUBSET {k \in DOMAIN cs : cs[k].size = list[i].size},
     type \in {"Direct", "Internal"}, format \in Int, role \in Roles :
    r = Place(cs, hosts, i, ConfigFor(i, type, format, role))

LEMMA PlacesKeepsMade ==
  ASSUME ListedWell, NEW cs, WellMade(cs), NEW D, Fills(cs, D), NEW i \in ListedStreams, i \notin D,
         NEW r, Places(r, cs, i)
  PROVE  WellMade(r) /\ Fills(r, D \cup {i})
<1>1. PICK hosts \in SUBSET {k \in DOMAIN cs : cs[k].size = list[i].size},
           type \in {"Direct", "Internal"}, format \in Int, role \in Roles :
        r = Place(cs, hosts, i, ConfigFor(i, type, format, role))
  BY DEF Places
<1> QED BY <1>1, PlaceKeepsMade

LEMMA AddJpegPlaces ==
  ASSUME ListedWell, NEW cs, WellMade(cs), NEW i \in ListedStreams
  PROVE  Places(AddJpeg(cs, i), cs, i)
<1> DEFINE hosts == {k \in DOMAIN cs : /\ cs[k].role = "StillCapture"
                                     /\ list[cs[k].streams[1].stream].size = list[i].size}
<1>1. hosts \in SUBSET {k \in DOMAIN cs : cs[k].size = list[i].size}
  <2> SUFFICES ASSUME NEW k \in hosts PROVE cs[k].size = list[i].size OBVIOUS
  <2>1. k \in 1..Len(cs) BY DEF WellMade
  <2>2. cs[k] \in StreamConfig BY <2>1 DEF WellMade
  <2>3. cs[k].streams \in Seq(StreamEntry) BY <2>2, ConfigParts
  <2>4. Len(cs[k].streams) > 0 BY <2>1 DEF WellMade
  <2>5. 1 \in 1..Len(cs[k].streams) BY <2>3, <2>4
  <2>6. list[cs[k].streams[1].stream].size = cs[k].size BY <2>1, <2>5 DEF WellMade
  <2> QED BY <2>6
<1>2. AddJpeg(cs, i) = Place(cs, hosts, i, ConfigFor(i, "Internal", ToPixelFormat[Blob], "StillCapture"))
  BY DEF AddJpeg
<1>3. ToPixelFormat[Blob] \in Int /\ "StillCapture" \in Roles /\ "Internal" \in {"Direct", "Internal"}
  BY ListedStream DEF Roles
<1> HIDE DEF hosts
<1> QED BY <1>1, <1>2, <1>3 DEF Places

LEMMA AddOtherPlaces ==
  ASSUME ListedWell, NEW cs, NEW i \in ListedStreams
  PROVE  Places(AddOther(cs, i), cs, i)
<1> DEFINE format == ToPixelFormat[list[i].format]
           hosts == {k \in DOMAIN cs : cs[k].size = list[i].size /\ cs[k].format = format}
<1>1. hosts \in SUBSET {k \in DOMAIN cs : cs[k].size = list[i].size} OBVIOUS
<1>2. AddOther(cs, i) = Place(cs, hosts, i, ConfigFor(i, "Direct", format, "none")) BY DEF AddOther
<1>3. format \in Int /\ "none" \in Roles /\ "Direct" \in {"Direct", "Internal"}
  BY ListedStream DEF Roles
<1> HIDE DEF hosts, format
<1> QED BY <1>1, <1>2, <1>3 DEF Places

LEMMA AddJpegByNv12Places ==
  ASSUME ListedWell, NEW cs, NEW i \in ListedStreams
  PROVE  Places(AddJpegByNv12(cs, i), cs, i)
<1> DEFINE hosts == {k \in DOMAIN cs : cs[k].size = list[i].size}
<1>1. hosts \in SUBSET {k \in DOMAIN cs : cs[k].size = list[i].size} OBVIOUS
<1>2. AddJpegByNv12(cs, i) = Place(cs, hosts, i, ConfigFor(i, "Internal", NV12, "none"))
  BY DEF AddJpegByNv12
<1>3. NV12 \in Int /\ "none" \in Roles /\ "Internal" \in {"Direct", "Internal"}
  BY ListedStream DEF Roles
<1> HIDE DEF hosts
<1> QED BY <1>1, <1>2, <1>3 DEF Places

LEMMA FillsInTurn ==
  ASSUME ListedWell, NEW q \in Seq(ListedStreams), Rising(q), NEW D,
         \A n \in 1..Len(q) : q[n] \notin D,
         NEW h \in [0..Len(q) -> Seq(StreamConfig)], WellMade(h[0]), Fills(h[0], D),
         \A n \in 1..Len(q) : WellMade(h[n - 1]) => Places(h[n], h[n - 1], q[n])
  PROVE  /\ WellMade(h[Len(q)]) /\ Fills(h[Len(q)], D \cup ToSet(q))
         /\ \A n \in 0..Len(q) : WellMade(h[n])
<1> DEFINE N == Len(q)
           To(n) == D \cup {q[j] : j \in 1..n}
           Z == {n \in Nat : n <= N => WellMade(h[n]) /\ Fills(h[n], To(n))}
<1>0. N \in Nat /\ DOMAIN q = 1..N /\ \A n \in 1..N : q[n] \in ListedStreams OBVIOUS
<1>1. 0 \in Z
  <2>1. To(0) = D OBVIOUS
  <2> HIDE DEF To
  <2> QED BY <2>1
<1>2. ASSUME NEW n \in Nat, n \in Z PROVE n + 1 \in Z
  <2> SUFFICES ASSUME n + 1 <= N PROVE WellMade(h[n + 1]) /\ Fills(h[n + 1], To(n + 1)) OBVIOUS
  <2>1. WellMade(h[n]) /\ Fills(h[n], To(n)) BY <1>0, <1>2
  <2>2. n + 1 \in 1..N /\ (n + 1) - 1 = n BY <1>0
  <2>3. Places(h[n + 1], h[n], q[n + 1]) BY <2>1, <2>2
  <2>4. q[n + 1] \notin To(n)
    <3>1. \A j \in 1..n : j \in 1..N /\ j < n + 1 BY <2>2
    <3>2. \A j \in 1..n : q[j] < q[n + 1] /\ q[j] \in ListedStreams /\ q[n + 1] \in ListedStreams
      BY <1>0, <2>2, <3>1 DEF Rising
    <3>3. \A x \in ListedStreams : x \in Nat BY ListedStream
    <3>4. \A j \in 1..n : q[j] # q[n + 1]
      <4> TAKE j \in 1..n
      <4>1. q[j] < q[n + 1] /\ q[j] \in Nat /\ q[n + 1] \in Nat BY <3>2, <3>3
      <4> QED BY <4>1
    <3> QED BY <2>2, <3>4
  <2>5. q[n + 1] \in ListedStreams BY <1>0, <2>2
  <2>6. To(n + 1) = To(n) \cup {q[n + 1]}
    <3>1. \A j : j \in 1..(n + 1) <=> j \in 1..n \/ j = n + 1 OBVIOUS
    <3> QED BY <3>1
  <2> HIDE DEF To
  <2> QED BY <2>1, <2>3, <2>4, <2>5, <2>6, PlacesKeepsMade
<1>3. \A n \in Nat : n \in Z
  <2> HIDE DEF Z, N
  <2> QED BY <1>1, <1>2, InductionOnNat
<1>4. To(N) = D \cup ToSet(q) BY <1>0 DEF ToSet
<1>5. N <= N OBVIOUS
<1> HIDE DEF To
<1>6. \A n \in 0..N : WellMade(h[n])
  <2> TAKE n \in 0..N
  <2>1. n \in Nat /\ n <= N BY <1>0
  <2>2. n \in Z BY <1>3, <2>1
  <2> QED BY <2>1, <2>2
<1>7. WellMade(h[N]) /\ Fills(h[N], To(N))
  <2>1. N \in Z BY <1>0, <1>3
  <2> QED BY <1>0, <1>5, <2>1
<1> QED BY <1>4, <1>6, <1>7

(* What the builders place, before the limit and the sort. *)
OthersConfigs ==
  [k \in DOMAIN Others |->
     ConfigFor(Others[k], "Direct", ToPixelFormat[list[Others[k]].format], Role(Others[k]))]
NoMapPlaced   == FoldLeft(AddJpeg, OthersConfigs, Jpegs)
DefaultDirect == FoldLeft(AddOther, <<>>, Others)
DefaultPlaced == FoldLeft(AddJpegByNv12, DefaultDirect, Jpegs)

FirstDirect(cs) == \A k \in 1..Len(cs) : cs[k].streams[1].type = "Direct"

MappedOntoDirect(cs) ==
  \A k \in 1..Len(cs) : \A n \in 1..Len(cs[k].streams) : n # 1 => cs[k].streams[1].type = "Direct"

KindsDiffer(cs) ==
  \A k, l \in 1..Len(cs) : cs[k].size = cs[l].size /\ cs[k].format = cs[l].format => k = l

LEMMA OthersAreDirect ==
  ASSUME ListedWell
  PROVE  /\ OthersConfigs \in Seq(StreamConfig) /\ Len(OthersConfigs) = Len(Others)
         /\ \A k \in 1..Len(Others) :
              /\ Len(OthersConfigs[k].streams) = 1
              /\ OthersConfigs[k].streams[1].stream = Others[k]
              /\ OthersConfigs[k].streams[1].type = "Direct"
              /\ OthersConfigs[k].size = list[Others[k]].size
              /\ OthersConfigs[k].role = Role(Others[k])
<1> DEFINE C(k) == ConfigFor(Others[k], "Direct", ToPixelFormat[list[Others[k]].format], Role(Others[k]))
           N == Len(Others)
<1>1. Others \in Seq(ListedStreams) /\ N \in Nat BY Parted
<1>2. DOMAIN Others = 1..N /\ \A k \in 1..N : Others[k] \in ListedStreams BY <1>1
<1>3. ASSUME NEW k \in 1..N
      PROVE  /\ C(k) \in StreamConfig
             /\ Len(C(k).streams) = 1 /\ C(k).streams[1].stream = Others[k]
             /\ C(k).streams[1].type = "Direct"
             /\ C(k).size = list[Others[k]].size /\ C(k).role = Role(Others[k])
  <2>1. Others[k] \in ListedStreams BY <1>2
  <2>2. ToPixelFormat[list[Others[k]].format] \in Int BY <2>1, ListedStream
  <2>3. Role(Others[k]) \in Roles BY DEF Role, Roles
  <2>4. "Direct" \in MadeTypes BY DEF MadeTypes
  <2> QED BY <2>1, <2>2, <2>3, <2>4, ConfigForType
<1>4. OthersConfigs = [k \in 1..N |-> C(k)] BY <1>2 DEF OthersConfigs
<1> HIDE DEF C, N
<1>5. OthersConfigs \in [1..N -> StreamConfig] BY <1>3, <1>4
<1>6. OthersConfigs \in Seq(StreamConfig) /\ Len(OthersConfigs) = N BY <1>1, <1>5
<1>7. \A k \in 1..N : OthersConfigs[k] = C(k) BY <1>4
<1> QED BY <1>3, <1>6, <1>7 DEF N

LEMMA OthersMade ==
  ASSUME ListedWell
  PROVE  WellMade(OthersConfigs) /\ Fills(OthersConfigs, ToSet(Others)) /\ FirstDirect(OthersConfigs)
<1> DEFINE N == Len(Others)
           b == OthersConfigs
<1>1. Others \in Seq(ListedStreams) /\ N \in Nat /\ Rising(Others) BY Parted
<1>2. /\ b \in Seq(StreamConfig) /\ Len(b) = N
      /\ \A k \in 1..N : /\ Len(b[k].streams) = 1
                         /\ b[k].streams[1].stream = Others[k]
                         /\ b[k].streams[1].type = "Direct"
                         /\ b[k].size = list[Others[k]].size
  BY OthersAreDirect
<1>3. DOMAIN Others = 1..N /\ \A k \in 1..N : Others[k] \in ListedStreams BY <1>1
<1> HIDE DEF b
<1>4. \A k, l \in 1..N : Others[k] = Others[l] => k = l
  <2> SUFFICES ASSUME NEW k \in 1..N, NEW l \in 1..N, Others[k] = Others[l] PROVE k = l OBVIOUS
  <2>1. Others[k] \in Nat /\ Others[l] \in Nat BY <1>3, ListedStream
  <2>2. ~(Others[k] < Others[l]) /\ ~(Others[l] < Others[k]) BY <2>1
  <2>3. ~(k < l) /\ ~(l < k) BY <1>1, <2>2 DEF Rising
  <2> QED BY <1>1, <2>3
<1>5. \A n : n \in 1..1 <=> n = 1 OBVIOUS
<1> HIDE DEF N
<1>6. PlacedOnce(b) BY <1>2, <1>4, <1>5 DEF PlacedOnce
<1>7. WellMade(b) BY <1>2, <1>5, <1>6 DEF WellMade
<1>8. ToSet(Others) = {Others[k] : k \in 1..N} BY <1>3 DEF ToSet
<1>9. Fills(b, ToSet(Others)) BY <1>2, <1>5, <1>8 DEF Fills, IsPlaced
<1>10. FirstDirect(b) BY <1>2 DEF FirstDirect
<1> QED BY <1>7, <1>9, <1>10 DEF b

LEMMA JpegsAreNoOthers ==
  ASSUME ListedWell
  PROVE  /\ \A n \in 1..Len(Jpegs) : Jpegs[n] \in ListedStreams /\ IsJpeg(Jpegs[n]) /\ Jpegs[n] \notin ToSet(Others)
         /\ \A n \in 1..Len(Others) : Others[n] \in ListedStreams /\ ~IsJpeg(Others[n])
         /\ ToSet(Others) \cup ToSet(Jpegs) = ListedStreams
<1>1. /\ Jpegs \in Seq(ListedStreams) /\ ToSet(Jpegs) = {i \in ListedStreams : IsJpeg(i)}
      /\ Others \in Seq(ListedStreams) /\ ToSet(Others) = {i \in ListedStreams : ~IsJpeg(i)}
  BY Parted
<1>2. DOMAIN Jpegs = 1..Len(Jpegs) /\ DOMAIN Others = 1..Len(Others) BY <1>1
<1>3. \A n \in 1..Len(Jpegs) : Jpegs[n] \in ToSet(Jpegs) BY <1>2 DEF ToSet
<1>4. \A n \in 1..Len(Others) : Others[n] \in ToSet(Others) BY <1>2 DEF ToSet
<1> QED BY <1>1, <1>3, <1>4

LEMMA NoMapMade ==
  ASSUME ListedWell
  PROVE  WellMade(NoMapPlaced) /\ Fills(NoMapPlaced, ListedStreams)
<1> DEFINE N == Len(Jpegs)
<1>1. Jpegs \in Seq(ListedStreams) /\ N \in Nat /\ Rising(Jpegs) BY Parted
<1>2. OthersConfigs \in Seq(StreamConfig) BY OthersAreDirect
<1>3. PICK h \in [0..N -> Seq(StreamConfig)] :
        /\ h[0] = OthersConfigs /\ h[N] = FoldLeft(AddJpeg, OthersConfigs, Jpegs)
        /\ \A n \in 1..N : h[n] = AddJpeg(h[n - 1], Jpegs[n])
  BY <1>1, <1>2, AddJpegRuns
<1>4. \A n \in 1..N : Jpegs[n] \in ListedStreams /\ Jpegs[n] \notin ToSet(Others) BY JpegsAreNoOthers
<1>5. \A n \in 1..N : WellMade(h[n - 1]) => Places(h[n], h[n - 1], Jpegs[n])
  BY <1>3, <1>4, AddJpegPlaces
<1>6. WellMade(h[0]) /\ Fills(h[0], ToSet(Others)) BY <1>3, OthersMade
<1>7. WellMade(h[N]) /\ Fills(h[N], ToSet(Others) \cup ToSet(Jpegs))
  BY <1>1, <1>3, <1>4, <1>5, <1>6, FillsInTurn
<1>8. ToSet(Others) \cup ToSet(Jpegs) = ListedStreams BY JpegsAreNoOthers
<1> QED BY <1>3, <1>7, <1>8 DEF NoMapPlaced

(* Apart from its mapped streams nothing of a configuration changes. *)
SameBut(d, c) ==
  d.size = c.size /\ d.format = c.format /\ d.role = c.role /\ d.streams[1] = c.streams[1]

KeepsRest(r, cs, hosts, own) ==
  /\ Len(cs) \in Nat
  /\ Len(r) = IF hosts = {} THEN Len(cs) + 1 ELSE Len(cs)
  /\ \A k \in 1..Len(cs) : SameBut(r[k], cs[k])
  /\ hosts = {} => r[Len(cs) + 1] = own

LEMMA PlaceKeepsRest ==
  ASSUME NEW cs, WellMade(cs), NEW hosts \in SUBSET DOMAIN cs, NEW i \in ListedStreams,
         NEW own \in StreamConfig
  PROVE  KeepsRest(Place(cs, hosts, i, own), cs, hosts, own)
<1> DEFINE r == Place(cs, hosts, i, own)
           m == Min(hosts)
<1>1. cs \in Seq(StreamConfig) /\ Len(cs) \in Nat /\ DOMAIN cs = 1..Len(cs) BY DEF WellMade
<1>2. /\ hosts # {} => /\ Len(r) = Len(cs) /\ m \in hosts
                       /\ \A k \in 1..Len(cs) : k # m => r[k] = cs[k]
                       /\ r[m] = MapOnto(cs[m], i)
      /\ hosts = {} => r = Append(cs, own)
  BY <1>1, PlaceType
<1> HIDE DEF r, m
<1>3. CASE hosts = {}
  <2>1. /\ r = Append(cs, own) BY <1>2, <1>3
  <2>2. Len(r) = Len(cs) + 1 /\ r[Len(cs) + 1] = own /\ \A k \in 1..Len(cs) : r[k] = cs[k]
    BY <1>1, <2>1, AppendProperties
  <2>3. \A k \in 1..Len(cs) : SameBut(r[k], cs[k]) BY <2>2 DEF SameBut
  <2> QED BY <1>1, <1>3, <2>2, <2>3 DEF r, KeepsRest
<1>4. CASE hosts # {}
  <2>1. m \in 1..Len(cs) BY <1>1, <1>2, <1>4
  <2>2. cs[m] \in StreamConfig BY <1>1, <2>1
  <2> DEFINE d == MapOnto(cs[m], i)
             M == Len(cs[m].streams)
  <2>3. /\ M \in Nat /\ \A n \in 1..M : d.streams[n] = cs[m].streams[n]
        /\ d.size = cs[m].size /\ d.format = cs[m].format /\ d.role = cs[m].role
    BY <2>2, MapOntoType
  <2>4. M > 0 BY <2>1 DEF WellMade
  <2>5. 1 \in 1..M
    <3> HIDE DEF M
    <3> QED BY <2>3, <2>4
  <2> HIDE DEF d, M
  <2>6. SameBut(d, cs[m]) BY <2>3, <2>5 DEF SameBut
  <2>7. r[m] = d BY <1>2, <1>4 DEF d
  <2>8. \A k \in 1..Len(cs) : SameBut(r[k], cs[k])
    <3> TAKE k \in 1..Len(cs)
    <3>1. CASE k = m BY <2>6, <2>7, <3>1
    <3>2. CASE k # m
      <4>1. r[k] = cs[k] BY <1>2, <1>4, <3>2
      <4> QED BY <4>1 DEF SameBut
    <3> QED BY <3>1, <3>2
  <2> QED BY <1>1, <1>2, <1>4, <2>8 DEF r, KeepsRest
<1> QED BY <1>3, <1>4

LEMMA PlaceKeepsDirect ==
  ASSUME NEW cs, WellMade(cs), FirstDirect(cs), NEW hosts \in SUBSET DOMAIN cs, NEW i \in ListedStreams,
         NEW own \in StreamConfig, Len(own.streams) = 1
  PROVE  /\ MappedOntoDirect(Place(cs, hosts, i, own))
         /\ own.streams[1].type = "Direct" => FirstDirect(Place(cs, hosts, i, own))
<1> DEFINE r == Place(cs, hosts, i, own)
           N == Len(cs)
<1>1. /\ N \in Nat
      /\ Len(r) = IF hosts = {} THEN N + 1 ELSE N
      /\ \A k \in 1..N : SameBut(r[k], cs[k])
      /\ hosts = {} => r[N + 1] = own
  <2>1. KeepsRest(r, cs, hosts, own) BY PlaceKeepsRest
  <2> QED BY <2>1 DEF KeepsRest
<1> HIDE DEF r
<1>2. \A k \in 1..N : r[k].streams[1].type = "Direct" BY <1>1 DEF SameBut, FirstDirect
<1> HIDE DEF N
<1>3. \A k \in 1..Len(r) : k \in 1..N \/ (hosts = {} /\ k = N + 1) BY <1>1
<1>4. \A n \in 1..1 : n = 1 OBVIOUS
<1>5. MappedOntoDirect(r)
  <2> SUFFICES ASSUME NEW k \in 1..Len(r), NEW n \in 1..Len(r[k].streams), n # 1
               PROVE  r[k].streams[1].type = "Direct"
    BY DEF MappedOntoDirect
  <2>1. CASE k \in 1..N BY <1>2, <2>1
  <2>2. CASE hosts = {} /\ k = N + 1 BY <1>1, <1>4, <2>2
  <2> QED BY <1>3, <2>1, <2>2
<1>6. own.streams[1].type = "Direct" => FirstDirect(r) BY <1>1, <1>2, <1>3 DEF FirstDirect
<1> QED BY <1>5, <1>6 DEF r

LEMMA AddOtherKeeps ==
  ASSUME ListedWell, NEW cs, WellMade(cs), FirstDirect(cs), KindsDiffer(cs), NEW i \in ListedStreams
  PROVE  FirstDirect(AddOther(cs, i)) /\ KindsDiffer(AddOther(cs, i))
<1> DEFINE format == ToPixelFormat[list[i].format]
           hosts == {k \in DOMAIN cs : cs[k].size = list[i].size /\ cs[k].format = format}
           own == ConfigFor(i, "Direct", format, "none")
           r == Place(cs, hosts, i, own)
           N == Len(cs)
<1>1. AddOther(cs, i) = r BY DEF AddOther
<1>2. format \in Int /\ "none" \in Roles /\ "Direct" \in MadeTypes BY ListedStream DEF Roles, MadeTypes
<1> HIDE DEF format
<1>3. /\ own \in StreamConfig /\ Len(own.streams) = 1 /\ own.streams[1].type = "Direct"
      /\ own.size = list[i].size /\ own.format = format
  BY <1>2, ConfigForType
<1>4. hosts \in SUBSET DOMAIN cs OBVIOUS
<1>5. DOMAIN cs = 1..N BY DEF WellMade
<1>6. hosts = {} => \A k \in 1..N : ~(cs[k].size = list[i].size /\ cs[k].format = format) BY <1>5
<1> HIDE DEF own, hosts, r
<1>7. KeepsRest(r, cs, hosts, own) BY <1>3, <1>4, PlaceKeepsRest DEF r
<1>8. FirstDirect(r) BY <1>3, <1>4, PlaceKeepsDirect DEF r
<1>9. /\ N \in Nat
      /\ Len(r) = IF hosts = {} THEN N + 1 ELSE N
      /\ \A k \in 1..N : r[k].size = cs[k].size /\ r[k].format = cs[k].format
      /\ hosts = {} => r[N + 1] = own
  BY <1>7 DEF KeepsRest, SameBut
<1> HIDE DEF N
<1>10. \A k \in 1..Len(r) : k \in 1..N \/ (hosts = {} /\ k = N + 1) BY <1>9
<1>11. KindsDiffer(r)
  <2> SUFFICES ASSUME NEW k \in 1..Len(r), NEW l \in 1..Len(r),
                      r[k].size = r[l].size, r[k].format = r[l].format
               PROVE  k = l
    BY DEF KindsDiffer
  <2>1. CASE k \in 1..N /\ l \in 1..N BY <1>9, <2>1 DEF KindsDiffer, N
  <2>2. CASE k \in 1..N /\ hosts = {} /\ l = N + 1 BY <1>3, <1>6, <1>9, <2>2
  <2>3. CASE l \in 1..N /\ hosts = {} /\ k = N + 1 BY <1>3, <1>6, <1>9, <2>3
  <2> QED BY <1>10, <2>1, <2>2, <2>3
<1> QED BY <1>1, <1>8, <1>11

LEMMA NoneMade == WellMade(<<>>) /\ Fills(<<>>, {}) /\ FirstDirect(<<>>) /\ KindsDiffer(<<>>)
<1>1. <<>> \in Seq(StreamConfig) /\ \A k \in 1..Len(<<>>) : FALSE OBVIOUS
<1> QED BY <1>1 DEF WellMade, PlacedOnce, Fills, IsPlaced, FirstDirect, KindsDiffer

LEMMA DirectMade ==
  ASSUME ListedWell
  PROVE  /\ WellMade(DefaultDirect) /\ Fills(DefaultDirect, ToSet(Others))
         /\ FirstDirect(DefaultDirect) /\ KindsDiffer(DefaultDirect)
<1> DEFINE N == Len(Others)
<1>1. Others \in Seq(ListedStreams) /\ N \in Nat /\ Rising(Others) BY Parted
<1>2. <<>> \in Seq(StreamConfig) OBVIOUS
<1>3. PICK h \in [0..N -> Seq(StreamConfig)] :
        /\ h[0] = <<>> /\ h[N] = FoldLeft(AddOther, <<>>, Others)
        /\ \A n \in 1..N : h[n] = AddOther(h[n - 1], Others[n])
  BY <1>1, <1>2, AddOtherRuns
<1>4. \A n \in 1..N : Others[n] \in ListedStreams /\ Others[n] \notin {} BY JpegsAreNoOthers
<1>5. \A n \in 1..N : WellMade(h[n - 1]) => Places(h[n], h[n - 1], Others[n])
  BY <1>3, <1>4, AddOtherPlaces
<1>6. WellMade(h[0]) /\ Fills(h[0], {}) BY <1>3, NoneMade
<1>7. /\ WellMade(h[N]) /\ Fills(h[N], {} \cup ToSet(Others))
      /\ \A n \in 0..N : WellMade(h[n])
  BY <1>1, <1>3, <1>4, <1>5, <1>6, FillsInTurn
<1> DEFINE Z == {n \in Nat : n <= N => FirstDirect(h[n]) /\ KindsDiffer(h[n])}
<1> HIDE DEF N
<1>8. 0 \in Z BY <1>3, NoneMade
<1>9. ASSUME NEW n \in Nat, n \in Z PROVE n + 1 \in Z
  <2> SUFFICES ASSUME n + 1 <= N PROVE FirstDirect(h[n + 1]) /\ KindsDiffer(h[n + 1]) OBVIOUS
  <2>1. n + 1 \in 1..N /\ (n + 1) - 1 = n /\ n \in 0..N /\ n <= N BY <1>1
  <2>2. h[n + 1] = AddOther(h[n], Others[n + 1]) BY <1>3, <2>1
  <2>3. WellMade(h[n]) /\ FirstDirect(h[n]) /\ KindsDiffer(h[n]) BY <1>7, <1>9, <2>1
  <2>4. Others[n + 1] \in ListedStreams BY <1>4, <2>1
  <2> QED BY <2>2, <2>3, <2>4, AddOtherKeeps
<1>10. N \in Z
  <2> HIDE DEF Z
  <2> QED BY <1>1, <1>8, <1>9, InductionOnNat
<1>11. FirstDirect(h[N]) /\ KindsDiffer(h[N]) BY <1>1, <1>10
<1>12. {} \cup ToSet(Others) = ToSet(Others) OBVIOUS
<1>13. h[N] = DefaultDirect BY <1>3 DEF DefaultDirect
<1> QED BY <1>7, <1>11, <1>12, <1>13

LEMMA DefaultMade ==
  ASSUME ListedWell
  PROVE  WellMade(DefaultPlaced) /\ Fills(DefaultPlaced, ListedStreams)
<1> DEFINE N == Len(Jpegs)
<1>1. Jpegs \in Seq(ListedStreams) /\ N \in Nat /\ Rising(Jpegs) BY Parted
<1>2. DefaultDirect \in Seq(StreamConfig) BY DirectMade DEF WellMade
<1>3. PICK h \in [0..N -> Seq(StreamConfig)] :
        /\ h[0] = DefaultDirect /\ h[N] = FoldLeft(AddJpegByNv12, DefaultDirect, Jpegs)
        /\ \A n \in 1..N : h[n] = AddJpegByNv12(h[n - 1], Jpegs[n])
  BY <1>1, <1>2, AddJpegByNv12Runs
<1>4. \A n \in 1..N : Jpegs[n] \in ListedStreams /\ Jpegs[n] \notin ToSet(Others) BY JpegsAreNoOthers
<1>5. \A n \in 1..N : WellMade(h[n - 1]) => Places(h[n], h[n - 1], Jpegs[n])
  BY <1>3, <1>4, AddJpegByNv12Places
<1>6. WellMade(h[0]) /\ Fills(h[0], ToSet(Others)) BY <1>3, DirectMade
<1>7. WellMade(h[N]) /\ Fills(h[N], ToSet(Others) \cup ToSet(Jpegs))
  BY <1>1, <1>3, <1>4, <1>5, <1>6, FillsInTurn
<1>8. ToSet(Others) \cup ToSet(Jpegs) = ListedStreams BY JpegsAreNoOthers
<1> QED BY <1>3, <1>7, <1>8 DEF DefaultPlaced

LEMMA NoneOrOne ==
  ASSUME NEW n \in Nat, n <= 1
  PROVE  n = 0 \/ n = 1
OBVIOUS

(* With one JPEG at most it is placed in one go. *)
LEMMA OneJpegAtMost ==
  ASSUME ListedWell, Len(Jpegs) <= 1
  PROVE  \/ Len(Jpegs) = 0 /\ NoMapPlaced = OthersConfigs /\ DefaultPlaced = DefaultDirect
         \/ /\ Len(Jpegs) = 1
            /\ NoMapPlaced = AddJpeg(OthersConfigs, Jpegs[1])
            /\ DefaultPlaced = AddJpegByNv12(DefaultDirect, Jpegs[1])
<1> DEFINE N == Len(Jpegs)
<1>1. Jpegs \in Seq(ListedStreams) /\ N \in Nat BY Parted
<1>2. OthersConfigs \in Seq(StreamConfig) BY OthersAreDirect
<1>3. PICK h \in [0..N -> Seq(StreamConfig)] :
        /\ h[0] = OthersConfigs /\ h[N] = FoldLeft(AddJpeg, OthersConfigs, Jpegs)
        /\ \A n \in 1..N : h[n] = AddJpeg(h[n - 1], Jpegs[n])
  BY <1>1, <1>2, AddJpegRuns
<1>4. DefaultDirect \in Seq(StreamConfig) BY DirectMade DEF WellMade
<1>5. PICK g \in [0..N -> Seq(StreamConfig)] :
        /\ g[0] = DefaultDirect /\ g[N] = FoldLeft(AddJpegByNv12, DefaultDirect, Jpegs)
        /\ \A n \in 1..N : g[n] = AddJpegByNv12(g[n - 1], Jpegs[n])
  BY <1>1, <1>4, AddJpegByNv12Runs
<1>6. N = 0 \/ N = 1 BY <1>1, NoneOrOne
<1> HIDE DEF N
<1>7. CASE N = 0 BY <1>3, <1>5, <1>7 DEF N, NoMapPlaced, DefaultPlaced
<1>8. CASE N = 1
  <2>1. 1 \in 1..N /\ 1 - 1 = 0 BY <1>8
  <2>2. h[N] = AddJpeg(OthersConfigs, Jpegs[1])
    <3>1. h[1] = AddJpeg(h[1 - 1], Jpegs[1]) BY <1>3, <2>1
    <3> QED BY <1>3, <1>8, <2>1, <3>1
  <2>3. g[N] = AddJpegByNv12(DefaultDirect, Jpegs[1])
    <3>1. g[1] = AddJpegByNv12(g[1 - 1], Jpegs[1]) BY <1>5, <2>1
    <3> QED BY <1>5, <1>8, <2>1, <3>1
  <2> QED BY <1>3, <1>5, <1>8, <2>2, <2>3 DEF N, NoMapPlaced, DefaultPlaced
<1> QED BY <1>6, <1>7, <1>8

LEMMA OneJpegConfig ==
  ASSUME ListedWell, Len(Jpegs) = 1, NEW format \in Int, NEW role \in Roles
  PROVE  LET c == ConfigFor(Jpegs[1], "Internal", format, role)
         IN  /\ Jpegs[1] \in ListedStreams /\ IsJpeg(Jpegs[1])
             /\ c \in StreamConfig /\ Len(c.streams) = 1 /\ c.streams[1].stream = Jpegs[1]
             /\ c.size = list[Jpegs[1]].size /\ c.role = role /\ c.format = format
<1>1. 1 \in 1..Len(Jpegs) OBVIOUS
<1>2. Jpegs[1] \in ListedStreams /\ IsJpeg(Jpegs[1]) BY <1>1, JpegsAreNoOthers
<1>3. "Internal" \in MadeTypes BY DEF MadeTypes
<1> QED BY <1>2, <1>3, ConfigForType

LEMMA MappedDirect ==
  ASSUME ListedWell, Len(Jpegs) <= 1
  PROVE  MappedOntoDirect(NoMapPlaced) /\ MappedOntoDirect(DefaultPlaced)
<1>1. /\ WellMade(OthersConfigs) /\ FirstDirect(OthersConfigs)
      /\ WellMade(DefaultDirect) /\ FirstDirect(DefaultDirect)
  BY OthersMade, DirectMade
<1>2. CASE Len(Jpegs) = 0
  <2>1. \A cs : FirstDirect(cs) => MappedOntoDirect(cs) BY DEF FirstDirect, MappedOntoDirect
  <2>2. NoMapPlaced = OthersConfigs /\ DefaultPlaced = DefaultDirect BY <1>2, OneJpegAtMost
  <2> QED BY <1>1, <2>1, <2>2
<1>3. CASE Len(Jpegs) = 1
  <2> DEFINE i == Jpegs[1]
             c == ConfigFor(i, "Internal", ToPixelFormat[Blob], "StillCapture")
             d == ConfigFor(i, "Internal", NV12, "none")
             hc == {k \in DOMAIN OthersConfigs :
                      /\ OthersConfigs[k].role = "StillCapture"
                      /\ list[OthersConfigs[k].streams[1].stream].size = list[i].size}
             hd == {k \in DOMAIN DefaultDirect : DefaultDirect[k].size = list[i].size}
  <2>1. NoMapPlaced = AddJpeg(OthersConfigs, i) /\ DefaultPlaced = AddJpegByNv12(DefaultDirect, i)
    BY <1>3, OneJpegAtMost
  <2>2. NoMapPlaced = Place(OthersConfigs, hc, i, c) BY <2>1 DEF AddJpeg
  <2>3. DefaultPlaced = Place(DefaultDirect, hd, i, d) BY <2>1 DEF AddJpegByNv12
  <2>4. "StillCapture" \in Roles /\ "none" \in Roles BY DEF Roles
  <2>5. i \in ListedStreams
    <3>1. 1 \in 1..Len(Jpegs) BY <1>3
    <3> QED BY <3>1, JpegsAreNoOthers
  <2>6. ToPixelFormat[Blob] \in Int /\ NV12 \in Int BY <2>5, ListedStream
  <2>7. c \in StreamConfig /\ Len(c.streams) = 1 BY <1>3, <2>4, <2>6, OneJpegConfig
  <2>8. d \in StreamConfig /\ Len(d.streams) = 1 BY <1>3, <2>4, <2>6, OneJpegConfig
  <2>9. hc \in SUBSET DOMAIN OthersConfigs /\ hd \in SUBSET DOMAIN DefaultDirect OBVIOUS
  <2> HIDE DEF i, c, d, hc, hd
  <2>10. MappedOntoDirect(Place(OthersConfigs, hc, i, c)) BY <1>1, <2>5, <2>7, <2>9, PlaceKeepsDirect
  <2>11. MappedOntoDirect(Place(DefaultDirect, hd, i, d)) BY <1>1, <2>5, <2>8, <2>9, PlaceKeepsDirect
  <2> QED BY <2>2, <2>3, <2>10, <2>11
<1>4. Len(Jpegs) \in Nat BY Parted
<1> QED BY <1>2, <1>3, <1>4, NoneOrOne

(* The configurations with a JPEG among their streams. *)
JpegConfigs(cs) == {k \in DOMAIN cs : \E s \in ToSet(cs[k].streams) : IsJpeg(s.stream)}

LEMMA HasJpeg ==
  ASSUME NEW cs, WellMade(cs), NEW k \in 1..Len(cs)
  PROVE  k \in JpegConfigs(cs) <=> \E n \in 1..Len(cs[k].streams) : IsJpeg(cs[k].streams[n].stream)
<1>1. k \in DOMAIN cs /\ cs[k] \in StreamConfig BY DEF WellMade
<1>2. cs[k].streams \in Seq(StreamEntry) BY <1>1, ConfigParts
<1> DEFINE q == cs[k].streams
<1> HIDE DEF q
<1>3. DOMAIN q = 1..Len(q) BY <1>2 DEF q
<1>4. (\E s \in ToSet(q) : IsJpeg(s.stream)) <=> \E n \in 1..Len(q) : IsJpeg(q[n].stream)
  BY <1>3 DEF ToSet
<1> QED BY <1>1, <1>4 DEF JpegConfigs, q

LEMMA OneJpegConfigAtMost ==
  ASSUME ListedWell, Len(Jpegs) <= 1, NEW cs, WellMade(cs)
  PROVE  \A k, l \in JpegConfigs(cs) : k = l
<1> SUFFICES ASSUME NEW k \in JpegConfigs(cs), NEW l \in JpegConfigs(cs) PROVE k = l OBVIOUS
<1>1. k \in 1..Len(cs) /\ l \in 1..Len(cs) BY DEF WellMade, JpegConfigs
<1>2. PICK m \in 1..Len(cs[k].streams) : IsJpeg(cs[k].streams[m].stream) BY <1>1, HasJpeg
<1>3. PICK n \in 1..Len(cs[l].streams) : IsJpeg(cs[l].streams[n].stream) BY <1>1, HasJpeg
<1>4. ASSUME NEW c \in StreamConfig, NEW e \in 1..Len(c.streams) PROVE c.streams[e].stream \in ListedStreams
  <2>1. c.streams \in Seq(StreamEntry) BY ConfigParts
  <2>2. c.streams[e] \in StreamEntry BY <2>1
  <2> QED BY <2>2 DEF StreamEntry
<1>5. cs[k] \in StreamConfig /\ cs[l] \in StreamConfig BY <1>1 DEF WellMade
<1>6. cs[k].streams[m].stream \in ListedStreams /\ cs[l].streams[n].stream \in ListedStreams BY <1>4, <1>5
<1>7. /\ Jpegs \in Seq(ListedStreams) /\ ToSet(Jpegs) = {i \in ListedStreams : IsJpeg(i)} BY Parted
<1>8. \A x, y \in ToSet(Jpegs) : x = y
  <2>1. DOMAIN Jpegs = 1..Len(Jpegs) /\ Len(Jpegs) \in Nat BY <1>7
  <2>2. \A a, b \in 1..Len(Jpegs) : a = b BY <2>1
  <2> QED BY <2>1, <2>2 DEF ToSet
<1>9. cs[k].streams[m].stream = cs[l].streams[n].stream BY <1>2, <1>3, <1>6, <1>7, <1>8
<1> QED BY <1>1, <1>9 DEF WellMade, PlacedOnce

LEMMA DefaultKindsDiffer ==
  ASSUME ListedWell, Len(Jpegs) <= 1,
         NEW k \in DOMAIN DefaultPlaced \ JpegConfigs(DefaultPlaced),
         NEW l \in DOMAIN DefaultPlaced \ JpegConfigs(DefaultPlaced),
         DefaultPlaced[k].size = DefaultPlaced[l].size,
         DefaultPlaced[k].format = DefaultPlaced[l].format
  PROVE  k = l
<1> DEFINE cs == DefaultDirect
           r == DefaultPlaced
           N == Len(cs)
<1>1. WellMade(cs) /\ KindsDiffer(cs) BY DirectMade
<1>2. WellMade(r) BY DefaultMade
<1>3. DOMAIN r = 1..Len(r) BY <1>2 DEF WellMade
<1>4. CASE Len(Jpegs) = 0
  <2>1. r = cs BY <1>4, OneJpegAtMost
  <2> QED BY <1>1, <1>3, <2>1 DEF KindsDiffer
<1>5. CASE Len(Jpegs) = 1
  <2> DEFINE i == Jpegs[1]
             d == ConfigFor(i, "Internal", NV12, "none")
             hosts == {h \in DOMAIN cs : cs[h].size = list[i].size}
  <2>1. r = AddJpegByNv12(cs, i) BY <1>5, OneJpegAtMost
  <2>2. r = Place(cs, hosts, i, d) BY <2>1 DEF AddJpegByNv12
  <2>3. "none" \in Roles BY DEF Roles
  <2>4. i \in ListedStreams /\ IsJpeg(i)
    <3>1. 1 \in 1..Len(Jpegs) BY <1>5
    <3> QED BY <3>1, JpegsAreNoOthers
  <2>5. NV12 \in Int BY <2>4, ListedStream
  <2>6. d \in StreamConfig /\ Len(d.streams) = 1 /\ d.streams[1].stream = i
    BY <1>5, <2>3, <2>5, OneJpegConfig
  <2>7. hosts \in SUBSET DOMAIN cs OBVIOUS
  <2> HIDE DEF i, d, hosts, cs
  <2>8. KeepsRest(r, cs, hosts, d) BY <1>1, <2>2, <2>4, <2>6, <2>7, PlaceKeepsRest
  <2> HIDE DEF r
  <2>9. /\ N \in Nat
        /\ Len(r) = IF hosts = {} THEN N + 1 ELSE N
        /\ \A x \in 1..N : r[x].size = cs[x].size /\ r[x].format = cs[x].format
        /\ hosts = {} => r[N + 1] = d
    BY <2>8 DEF KeepsRest, SameBut
  <2>10. ASSUME hosts = {} PROVE N + 1 \in JpegConfigs(r)
    <3>1. N + 1 \in 1..Len(r) /\ r[N + 1] = d BY <2>9, <2>10
    <3>2. 1 \in 1..Len(r[N + 1].streams) /\ IsJpeg(r[N + 1].streams[1].stream) BY <2>4, <2>6, <3>1
    <3> QED BY <1>2, <3>1, <3>2, HasJpeg
  <2>11. k \in 1..Len(r) /\ l \in 1..Len(r) /\ k \notin JpegConfigs(r) /\ l \notin JpegConfigs(r)
         /\ r[k].size = r[l].size /\ r[k].format = r[l].format
    BY <1>3 DEF r
  <2>12. k \in 1..N /\ l \in 1..N BY <2>9, <2>10, <2>11
  <2> QED BY <1>1, <2>9, <2>11, <2>12 DEF KindsDiffer
<1>6. Len(Jpegs) \in Nat BY Parted
<1> QED BY <1>4, <1>5, <1>6, NoneOrOne

(* r has the configurations of cs in another order, p, with their streams and sizes. *)
Renumbers(p, r, cs) ==
  /\ p \in [1..Len(r) -> 1..Len(cs)]
  /\ \A a, b \in 1..Len(r) : p[a] = p[b] => a = b
  /\ \A k \in 1..Len(cs) : \E a \in 1..Len(r) : p[a] = k
  /\ \A a \in 1..Len(r) : r[a].streams = cs[p[a]].streams /\ r[a].size = cs[p[a]].size

LEMMA Renumbered ==
  ASSUME NEW cs, WellMade(cs), NEW r \in Seq(StreamConfig), NEW p, Renumbers(p, r, cs)
  PROVE  /\ WellMade(r)
         /\ \A D : Fills(cs, D) => Fills(r, D)
         /\ MappedOntoDirect(cs) => MappedOntoDirect(r)
<1>1. /\ \A a \in 1..Len(r) : p[a] \in 1..Len(cs)
      /\ \A a, b \in 1..Len(r) : p[a] = p[b] => a = b
      /\ \A k \in 1..Len(cs) : \E a \in 1..Len(r) : p[a] = k
      /\ \A a \in 1..Len(r) : r[a].streams = cs[p[a]].streams /\ r[a].size = cs[p[a]].size
  BY DEF Renumbers
<1>2. \A a \in 1..Len(r) :
        /\ Len(r[a].streams) > 0
        /\ \A n \in 1..Len(r[a].streams) :
             /\ list[r[a].streams[n].stream].size = r[a].size
             /\ (n = 1) = (r[a].streams[n].type # "Mapped")
  <2> TAKE a \in 1..Len(r)
  <2>1. PICK k \in 1..Len(cs) : r[a].streams = cs[k].streams /\ r[a].size = cs[k].size BY <1>1
  <2>2. /\ Len(cs[k].streams) > 0
        /\ \A n \in 1..Len(cs[k].streams) :
             /\ list[cs[k].streams[n].stream].size = cs[k].size
             /\ (n = 1) = (cs[k].streams[n].type # "Mapped")
    BY DEF WellMade
  <2> QED BY <2>1, <2>2
<1>3. PlacedOnce(r)
  <2> SUFFICES ASSUME NEW a \in 1..Len(r), NEW b \in 1..Len(r),
                      NEW m \in 1..Len(r[a].streams), NEW n \in 1..Len(r[b].streams),
                      r[a].streams[m].stream = r[b].streams[n].stream
               PROVE  a = b /\ m = n
    BY DEF PlacedOnce
  <2>2. PICK k \in 1..Len(cs) : k = p[a] /\ r[a].streams = cs[k].streams BY <1>1
  <2>3. PICK l \in 1..Len(cs) : l = p[b] /\ r[b].streams = cs[l].streams BY <1>1
  <2>4. /\ m \in 1..Len(cs[k].streams) /\ n \in 1..Len(cs[l].streams)
        /\ cs[k].streams[m].stream = cs[l].streams[n].stream
    BY <2>2, <2>3
  <2>5. k = l /\ m = n BY <2>4 DEF WellMade, PlacedOnce
  <2>1. p[a] = p[b] /\ m = n BY <2>2, <2>3, <2>5
  <2> QED BY <1>1, <2>1
<1>4. WellMade(r) BY <1>2, <1>3 DEF WellMade
<1>5. \A i : IsPlaced(cs, i) <=> IsPlaced(r, i)
  <2> TAKE i
  <2>1. ASSUME IsPlaced(cs, i) PROVE IsPlaced(r, i)
    <3>1. PICK k \in 1..Len(cs) : \E n \in 1..Len(cs[k].streams) : cs[k].streams[n].stream = i
      BY <2>1 DEF IsPlaced
    <3>2. PICK a \in 1..Len(r) : p[a] = k BY <1>1
    <3>3. r[a].streams = cs[k].streams BY <1>1, <3>2
    <3>4. \E n \in 1..Len(r[a].streams) : r[a].streams[n].stream = i BY <3>1, <3>3
    <3> QED BY <3>4 DEF IsPlaced
  <2>2. ASSUME IsPlaced(r, i) PROVE IsPlaced(cs, i)
    <3>1. PICK a \in 1..Len(r) : \E n \in 1..Len(r[a].streams) : r[a].streams[n].stream = i
      BY <2>2 DEF IsPlaced
    <3>2. PICK k \in 1..Len(cs) : r[a].streams = cs[k].streams BY <1>1
    <3>3. \E n \in 1..Len(cs[k].streams) : cs[k].streams[n].stream = i BY <3>1, <3>2
    <3> QED BY <3>3 DEF IsPlaced
  <2> QED BY <2>1, <2>2
<1>6. \A D : Fills(cs, D) => Fills(r, D) BY <1>5 DEF Fills
<1>7. ASSUME MappedOntoDirect(cs) PROVE MappedOntoDirect(r)
  <2> SUFFICES ASSUME NEW a \in 1..Len(r), NEW n \in 1..Len(r[a].streams), n # 1
               PROVE  r[a].streams[1].type = "Direct"
    BY DEF MappedOntoDirect
  <2>1. PICK k \in 1..Len(cs) : r[a].streams = cs[k].streams BY <1>1
  <2>2. n \in 1..Len(cs[k].streams) BY <2>1
  <2>3. cs[k].streams[1].type = "Direct" BY <1>7, <2>2 DEF MappedOntoDirect
  <2> QED BY <2>1, <2>3
<1> QED BY <1>4, <1>6, <1>7

-----------------------------------------------------------------------------
(* The HAL's streams. *)
SourceOf(own, n) ==
  LET direct == {m \in 1..(n - 1) : own.streams[m].type = "Direct"}
  IN  IF direct = {} THEN 0 ELSE own.streams[Max(direct)].stream

CameraStreamOf(own, k, n) ==
  [type |-> own.streams[n].type, source |-> SourceOf(own, n), index |-> k]

CreatedStreams(cs) ==
  LET made == UNION {CameraStreams(cs[k], k) : k \in DOMAIN cs}
  IN  [i \in DOMAIN list |-> {s[2] : s \in {m \in made : m[1] = i}}]

CreatedAt(cs, k, n) ==
  /\ cs[k].streams[n].stream \in ListedStreams
  /\ CreatedStreams(cs)[cs[k].streams[n].stream] = {CameraStreamOf(cs[k], k, n)}

LEMMA CreatedIs ==
  ASSUME ListedWell, NEW cs, WellMade(cs), NEW k \in 1..Len(cs), NEW n \in 1..Len(cs[k].streams)
  PROVE  CreatedAt(cs, k, n)
<1> DEFINE i == cs[k].streams[n].stream
           made == UNION {CameraStreams(cs[l], l) : l \in DOMAIN cs}
           at(l, m) == <<cs[l].streams[m].stream, CameraStreamOf(cs[l], l, m)>>
<1>1. DOMAIN cs = 1..Len(cs) BY DEF WellMade
<1>2. \A l \in 1..Len(cs) : DOMAIN cs[l].streams = 1..Len(cs[l].streams)
                            /\ cs[l].streams \in Seq(StreamEntry)
  <2> TAKE l \in 1..Len(cs)
  <2>1. cs[l] \in StreamConfig BY DEF WellMade
  <2>2. cs[l].streams \in Seq(StreamEntry) BY <2>1, ConfigParts
  <2> QED BY <2>2
<1>3. i \in ListedStreams
  <2>1. cs[k].streams[n] \in StreamEntry BY <1>2
  <2> QED BY <2>1 DEF StreamEntry
<1>4. \A c, l : CameraStreams(c, l)
                = {<<c.streams[m].stream, CameraStreamOf(c, l, m)>> : m \in DOMAIN c.streams}
  BY DEF CameraStreams, CameraStreamOf, SourceOf
<1>5. \A x : x \in made <=> \E l \in 1..Len(cs) : x \in CameraStreams(cs[l], l) BY <1>1
<1>6. \A x : x \in made <=> \E l \in 1..Len(cs) : \E m \in 1..Len(cs[l].streams) : x = at(l, m)
  BY <1>2, <1>4, <1>5
<1> DEFINE mine == {x \in made : x[1] = i}
<1>7. mine = {at(k, n)}
  <2> HIDE DEF made
  <2>1. \A l, m : at(l, m)[1] = cs[l].streams[m].stream OBVIOUS
  <2> HIDE DEF at, i
  <2>2. at(k, n) \in mine BY <1>6, <2>1 DEF i
  <2>3. ASSUME NEW x \in mine PROVE x = at(k, n)
    <3>1. PICK l \in 1..Len(cs) : \E m \in 1..Len(cs[l].streams) : x = at(l, m) BY <1>6
    <3>2. PICK m \in 1..Len(cs[l].streams) : x = at(l, m) BY <3>1
    <3>3. cs[l].streams[m].stream = cs[k].streams[n].stream BY <2>1, <3>2 DEF i
    <3>4. l = k /\ m = n BY <3>3 DEF WellMade, PlacedOnce
    <3> QED BY <3>2, <3>4
  <2> HIDE DEF mine
  <2> QED BY <2>2, <2>3
<1>8. CreatedStreams(cs)[i] = {x[2] : x \in mine}
  <2>1. i \in DOMAIN list BY <1>3 DEF ListedStreams
  <2> QED BY <2>1 DEF CreatedStreams
<1>9. at(k, n)[2] = CameraStreamOf(cs[k], k, n) OBVIOUS
<1> HIDE DEF mine, at
<1>10. {x[2] : x \in mine} = {CameraStreamOf(cs[k], k, n)} BY <1>7, <1>9
<1> HIDE DEF i
<1>11. i \in ListedStreams /\ CreatedStreams(cs)[i] = {CameraStreamOf(cs[k], k, n)} BY <1>3, <1>8, <1>10
<1> QED BY <1>11 DEF CreatedAt, i

LEMMA AllCreated ==
  ASSUME ListedWell, NEW cs, WellMade(cs)
  PROVE  \A k \in 1..Len(cs) : \A n \in 1..Len(cs[k].streams) : CreatedAt(cs, k, n)
BY CreatedIs

LEMMA SourceIsFirst ==
  ASSUME NEW cs, WellMade(cs), MappedOntoDirect(cs),
         NEW k \in 1..Len(cs), NEW n \in 1..Len(cs[k].streams), cs[k].streams[n].type = "Mapped"
  PROVE  /\ 1 \in 1..Len(cs[k].streams) /\ cs[k].streams[1].type = "Direct"
         /\ SourceOf(cs[k], n) = cs[k].streams[1].stream
<1> DEFINE direct == {m \in 1..(n - 1) : cs[k].streams[m].type = "Direct"}
           M == Len(cs[k].streams)
<1>1. n # 1 BY DEF WellMade
<1>2. M \in Nat
  <2>1. cs[k] \in StreamConfig BY DEF WellMade
  <2>2. cs[k].streams \in Seq(StreamEntry) BY <2>1, ConfigParts
  <2> QED BY <2>2
<1>3. n \in 1..M OBVIOUS
<1>4. cs[k].streams[1].type = "Direct" BY <1>1 DEF MappedOntoDirect
<1>5. \A m \in 1..M : m # 1 => cs[k].streams[m].type = "Mapped" BY DEF WellMade
<1> HIDE DEF M
<1>6. 1 \in 1..M /\ 1 \in 1..(n - 1) /\ \A m \in 1..(n - 1) : m \in 1..M BY <1>1, <1>2, <1>3
<1>7. direct = {1}
  <2>1. \A m \in 1..(n - 1) : m # 1 => cs[k].streams[m].type # "Direct" BY <1>5, <1>6
  <2> QED BY <1>4, <1>6, <2>1
<1>8. Max(direct) = 1
  <2>1. {1} \in SUBSET (1..1) /\ {1} # {} OBVIOUS
  <2>2. Max({1}) \in {1} BY <2>1, MaxInSet
  <2> QED BY <1>7, <2>2
<1>9. SourceOf(cs[k], n) = IF direct = {} THEN 0 ELSE cs[k].streams[Max(direct)].stream BY DEF SourceOf
<1> HIDE DEF direct
<1>10. SourceOf(cs[k], n) = cs[k].streams[1].stream BY <1>7, <1>8, <1>9
<1> QED BY <1>4, <1>6, <1>10 DEF M

(* The first two parts of EachStreamIsMade. *)
LEMMA CreatedOnce ==
  ASSUME ListedWell, NEW cs, WellMade(cs), Fills(cs, ListedStreams),
         NEW i \in ListedStreams
  PROVE  Cardinality(CreatedStreams(cs)[i]) = 1
<1>1. IsPlaced(cs, i) BY DEF Fills
<1>2. PICK k \in 1..Len(cs) : \E n \in 1..Len(cs[k].streams) : cs[k].streams[n].stream = i
  BY <1>1 DEF IsPlaced
<1>3. PICK n \in 1..Len(cs[k].streams) : cs[k].streams[n].stream = i BY <1>2
<1>4. CreatedStreams(cs)[cs[k].streams[n].stream] = {CameraStreamOf(cs[k], k, n)}
  <2>1. CreatedAt(cs, k, n) BY CreatedIs
  <2> QED BY <2>1 DEF CreatedAt
<1>5. CreatedStreams(cs)[i] = {CameraStreamOf(cs[k], k, n)} BY <1>3, <1>4
<1> QED BY <1>5, FS_Singleton

LEMMA CreatedFromDirect ==
  ASSUME ListedWell, NEW cs, WellMade(cs), Fills(cs, ListedStreams), MappedOntoDirect(cs),
         NEW i \in ListedStreams, NEW s \in CreatedStreams(cs)[i], s.type = "Mapped"
  PROVE  /\ s.source # 0
         /\ \A d \in CreatedStreams(cs)[s.source] : d.type = "Direct" /\ d.index = s.index
         /\ list[s.source].size = list[i].size
<1>0. \A k \in 1..Len(cs) : \A n \in 1..Len(cs[k].streams) :
        /\ cs[k].streams[n].stream \in ListedStreams
        /\ CreatedStreams(cs)[cs[k].streams[n].stream] = {CameraStreamOf(cs[k], k, n)}
  BY AllCreated DEF CreatedAt
<1>1. IsPlaced(cs, i) BY DEF Fills
<1>2. PICK k \in 1..Len(cs) : \E n \in 1..Len(cs[k].streams) : cs[k].streams[n].stream = i
  BY <1>1 DEF IsPlaced
<1>3. PICK n \in 1..Len(cs[k].streams) : cs[k].streams[n].stream = i BY <1>2
<1>4. s = CameraStreamOf(cs[k], k, n)
  <2>1. CreatedStreams(cs)[cs[k].streams[n].stream] = {CameraStreamOf(cs[k], k, n)} BY <1>0
  <2> QED BY <1>3, <2>1
<1>5. \A m : /\ CameraStreamOf(cs[k], k, m).type = cs[k].streams[m].type
             /\ CameraStreamOf(cs[k], k, m).index = k
             /\ CameraStreamOf(cs[k], k, m).source = SourceOf(cs[k], m)
  BY DEF CameraStreamOf
<1>6. cs[k].streams[n].type = "Mapped" /\ s.index = k /\ s.source = SourceOf(cs[k], n) BY <1>4, <1>5
<1>7. /\ 1 \in 1..Len(cs[k].streams) /\ cs[k].streams[1].type = "Direct"
      /\ s.source = cs[k].streams[1].stream
  BY <1>6, SourceIsFirst
<1>8. s.source \in ListedStreams /\ CreatedStreams(cs)[s.source] = {CameraStreamOf(cs[k], k, 1)}
  <2>1. /\ cs[k].streams[1].stream \in ListedStreams
        /\ CreatedStreams(cs)[cs[k].streams[1].stream] = {CameraStreamOf(cs[k], k, 1)}
    BY <1>7, <1>0
  <2> QED BY <1>7, <2>1
<1>9. s.source # 0 BY <1>8, ListedStream
<1>10. \A d \in CreatedStreams(cs)[s.source] : d.type = "Direct" /\ d.index = s.index
  BY <1>5, <1>6, <1>7, <1>8
<1>11. list[s.source].size = list[i].size BY <1>3, <1>7 DEF WellMade
<1> QED BY <1>9, <1>10, <1>11

Movable(cs) == {k \in Stills(cs) : ~IsJpeg(cs[k].streams[1].stream)}

MovedStills(cs) ==
  {k \in Movable(cs) :
     Cardinality({j \in Movable(cs) : j < k}) < Cardinality(Stills(cs)) - 2}

LEMMA LimitIs ==
  ASSUME NEW cs
  PROVE  LimitStills(cs) =
           [k \in DOMAIN cs |->
              IF k \in MovedStills(cs) THEN [cs[k] EXCEPT !.role = "Viewfinder"] ELSE cs[k]]
BY Zenon DEF LimitStills, MovedStills, Movable

LEMMA RoleChanged ==
  ASSUME NEW c \in StreamConfig
  PROVE  LET d == [c EXCEPT !.role = "Viewfinder"]
         IN  /\ d \in StreamConfig /\ d.streams = c.streams /\ d.size = c.size
             /\ d.format = c.format /\ d.role = "Viewfinder"
<1> DEFINE d == [c EXCEPT !.role = "Viewfinder"]
<1>1. /\ c = [streams |-> c.streams, size |-> c.size, format |-> c.format, role |-> c.role]
      /\ c.streams \in Seq(StreamEntry) /\ c.size \in Int /\ c.format \in Int
  BY ConfigParts
<1>2. d = [streams |-> c.streams, size |-> c.size, format |-> c.format, role |-> "Viewfinder"]
  BY <1>1
<1>3. "Viewfinder" \in Roles BY DEF Roles
<1> HIDE DEF d
<1>4. d \in StreamConfig BY <1>1, <1>2, <1>3, ConfigOf
<1>5. d.streams = c.streams /\ d.size = c.size /\ d.format = c.format /\ d.role = "Viewfinder"
  BY <1>2
<1> QED BY <1>4, <1>5 DEF d

LEMMA LimitTypes ==
  ASSUME NEW cs, WellMade(cs)
  PROVE  /\ LimitStills(cs) \in Seq(StreamConfig) /\ Len(LimitStills(cs)) = Len(cs)
         /\ \A k \in 1..Len(cs) :
              /\ LimitStills(cs)[k].streams = cs[k].streams
              /\ LimitStills(cs)[k].size = cs[k].size
              /\ LimitStills(cs)[k].role = IF k \in MovedStills(cs) THEN "Viewfinder" ELSE cs[k].role
<1> DEFINE N == Len(cs)
           C(k) == IF k \in MovedStills(cs) THEN [cs[k] EXCEPT !.role = "Viewfinder"] ELSE cs[k]
           r == LimitStills(cs)
<1>1. N \in Nat /\ DOMAIN cs = 1..N /\ \A k \in 1..N : cs[k] \in StreamConfig BY DEF WellMade
<1>2. r = [k \in 1..N |-> C(k)] BY <1>1, LimitIs
<1>3. ASSUME NEW k \in 1..N
      PROVE  /\ C(k) \in StreamConfig /\ C(k).streams = cs[k].streams /\ C(k).size = cs[k].size
             /\ C(k).role = IF k \in MovedStills(cs) THEN "Viewfinder" ELSE cs[k].role
  <2>1. cs[k] \in StreamConfig BY <1>1
  <2>2. CASE k \in MovedStills(cs) BY <2>1, <2>2, RoleChanged
  <2>3. CASE k \notin MovedStills(cs) BY <2>1, <2>3
  <2> QED BY <2>2, <2>3
<1> HIDE DEF N, C, r
<1>4. r \in [1..N -> StreamConfig] BY <1>2, <1>3
<1>5. r \in Seq(StreamConfig) /\ Len(r) = N BY <1>1, <1>4
<1>6. \A k \in 1..N : r[k] = C(k) BY <1>2
<1> QED BY <1>3, <1>5, <1>6 DEF N, r

LEMMA LimitKeepsMade ==
  ASSUME NEW cs, WellMade(cs)
  PROVE  /\ WellMade(LimitStills(cs))
         /\ \A D : Fills(cs, D) => Fills(LimitStills(cs), D)
         /\ MappedOntoDirect(cs) => MappedOntoDirect(LimitStills(cs))
<1> DEFINE r == LimitStills(cs)
           p == [k \in 1..Len(cs) |-> k]
<1>1. /\ r \in Seq(StreamConfig) /\ Len(r) = Len(cs)
      /\ \A k \in 1..Len(cs) : r[k].streams = cs[k].streams /\ r[k].size = cs[k].size
  BY LimitTypes
<1>2. p \in [1..Len(cs) -> 1..Len(cs)] /\ \A k \in 1..Len(cs) : p[k] = k OBVIOUS
<1> HIDE DEF p, r
<1>3. Renumbers(p, r, cs) BY <1>1, <1>2 DEF Renumbers
<1> QED BY <1>1, <1>3, Renumbered DEF r

(* Two of them are left when there were more. *)
LEMMA TwoAreLeft ==
  ASSUME ListedWell, Len(Jpegs) <= 1, NEW cs, WellMade(cs)
  PROVE  /\ IsFiniteSet(Stills(cs)) /\ Cardinality(Stills(cs)) \in Nat
         /\ Cardinality(Stills(LimitStills(cs))) =
              IF Cardinality(Stills(cs)) > 2 THEN 2 ELSE Cardinality(Stills(cs))
<1> DEFINE N == Len(cs)
           S == Stills(cs)
           w == Cardinality(S)
           M == Movable(cs)
           T == MovedStills(cs)
           L == {x \in M \X M : x[1] < x[2]}
<1>1. N \in Nat /\ DOMAIN cs = 1..N BY DEF WellMade
<1>2. S \in SUBSET (1..N) /\ M \in SUBSET S /\ T \in SUBSET M
  BY <1>1 DEF Stills, Movable, MovedStills
<1>3. IsFiniteSet(S) /\ IsFiniteSet(M) /\ w \in Nat /\ Cardinality(M) \in Nat
  <2>1. IsFiniteSet(1..N) BY <1>1, FS_Interval
  <2>2. IsFiniteSet(S) BY <1>2, <2>1, FS_Subset
  <2>3. IsFiniteSet(M) BY <1>2, <2>2, FS_Subset
  <2> QED BY <2>2, <2>3, FS_CardinalityType
<1>4. Cardinality(M) >= w - 1
  <2>1. ASSUME NEW k \in S \ M PROVE k \in JpegConfigs(cs)
    <3>1. k \in 1..N /\ IsJpeg(cs[k].streams[1].stream) BY <1>2, <2>1 DEF Movable
    <3>2. 1 \in 1..Len(cs[k].streams)
      <4>1. cs[k] \in StreamConfig BY <3>1 DEF WellMade
      <4>2. cs[k].streams \in Seq(StreamEntry) BY <4>1, ConfigParts
      <4>3. Len(cs[k].streams) > 0 BY <3>1 DEF WellMade
      <4> QED BY <4>2, <4>3
    <3> QED BY <3>1, <3>2, HasJpeg
  <2> HIDE DEF S, M
  <2>2. \A k, l \in S \ M : k = l BY <2>1, OneJpegConfigAtMost
  <2>3. CASE S \ M = {}
    <3>1. S = M BY <1>2, <2>3
    <3> QED BY <1>3, <3>1
  <2>4. CASE S \ M # {}
    <3>1. PICK k : k \in S \ M BY <2>4
    <3>2. M = S \ {k} BY <1>2, <2>2, <3>1
    <3>3. Cardinality(S \ {k}) = w - 1 BY <1>3, <3>1, FS_RemoveElement
    <3> QED BY <1>3, <3>2, <3>3
  <2> QED BY <2>3, <2>4
<1>5. \A k \in M : RankOf(M, L, k) = Cardinality({j \in M : j < k})
  <2> TAKE k \in M
  <2>1. {j \in M : <<j, k>> \in L} = {j \in M : j < k}
    <3> HIDE DEF M
    <3>1. \A j \in M : <<j, k>> \in L <=> j < k OBVIOUS
    <3> QED BY <3>1
  <2> QED BY <2>1 DEF RankOf
<1>6. Orders(M, L)
  <2>1. \A j, k \in M : <<j, k>> \in L <=> j < k
    <3> HIDE DEF M
    <3> QED OBVIOUS
  <2>2. \A k \in M : k \in Nat BY <1>1, <1>2
  <2> HIDE DEF M, L
  <2> QED BY <2>1, <2>2 DEF Orders
<1>7. T = {k \in M : RankOf(M, L, k) < w - 2} BY <1>5 DEF MovedStills
<1>8. Stills(LimitStills(cs)) = S \ T
  <2> DEFINE r == LimitStills(cs)
  <2>1. /\ r \in Seq(StreamConfig) /\ Len(r) = N
        /\ \A k \in 1..N : r[k].role = IF k \in T THEN "Viewfinder" ELSE cs[k].role
    BY LimitTypes
  <2>2. DOMAIN r = 1..N BY <2>1
  <2> HIDE DEF r, T, N
  <2> QED BY <1>1, <1>2, <2>1, <2>2 DEF Stills, r
<1> HIDE DEF S, M, T, L
<1>9. Cardinality(S \ T) = w - Cardinality(T)
  <2>1. S \cap T = T BY <1>2
  <2> QED BY <1>3, <2>1, FS_Difference
<1>10. CASE w > 2
  <2> DEFINE v == w - 2
  <2>1. v \in Nat /\ v <= Cardinality(M) BY <1>3, <1>4, <1>10
  <2> HIDE DEF v
  <2>2. Cardinality({k \in M : RankOf(M, L, k) < v}) = v BY <1>3, <1>6, <2>1, FirstRanks
  <2>3. Cardinality(T) = w - 2 BY <1>7, <2>2 DEF v
  <2>4. w - (w - 2) = 2 BY <1>3
  <2> QED BY <1>3, <1>8, <1>9, <1>10, <2>3, <2>4 DEF S
<1>11. CASE ~(w > 2)
  <2>1. \A k \in M : RankOf(M, L, k) \in 0..(Cardinality(M) - 1) BY <1>3, <1>6, Ranks DEF InRanks
  <2>2. \A k \in M : ~(RankOf(M, L, k) < w - 2)
    <3> TAKE k \in M
    <3>1. RankOf(M, L, k) >= 0 /\ RankOf(M, L, k) \in Int BY <1>3, <2>1
    <3> QED BY <1>3, <1>11, <3>1
  <2>3. T = {} BY <1>7, <2>2
  <2>4. S \ T = S BY <2>3
  <2> QED BY <1>3, <1>8, <1>11, <2>4 DEF S
<1> QED BY <1>10, <1>11

AskedStills  == {i \in DOMAIN list : ~IsJpeg(i) /\ "still" \in list[i].usage}
Hosted == \E i \in AskedStills : \E j \in ToSet(Jpegs) : list[i].size = list[j].size

LEMMA OthersStills ==
  ASSUME ListedWell
  PROVE  /\ IsFiniteSet(Stills(OthersConfigs))
         /\ Cardinality(Stills(OthersConfigs)) = Cardinality(AskedStills)
         /\ \A k \in Stills(OthersConfigs) : k \in 1..Len(Others) /\ Others[k] \in AskedStills
         /\ \A i \in AskedStills : \E k \in Stills(OthersConfigs) : Others[k] = i
<1> DEFINE N == Len(Others)
           S == Stills(OthersConfigs)
           f == [k \in S |-> Others[k]]
<1>1. /\ Others \in Seq(ListedStreams) /\ N \in Nat /\ Rising(Others)
      /\ ToSet(Others) = {i \in ListedStreams : ~IsJpeg(i)}
  BY Parted
<1>2. /\ OthersConfigs \in Seq(StreamConfig) /\ Len(OthersConfigs) = N
      /\ \A k \in 1..N : OthersConfigs[k].role = Role(Others[k])
  BY OthersAreDirect
<1>3. \A k \in 1..N : (Role(Others[k]) = "StillCapture") = ("still" \in list[Others[k]].usage)
  BY DEF Role, HasStillFlag
<1>4. DOMAIN Others = 1..N /\ DOMAIN OthersConfigs = 1..N BY <1>1, <1>2
<1>5. S = {k \in 1..N : "still" \in list[Others[k]].usage} BY <1>2, <1>3, <1>4 DEF Stills
<1>6. \A i : i \in ToSet(Others) <=> \E k \in 1..N : Others[k] = i BY <1>4 DEF ToSet
<1>7. AskedStills = {i \in ToSet(Others) : "still" \in list[i].usage} BY <1>1 DEF AskedStills, ListedStreams
<1>8. \A k \in S : k \in 1..N /\ Others[k] \in AskedStills BY <1>5, <1>6, <1>7
<1>9. \A i \in AskedStills : \E k \in S : Others[k] = i BY <1>5, <1>6, <1>7
<1>10. \A k, l \in 1..N : Others[k] = Others[l] => k = l
  <2> SUFFICES ASSUME NEW k \in 1..N, NEW l \in 1..N, Others[k] = Others[l] PROVE k = l OBVIOUS
  <2>0. Others[k] \in ListedStreams /\ Others[l] \in ListedStreams BY <1>1
  <2>1. Others[k] \in Nat /\ Others[l] \in Nat BY <2>0, ListedStream
  <2>2. ~(Others[k] < Others[l]) /\ ~(Others[l] < Others[k]) BY <2>1
  <2>3. ~(k < l) /\ ~(l < k) BY <1>1, <2>2 DEF Rising
  <2> QED BY <1>1, <2>3
<1>11. IsFiniteSet(S)
  <2>1. IsFiniteSet(1..N) BY <1>1, FS_Interval
  <2>2. S \in SUBSET (1..N) BY <1>5
  <2> HIDE DEF S
  <2> QED BY <2>1, <2>2, FS_Subset
<1> HIDE DEF S
<1>12. f \in [S -> AskedStills] /\ \A k \in S : f[k] = Others[k] BY <1>8
<1> HIDE DEF f
<1>13. f \in Surjection(S, AskedStills) BY <1>9, <1>12 DEF Surjection
<1>14. f \in Injection(S, AskedStills) BY <1>8, <1>10, <1>12 DEF Injection, IsInjective
<1>15. Cardinality(AskedStills) = Cardinality(S) BY <1>11, <1>13, <1>14, FS_Surjection
<1> QED BY <1>8, <1>9, <1>11, <1>15 DEF S, N

LEMMA StillsCounted ==
  ASSUME ListedWell, Len(Jpegs) <= 1
  PROVE  /\ Cardinality(AskedStills) \in Nat
         /\ Cardinality(Stills(NoMapPlaced)) =
              Cardinality(AskedStills) + IF Len(Jpegs) = 1 /\ ~Hosted THEN 1 ELSE 0
<1> DEFINE b == OthersConfigs
           N == Len(b)
<1>1. /\ IsFiniteSet(Stills(b)) /\ Cardinality(Stills(b)) = Cardinality(AskedStills)
      /\ \A k \in Stills(b) : k \in 1..Len(Others) /\ Others[k] \in AskedStills
      /\ \A i \in AskedStills : \E k \in Stills(b) : Others[k] = i
  BY OthersStills
<1>2. Cardinality(AskedStills) \in Nat BY <1>1, FS_CardinalityType
<1>3. CASE Len(Jpegs) = 0
  <2>1. NoMapPlaced = b BY <1>3, OneJpegAtMost
  <2> HIDE DEF b
  <2> QED BY <1>1, <1>2, <1>3, <2>1
<1>4. CASE Len(Jpegs) = 1
  <2> DEFINE i == Jpegs[1]
             c == ConfigFor(i, "Internal", ToPixelFormat[Blob], "StillCapture")
             hosts == {k \in DOMAIN b : /\ b[k].role = "StillCapture"
                                        /\ list[b[k].streams[1].stream].size = list[i].size}
             r == NoMapPlaced
  <2>1. r = AddJpeg(b, i) BY <1>4, OneJpegAtMost
  <2>2. r = Place(b, hosts, i, c) BY <2>1 DEF AddJpeg
  <2>3. i \in ListedStreams /\ IsJpeg(i) /\ ToSet(Jpegs) = {i}
    <3>1. 1 \in 1..Len(Jpegs) BY <1>4
    <3>2. Jpegs \in Seq(ListedStreams) BY Parted
    <3>3. DOMAIN Jpegs = {1} BY <1>4, <3>2
    <3>4. ToSet(Jpegs) = {i} BY <3>3 DEF ToSet
    <3> QED BY <3>1, <3>4, JpegsAreNoOthers
  <2>4. "StillCapture" \in Roles /\ ToPixelFormat[Blob] \in Int BY <2>3, ListedStream DEF Roles
  <2>5. c \in StreamConfig /\ c.role = "StillCapture" BY <1>4, <2>4, OneJpegConfig
  <2>6. hosts \in SUBSET DOMAIN b OBVIOUS
  <2>7. WellMade(b) BY OthersMade
  <2>8. /\ b \in Seq(StreamConfig) /\ Len(b) = Len(Others) /\ DOMAIN b = 1..N
        /\ \A k \in 1..N : b[k].streams[1].stream = Others[k]
    <3>1. /\ OthersConfigs \in Seq(StreamConfig) /\ Len(OthersConfigs) = Len(Others)
          /\ \A k \in 1..Len(Others) : OthersConfigs[k].streams[1].stream = Others[k]
      BY OthersAreDirect
    <3> QED BY <3>1
  <2>9. hosts = {k \in Stills(b) : list[Others[k]].size = list[i].size}
    <3> HIDE DEF b, N
    <3> QED BY <2>8 DEF Stills
  <2>10. Hosted <=> hosts # {} BY <1>1, <2>3, <2>9 DEF Hosted
  <2> HIDE DEF i, c, hosts, b, r
  <2>11. KeepsRest(r, b, hosts, c) BY <2>2, <2>3, <2>5, <2>6, <2>7, PlaceKeepsRest
  <2>12. /\ N \in Nat
         /\ Len(r) = IF hosts = {} THEN N + 1 ELSE N
         /\ \A k \in 1..N : r[k].role = b[k].role
         /\ hosts = {} => r[N + 1] = c
    BY <2>11 DEF KeepsRest, SameBut
  <2>13. DOMAIN r = 1..Len(r)
    <3>1. r \in Seq(StreamConfig) BY NoMapMade DEF WellMade, r
    <3> QED BY <3>1
  <2> HIDE DEF N
  <2>14. CASE hosts # {}
    <3>1. Stills(r) = Stills(b) BY <2>8, <2>12, <2>13, <2>14 DEF Stills
    <3> QED BY <1>1, <1>2, <2>10, <2>14, <3>1 DEF r
  <2>15. CASE hosts = {}
    <3>1. \A k : k \in 1..(N + 1) <=> k \in 1..N \/ k = N + 1 BY <2>12
    <3>2. N + 1 \notin 1..N BY <2>12
    <3>3. Stills(r) = Stills(b) \cup {N + 1} BY <2>5, <2>8, <2>12, <2>13, <2>15, <3>1 DEF Stills
    <3>4. N + 1 \notin Stills(b) BY <2>8, <3>2 DEF Stills
    <3>5. Cardinality(Stills(b) \cup {N + 1}) = Cardinality(Stills(b)) + 1
      BY <1>1, <3>4, FS_AddElement
    <3> QED BY <1>1, <1>2, <1>4, <2>10, <2>15, <3>3, <3>5 DEF r
  <2> QED BY <2>14, <2>15
<1>5. Len(Jpegs) \in Nat BY Parted
<1> QED BY <1>2, <1>3, <1>4, <1>5, NoneOrOne

LEMMA MinOfTwo ==
  ASSUME NEW w \in Nat
  PROVE  Min({w, 2}) = IF w > 2 THEN 2 ELSE w
<1>1. {w, 2} \in SUBSET Nat /\ {w, 2} # {} OBVIOUS
<1>2. Min({w, 2}) \in {w, 2} /\ \A x \in {w, 2} : Min({w, 2}) <= x BY <1>1, MinInSet
<1>3. Min({w, 2}) <= w /\ Min({w, 2}) <= 2 /\ (Min({w, 2}) = w \/ Min({w, 2}) = 2) BY <1>2
<1> DEFINE m == Min({w, 2})
<1> HIDE DEF m
<1>4. m <= w /\ m <= 2 /\ (m = w \/ m = 2) BY <1>3 DEF m
<1>5. m = IF w > 2 THEN 2 ELSE w BY <1>4
<1> QED BY <1>5 DEF m

WantedStills == Cardinality(AskedStills) + IF Len(Jpegs) = 1 /\ ~Hosted THEN 1 ELSE 0

StillsWell(cs) == Cardinality(Stills(cs)) = Min({WantedStills, 2})

LEMMA StillsLimited ==
  ASSUME ListedWell, Len(Jpegs) <= 1, NEW cs, cs = LimitStills(NoMapPlaced)
  PROVE  StillsWell(cs)
<1>1. WellMade(NoMapPlaced) BY NoMapMade
<1>2. Cardinality(Stills(cs)) =
        IF Cardinality(Stills(NoMapPlaced)) > 2 THEN 2 ELSE Cardinality(Stills(NoMapPlaced))
  BY <1>1, TwoAreLeft
<1>3. Cardinality(Stills(NoMapPlaced)) = WantedStills /\ Cardinality(AskedStills) \in Nat
  BY StillsCounted DEF WantedStills
<1>4. WantedStills \in Nat BY <1>3 DEF WantedStills
<1> QED BY <1>2, <1>3, <1>4, MinOfTwo DEF StillsWell

KindsDifferIn(cs, ks) ==
  \A j, k \in ks : cs[j].size = cs[k].size /\ cs[j].format = cs[k].format => j = k

LEMMA LargerIsEarlier ==
  ASSUME NEW cs \in Seq(StreamConfig), NEW ks \in SUBSET (1..Len(cs)), NEW j \in ks, NEW k \in ks,
         cs[j].format = cs[k].format, cs[j].size > cs[k].size
  PROVE  Round(cs, ks, j) < Round(cs, ks, k)
<1> DEFINE B(x) == {y \in ks : cs[y].format = cs[x].format /\ cs[y].size > cs[x].size}
<1>1. IsFiniteSet(ks)
  <2>1. IsFiniteSet(1..Len(cs)) BY FS_Interval
  <2> QED BY <2>1, FS_Subset
<1>2. \A y \in ks : cs[y].size \in Int
  <2> TAKE y \in ks
  <2>1. cs[y] \in StreamConfig OBVIOUS
  <2> QED BY <2>1, ConfigParts
<1>3. B(j) \in SUBSET B(k)
  <2> SUFFICES ASSUME NEW y \in B(j) PROVE y \in B(k) OBVIOUS
  <2>1. y \in ks /\ cs[y].format = cs[j].format /\ cs[y].size > cs[j].size OBVIOUS
  <2>2. cs[y].size \in Int /\ cs[j].size \in Int /\ cs[k].size \in Int BY <1>2, <2>1
  <2> DEFINE sy == cs[y].size
             sj == cs[j].size
             sk == cs[k].size
  <2>4. sy > sj /\ sj > sk /\ sy \in Int /\ sj \in Int /\ sk \in Int BY <2>1, <2>2
  <2> HIDE DEF sy, sj, sk
  <2>5. sy > sk BY <2>4
  <2> QED BY <2>1, <2>5 DEF sy, sk
<1>4. j \in B(k) /\ j \notin B(j)
  <2>1. ~(cs[j].size > cs[j].size) BY <1>2
  <2> QED BY <2>1
<1>5. B(k) \in SUBSET ks OBVIOUS
<1>6. Round(cs, ks, j) = Cardinality(B(j)) /\ Round(cs, ks, k) = Cardinality(B(k)) BY DEF Round
<1> HIDE DEF B
<1>7. IsFiniteSet(B(k)) BY <1>1, <1>5, FS_Subset
<1>8. /\ IsFiniteSet(B(j)) /\ Cardinality(B(j)) <= Cardinality(B(k))
      /\ (Cardinality(B(k)) = Cardinality(B(j)) => B(k) = B(j))
  BY <1>3, <1>7, FS_Subset
<1>9. Cardinality(B(j)) \in Nat /\ Cardinality(B(k)) \in Nat BY <1>7, <1>8, FS_CardinalityType
<1>10. Cardinality(B(j)) # Cardinality(B(k)) BY <1>4, <1>8
<1> QED BY <1>6, <1>8, <1>9, <1>10

LEMMA RoundType ==
  ASSUME NEW cs \in Seq(StreamConfig), NEW ks \in SUBSET (1..Len(cs)), NEW k \in ks
  PROVE  Round(cs, ks, k) \in Nat /\ cs[k].size \in Int /\ cs[k].format \in Int
<1>1. IsFiniteSet(ks)
  <2>1. IsFiniteSet(1..Len(cs)) BY FS_Interval
  <2> QED BY <2>1, FS_Subset
<1>2. cs[k] \in StreamConfig OBVIOUS
<1>3. cs[k].size \in Int /\ cs[k].format \in Int BY <1>2, ConfigParts
<1> DEFINE B == {y \in ks : cs[y].format = cs[k].format /\ cs[y].size > cs[k].size}
<1>4. B \in SUBSET ks OBVIOUS
<1>5. Round(cs, ks, k) = Cardinality(B) BY DEF Round
<1> HIDE DEF B
<1>6. Cardinality(B) \in Nat BY <1>1, <1>4, FS_Subset, FS_CardinalityType
<1> QED BY <1>3, <1>5, <1>6

(* r has each of ks once, a larger one of a format never after a smaller one. *)
ListsInRounds(r, cs, ks) ==
  /\ r \in Seq(ks)
  /\ \A m, n \in 1..Len(r) : r[m] = r[n] => m = n
  /\ \A k \in ks : \E n \in 1..Len(r) : r[n] = k
  /\ \A m, n \in 1..Len(r) :
       m < n /\ cs[r[m]].format = cs[r[n]].format => cs[r[m]].size > cs[r[n]].size

LEMMA RoundsList ==
  ASSUME NEW cs \in Seq(StreamConfig), NEW ks \in SUBSET (1..Len(cs)), KindsDifferIn(cs, ks)
  PROVE  ListsInRounds(Rounds(cs, ks), cs, ks)
<1> DEFINE L == {x \in ks \X ks : Before(cs, ks, x[1], x[2])}
           C == Cardinality(ks)
           r == Rounds(cs, ks)
           R(k) == Round(cs, ks, k)
           F(k) == cs[k].format
<1>1. IsFiniteSet(ks)
  <2>1. IsFiniteSet(1..Len(cs)) BY FS_Interval
  <2> QED BY <2>1, FS_Subset
<1>2. \A k \in ks : R(k) \in Nat /\ F(k) \in Int /\ cs[k].size \in Int BY RoundType
<1>3. \A j, k \in ks : <<j, k>> \in L <=> R(j) < R(k) \/ (R(j) = R(k) /\ F(j) < F(k))
  <2>1. \A j, k : Before(cs, ks, j, k) <=> R(j) < R(k) \/ (R(j) = R(k) /\ F(j) < F(k))
    BY DEF Before
  <2> HIDE DEF R, F
  <2>2. \A j, k \in ks : <<j, k>> \in L <=> Before(cs, ks, j, k) OBVIOUS
  <2> QED BY <2>1, <2>2
<1>4. \A j, k \in ks : F(j) = F(k) /\ cs[j].size > cs[k].size => R(j) < R(k) BY LargerIsEarlier
<1>5. \A k \in ks : RankOf(ks, L, k) = Cardinality({j \in ks : Before(cs, ks, j, k)})
  <2> TAKE k \in ks
  <2>1. {j \in ks : <<j, k>> \in L} = {j \in ks : Before(cs, ks, j, k)} OBVIOUS
  <2> HIDE DEF L
  <2> QED BY <2>1 DEF RankOf
<1>6. r = [n \in 1..C |-> CHOOSE k \in ks : Cardinality({j \in ks : Before(cs, ks, j, k)}) = n - 1]
  BY DEF Rounds
<1> HIDE DEF L, C, R, F, r
<1>7. Orders(ks, L)
  <2>1. \A k \in ks : <<k, k>> \notin L BY <1>2, <1>3
  <2>2. ASSUME NEW i \in ks, NEW j \in ks, NEW k \in ks, <<i, j>> \in L, <<j, k>> \in L
        PROVE  <<i, k>> \in L
    <3>1. R(i) < R(j) \/ (R(i) = R(j) /\ F(i) < F(j)) BY <1>3, <2>2
    <3>2. R(j) < R(k) \/ (R(j) = R(k) /\ F(j) < F(k)) BY <1>3, <2>2
    <3>3. R(i) \in Int /\ R(j) \in Int /\ R(k) \in Int /\ F(i) \in Int /\ F(j) \in Int /\ F(k) \in Int
      BY <1>2
    <3>4. R(i) < R(k) \/ (R(i) = R(k) /\ F(i) < F(k)) BY <3>1, <3>2, <3>3
    <3> QED BY <1>3, <3>4
  <2>3. ASSUME NEW j \in ks, NEW k \in ks, j # k PROVE <<j, k>> \in L \/ <<k, j>> \in L
    <3>1. R(j) \in Int /\ R(k) \in Int /\ F(j) \in Int /\ F(k) \in Int
          /\ cs[j].size \in Int /\ cs[k].size \in Int
      BY <1>2
    <3>2. CASE R(j) # R(k)
      <4>1. R(j) < R(k) \/ R(k) < R(j) BY <3>1, <3>2
      <4> QED BY <1>3, <4>1
    <3>3. CASE R(j) = R(k) /\ F(j) # F(k)
      <4>1. F(j) < F(k) \/ F(k) < F(j) BY <3>1, <3>3
      <4> QED BY <1>3, <3>3, <4>1
    <3>4. CASE R(j) = R(k) /\ F(j) = F(k)
      <4>1. ~(R(j) < R(k)) /\ ~(R(k) < R(j)) BY <3>1, <3>4
      <4>2. ~(cs[j].size > cs[k].size) /\ ~(cs[k].size > cs[j].size) BY <1>4, <3>4, <4>1
      <4>3. cs[j].size = cs[k].size BY <3>1, <4>2
      <4> QED BY <2>3, <3>4, <4>3 DEF KindsDifferIn, F
    <3> QED BY <3>2, <3>3, <3>4
  <2> QED BY <2>1, <2>2, <2>3 DEF Orders
<1>8. /\ C \in Nat
      /\ \A k \in ks : RankOf(ks, L, k) \in 0..(C - 1)
      /\ \A j, k \in ks : <<j, k>> \in L <=> RankOf(ks, L, j) < RankOf(ks, L, k)
      /\ \A j, k \in ks : RankOf(ks, L, j) = RankOf(ks, L, k) => j = k
      /\ \A n \in 0..(C - 1) : \E k \in ks : RankOf(ks, L, k) = n
  <2>1. InRanks(ks, L) BY <1>1, <1>7, Ranks
  <2> QED BY <2>1 DEF InRanks, C
<1>9. \A n \in 1..C : r[n] \in ks /\ RankOf(ks, L, r[n]) = n - 1
  <2> TAKE n \in 1..C
  <2>1. n - 1 \in 0..(C - 1) BY <1>8
  <2>2. PICK k \in ks : RankOf(ks, L, k) = n - 1 BY <1>8, <2>1
  <2>3. Cardinality({j \in ks : Before(cs, ks, j, k)}) = n - 1 BY <1>5, <2>2
  <2>4. r[n] = CHOOSE x \in ks : Cardinality({j \in ks : Before(cs, ks, j, x)}) = n - 1 BY <1>6
  <2>5. r[n] \in ks /\ Cardinality({j \in ks : Before(cs, ks, j, r[n])}) = n - 1 BY <2>3, <2>4
  <2> QED BY <1>5, <2>5
<1>10. r \in Seq(ks) /\ Len(r) = C
  <2>1. r \in [1..C -> ks] BY <1>6, <1>9
  <2> QED BY <1>8, <2>1
<1>11. \A m, n \in 1..C : r[m] = r[n] => m = n
  <2> SUFFICES ASSUME NEW m \in 1..C, NEW n \in 1..C, r[m] = r[n] PROVE m = n OBVIOUS
  <2>1. m - 1 = n - 1 BY <1>9
  <2> QED BY <1>8, <2>1
<1>12. \A k \in ks : \E n \in 1..C : r[n] = k
  <2> TAKE k \in ks
  <2>1. PICK a \in 0..(C - 1) : a = RankOf(ks, L, k) BY <1>8
  <2>2. a + 1 \in 1..C /\ (a + 1) - 1 = a BY <1>8
  <2>3. r[a + 1] \in ks /\ RankOf(ks, L, r[a + 1]) = a BY <1>9, <2>2
  <2>4. r[a + 1] = k BY <1>8, <2>1, <2>3
  <2> QED BY <2>2, <2>4
<1>13. ASSUME NEW m \in 1..C, NEW n \in 1..C, m < n, F(r[m]) = F(r[n])
       PROVE  cs[r[m]].size > cs[r[n]].size
  <2> DEFINE j == r[m]
             k == r[n]
  <2>1. j \in ks /\ k \in ks /\ RankOf(ks, L, j) = m - 1 /\ RankOf(ks, L, k) = n - 1 BY <1>9
  <2> HIDE DEF j, k
  <2>2. RankOf(ks, L, j) < RankOf(ks, L, k) BY <1>8, <1>13, <2>1
  <2>3. <<j, k>> \in L BY <1>8, <2>1, <2>2
  <2>4. R(j) \in Int /\ R(k) \in Int /\ F(j) \in Int /\ F(k) \in Int
        /\ cs[j].size \in Int /\ cs[k].size \in Int
    BY <1>2, <2>1
  <2>5. F(j) = F(k) BY <1>13 DEF j, k
  <2>6. R(j) < R(k)
    <3>1. R(j) < R(k) \/ (R(j) = R(k) /\ F(j) < F(k)) BY <1>3, <2>1, <2>3
    <3> QED BY <2>4, <2>5, <3>1
  <2>7. ~(cs[k].size > cs[j].size)
    <3> SUFFICES ASSUME cs[k].size > cs[j].size PROVE FALSE OBVIOUS
    <3>1. R(k) < R(j) BY <1>4, <2>1, <2>5
    <3> QED BY <2>4, <2>6, <3>1
  <2>8. cs[k].size # cs[j].size
    <3> SUFFICES ASSUME cs[k].size = cs[j].size PROVE FALSE OBVIOUS
    <3>1. j = k BY <2>1, <2>5 DEF KindsDifferIn, F
    <3> QED BY <2>4, <2>6, <3>1
  <2> DEFINE sj == cs[j].size
             sk == cs[k].size
  <2>9. sj \in Int /\ sk \in Int /\ ~(sk > sj) /\ sk # sj BY <2>4, <2>7, <2>8
  <2> HIDE DEF sj, sk
  <2>10. sj > sk BY <2>9
  <2> QED BY <2>10 DEF sj, sk, j, k
<1> QED BY <1>10, <1>11, <1>12, <1>13 DEF ListsInRounds, F, r

Nv12s(cs, jpeg) == {k \in DOMAIN cs \ jpeg : cs[k].format = NV12}

TopOf(cs, jpeg) == IF Nv12s(cs, jpeg) = {} THEN {} ELSE {LargestConfig(cs, Nv12s(cs, jpeg))}

JpegAhead(cs, jpeg) ==
  \E j \in jpeg, t \in TopOf(cs, jpeg) : cs[j].format = NV12 /\ cs[t].size < cs[j].size

HeadOf(cs, jpeg) ==
  IF JpegAhead(cs, jpeg) THEN SetToSeq(jpeg) \o SetToSeq(TopOf(cs, jpeg))
                         ELSE SetToSeq(TopOf(cs, jpeg)) \o SetToSeq(jpeg)

LEMMA OrderIs ==
  ASSUME NEW cs, NEW jpeg
  PROVE  Order(cs, jpeg) = HeadOf(cs, jpeg) \o Rounds(cs, DOMAIN cs \ (jpeg \cup TopOf(cs, jpeg)))
BY Zenon DEF Order, HeadOf, JpegAhead, TopOf, Nv12s

(* The largest NV12 configuration that is not for JPEG, if there is one. *)
IsTop(top, cs, jpeg) ==
  /\ top \in SUBSET Nv12s(cs, jpeg)
  /\ \A k, l \in top : k = l
  /\ \A k \in Nv12s(cs, jpeg) : \E t \in top : cs[k].size <= cs[t].size

LEMMA TopIs ==
  ASSUME NEW cs \in Seq(StreamConfig), NEW jpeg, KindsDifferIn(cs, DOMAIN cs \ jpeg)
  PROVE  IsTop(TopOf(cs, jpeg), cs, jpeg)
<1> DEFINE nv12 == Nv12s(cs, jpeg)
<1>1. DOMAIN cs = 1..Len(cs) OBVIOUS
<1>2. nv12 \in SUBSET (1..Len(cs)) /\ \A k \in nv12 : cs[k].format = NV12 BY <1>1 DEF Nv12s
<1>3. KindsDifferIn(cs, nv12) BY DEF KindsDifferIn, Nv12s
<1> HIDE DEF nv12
<1>4. \A k \in nv12 : cs[k].size \in Int BY <1>2, RoundType
<1>5. CASE nv12 = {}
  <2>1. TopOf(cs, jpeg) = {} BY <1>5 DEF TopOf, nv12
  <2> QED BY <1>5, <2>1 DEF IsTop, nv12
<1>6. CASE nv12 # {}
  <2> DEFINE r == Rounds(cs, nv12)
             t == LargestConfig(cs, nv12)
  <2>1. /\ r \in Seq(nv12)
        /\ \A k \in nv12 : \E n \in 1..Len(r) : r[n] = k
        /\ \A m, n \in 1..Len(r) :
             m < n /\ cs[r[m]].format = cs[r[n]].format => cs[r[m]].size > cs[r[n]].size
    BY <1>2, <1>3, RoundsList DEF ListsInRounds
  <2> HIDE DEF r
  <2>2. Len(r) \in Nat /\ 1 \in 1..Len(r) BY <1>6, <2>1
  <2>3. r[1] \in nv12 BY <2>1, <2>2
  <2>4. \A k \in nv12 : cs[k].size <= cs[r[1]].size
    <3> TAKE k \in nv12
    <3>1. PICK n \in 1..Len(r) : r[n] = k BY <2>1
    <3>2. cs[k].size \in Int /\ cs[r[1]].size \in Int /\ cs[r[1]].format = cs[r[n]].format
      BY <1>2, <1>4, <2>3, <3>1
    <3>3. CASE n = 1 BY <3>1, <3>2, <3>3
    <3>4. CASE n # 1
      <4>1. 1 < n BY <2>2, <3>4
      <4>2. cs[r[1]].size > cs[r[n]].size BY <2>1, <2>2, <3>2, <4>1
      <4> DEFINE a == cs[r[1]].size
                 b == cs[k].size
      <4>3. a > b /\ a \in Int /\ b \in Int BY <3>1, <3>2, <4>2
      <4> HIDE DEF a, b
      <4>4. b <= a BY <4>3
      <4> QED BY <4>4 DEF a, b
    <3> QED BY <3>3, <3>4
  <2>5. t \in nv12 /\ \A k \in nv12 : cs[k].size <= cs[t].size BY <2>3, <2>4 DEF LargestConfig
  <2>6. TopOf(cs, jpeg) = {t} BY <1>6 DEF TopOf, nv12
  <2> HIDE DEF t
  <2> QED BY <2>5, <2>6 DEF IsTop, nv12
<1> QED BY <1>5, <1>6

(* What goes first. *)
IsHead(h, cs, jpeg, top) ==
  /\ h \in Seq(1..Len(cs)) /\ Len(h) \in Nat /\ Len(h) <= 2
  /\ \A m, n \in 1..Len(h) : h[m] = h[n] => m = n
  /\ \A k : k \in jpeg \cup top <=> \E n \in 1..Len(h) : h[n] = k
  /\ \A k \in 1..Len(cs) : cs[k].format = NV12 =>
       Len(h) > 0 /\ cs[h[1]].format = NV12 /\ cs[k].size <= cs[h[1]].size

LEMMA OneIsHead ==
  ASSUME NEW cs \in Seq(StreamConfig), NEW x \in 1..Len(cs), NEW jpeg, NEW top, jpeg \cup top = {x},
         \A k \in 1..Len(cs) : cs[k].format = NV12 => cs[x].format = NV12 /\ cs[k].size <= cs[x].size
  PROVE  IsHead(<<x>>, cs, jpeg, top)
<1> DEFINE h == <<x>>
<1>1. h \in Seq(1..Len(cs)) /\ Len(h) = 1 /\ h[1] = x OBVIOUS
<1> HIDE DEF h
<1>2. \A n : n \in 1..1 <=> n = 1 OBVIOUS
<1>3. \A k : k \in jpeg \cup top <=> \E n \in 1..Len(h) : h[n] = k BY <1>1, <1>2
<1> QED BY <1>1, <1>2, <1>3 DEF IsHead, h

LEMMA TwoAreHead ==
  ASSUME NEW cs \in Seq(StreamConfig), NEW x \in 1..Len(cs), NEW y \in 1..Len(cs), x # y,
         NEW jpeg, NEW top, jpeg \cup top = {x, y},
         \A k \in 1..Len(cs) : cs[k].format = NV12 => cs[x].format = NV12 /\ cs[k].size <= cs[x].size
  PROVE  IsHead(<<x, y>>, cs, jpeg, top)
<1> DEFINE h == <<x, y>>
<1>1. h \in Seq(1..Len(cs)) /\ Len(h) = 2 /\ h[1] = x /\ h[2] = y OBVIOUS
<1> HIDE DEF h
<1>2. \A n : n \in 1..2 <=> n = 1 \/ n = 2 OBVIOUS
<1>3. \A k : k \in jpeg \cup top <=> \E n \in 1..Len(h) : h[n] = k BY <1>1, <1>2
<1> QED BY <1>1, <1>2, <1>3 DEF IsHead, h

LEMMA NoneIsHead ==
  ASSUME NEW cs, NEW jpeg, NEW top, jpeg \cup top = {},
         \A k \in 1..Len(cs) : cs[k].format # NV12
  PROVE  IsHead(<<>>, cs, jpeg, top)
<1>1. <<>> \in Seq(1..Len(cs)) /\ Len(<<>>) = 0 /\ \A n \in 1..0 : FALSE OBVIOUS
<1> QED BY <1>1 DEF IsHead

LEMMA Joined ==
  /\ <<>> \o <<>> = <<>>
  /\ \A x : <<>> \o <<x>> = <<x>> /\ <<x>> \o <<>> = <<x>>
  /\ \A x, y : <<x>> \o <<y>> = <<x, y>>
<1>1. <<>> \o <<>> = <<>>
  <2>1. <<>> \in Seq({}) OBVIOUS
  <2> QED BY <2>1, ConcatEmptySeq
<1>2. ASSUME NEW x PROVE <<>> \o <<x>> = <<x>> /\ <<x>> \o <<>> = <<x>>
  <2>1. <<x>> \in Seq({x}) OBVIOUS
  <2> QED BY <2>1, ConcatEmptySeq
<1>3. ASSUME NEW x, NEW y PROVE <<x>> \o <<y>> = <<x, y>>
  <2> DEFINE S == {x, y}
             a == <<x>>
             b == <<y>>
             c == <<x, y>>
  <2>1. a \in Seq(S) /\ b \in Seq(S) /\ c \in Seq(S) OBVIOUS
  <2>2. Len(a) = 1 /\ a[1] = x /\ Len(b) = 1 /\ b[1] = y /\ Len(c) = 2 /\ c[1] = x /\ c[2] = y
    OBVIOUS
  <2> HIDE DEF S, a, b, c
  <2>3. /\ a \o b \in Seq(S) /\ Len(a \o b) = 2
        /\ \A i \in 1..2 : (a \o b)[i] = IF i <= 1 THEN a[i] ELSE b[i - 1]
    BY <2>1, <2>2, ConcatProperties
  <2>4. \A i \in 1..2 : (a \o b)[i] = c[i]
    <3>1. (a \o b)[1] = a[1] /\ (a \o b)[2] = b[1] BY <2>3
    <3>2. \A i \in 1..2 : i = 1 \/ i = 2 OBVIOUS
    <3> QED BY <2>2, <3>1, <3>2
  <2>5. a \o b = c BY <2>1, <2>2, <2>3, <2>4, SeqEqual
  <2> QED BY <2>5 DEF a, b, c
<1> QED BY <1>1, <1>2, <1>3

LEMMA HeadIs ==
  ASSUME NEW cs \in Seq(StreamConfig), NEW jpeg \in SUBSET DOMAIN cs, \A k, l \in jpeg : k = l,
         IsTop(TopOf(cs, jpeg), cs, jpeg)
  PROVE  IsHead(HeadOf(cs, jpeg), cs, jpeg, TopOf(cs, jpeg))
<1> DEFINE top == TopOf(cs, jpeg)
           N == Len(cs)
<1>1. DOMAIN cs = 1..N /\ N \in Nat OBVIOUS
<1>2. \A k \in 1..N : cs[k].size \in Int
  <2> TAKE k \in 1..N
  <2>1. cs[k] \in StreamConfig OBVIOUS
  <2> QED BY <2>1, ConfigParts
<1>3. /\ \A k \in top : k \in 1..N /\ k \notin jpeg /\ cs[k].format = NV12
      /\ \A k, l \in top : k = l
      /\ \A k \in 1..N : k \notin jpeg /\ cs[k].format = NV12 => \E t \in top : cs[k].size <= cs[t].size
  BY <1>1 DEF IsTop, Nv12s
<1>4. HeadOf(cs, jpeg) =
        IF \E j \in jpeg, t \in top : cs[j].format = NV12 /\ cs[t].size < cs[j].size
        THEN SetToSeq(jpeg) \o SetToSeq(top) ELSE SetToSeq(top) \o SetToSeq(jpeg)
  BY Zenon DEF HeadOf, JpegAhead
<1>5. \A k \in jpeg : k \in 1..N BY <1>1
<1> HIDE DEF top, N
<1>6. CASE jpeg = {} /\ top = {}
  <2>1. HeadOf(cs, jpeg) = <<>> BY <1>4, <1>6, ListOfNone, Joined
  <2>2. \A k \in 1..N : cs[k].format # NV12 BY <1>3, <1>6
  <2>3. jpeg \cup top = {} BY <1>6
  <2>4. IsHead(<<>>, cs, jpeg, top) BY <2>2, <2>3, NoneIsHead DEF N
  <2> QED BY <2>1, <2>4 DEF top
<1>7. ASSUME jpeg = {}, NEW t \in top PROVE IsHead(HeadOf(cs, jpeg), cs, jpeg, top)
  <2>1. top = {t} /\ t \in 1..N /\ jpeg \cup top = {t} BY <1>3, <1>7
  <2>2. SetToSeq(top) = <<t>> /\ SetToSeq(jpeg) = <<>> BY <1>7, <2>1, ListOfOne, ListOfNone
  <2>3. HeadOf(cs, jpeg) = <<t>> BY <1>4, <1>7, <2>2, Joined
  <2>4. \A k \in 1..N : cs[k].format = NV12 => cs[t].format = NV12 /\ cs[k].size <= cs[t].size
    BY <1>3, <1>7, <2>1
  <2>5. IsHead(<<t>>, cs, jpeg, top) BY <2>1, <2>4, OneIsHead DEF N
  <2> QED BY <2>3, <2>5
<1>8. ASSUME NEW j \in jpeg, top = {} PROVE IsHead(HeadOf(cs, jpeg), cs, jpeg, top)
  <2>1. jpeg = {j} /\ j \in 1..N /\ jpeg \cup top = {j} BY <1>5, <1>8
  <2>2. SetToSeq(jpeg) = <<j>> /\ SetToSeq(top) = <<>> BY <1>8, <2>1, ListOfOne, ListOfNone
  <2>3. HeadOf(cs, jpeg) = <<j>> BY <1>4, <1>8, <2>2, Joined
  <2>4. \A k \in 1..N : cs[k].format = NV12 => cs[j].format = NV12 /\ cs[k].size <= cs[j].size
    <3> SUFFICES ASSUME NEW k \in 1..N, cs[k].format = NV12
                 PROVE  cs[j].format = NV12 /\ cs[k].size <= cs[j].size
      OBVIOUS
    <3>1. k = j BY <1>3, <1>8, <2>1
    <3>2. cs[k].size <= cs[k].size BY <1>2
    <3> QED BY <3>1, <3>2
  <2>5. IsHead(<<j>>, cs, jpeg, top) BY <2>1, <2>4, OneIsHead DEF N
  <2> QED BY <2>3, <2>5
<1>9. ASSUME NEW j \in jpeg, NEW t \in top PROVE IsHead(HeadOf(cs, jpeg), cs, jpeg, top)
  <2>1. /\ jpeg = {j} /\ top = {t} /\ j \in 1..N /\ t \in 1..N /\ j # t
        /\ jpeg \cup top = {j, t} /\ jpeg \cup top = {t, j}
    BY <1>3, <1>5
  <2>2. SetToSeq(jpeg) = <<j>> /\ SetToSeq(top) = <<t>> BY <2>1, ListOfOne
  <2>3. cs[t].format = NV12 BY <1>3
  <2> DEFINE sj == cs[j].size
             st == cs[t].size
  <2>4. sj \in Int /\ st \in Int BY <1>2, <2>1
  <2>5. \A k \in 1..N : cs[k].format = NV12 => k = j \/ (cs[k].size \in Int /\ cs[k].size <= st)
    BY <1>2, <1>3, <2>1
  <2>6. CASE cs[j].format = NV12 /\ st < sj
    <3>1. HeadOf(cs, jpeg) = <<j, t>>
      <4>1. \E k \in jpeg, l \in top : cs[k].format = NV12 /\ cs[l].size < cs[k].size BY <2>6
      <4>2. HeadOf(cs, jpeg) = SetToSeq(jpeg) \o SetToSeq(top) BY <1>4, <4>1
      <4>3. <<j>> \o <<t>> = <<j, t>> BY Joined
      <4> QED BY <2>2, <4>2, <4>3
    <3>2. \A k \in 1..N : cs[k].format = NV12 => cs[j].format = NV12 /\ cs[k].size <= cs[j].size
      <4> SUFFICES ASSUME NEW k \in 1..N, cs[k].format = NV12 PROVE cs[k].size <= sj BY <2>6
      <4>1. CASE k = j BY <2>4, <4>1
      <4>2. CASE k # j
        <5> DEFINE sk == cs[k].size
        <5>1. sk \in Int /\ sk <= st BY <2>5, <4>2
        <5> HIDE DEF sk, sj, st
        <5>2. sk <= sj BY <2>4, <2>6, <5>1
        <5> QED BY <5>2 DEF sk
      <4> QED BY <4>1, <4>2
    <3>3. IsHead(<<j, t>>, cs, jpeg, top) BY <2>1, <3>2, TwoAreHead DEF N
    <3> QED BY <3>1, <3>3
  <2>7. CASE ~(cs[j].format = NV12 /\ st < sj)
    <3>1. HeadOf(cs, jpeg) = <<t, j>>
      <4>1. ~ \E k \in jpeg, l \in top : cs[k].format = NV12 /\ cs[l].size < cs[k].size BY <2>1, <2>7
      <4>2. HeadOf(cs, jpeg) = SetToSeq(top) \o SetToSeq(jpeg) BY <1>4, <4>1
      <4>3. <<t>> \o <<j>> = <<t, j>> BY Joined
      <4> QED BY <2>2, <4>2, <4>3
    <3>2. \A k \in 1..N : cs[k].format = NV12 => cs[t].format = NV12 /\ cs[k].size <= cs[t].size
      <4> SUFFICES ASSUME NEW k \in 1..N, cs[k].format = NV12 PROVE cs[k].size <= st BY <2>3
      <4>1. CASE k = j
        <5>1. ~(st < sj) BY <2>7, <4>1
        <5> HIDE DEF sj, st
        <5>2. sj <= st BY <2>4, <5>1
        <5> QED BY <4>1, <5>2 DEF sj
      <4>2. CASE k # j BY <2>5, <4>2
      <4> QED BY <4>1, <4>2
    <3>3. IsHead(<<t, j>>, cs, jpeg, top) BY <2>1, <3>2, TwoAreHead DEF N
    <3> QED BY <3>1, <3>3
  <2> QED BY <2>6, <2>7
<1>10. IsHead(HeadOf(cs, jpeg), cs, jpeg, top) BY <1>6, <1>7, <1>8, <1>9 DEF top
<1> QED BY <1>10 DEF top

(* The order of the configurations: each once, NV12 and JPEG as the comment of
   sortCamera3StreamConfigs has them.                                       *)
IsOrder(o, cs, jpeg) ==
  /\ o \in Seq(1..Len(cs))
  /\ \A m, n \in 1..Len(o) : o[m] = o[n] => m = n
  /\ \A k \in 1..Len(cs) : \E n \in 1..Len(o) : o[n] = k
  /\ \A n \in 1..Len(o) : o[n] \in jpeg => n <= 2
  /\ \A k \in 1..Len(cs) : cs[k].format = NV12 =>
       Len(o) > 0 /\ cs[o[1]].format = NV12 /\ cs[k].size <= cs[o[1]].size
  /\ \A m, n \in 1..Len(o) :
       m < n /\ o[m] \notin jpeg /\ o[n] \notin jpeg /\ cs[o[m]].format = cs[o[n]].format
         => cs[o[m]].size > cs[o[n]].size

LEMMA OrderHolds ==
  ASSUME NEW cs \in Seq(StreamConfig), NEW jpeg \in SUBSET DOMAIN cs, \A k, l \in jpeg : k = l,
         KindsDifferIn(cs, DOMAIN cs \ jpeg)
  PROVE  IsOrder(Order(cs, jpeg), cs, jpeg)
<1> DEFINE N == Len(cs)
           top == TopOf(cs, jpeg)
           h == HeadOf(cs, jpeg)
           ks == DOMAIN cs \ (jpeg \cup top)
           r == Rounds(cs, ks)
           o == h \o r
           H == Len(h)
           W == 1..N
<1>1. Order(cs, jpeg) = o BY OrderIs
<1>2. N \in Nat /\ DOMAIN cs = 1..N OBVIOUS
<1>3. IsTop(top, cs, jpeg) BY TopIs
<1>4. IsHead(h, cs, jpeg, top) BY <1>3, HeadIs
<1>5. ks \in SUBSET (1..Len(cs)) /\ KindsDifferIn(cs, ks) BY <1>2 DEF KindsDifferIn
<1>6. ListsInRounds(r, cs, ks) BY <1>5, RoundsList
<1>7. \A k : k \in ks <=> k \in 1..N /\ k \notin jpeg /\ k \notin top BY <1>2
<1> HIDE DEF top, h, ks, r
<1>8. /\ h \in Seq(W) /\ H \in Nat /\ H <= 2
      /\ \A m, n \in 1..H : h[m] = h[n] => m = n
      /\ \A k : k \in jpeg \cup top <=> \E n \in 1..H : h[n] = k
      /\ \A k \in W : cs[k].format = NV12 =>
           H > 0 /\ cs[h[1]].format = NV12 /\ cs[k].size <= cs[h[1]].size
  BY <1>4 DEF IsHead
<1>9. /\ r \in Seq(ks)
      /\ \A m, n \in 1..Len(r) : r[m] = r[n] => m = n
      /\ \A k \in ks : \E n \in 1..Len(r) : r[n] = k
      /\ \A m, n \in 1..Len(r) :
           m < n /\ cs[r[m]].format = cs[r[n]].format => cs[r[m]].size > cs[r[n]].size
  BY <1>6 DEF ListsInRounds
<1>10. Len(r) \in Nat /\ \A n \in 1..Len(r) : r[n] \in ks BY <1>9
<1>11. /\ \A k \in top : k \in W /\ k \notin jpeg /\ cs[k].format = NV12
       /\ \A k, l \in top : k = l
       /\ \A k \in W : k \notin jpeg /\ cs[k].format = NV12 => \E t \in top : cs[k].size <= cs[t].size
  BY <1>2, <1>3 DEF IsTop, Nv12s
<1>12. r \in Seq(W)
  <2>1. \A n \in 1..Len(r) : r[n] \in W BY <1>7, <1>10
  <2>2. r = [n \in 1..Len(r) |-> r[n]] BY <1>9
  <2> HIDE DEF W
  <2>3. r \in [1..Len(r) -> W] BY <2>1, <2>2
  <2> QED BY <1>10, <2>3
<1> HIDE DEF W, o, H
<1>13. /\ o \in Seq(W) /\ Len(o) = H + Len(r)
       /\ \A n \in 1..H : n \in 1..Len(o) /\ o[n] = h[n]
       /\ \A n \in 1..Len(r) : H + n \in 1..Len(o) /\ o[H + n] = r[n]
  <2>1. /\ h \o r \in Seq(W) /\ Len(h \o r) = Len(h) + Len(r)
        /\ \A i \in 1..Len(h) + Len(r) : (h \o r)[i] = IF i <= Len(h) THEN h[i] ELSE r[i - Len(h)]
    BY <1>8, <1>12, ConcatProperties
  <2>2. /\ o \in Seq(W) /\ Len(o) = H + Len(r)
        /\ \A i \in 1..H + Len(r) : o[i] = IF i <= H THEN h[i] ELSE r[i - H]
    BY <2>1 DEF o, H
  <2>3. \A n \in 1..H : n \in 1..H + Len(r) /\ n <= H BY <1>8, <1>10
  <2>4. \A n \in 1..Len(r) : H + n \in 1..H + Len(r) /\ ~(H + n <= H) /\ (H + n) - H = n BY <1>8, <1>10
  <2> QED BY <2>2, <2>3, <2>4
<1>14. \A n \in 1..Len(o) : n \in 1..H \/ \E a \in 1..Len(r) : n = H + a
  <2> TAKE n \in 1..Len(o)
  <2>1. CASE n <= H BY <1>8, <2>1
  <2>2. CASE n > H
    <3>1. n - H \in 1..Len(r) /\ n = H + (n - H) BY <1>8, <1>10, <1>13, <2>2
    <3> QED BY <3>1
  <2> QED BY <1>8, <2>1, <2>2
<1>15. \A n \in 1..H : h[n] \in jpeg \/ h[n] \in top BY <1>8
<1>16. \A n \in 1..Len(r) : r[n] \in W /\ r[n] \notin jpeg /\ r[n] \notin top BY <1>7, <1>10 DEF W
<1>17. ASSUME NEW m \in 1..Len(o), NEW n \in 1..Len(o), o[m] = o[n] PROVE m = n
  <2>1. CASE m \in 1..H /\ n \in 1..H BY <1>8, <1>13, <1>17, <2>1
  <2>2. ASSUME m \in 1..H, NEW a \in 1..Len(r), n = H + a PROVE FALSE
    <3>1. h[m] = r[a] BY <1>13, <1>17, <2>2
    <3> QED BY <1>15, <1>16, <2>2, <3>1
  <2>3. ASSUME n \in 1..H, NEW a \in 1..Len(r), m = H + a PROVE FALSE
    <3>1. h[n] = r[a] BY <1>13, <1>17, <2>3
    <3> QED BY <1>15, <1>16, <2>3, <3>1
  <2>4. ASSUME NEW a \in 1..Len(r), NEW b \in 1..Len(r), m = H + a, n = H + b PROVE m = n
    <3>1. r[a] = r[b] BY <1>13, <1>17, <2>4
    <3> QED BY <1>9, <2>4, <3>1
  <2> QED BY <1>14, <2>1, <2>2, <2>3, <2>4
<1>18. ASSUME NEW k \in W PROVE \E n \in 1..Len(o) : o[n] = k
  <2>1. CASE k \in jpeg \cup top
    <3>1. PICK n \in 1..H : h[n] = k BY <1>8, <2>1
    <3> QED BY <1>13, <3>1
  <2>2. CASE k \notin jpeg \cup top
    <3>1. k \in ks BY <1>7, <1>18, <2>2 DEF W
    <3>2. PICK n \in 1..Len(r) : r[n] = k BY <1>9, <3>1
    <3> QED BY <1>13, <3>2
  <2> QED BY <2>1, <2>2
<1>19. ASSUME NEW n \in 1..Len(o), o[n] \in jpeg PROVE n <= 2
  <2>1. CASE n \in 1..H BY <1>8, <2>1
  <2>2. ASSUME NEW a \in 1..Len(r), n = H + a PROVE FALSE BY <1>13, <1>16, <1>19, <2>2
  <2> QED BY <1>14, <2>1, <2>2
<1>20. ASSUME NEW k \in W, cs[k].format = NV12
       PROVE  Len(o) > 0 /\ cs[o[1]].format = NV12 /\ cs[k].size <= cs[o[1]].size
  <2>1. H > 0 /\ cs[h[1]].format = NV12 /\ cs[k].size <= cs[h[1]].size BY <1>8, <1>20
  <2>2. 1 \in 1..H BY <1>8, <2>1
  <2>3. o[1] = h[1] /\ Len(o) > 0 BY <1>8, <1>10, <1>13, <2>1, <2>2
  <2> QED BY <2>1, <2>3
<1>21. ASSUME NEW m \in 1..Len(o), NEW n \in 1..Len(o), m < n, o[m] \notin jpeg, o[n] \notin jpeg,
              cs[o[m]].format = cs[o[n]].format
       PROVE  cs[o[m]].size > cs[o[n]].size
  <2>1. CASE m \in 1..H /\ n \in 1..H
    <3>1. o[m] \in top /\ o[n] \in top BY <1>13, <1>15, <1>21, <2>1
    <3>2. h[m] = h[n] BY <1>11, <1>13, <2>1, <3>1
    <3>3. m = n BY <1>8, <2>1, <3>2
    <3> QED BY <1>21, <3>3
  <2>2. ASSUME m \in 1..H, NEW a \in 1..Len(r), n = H + a
        PROVE  cs[o[m]].size > cs[o[n]].size
    <3> DEFINE t == o[m]
               k == o[n]
    <3>1. t \in top BY <1>13, <1>15, <1>21, <2>2
    <3>2. k = r[a] BY <1>13, <2>2
    <3>3. t \in W /\ t \notin jpeg /\ cs[t].format = NV12 BY <1>11, <3>1
    <3>4. k \in W /\ k \notin jpeg /\ k \notin top BY <1>16, <3>2
    <3>5. cs[k].format = cs[t].format BY <1>21
    <3> HIDE DEF t, k
    <3>6. cs[k].size <= cs[t].size
      <4>1. PICK u \in top : cs[k].size <= cs[u].size BY <1>11, <3>3, <3>4, <3>5
      <4> QED BY <1>11, <3>1, <4>1
    <3>7. cs[k].size # cs[t].size
      <4>1. k \in DOMAIN cs \ jpeg /\ t \in DOMAIN cs \ jpeg BY <1>2, <3>3, <3>4 DEF W
      <4>2. k # t BY <3>1, <3>4
      <4> QED BY <3>5, <4>1, <4>2 DEF KindsDifferIn
    <3>8. cs[k].size \in Int /\ cs[t].size \in Int
      <4>1. cs[k] \in StreamConfig /\ cs[t] \in StreamConfig BY <1>2, <3>3, <3>4 DEF W
      <4> QED BY <4>1, ConfigParts
    <3> DEFINE sk == cs[k].size
               st == cs[t].size
    <3>9. sk \in Int /\ st \in Int /\ sk <= st /\ sk # st BY <3>6, <3>7, <3>8
    <3> HIDE DEF sk, st
    <3>10. st > sk BY <3>9
    <3> QED BY <3>10 DEF st, sk, t, k
  <2>3. ASSUME n \in 1..H, NEW a \in 1..Len(r), m = H + a PROVE FALSE
    <3>1. n <= H /\ m > H BY <1>8, <2>3
    <3> QED BY <1>8, <1>21, <2>3, <3>1
  <2>4. ASSUME NEW a \in 1..Len(r), NEW b \in 1..Len(r), m = H + a, n = H + b
        PROVE  cs[o[m]].size > cs[o[n]].size
    <3>1. a < b BY <1>8, <1>21, <2>4
    <3>2. o[m] = r[a] /\ o[n] = r[b] BY <1>13, <2>4
    <3> QED BY <1>9, <1>21, <3>1, <3>2
  <2> QED BY <1>14, <2>1, <2>2, <2>3, <2>4
<1> QED BY <1>1, <1>13, <1>17, <1>18, <1>19, <1>20, <1>21 DEF IsOrder, W, N

LEMMA SortedIs ==
  ASSUME NEW cs
  PROVE  Sorted(cs) = [n \in DOMAIN Order(cs, JpegConfigs(cs)) |-> cs[Order(cs, JpegConfigs(cs))[n]]]
BY Zenon DEF Sorted, JpegConfigs

(* The order of configs. *)
SortedWell(cs) ==
  /\ \A k \in 1..Len(cs) : cs[k].format = NV12 => Len(cs) > 0 /\ cs[1].format = NV12 /\ cs[k].size <= cs[1].size
  /\ JpegConfigs(cs) \subseteq {1, 2}
  /\ \A j, k \in DOMAIN cs \ JpegConfigs(cs) :
       j < k /\ cs[j].format = cs[k].format => cs[j].size > cs[k].size

LEMMA SortKeepsMade ==
  ASSUME ListedWell, NEW cs, WellMade(cs), \A k, l \in JpegConfigs(cs) : k = l,
         KindsDifferIn(cs, DOMAIN cs \ JpegConfigs(cs))
  PROVE  /\ WellMade(Sorted(cs))
         /\ \A D : Fills(cs, D) => Fills(Sorted(cs), D)
         /\ MappedOntoDirect(cs) => MappedOntoDirect(Sorted(cs))
         /\ SortedWell(Sorted(cs))
<1> DEFINE jpeg == JpegConfigs(cs)
           o == Order(cs, jpeg)
           r == Sorted(cs)
           N == Len(cs)
<1>1. cs \in Seq(StreamConfig) /\ N \in Nat /\ DOMAIN cs = 1..N BY DEF WellMade
<1>2. jpeg \in SUBSET DOMAIN cs BY DEF JpegConfigs
<1>3. IsOrder(o, cs, jpeg) BY <1>1, <1>2, OrderHolds
<1>4. /\ o \in Seq(1..N)
      /\ \A m, n \in 1..Len(o) : o[m] = o[n] => m = n
      /\ \A k \in 1..N : \E n \in 1..Len(o) : o[n] = k
      /\ \A n \in 1..Len(o) : o[n] \in jpeg => n <= 2
      /\ \A k \in 1..N : cs[k].format = NV12 =>
           Len(o) > 0 /\ cs[o[1]].format = NV12 /\ cs[k].size <= cs[o[1]].size
      /\ \A m, n \in 1..Len(o) :
           m < n /\ o[m] \notin jpeg /\ o[n] \notin jpeg /\ cs[o[m]].format = cs[o[n]].format
             => cs[o[m]].size > cs[o[n]].size
  BY <1>3 DEF IsOrder
<1>5. r = [n \in DOMAIN o |-> cs[o[n]]] BY SortedIs
<1> HIDE DEF o, jpeg, r, N
<1>6. Len(o) \in Nat /\ DOMAIN o = 1..Len(o) /\ \A n \in 1..Len(o) : o[n] \in 1..N
  <2> DEFINE W == 1..N
  <2>1. o \in Seq(W) BY <1>4
  <2> HIDE DEF W
  <2>2. Len(o) \in Nat /\ DOMAIN o = 1..Len(o) /\ \A n \in 1..Len(o) : o[n] \in W BY <2>1
  <2> QED BY <2>2 DEF W
<1>7. \A n \in 1..Len(o) : r[n] = cs[o[n]] BY <1>5, <1>6
<1>8. r \in Seq(StreamConfig) /\ Len(r) = Len(o)
  <2>1. \A n \in 1..Len(o) : cs[o[n]] \in StreamConfig BY <1>1, <1>6 DEF N
  <2>2. r \in [1..Len(o) -> StreamConfig] BY <1>5, <1>6, <2>1
  <2> QED BY <1>6, <2>2
<1>9. Renumbers(o, r, cs)
  <2>1. o \in [1..Len(r) -> 1..Len(cs)] BY <1>4, <1>8 DEF N
  <2> QED BY <1>4, <1>7, <1>8, <2>1 DEF Renumbers, N
<1>10. /\ WellMade(r)
       /\ \A D : Fills(cs, D) => Fills(r, D)
       /\ MappedOntoDirect(cs) => MappedOntoDirect(r)
  BY <1>8, <1>9, Renumbered
<1>11. ASSUME NEW n \in 1..Len(r) PROVE n \in JpegConfigs(r) <=> o[n] \in jpeg
  <2>1. o[n] \in 1..Len(cs) /\ r[n] = cs[o[n]] BY <1>6, <1>7, <1>8 DEF N
  <2>2. n \in JpegConfigs(r) <=> \E m \in 1..Len(r[n].streams) : IsJpeg(r[n].streams[m].stream)
    BY <1>10, HasJpeg
  <2>3. o[n] \in jpeg <=> \E m \in 1..Len(cs[o[n]].streams) : IsJpeg(cs[o[n]].streams[m].stream)
    BY <2>1, HasJpeg DEF jpeg
  <2> QED BY <2>1, <2>2, <2>3
<1>12. DOMAIN r = 1..Len(r) /\ JpegConfigs(r) \in SUBSET (1..Len(r)) BY <1>8 DEF JpegConfigs
<1>13. JpegConfigs(r) \subseteq {1, 2}
  <2> SUFFICES ASSUME NEW n \in JpegConfigs(r) PROVE n \in {1, 2} OBVIOUS
  <2>1. n \in 1..Len(o) /\ n <= 2 BY <1>4, <1>8, <1>11, <1>12
  <2> QED BY <1>6, <2>1
<1>14. ASSUME NEW n \in 1..Len(r), r[n].format = NV12
       PROVE  Len(r) > 0 /\ r[1].format = NV12 /\ r[n].size <= r[1].size
  <2>1. o[n] \in 1..N /\ cs[o[n]].format = NV12 /\ r[n].size = cs[o[n]].size
    BY <1>6, <1>7, <1>8, <1>14
  <2>2. Len(o) > 0 /\ cs[o[1]].format = NV12 /\ cs[o[n]].size <= cs[o[1]].size BY <1>4, <2>1
  <2>3. 1 \in 1..Len(o) BY <1>6, <2>2
  <2>4. r[1] = cs[o[1]] BY <1>7, <2>3
  <2> QED BY <1>8, <2>1, <2>2, <2>4
<1>15. ASSUME NEW j \in DOMAIN r \ JpegConfigs(r), NEW k \in DOMAIN r \ JpegConfigs(r),
              j < k, r[j].format = r[k].format
       PROVE  r[j].size > r[k].size
  <2>1. /\ j \in 1..Len(o) /\ k \in 1..Len(o) /\ o[j] \notin jpeg /\ o[k] \notin jpeg
        /\ r[j] = cs[o[j]] /\ r[k] = cs[o[k]]
    BY <1>7, <1>8, <1>11, <1>12
  <2>2. cs[o[j]].format = cs[o[k]].format BY <1>15, <2>1
  <2>3. cs[o[j]].size > cs[o[k]].size BY <1>4, <1>15, <2>1, <2>2
  <2> QED BY <2>1, <2>3
<1>16. SortedWell(r) BY <1>13, <1>14, <1>15 DEF SortedWell
<1> QED BY <1>10, <1>16 DEF r

LEMMA SortRuleHolds ==
  ASSUME SortedWell(configs), WellMade(configs)
  PROVE  SortRule
<1>1. DOMAIN configs = 1..Len(configs) /\ Len(configs) \in Nat BY DEF WellMade
<1> DEFINE nv12 == {k \in DOMAIN configs : configs[k].format = NV12}
<1>2. ASSUME NEW k \in nv12 PROVE 1 \in nv12 /\ configs[k].size <= configs[1].size
  <2>1. Len(configs) > 0 /\ configs[1].format = NV12 /\ configs[k].size <= configs[1].size
    BY <1>1 DEF SortedWell
  <2> QED BY <1>1, <2>1
<1>3. SortRule <=>
        /\ nv12 # {} => 1 \in nv12 /\ \A k \in nv12 : configs[k].size <= configs[1].size
        /\ JpegConfigs(configs) \subseteq {1, 2}
        /\ \A j, k \in DOMAIN configs \ JpegConfigs(configs) :
             j < k /\ configs[j].format = configs[k].format => configs[j].size > configs[k].size
  BY Zenon DEF SortRule, JpegConfigs
<1> HIDE DEF nv12
<1>4. nv12 # {} => 1 \in nv12 /\ \A k \in nv12 : configs[k].size <= configs[1].size BY <1>2
<1>5. /\ JpegConfigs(configs) \subseteq {1, 2}
      /\ \A j, k \in DOMAIN configs \ JpegConfigs(configs) :
           j < k /\ configs[j].format = configs[k].format => configs[j].size > configs[k].size
  BY DEF SortedWell
<1> QED BY <1>3, <1>4, <1>5

-----------------------------------------------------------------------------
(* What configureStreams() has made of the streams that were asked for. *)
MadeWell(cs) ==
  /\ WellMade(cs) /\ Fills(cs, ListedStreams)
  /\ Len(Jpegs) <= 1 => MappedOntoDirect(cs)
  /\ builder = "NoMap" /\ Len(Jpegs) <= 1 => StillsWell(cs)
  /\ builder = "Default" => SortedWell(cs)

StreamsInv ==
  /\ ListedWell
  /\ list = <<>> => built = "no"
  /\ built = "no" => streams = <<>>
  /\ built = "yes" => MadeWell(configs)
  /\ streams # <<>> => built = "yes" /\ streams = CreatedStreams(configs)

LEMMA NoMapIsMadeWell ==
  ASSUME ListedWell, builder = "NoMap"
  PROVE  MadeWell(BuildNoMap)
<1> DEFINE cs == BuildNoMap
<1>1. cs = LimitStills(NoMapPlaced) BY DEF BuildNoMap, NoMapPlaced, OthersConfigs
<1> HIDE DEF cs
<1>2. WellMade(NoMapPlaced) /\ Fills(NoMapPlaced, ListedStreams) BY NoMapMade
<1>3. WellMade(cs) /\ Fills(cs, ListedStreams) /\ (MappedOntoDirect(NoMapPlaced) => MappedOntoDirect(cs))
  BY <1>1, <1>2, LimitKeepsMade
<1>4. Len(Jpegs) <= 1 => MappedOntoDirect(cs) BY <1>3, MappedDirect
<1>5. Len(Jpegs) <= 1 => StillsWell(cs) BY <1>1, StillsLimited
<1>6. MadeWell(cs) BY <1>3, <1>4, <1>5 DEF MadeWell
<1> QED BY <1>6 DEF cs

LEMMA DefaultIsMadeWell ==
  ASSUME ListedWell, builder = "Default", Len(Jpegs) <= 1
  PROVE  MadeWell(BuildDefault)
<1> DEFINE cs == BuildDefault
<1>1. cs = Sorted(DefaultPlaced) BY DEF BuildDefault, DefaultPlaced, DefaultDirect
<1> HIDE DEF cs
<1>2. WellMade(DefaultPlaced) /\ Fills(DefaultPlaced, ListedStreams) BY DefaultMade
<1>3. MappedOntoDirect(DefaultPlaced) BY MappedDirect
<1>4. \A k, l \in JpegConfigs(DefaultPlaced) : k = l BY <1>2, OneJpegConfigAtMost
<1>5. KindsDifferIn(DefaultPlaced, DOMAIN DefaultPlaced \ JpegConfigs(DefaultPlaced))
  BY DefaultKindsDiffer DEF KindsDifferIn
<1>6. WellMade(cs) /\ Fills(cs, ListedStreams) /\ MappedOntoDirect(cs) /\ SortedWell(cs)
  BY <1>1, <1>2, <1>3, <1>4, <1>5, SortKeepsMade
<1>7. MadeWell(cs) BY <1>6 DEF MadeWell
<1> QED BY <1>7 DEF cs

LEMMA StreamsAreMade ==
  ASSUME StreamsInv
  PROVE  EachStreamIsMade
<1>0. ListedWell BY DEF StreamsInv
<1>1. ASSUME NEW i \in DOMAIN streams
      PROVE  /\ WellMade(configs) /\ Fills(configs, ListedStreams) /\ streams = CreatedStreams(configs)
             /\ i \in ListedStreams
             /\ Len(Jpegs) <= 1 => MappedOntoDirect(configs)
  <2>1. streams # <<>> OBVIOUS
  <2>2. built = "yes" /\ streams = CreatedStreams(configs) BY <2>1 DEF StreamsInv
  <2>3. MadeWell(configs) BY <2>2 DEF StreamsInv
  <2>4. DOMAIN CreatedStreams(configs) = DOMAIN list BY DEF CreatedStreams
  <2> QED BY <2>2, <2>3, <2>4 DEF ListedStreams, MadeWell
<1>2. \A i \in DOMAIN streams : Cardinality(streams[i]) = 1 BY <1>0, <1>1, CreatedOnce
<1>3. ASSUME Len(Jpegs) <= 1, NEW i \in DOMAIN streams, NEW s \in streams[i], s.type = "Mapped"
      PROVE  /\ s.source # 0
             /\ \A d \in streams[s.source] : d.type = "Direct" /\ d.index = s.index
             /\ list[s.source].size = list[i].size
  <2>1. /\ WellMade(configs) /\ Fills(configs, ListedStreams) /\ streams = CreatedStreams(configs)
        /\ i \in ListedStreams /\ MappedOntoDirect(configs)
    BY <1>1, <1>3
  <2>2. s \in CreatedStreams(configs)[i] BY <1>3, <2>1
  <2>3. /\ s.source # 0
        /\ \A d \in CreatedStreams(configs)[s.source] : d.type = "Direct" /\ d.index = s.index
        /\ list[s.source].size = list[i].size
    BY <1>0, <1>3, <2>1, <2>2, CreatedFromDirect
  <2> QED BY <2>1, <2>3
<1>4. ASSUME built = "yes", builder = "NoMap", Len(Jpegs) <= 1 PROVE TwoStillsAtMost
  <2>1. StillsWell(configs) BY <1>4 DEF StreamsInv, MadeWell
  <2>2. TwoStillsAtMost <=> StillsWell(configs)
    BY Zenon DEF TwoStillsAtMost, StillsWell, WantedStills, AskedStills, Hosted
  <2> QED BY <2>1, <2>2
<1>5. ASSUME built = "yes", builder = "Default" PROVE SortRule
  <2>1. WellMade(configs) /\ SortedWell(configs) BY <1>5 DEF StreamsInv, MadeWell
  <2> QED BY <2>1, SortRuleHolds
<1> QED BY <1>2, <1>3, <1>4, <1>5 DEF EachStreamIsMade

(* MadeWell says the same of the same streams after a step. *)
LEMMA SameMade ==
  ASSUME UNCHANGED <<list, builder>>, NEW cs, MadeWell(cs), configs' = cs
  PROVE  MadeWell(configs)'
<1>1. list' = list /\ builder' = builder OBVIOUS
<1>2. ListedStreams' = ListedStreams BY <1>1 DEF ListedStreams
<1>3. StreamConfig' = StreamConfig BY <1>2 DEF StreamConfig, StreamEntry
<1>4. Jpegs' = Jpegs BY <1>1 DEF Jpegs, Indices, IsJpeg
<1>5. AskedStills' = AskedStills BY <1>1 DEF AskedStills, IsJpeg
<1>6. Hosted' = Hosted BY <1>1, <1>4, <1>5, Zenon DEF Hosted
<1>7. WantedStills' = WantedStills BY <1>4, <1>5, <1>6, Zenon DEF WantedStills
<1>8. StillsWell(configs)' = StillsWell(cs) BY <1>7, Zenon DEF StillsWell, Stills
<1>9. JpegConfigs(configs)' = JpegConfigs(cs) BY <1>1, Zenon DEF JpegConfigs, IsJpeg
<1>10. SortedWell(cs) => SortedWell(configs)' BY <1>9, Zenon DEF SortedWell
<1>11. MappedOntoDirect(cs) => MappedOntoDirect(configs)' BY Zenon DEF MappedOntoDirect
<1>12. WellMade(cs) => WellMade(configs)'
  <2> DEFINE Fine(c, l) == /\ Len(c.streams) > 0
                           /\ \A n \in 1..Len(c.streams) :
                                /\ l[c.streams[n].stream].size = c.size
                                /\ (n = 1) = (c.streams[n].type # "Mapped")
             Once(c) == \A k, l \in 1..Len(c) :
                          \A m \in 1..Len(c[k].streams), n \in 1..Len(c[l].streams) :
                            c[k].streams[m].stream = c[l].streams[n].stream => k = l /\ m = n
  <2>1. PlacedOnce(cs) => PlacedOnce(configs)'
    <3>1. PlacedOnce(cs) <=> Once(cs) BY DEF PlacedOnce
    <3>2. PlacedOnce(configs)' <=> Once(configs') BY DEF PlacedOnce
    <3> HIDE DEF Once
    <3> QED BY <3>1, <3>2
  <2>2. WellMade(cs) <=> /\ cs \in Seq(StreamConfig)
                         /\ \A k \in 1..Len(cs) : Fine(cs[k], list)
                         /\ PlacedOnce(cs)
    BY Zenon DEF WellMade
  <2>3. WellMade(configs)' <=> /\ configs' \in Seq(StreamConfig')
                               /\ \A k \in 1..Len(configs') : Fine(configs'[k], list')
                               /\ PlacedOnce(configs)'
    BY Zenon DEF WellMade
  <2> HIDE DEF Fine, Once
  <2> QED BY <1>1, <1>3, <2>1, <2>2, <2>3, Zenon
<1>13. Fills(cs, ListedStreams) => Fills(configs, ListedStreams)'
  <2> DEFINE PlacedIn(c, i) == \E k \in 1..Len(c) : \E n \in 1..Len(c[k].streams) :
                                 c[k].streams[n].stream = i
             Filled(c, D) == \A i \in D : i \in D <=> PlacedIn(c, i)
  <2>1. Fills(cs, ListedStreams) <=> Filled(cs, ListedStreams) BY Zenon DEF Fills, IsPlaced
  <2>2. Fills(configs, ListedStreams)' <=> Filled(configs', ListedStreams') BY Zenon DEF Fills, IsPlaced
  <2> HIDE DEF Filled
  <2> QED BY <1>2, <2>1, <2>2
<1> QED BY <1>1, <1>4, <1>8, <1>10, <1>11, <1>12, <1>13 DEF MadeWell

LEMMA StreamsInvStep ==
  ASSUME StreamsInv, [StreamsNext]_streamsVars
  PROVE  StreamsInv'
<1>1. CASE Request
  <2>1. list = <<>> /\ UNCHANGED <<builder, configs, built, streams>> BY <1>1 DEF Request
  <2>2. built = "no" /\ streams = <<>> BY <2>1 DEF StreamsInv
  <2>3. list' \in Seq(RequestedStreams)
    <3>1. list' \in UNION {[1..n -> RequestedStreams] : n \in 1..MaxStreams} BY <1>1 DEF Request
    <3>2. PICK n \in 1..MaxStreams : list' \in [1..n -> RequestedStreams] BY <3>1
    <3>3. n \in Nat BY RequestedAssumption
    <3> QED BY <3>2, <3>3
  <2> QED BY <2>1, <2>2, <2>3 DEF StreamsInv, ListedWell
<1>2. CASE Build
  <2>1. list # <<>> /\ built = "no" /\ UNCHANGED <<list, builder, streams>> BY <1>2 DEF Build
  <2>2. streams = <<>> /\ ListedWell BY <2>1 DEF StreamsInv
  <2>3. built' = "yes" => MadeWell(configs')
    BY <1>2, <2>2, NoMapIsMadeWell, DefaultIsMadeWell DEF Build
  <2>4. (built = "yes" => MadeWell(configs))' BY <2>1, <2>3, SameMade
  <2>5. ListedWell' BY <2>1, <2>2 DEF ListedWell
  <2>6. built' \in {"yes", "refused"} BY <1>2 DEF Build
  <2>7. list' # <<>> /\ streams' = <<>> /\ built' # "no" BY <2>1, <2>2, <2>6
  <2>8. (list = <<>> => built = "no")' BY <2>7
  <2>9. (built = "no" => streams = <<>>)' BY <2>7
  <2>10. (streams # <<>> => built = "yes" /\ streams = CreatedStreams(configs))' BY <2>7
  <2> QED BY <2>4, <2>5, <2>8, <2>9, <2>10, Zenon DEF StreamsInv
<1>3. CASE CreateStreams
  <2>1. built = "yes" /\ streams = <<>> /\ UNCHANGED <<list, builder, configs, built>>
    BY <1>3 DEF CreateStreams
  <2>2. ListedWell' BY <2>1 DEF ListedWell, StreamsInv
  <2>3. list # <<>> /\ MadeWell(configs) BY <2>1 DEF StreamsInv
  <2>4. MadeWell(configs)' BY <2>1, <2>3, SameMade
  <2>5. streams' = CreatedStreams(configs) BY <1>3, Zenon DEF CreateStreams, CreatedStreams
  <2>6. CreatedStreams(configs)' = CreatedStreams(configs) BY <2>1, Zenon DEF CreatedStreams
  <2>7. list' # <<>> /\ built' = "yes" /\ built' # "no" BY <2>1, <2>3
  <2>8. (list = <<>> => built = "no")' BY <2>7
  <2>9. (built = "no" => streams = <<>>)' BY <2>7
  <2>10. (built = "yes" => MadeWell(configs))' BY <2>4
  <2>11. (streams # <<>> => built = "yes" /\ streams = CreatedStreams(configs))'
    BY <2>5, <2>6, <2>7
  <2> QED BY <2>2, <2>8, <2>9, <2>10, <2>11, Zenon DEF StreamsInv
<1>4. CASE UNCHANGED streamsVars
  <2>1. UNCHANGED <<list, builder, configs, built, streams>> BY <1>4 DEF streamsVars
  <2>2. ListedWell' BY <2>1 DEF ListedWell, StreamsInv
  <2>3. CreatedStreams(configs)' = CreatedStreams(configs) BY <2>1, Zenon DEF CreatedStreams
  <2>4. (built = "yes" => MadeWell(configs))' BY <2>1, SameMade DEF StreamsInv
  <2>5. (list = <<>> => built = "no")' BY <2>1 DEF StreamsInv
  <2>6. (built = "no" => streams = <<>>)' BY <2>1 DEF StreamsInv
  <2>7. (streams # <<>> => built = "yes" /\ streams = CreatedStreams(configs))'
    BY <2>1, <2>3 DEF StreamsInv
  <2> QED BY <2>2, <2>4, <2>5, <2>6, <2>7, Zenon DEF StreamsInv
<1> QED BY <1>1, <1>2, <1>3, <1>4 DEF StreamsNext

LEMMA StreamsInvInit ==
  ASSUME StreamsInit
  PROVE  StreamsInv
BY DEF StreamsInit, StreamsInv, ListedWell

(* Whatever streams the framework asks for, of any number, each becomes one
   stream of the HAL; and where no more than one is a JPEG, a mapped one has a
   direct stream of its own size to be made from, the still captures are the
   two that the hardware supports at most, and the order is that of its
   comment (configureStreams, buildStreamConfigsNoMap,
   buildStreamConfigsDefault and sortCamera3StreamConfigs).                 *)
THEOREM RequestedStreamsAreMade == StreamsSpec => []EachStreamIsMade
<1>1. StreamsInit => StreamsInv BY StreamsInvInit
<1>2. StreamsInv /\ [StreamsNext]_streamsVars => StreamsInv' BY StreamsInvStep
<1>3. StreamsInv => EachStreamIsMade BY StreamsAreMade
<1> QED BY <1>1, <1>2, <1>3, PTL DEF StreamsSpec
=============================================================================
