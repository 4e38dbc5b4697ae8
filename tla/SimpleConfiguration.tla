------------------------ MODULE SimpleConfiguration ------------------------
(***************************************************************************)
(* How the simple pipeline handler (libcamera, pipeline/simple/simple.cpp) *)
(* chooses a configuration: SimpleCameraConfiguration::validate(),         *)
(* SimplePipelineHandler::generateConfiguration() and the list of          *)
(* configurations they choose from.                                        *)
(*                                                                         *)
(* The video device captures in one of configs_, each with the formats and *)
(* sizes that can be made of it: its own, or with the software ISP         *)
(* (converter_softisp.cpp) NV12 and NV21 in any size from MinSize up to    *)
(* the captured one, if it reads the format at all.  Pixel formats are     *)
(* numbers, in the order of PixelFormat; Size and its order are            *)
(* libcamera's.  Frame rates, colour spaces and strides are left out.      *)
(***************************************************************************)
EXTENDS SemiplanarFormats, Integers, Sequences, FiniteSets, SequencesExt

CONSTANTS
  Bayer,       \* the formats bayerOrderFor() knows
  Captures,    \* what the pipeline may capture: [captureFormat, captureSize]
  MaxConfigs,  \* bound: the entries of configs_
  Requested,   \* what a stream may be asked to be: [pixelFormat, size]
  MaxAsked,    \* bound: the entries of a configuration that is asked for
  MinSize      \* the smallest size of the software ISP

VARIABLES
  captures,        \* configs_, by what is captured
  converter,       \* converter_ is the software ISP, or none
  config,          \* config_, with pixelFormat and size of each stream
  transform,       \* the transform asked for is one that the sensor can do
  status,          \* what validate() returned, or "Unchecked"
  pipeConfig,      \* pipeConfig_, an index of configs_, 0 for null
  needConversion   \* needConversion_

device            == <<captures, converter>>
configurationVars == <<device, config, transform, status, pipeConfig, needConversion>>

PixelFormats == {c.captureFormat : c \in Captures} \cup {r.pixelFormat : r \in Requested}
                  \cup {NV12, NV21}

(* Formats are numbered, and the NV12 and NV21 that are made are not Bayer formats;
   frames that are captured are not empty.                                  *)
ASSUME ConfigurationAssumption ==
  /\ MaxConfigs \in Nat /\ MaxAsked \in Nat
  /\ PixelFormats \subseteq Nat /\ {NV12, NV21} \cap Bayer = {}
  /\ MinSize \in [width : Nat, height : Nat]
  /\ \A c \in Captures : c.captureSize \in [width : Nat \ {0}, height : Nat \ {0}]
  /\ Requested \subseteq [pixelFormat : PixelFormats, size : [width : Nat, height : Nat]]

-----------------------------------------------------------------------------
(* Size. *)

Fits(a, b) == a.width <= b.width /\ a.height <= b.height

Area(a) == a.width * a.height
Smaller(a, b) == Area(a) < Area(b) \/ (Area(a) = Area(b) /\ a.width < b.width)

Larger(a, b) == IF a > b THEN a ELSE b
ExpandTo(a, b) == [width  |-> Larger(a.width, b.width),
                   height |-> Larger(a.height, b.height)]

(* Mutant: there is no largest size. *)
InRangeFrom(range, size) == Fits(range.min, size)

InRange(range, size) == Fits(range.min, size) /\ Fits(size, range.max)

-----------------------------------------------------------------------------
(* What can be made of a captured frame, and the configurations by format.  *)

OutputFormats(i) ==
  IF ~converter THEN <<captures[i].captureFormat>>
  ELSE IF captures[i].captureFormat \in Bayer THEN <<NV12, NV21>> ELSE <<>>

OutputRange(i) ==
  [min |-> IF converter THEN MinSize ELSE captures[i].captureSize,
   max |-> captures[i].captureSize]

CaptureSize(i) == captures[i].captureSize

(* formats_ *)
ConfigsOf(format) ==
  {i \in DOMAIN captures : format = captures[i].captureFormat
                             \/ format \in ToSet(OutputFormats(i))}

StreamCount == IF converter THEN 2 ELSE 1

(* Mutant: no stream is left out. *)
StreamedAll(streams) == streams

Streamed(streams) == SubSeq(streams, 1, Min({Len(streams), StreamCount}))

MaxStreamSize(streams) ==
  FoldLeft(LAMBDA max, cfg : ExpandTo(max, cfg.size), [width |-> 0, height |-> 0], streams)

(* Those of the first stream that asks for a format there is, or else of the
   first format there is.                                                   *)
Candidates(streams) ==
  LET known == {i \in DOMAIN streams : ConfigsOf(streams[i].pixelFormat) # {}}
      first == Min({f \in PixelFormats : ConfigsOf(f) # {}})
  IN  ConfigsOf(IF known # {} THEN streams[Min(known)].pixelFormat ELSE first)

SmallestOf(indices) == {i \in indices : \A j \in indices : ~Smaller(CaptureSize(j), CaptureSize(i))}
LargestOf(indices)  == {i \in indices : \A j \in indices : ~Smaller(CaptureSize(i), CaptureSize(j))}

Accommodating(indices, size) == {i \in indices : Fits(size, CaptureSize(i))}

Picked(streams) ==
  LET all == Candidates(streams)
      big == Accommodating(all, MaxStreamSize(streams))
  IN  Min(IF big # {} THEN SmallestOf(big) ELSE LargestOf(all))

(* What a stream becomes, made of a frame of i. *)
Adjusted(i, cfg) ==
  [pixelFormat |-> IF cfg.pixelFormat \in ToSet(OutputFormats(i)) THEN cfg.pixelFormat
                   ELSE Head(OutputFormats(i)),
   size        |-> IF InRange(OutputRange(i), cfg.size) THEN cfg.size ELSE CaptureSize(i)]

IsCaptured(i, cfg) ==
  cfg.pixelFormat = captures[i].captureFormat /\ cfg.size = CaptureSize(i)

(* strideAndFrameSize() of the converter *)
HasStride(cfg) == cfg.pixelFormat \in {NV12, NV21}

-----------------------------------------------------------------------------
ConfigurationInit ==
  /\ captures \in UNION {[1..n -> Captures] : n \in 1..MaxConfigs}
  /\ converter \in BOOLEAN
  /\ \E i \in DOMAIN captures : OutputFormats(i) # <<>>
  /\ config = <<>> /\ transform = TRUE
  /\ status = "Unchecked" /\ pipeConfig = 0 /\ needConversion = FALSE

(* The application fills in a configuration (once: validate() sets all that it
   reads of an earlier one) ...                                             *)
Ask ==
  /\ config = <<>> /\ status = "Unchecked"
  /\ config' \in UNION {[1..n -> Requested] : n \in 0..MaxAsked}
  /\ transform' \in BOOLEAN
  /\ status' = "Unchecked"
  /\ UNCHANGED <<device, pipeConfig, needConversion>>

ValidateEmpty ==
  /\ config = <<>> /\ status # "Crashed"
  /\ status' = "Invalid"
  /\ UNCHANGED <<device, config, transform, pipeConfig, needConversion>>

(* Mutant: a stream is compared with what is captured before it is adjusted. *)
ValidateGivenEarly(given, possible) ==
  LET asked   == Streamed(given)
      pipe    == Picked(asked)
      streams == [i \in DOMAIN asked |-> Adjusted(pipe, asked[i])]
      direct  == Len(asked) = 1 /\ IsCaptured(pipe, streams[1])
  IN  /\ OutputFormats(pipe) # <<>>
      /\ \E failed \in IF direct THEN {{}, {1}}
                       ELSE {{i \in DOMAIN asked : ~HasStride(streams[i])}} :
            /\ config' = [i \in DOMAIN asked |->
                            IF \A j \in failed : i <= j THEN streams[i] ELSE asked[i]]
            /\ status' = IF failed # {} THEN "Invalid"
                         ELSE IF streams = given /\ possible THEN "Valid" ELSE "Adjusted"
      /\ transform' = TRUE
      /\ pipeConfig' = pipe
      /\ needConversion' = ~(Len(asked) = 1 /\ IsCaptured(pipe, asked[1]))

(* ... and validate() adjusts what it is given, up to a stream that cannot be
   made, or that the video device does not take.                            *)
ValidateGiven(given, possible) ==
  LET asked   == Streamed(given)
      pipe    == Picked(asked)
      streams == [i \in DOMAIN asked |-> Adjusted(pipe, asked[i])]
      direct  == Len(asked) = 1 /\ IsCaptured(pipe, streams[1])
  IN  /\ OutputFormats(pipe) # <<>>
      /\ \E failed \in IF direct THEN {{}, {1}}
                       ELSE {{i \in DOMAIN asked : ~HasStride(streams[i])}} :
            /\ config' = [i \in DOMAIN asked |->
                            IF \A j \in failed : i <= j THEN streams[i] ELSE asked[i]]
            /\ status' = IF failed # {} THEN "Invalid"
                         ELSE IF streams = given /\ possible THEN "Valid" ELSE "Adjusted"
      /\ transform' = TRUE
      /\ pipeConfig' = pipe
      /\ needConversion' = ~direct

Validate ==
  /\ config # <<>> /\ status # "Crashed"
  /\ ValidateGiven(config, transform)
  /\ UNCHANGED device

(* It does not look whether the frames it picked can be made into anything:
   outputFormats.begin() of an empty list is dereferenced.                  *)
ValidateCrashes ==
  /\ config # <<>> /\ status # "Crashed"
  /\ OutputFormats(Picked(Streamed(config))) = <<>>
  /\ status' = "Crashed"
  /\ UNCHANGED <<device, config, transform, pipeConfig, needConversion>>

-----------------------------------------------------------------------------
(* generateConfiguration() *)

(* The ranges of sizes of a format, sorted by min: std::sort does not say in
   which order equal ones are.                                              *)
SortedSizes(format) ==
  LET made == {i \in DOMAIN captures : format \in ToSet(OutputFormats(i))}
      min(i) == OutputRange(i).min
  IN  {[k \in DOMAIN order |-> OutputRange(order[k])] :
         order \in {o \in SetToSeqs(made) : \A j, k \in DOMAIN o : j < k => ~Smaller(min(o[k]), min(o[j]))}}

(* Mutant: a merged range reaches as far as both do. *)
MergeUnion(ranges) ==
  FoldLeft(LAMBDA merged, next :
             IF merged # <<>> /\ Fits(next.min, Last(merged).max)
             THEN [merged EXCEPT ![Len(merged)].max = ExpandTo(@, next.max)]
             ELSE Append(merged, next),
           <<>>, ranges)

(* A range that overlaps the one before it is merged into it. *)
Merge(ranges) ==
  FoldLeft(LAMBDA merged, next :
             IF merged # <<>> /\ Fits(next.min, Last(merged).max)
             THEN [merged EXCEPT ![Len(merged)].max = next.max]
             ELSE Append(merged, next),
           <<>>, ranges)

FirstFormat == Min(UNION {ToSet(OutputFormats(i)) : i \in DOMAIN captures})

GenerateConfiguration(roles) ==
  /\ config = <<>> /\ status = "Unchecked"
  /\ \E sizes \in SortedSizes(FirstFormat) :
       ValidateGiven([i \in 1..roles |-> [pixelFormat |-> FirstFormat,
                                          size        |-> Merge(sizes)[1].max]], TRUE)
  /\ UNCHANGED device

-----------------------------------------------------------------------------
ConfigurationNext ==
  \/ Ask \/ ValidateEmpty \/ Validate \/ ValidateCrashes
  \/ \E roles \in 1..MaxAsked : GenerateConfiguration(roles)
ConfigurationSpec == ConfigurationInit /\ [][ConfigurationNext]_configurationVars

-----------------------------------------------------------------------------
Accepted == status \in {"Valid", "Adjusted"}

(* What validate() accepts or has adjusted it accepts as it is, so that the
   application can look at the adjustments and configure the camera: the
   choice of formats, of a capture size and of the sizes of the streams does
   not change its mind when it is asked again (validate).  And the
   configuration that is generated for as many roles as there are streams
   needs no adjustment: the format and the size taken from the merged ranges
   are what some frame can be made into (generateConfiguration).            *)
AnswersAreValid ==
  /\ [][(Accepted /\ Validate /\ status' # "Invalid")
          => config' = config /\ status' = "Valid" /\ needConversion' = needConversion]_configurationVars
  /\ [][\A roles \in 1..StreamCount :
          GenerateConfiguration(roles) => status' # "Adjusted"]_configurationVars

(* Every stream of a configuration can be made: none is larger, in either
   direction, than the frames it is made of, also where no frame is large
   enough for all of them; several streams, and any that is not what is
   captured, go through the converter, which is there and can read what is
   captured; and a camera without one has a single stream of captured frames
   (validate, configure).                                                   *)
StreamsCanBeMade ==
  /\ needConversion => converter
  /\ Accepted =>
       /\ \A i \in DOMAIN config : Fits(config[i].size, CaptureSize(pipeConfig))
       /\ IF needConversion THEN captures[pipeConfig].captureFormat \in Bayer
          ELSE Len(config) = 1 /\ IsCaptured(pipeConfig, config[1])
=============================================================================
