------------------------- MODULE CameraCapabilities -------------------------
(***************************************************************************)
(* What the camera HAL tells the Android framework that a camera can do    *)
(* (libcamera, android/camera_capabilities.cpp): the stream configurations *)
(* and frame rates it finds by asking the pipeline handler, the stream map *)
(* and frame rate ranges in the static metadata, and the frame rate ranges *)
(* of the request templates (CameraDevice::constructDefaultRequestSettings *)
(* keeps those).                                                           *)
(*                                                                         *)
(* The camera is one of the simple pipeline handler's: SimpleConfiguration *)
(* says what its validate() and generateConfiguration() answer.  Frame     *)
(* durations are nanoseconds.  Of the other metadata only the capability   *)
(* RAW is modelled: the rest does not depend on the streams.               *)
(***************************************************************************)
EXTENDS Integers, Sequences, FiniteSets, SequencesExt

CONSTANTS
  Cameras,   \* [captures, converter, limits], limits as [min, max] or None
  None,
  Formats,   \* camera3FormatsMap: of each Android format its pixel formats, in order
  Mandatory, \* the Android formats that are mandatory in it
  Raw16,     \* the pixel formats of raw pixels of 16 bits
  RawPacked, \* those of other raw pixels
  Bayer, NV12, NV21, Mjpeg, MinSize,
  Types,     \* of request templates: "video", and others
  Behind     \* the pairs of numbers that may lie in memory behind the frame rate ranges

CONSTANTS Blob, Implementation, Ycbcr   \* HAL_PIXEL_FORMAT_...

VARIABLES
  camera,                \* camera_
  phase,                 \* what of initialize() is done
  maxRes,
  formatsMap,            \* formatsMap_
  streamConfigurations,  \* streamConfigurations_: [format, size, min, max]
  rawStreamAvailable,    \* rawStreamAvailable_
  maxJpegBufferSize,     \* maxJpegBufferSize_
  metadata,              \* staticMetadata_: [streams, ranges, capabilities]
  templates              \* requestTemplates_: the frame rate range of each

collected == <<maxRes, formatsMap, streamConfigurations, rawStreamAvailable, maxJpegBufferSize>>
vars      == <<camera, phase, collected, metadata, templates>>

Handler == INSTANCE SimpleConfiguration WITH
  Captures   <- UNION {ToSet(c.captures) : c \in Cameras},
  Requested  <- {},
  MaxConfigs <- 0,
  MaxAsked   <- 0,
  captures   <- camera.captures,
  converter  <- camera.converter,
  config     <- <<>>,
  transform  <- TRUE,
  status     <- "Unchecked",
  pipeConfig <- 0,
  needConversion <- FALSE

Sized(w, h) == [width |-> w, height |-> h]
Stream(format, size) == [pixelFormat |-> format, size |-> size]

(* validate() of a configuration with this stream alone. *)
Validated(stream) == Handler!Adjusted(Handler!Picked(<<stream>>), stream)

-----------------------------------------------------------------------------
(* Frame rates. *)

Second == 1000000000

(* Stands for the largest int64_t, which the infinity of a division by a frame
   rate of zero is converted to on the processor of the device.             *)
Forever == 2147483647

(* calculateFps(): a rate within 0.05 of the next whole one is rounded up. *)
Fps(duration) ==
  Second \div duration
    + (IF Second % duration >= duration - duration \div 20 THEN 1 ELSE 0)

DurationOf(fps) == IF fps = 0 THEN Forever ELSE Second \div fps

MinDurationCap == 33333333    \* int64_t(1e9 / 30.0)

(* 30 frames per second at most, and for what is up to 2% slower; what is up
   to 1% faster is left.                                                    *)
Capped(min) ==
  IF \/ min < MinDurationCap - MinDurationCap \div 100
     \/ min >= MinDurationCap /\ min <= MinDurationCap + MinDurationCap \div 50
  THEN MinDurationCap ELSE min

BurstDuration == 100000000    \* maxFrameDurationForBurstCapture

-----------------------------------------------------------------------------
(* initializeStreamConfigurations() *)

camera3Resolutions ==
  {Sized(320, 240), Sized(640, 360), Sized(640, 480), Sized(1280, 720), Sized(1280, 960),
   Sized(1440, 1080), Sized(1920, 1080)}

(* StreamFormats::sizes(): for one range the common sizes in it, and for more
   their maxima.                                                            *)
ListedSizes(format) ==
  UNION {LET merged == Handler!Merge(ranges)
         IN  IF Len(merged) = 1 /\ merged[1].min # merged[1].max
             THEN {s \in camera3Resolutions : Handler!InRange(merged[1], s)}
             ELSE {r.max : r \in ToSet(merged)}
         : ranges \in Handler!SortedSizes(format)}

(* Mutant: the size of the camera's own choice is not among them. *)
ResolutionsWithoutMax(max) ==
  ListedSizes(NV12) \cup {s \in camera3Resolutions : Handler!Smaller(s, max)}

Resolutions(max) ==
  ListedSizes(NV12) \cup {s \in camera3Resolutions : Handler!Smaller(s, max)} \cup {max}

(* The first pixel format for an Android format that the camera keeps, if any. *)
Mapped(format, max) ==
  LET kept == {n \in DOMAIN Formats[format] :
                 Validated(Stream(Formats[format][n], max)).pixelFormat = Formats[format][n]}
  IN  IF format = Blob THEN {Mjpeg}
      ELSE IF kept = {} THEN {} ELSE {Formats[format][Min(kept)]}

(* Mutant: sizes that the camera would adjust are listed too. *)
UncheckedSizesOf(pixelFormat, max) ==
  IF pixelFormat \in RawPacked THEN {}
  ELSE IF pixelFormat \in Raw16 THEN ListedSizes(pixelFormat)
  ELSE Resolutions(max)

(* The sizes that are listed for a pixel format: raw ones as the camera names
   them, others if it takes them as they are.                               *)
SizesOf(pixelFormat, max) ==
  IF pixelFormat \in RawPacked THEN {}
  ELSE IF pixelFormat \in Raw16 THEN ListedSizes(pixelFormat)
  ELSE {s \in Resolutions(max) : Validated(Stream(pixelFormat, s)) = Stream(pixelFormat, s)}

(* A JPEG stream for each of YCbCr_420_888, with the time that a burst takes
   for the largest if it is larger than Full HD.                            *)
JpegEntry(entry, max) ==
  LET slow == entry.size = max /\ (max.width > 1920 \/ max.height > 1080)
  IN  [entry EXCEPT !.format = Blob,
                    !.min = IF slow THEN BurstDuration ELSE @,
                    !.max = IF slow THEN BurstDuration ELSE @]

(* Mutant: what a burst takes is told of every stream of the largest size. *)
EntriesWithBurst(format, sizes, max) ==
  LET entries == {JpegEntry([format |-> Blob, size |-> s,
                             min |-> DurationOf(Fps(Capped(camera.limits.min))),
                             max |-> DurationOf(Fps(camera.limits.max))], max) : s \in sizes}
  IN  {[e EXCEPT !.format = format] : e \in entries} \cup IF format = Ycbcr THEN entries ELSE {}

Entries(format, sizes, max) ==
  LET entries == {[format |-> format, size |-> s,
                   min |-> DurationOf(Fps(Capped(camera.limits.min))),
                   max |-> DurationOf(Fps(camera.limits.max))] : s \in sizes}
  IN  entries \cup IF format = Ycbcr THEN {JpegEntry(e, max) : e \in entries} ELSE {}

JpegSize(sizes) ==
  IF sizes = {} THEN 0
  ELSE LET largest == CHOOSE s \in sizes : \A t \in sizes : ~Handler!Smaller(s, t)
       IN  (Handler!Area(largest) * 3) \div 2

-----------------------------------------------------------------------------
Init ==
  /\ camera \in Cameras /\ phase = "new"
  /\ maxRes = Sized(0, 0) /\ formatsMap = <<>> /\ streamConfigurations = {}
  /\ rawStreamAvailable = FALSE /\ maxJpegBufferSize = 0
  /\ metadata = [streams |-> {}, ranges |-> <<>>, capabilities |-> {}]
  /\ templates = <<>>

(* acquire() fails, and so does initialize(). *)
AcquireFails ==
  /\ phase = "new" /\ phase' = "failed"
  /\ UNCHANGED <<camera, collected, metadata, templates>>

(* What the camera generates for a still capture says how large it can go. *)
Generated == {Validated(Stream(Handler!FirstFormat, Handler!Merge(ranges)[1].max)).size :
                ranges \in Handler!SortedSizes(Handler!FirstFormat)}

(* A mandatory format that cannot be mapped, or a camera without frame
   durations that has a size to list, is an error.                          *)
StreamsFail ==
  /\ phase = "new" /\ phase' = "failed"
  /\ \E max \in Generated :
       \/ \E f \in Mandatory : Mapped(f, max) = {}
       \/ /\ camera.limits = None
          /\ \E f \in DOMAIN Formats \ {Blob} : \E p \in Mapped(f, max) : SizesOf(p, max) # {}
  /\ UNCHANGED <<camera, collected, metadata, templates>>

Raw(map) == \E f \in DOMAIN map : map[f] \in Raw16

JpegBuffer(entries) == JpegSize({e.size : e \in {x \in entries : x.format = Blob}})

InitializeStreamConfigurations ==
  /\ phase = "new" /\ phase' = "streams"
  /\ camera.limits # None
  /\ \E max \in Generated :
       LET mapped  == {f \in DOMAIN Formats : Mapped(f, max) # {}}
           map     == [f \in mapped |-> CHOOSE p \in Mapped(f, max) : TRUE]
           entries == UNION {Entries(f, SizesOf(map[f], max), max) : f \in mapped \ {Blob}}
       IN  /\ Mandatory \subseteq mapped
           /\ maxRes' = max /\ formatsMap' = map
           /\ streamConfigurations' = entries
           /\ rawStreamAvailable' = Raw(map)
           /\ maxJpegBufferSize' = JpegBuffer(entries)
  /\ UNCHANGED <<camera, metadata, templates>>

-----------------------------------------------------------------------------
(* initializeStaticMetadata() *)

(* Mutant: 30 frames per second are asked for from every camera. *)
KeptAt30(entries) ==
  {e \in entries : e.format = Blob \/ Fps(e.min) >= 30 \/ e.size = maxRes}

(* Streams below 30 frames per second, or the most that any reaches, are left
   out, but for JPEG and the largest size.                                  *)
Kept(entries) ==
  LET best == Max({0} \cup {Fps(e.min) : e \in entries})
  IN  {e \in entries : e.format = Blob \/ Fps(e.min) >= Min({30, best}) \/ e.size = maxRes}

(* Mutant: there are no ranges of a fixed rate. *)
RangesFromMin(rates) ==
  LET sorted == SetToSortSeq(rates, <)
  IN  [n \in DOMAIN sorted |-> <<Head(sorted), sorted[n]>>]

(* {min, fps} and {fps, fps} for every rate. *)
Ranges(rates) ==
  LET sorted == SetToSortSeq(rates, <)
  IN  FlattenSeq([n \in DOMAIN sorted |->
                    IF n = 1 THEN <<<<sorted[1], sorted[1]>>>>
                    ELSE <<<<sorted[1], sorted[n]>>, <<sorted[n], sorted[n]>>>>])

(* sortedFps[0] is read, so that there has to be one. *)
InitializeStaticMetadata ==
  /\ phase = "streams"
  /\ LET kept == Kept(streamConfigurations)
     IN  IF kept = {} THEN phase' = "aborted" /\ UNCHANGED metadata
         ELSE /\ phase' = "ready"
              /\ metadata' = [streams      |-> {[format |-> e.format, size |-> e.size, min |-> e.min] : e \in kept},
                              ranges       |-> Ranges(UNION {{Fps(e.min), Fps(e.max)} : e \in kept}),
                              capabilities |-> IF rawStreamAvailable THEN {"RAW"} ELSE {}]
  /\ UNCHANGED <<camera, collected, templates>>

-----------------------------------------------------------------------------
(* At least 20 frames per second, and a fixed rate for video. *)
OfUse(type, range) == range[2] >= 20 /\ (type = "video" => range[1] = range[2])

DefaultRange(type) == IF type = "video" THEN <<20, 20>> ELSE <<15, 30>>

Fitting(type) == {n \in DOMAIN metadata.ranges : OfUse(type, metadata.ranges[n])}

(* Which pair of the entry may be the last that is read.  Pairs are read up to
   the first of use, but the loop goes to entry.count, the number of values,
   which are two for each range: without one of use, as many pairs again are
   read from the memory behind the entry, or fewer if one there is of use.   *)
LastRead(type) ==
  LET count == Len(metadata.ranges)
  IN  IF Fitting(type) # {} THEN {Min(Fitting(type))} ELSE (count + 1)..(2 * count)

(* The first range of use; else one found behind the entry, or the default. *)
FpsRanges(type) ==
  IF Fitting(type) # {} THEN {metadata.ranges[Min(Fitting(type))]}
  ELSE {DefaultRange(type)} \cup {range \in Behind : OfUse(type, range)}

(* A template is made when it is first asked for, and kept.  That there are two
   thumbnail sizes, of which one is of a JPEG stream, is asserted.          *)
ConstructDefaultRequestSettings(type) ==
  /\ phase = "ready" /\ type \notin DOMAIN templates
  /\ IF \E e \in streamConfigurations : e.format = Blob
     THEN /\ \E range \in FpsRanges(type) : templates' = templates @@ type :> range
          /\ UNCHANGED phase
     ELSE phase' = "aborted" /\ UNCHANGED templates
  /\ UNCHANGED <<camera, collected, metadata>>

Next ==
  \/ AcquireFails \/ StreamsFail \/ InitializeStreamConfigurations \/ InitializeStaticMetadata
  \/ \E type \in Types : ConstructDefaultRequestSettings(type)
Spec == Init /\ [][Next]_vars

-----------------------------------------------------------------------------
Advertised(format) == {e.size : e \in {x \in metadata.streams : x.format = format}}

(* Every stream of the map but JPEG, asked for alone, is one that the pipeline
   handler takes as it is: configureStreams() refuses what it adjusts.      *)
AdvertisedIsConfigurable ==
  \A e \in metadata.streams : e.format # Blob =>
    LET stream == Stream(formatsMap[e.format], e.size)
    IN  Validated(stream) = stream

(* A JPEG is made of a YCbCr frame of its size, so that the map has one, which
   is not slower, and fits the buffer size that is told (JPEG_MAX_SIZE); the
   frame rate filter and the burst duration keep that.                      *)
JpegHasSource ==
  \A e \in metadata.streams : e.format = Blob =>
    /\ \E y \in metadata.streams : y.format = Ycbcr /\ y.size = e.size /\ y.min <= e.min
    /\ 2 * maxJpegBufferSize >= 3 * Handler!Area(e.size)

(* A template is made of what is in the entry of the static metadata. *)
ReadsRegistered(type) == \A n \in LastRead(type) : n <= Len(metadata.ranges)

(* A camera that makes 20 frames per second has a preview stream in the map
   that is that fast, for want of which the framework aborts; one whose sensor
   is within 2% of 30 has one of 30, for want of which the older API has no
   preview (initializeStreamConfigurations); and the templates of such cameras
   have frame rates of the static metadata, a fixed one for video, with nothing
   read beyond them.                                                        *)
FrameRatesSuffice ==
  phase = "ready" /\ camera.limits.min <= 50000000 =>
    /\ \E e \in metadata.streams :
         /\ e.format = Implementation
         /\ Fps(e.min) >= (IF camera.limits.min <= 34000000 THEN 30 ELSE 20)
    /\ \A t \in DOMAIN templates :
         /\ templates[t] \in ToSet(metadata.ranges) /\ ReadsRegistered(t)
         /\ t = "video" => templates[t][1] = templates[t][2]

(* What the camera is said to do it does: the three above; and whatever sizes
   it has, initialize() finds one to tell of, and a JPEG for the thumbnails of
   the templates, which are asserted or taken without a look
   (initializeStaticMetadata, requestTemplatePreview).  What the templates of
   a camera below 20 frames per second take is OnlyRegisteredIsRead.         *)
AdvertisedIsTrue ==
  AdvertisedIsConfigurable /\ JpegHasSource /\ FrameRatesSuffice /\ phase # "aborted"

(* camera_capabilities.cpp:1828: the frame rate range of a template is one that
   is registered in the static metadata; nothing behind the entry is read.   *)
OnlyRegisteredIsRead == \A t \in DOMAIN templates : ReadsRegistered(t)
=============================================================================
