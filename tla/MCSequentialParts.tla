------------------------- MODULE MCSequentialParts -------------------------
(***************************************************************************)
(* The parts of the camera stack that run to their end within one call,    *)
(* for TLC: what the HAL finds out of a camera and tells of it, the        *)
(* configurations it makes of a request for streams, the planes of its     *)
(* buffers, the pipeline handler's choice of a configuration, its software *)
(* auto-exposure, and the software ISP with the threads of a frame; and    *)
(* beside the camera the thermal HAL, with the calls it answers and the    *)
(* clients it has.                                                         *)
(* They share no state, and a behaviour shows one of them.                 *)
(***************************************************************************)
EXTENDS SwAec, SimpleConfiguration, StreamConfigs, ThermalCallbacks, Thermal, CameraBuffer,
        SoftIsp, TLC

CONSTANT Parts   \* those to show, of the names in NextParts

VARIABLE part

(* CameraCapabilities *)
VARIABLES camera, phase, maxRes, formatsMap, streamConfigurations, rawStreamAvailable,
          maxJpegBufferSize, metadata, templates

capabilitiesVars ==
  <<camera, phase, maxRes, formatsMap, streamConfigurations, rawStreamAvailable,
    maxJpegBufferSize, metadata, templates>>

(* Pixel formats and Android formats, in the order of their numbers. *)
Format == [NV21 |-> 1, NV12 |-> 2, SRGGB16 |-> 3, SBGGR10 |-> 4, SRGGB10 |-> 5,
           SGRBG10 |-> 6, MJPEG |-> 7, UYVY |-> 8, other |-> 9]
Hal    == [RAW16 |-> 32, BLOB |-> 33, IMPLEMENTATION_DEFINED |-> 34, YCbCr_420_888 |-> 35,
           RAW10 |-> 37]

Sized(w, h) == [width |-> w, height |-> h]

-----------------------------------------------------------------------------
(* The constants of SimpleConfiguration and of SwAec. *)
MCBayer   == {Format.SGRBG10, Format.SRGGB10}
MCNV12    == Format.NV12
MCNV21    == Format.NV21
MCMinSize == Sized(2, 2)
MCCaptures ==
  [captureFormat : {Format.SGRBG10, Format.SRGGB10, Format.UYVY},
   captureSize   : {Sized(2, 4), Sized(4, 2), Sized(4, 4)}]
MCRequested ==
  [pixelFormat : {Format.SGRBG10, Format.NV12, Format.UYVY, Format.other},
   size        : {Sized(1, 1), Sized(2, 2), Sized(2, 4), Sized(4, 3)}]

Exposures(min, max, def) == [min |-> min, max |-> max, def |-> def]
BrightMode == Exposures(1, 18, 9)
MCModes    == {Exposures(4, 30, 20), BrightMode}

(* YUV streams with and without the flag of a still capture, a preview, raw
   streams, and JPEGs.                                                      *)
MCBlob  == Hal.BLOB
MCYcbcr == Hal.YCbCr_420_888
MCToPixelFormat ==
  Hal.RAW16 :> Format.SRGGB16 @@ Hal.BLOB :> Format.MJPEG
    @@ Hal.IMPLEMENTATION_DEFINED :> Format.NV12 @@ Hal.YCbCr_420_888 :> Format.NV12
MCRequestedStreams ==
       [format : {Hal.BLOB}, size : {1, 2}, usage : {{}}]
  \cup [format : {Hal.YCbCr_420_888}, size : {1, 2, 3}, usage : {{}, {"still"}}]
  \cup [format : {Hal.IMPLEMENTATION_DEFINED}, size : {2},
        usage  : {{"preview"}, {"video"}, {"still", "preview"}}]
  \cup [format : {Hal.RAW16}, size : {2, 3}, usage : {{}}]

(* Sensors behind the software ISP, with every frame rate, and cameras that
   make NV12, NV21 and raw frames themselves.                               *)
Modes2(formats) ==
  LET modes == [captureFormat : formats,
                captureSize   : {Sized(640, 480), Sized(1280, 720), Sized(2592, 1944)}]
  IN  UNION {[1..n -> modes] : n \in 1..2}

Durations(min, max) == [min |-> 1000 * min, max |-> 1000 * max]
FastSensor == Durations(20000, 66666)

Capabilities == INSTANCE CameraCapabilities WITH
  Cameras <-
         [captures : Modes2({Format.SRGGB10, Format.SBGGR10}), converter : {TRUE},
          limits : {FastSensor}]
    \cup [captures : Modes2({Format.SRGGB10}), converter : {TRUE},
          limits : {None, Durations(33100, 1119000), Durations(33603, 40000),
                    Durations(40000, 66666), Durations(66666, 66666)}]
    \cup [captures  : Modes2({Format.SRGGB10, Format.SRGGB16, Format.NV12, Format.NV21}),
          converter : {FALSE}, limits : {FastSensor}],
  Formats <- Hal.RAW16 :> <<Format.SRGGB16>> @@ Hal.BLOB :> <<Format.MJPEG>>
             @@ Hal.IMPLEMENTATION_DEFINED :> <<Format.NV12, Format.NV21>>
             @@ Hal.YCbCr_420_888 :> <<Format.NV12, Format.NV21>>
             @@ Hal.RAW10 :> <<Format.SBGGR10, Format.SRGGB10>>,
  Mandatory <- {Hal.BLOB, Hal.IMPLEMENTATION_DEFINED, Hal.YCbCr_420_888},
  Raw16     <- {Format.SRGGB16},
  RawPacked <- {Format.SBGGR10, Format.SRGGB10},
  Bayer     <- {Format.SBGGR10, Format.SRGGB10},
  NV12      <- Format.NV12,
  NV21      <- Format.NV21,
  Mjpeg     <- Format.MJPEG,
  MinSize   <- Sized(16, 16),
  Types     <- {"preview", "video"},
  Behind    <- {<<0, 0>>, <<1, 25>>, <<24, 24>>},
  Blob           <- Hal.BLOB,
  Implementation <- Hal.IMPLEMENTATION_DEFINED,
  Ycbcr          <- Hal.YCbCr_420_888

-----------------------------------------------------------------------------
(* Buffers of one dmabuf, in one, repeated or duplicated descriptors, or of one
   for each plane; with and without the description of gralloc, which may pad
   rows, shift planes or tell of a wrong number of them; of the length that a
   format asks for, less, or one that cannot be found out.                  *)
Made(fds, dmabuf, length, gralloc) ==
  [fds |-> fds, dmabuf |-> dmabuf, length |-> length, gralloc |-> gralloc]
Plane(fd, stride, offset, bytes) ==
  [fd |-> fd, stride |-> stride, offset |-> offset, size |-> bytes]

Bytes(format, s, i) ==
  IF format = Format.MJPEG THEN IF i = 1 THEN s.width * s.height ELSE 0
  ELSE 2 * ((s.width + 1) \div 2) * IF i = 1 THEN s.height ELSE (s.height + 1) \div 2

WholeBuffers(format, s) ==
  LET first  == Bytes(format, s, 1)
      second == Bytes(format, s, 2)
      rows   == (s.height + 1) \div 2
      one    == <<"a", "a">>
  IN  {Made(fds, one, [a |-> first + second], None) : fds \in {<<1>>, <<1, -1, 1>>}}
      \cup IF format = Format.MJPEG
           THEN {Made(<<1>>, one, [a |-> 100], <<Plane(1, 100, 0, 100)>>)}
           ELSE {Made(<<1, 2>>, <<"a", "b">>, [a |-> first, b |-> second], None),
                 Made(<<1, 2>>, one, [a |-> 8 * s.height + 6 * rows + 5],
                      <<Plane(1, 8, 0, 8 * s.height), Plane(2, 6, 8 * s.height + 5, 6 * rows)>>),
                 Made(<<1, 2>>, <<"a", "b">>, [a |-> 8 * s.height, b |-> 8 * rows + 1],
                      <<Plane(1, 8, 0, 8 * s.height), Plane(2, 8, 1, 8 * rows)>>)}

OtherBuffers(format, s) ==
  LET first == Bytes(format, s, 1)
  IN  {Made(<<1>>, <<"a">>, [a |-> n], None) : n \in {-1, 0, 1, first, first + 1}}
      \cup {Made(<<-1, 1, 2>>, <<"a", "b">>, [a |-> n, b |-> m], None) :
             n \in {-1, 1, first}, m \in {-1, 1}}
      \cup {Made(<<>>, <<>>, [a |-> 0], None), Made(<<-1>>, <<"a">>, [a |-> 9], None),
            Made(<<1, 2>>, <<"a", "a">>, [a |-> 2 * first], None),
            Made(<<1, 2>>, <<"a", "a">>, [a |-> -1],
                 <<Plane(1, 8, 0, first), Plane(2, 8, first, first)>>),
            Made(<<1>>, <<"a">>, [a |-> 2 * first],
                 <<Plane(1, 8, 0, 1), Plane(-1, 8, 0, 1), Plane(-1, 8, 0, 1)>>)}

MCBuffers(format, s) == WholeBuffers(format, s) \cup OtherBuffers(format, s)
MCBufferSizes == [width : {1, 2, 3, 4}, height : {1, 2, 3}]
MCSemiplanar  == {Format.NV12, Format.NV21}
MCMjpeg       == Format.MJPEG

(* Inputs of the software ISP, of which it cannot read one format and one size;
   the buffers of the framework that it writes to are whole.                 *)
MCInputFormats == {Format.SGRBG10, Format.SRGGB10, Format.UYVY}
MCBayerOrder   == Format.SGRBG10 :> <<"G", "R", "B", "G">>
                  @@ Format.SRGGB10 :> <<"R", "G", "G", "B">>
MCInputSizes   == {Sized(4, 6), Sized(4, 3), Sized(8, 1)}
MCOutputSizes  == {Sized(4, 2), Sized(3, 3)}
MCOther        == Format.other
MCHalPlanes(format, s) == {FrameBuffer(b, format, s) : b \in WholeBuffers(format, s)}

-----------------------------------------------------------------------------
(* Zones with every kind of trip point, one without a temperature, and one of
   which the name has several keywords; and two kinds of cooling devices.    *)
Trip(type, celsius) == [type |-> type, milli |-> 1000 * celsius]
Zones ==
  {[name |-> <<"cpu", "thermal">>, value |-> 45000,
    trips |-> <<Trip("active", 60), Trip("passive", 75), Trip("hot", 70), Trip("critical", 110)>>],
   [name |-> <<"pmic", "batt">>, value |-> None, trips |-> <<Trip("critical", 80)>>],
   [name |-> <<"quiet", "cpu">>, value |-> 30000, trips |-> <<>>]}
Coolers ==
  {[name |-> <<"cpufreq", "cpu0">>, value |-> 3], [name |-> <<"gpu", "charger">>, value |-> None]}

WithEntries(zones, coolers) == [thermal_zone |-> zones, cooling_device |-> coolers]
SomeZones   == [1..3 -> Zones \cup {None}]
SomeCoolers == [1..3 -> Coolers \cup {None}]

MCBoards  == {WithEntries(zones, <<None>>) : zones \in SomeZones}
             \cup {WithEntries(<<None>>, coolers) : coolers \in SomeCoolers}
MCDevices == WithEntries(Zones, Coolers)
MCWanted  == {"any", "CPU", "GPU", "SOC"}

(* Two clients with two proxies each, and one in the process of the HAL. *)
MCCallbacks == [binder : {1, 2}, object : {1, 2}, remote : {TRUE}]
               \cup {[binder |-> 3, object |-> 1, remote |-> FALSE]}

-----------------------------------------------------------------------------
(* The state of a part that a behaviour does not show. *)
NoExposure ==
  mode = BrightMode /\ initialized = FALSE /\ exposure = 0 /\ gain = 0 /\ mean = 0
NoConfiguration ==
  /\ captures = <<[captureFormat |-> Format.UYVY, captureSize |-> Sized(4, 4)]>>
  /\ converter = FALSE /\ config = <<>> /\ transform = TRUE
  /\ status = "Unchecked" /\ pipeConfig = 0 /\ needConversion = FALSE
NoStreams ==
  list = <<>> /\ builder = "none" /\ configs = <<>> /\ built = "no" /\ streams = <<>>
NoCapabilities ==
  /\ camera = None /\ phase = "none" /\ maxRes = None /\ formatsMap = <<>>
  /\ streamConfigurations = {} /\ rawStreamAvailable = FALSE /\ maxJpegBufferSize = 0
  /\ metadata = None /\ templates = <<>>

NoBuffer ==
  /\ camera3Buffer = None /\ pixelFormat = 0 /\ size = None
  /\ bufferState = "new" /\ buffer = None /\ planes = <<>>
NoConversion ==
  /\ order = <<>> /\ inputSize = None /\ outputs = <<>> /\ configured = FALSE
  /\ conversion = "none" /\ given = <<>> /\ rgb = {} /\ row = <<>> /\ image = <<>> /\ result = 0

NoThermal ==
  /\ sysfs = <<>> /\ call = None /\ found = <<>> /\ reply = None
  /\ steady = {} /\ changes = 0

InitParts ==
  /\ part \in Parts
  /\ IF part = "configuration" THEN ConfigurationInit ELSE NoConfiguration
  /\ IF part = "exposure" THEN Init ELSE NoExposure
  /\ IF part = "streams" THEN StreamsInit ELSE NoStreams
  /\ IF part = "capabilities" THEN Capabilities!Init ELSE NoCapabilities
  /\ IF part = "buffer" THEN BufferInit ELSE NoBuffer
  /\ IF part = "isp" THEN IspInit ELSE NoConversion
  /\ IF part = "thermal" THEN ThermalInit ELSE NoThermal
  /\ CallbacksInit

NextParts ==
  \/ /\ part = "configuration" /\ ConfigurationNext
     /\ UNCHANGED <<part, vars, streamsVars, capabilitiesVars, bufferVars,
                    ispVars, thermalVars, callbacksVars>>
  \/ /\ part = "exposure" /\ Next
     /\ UNCHANGED <<part, configurationVars, streamsVars, capabilitiesVars, bufferVars,
                    ispVars, thermalVars, callbacksVars>>
  \/ /\ part = "streams" /\ StreamsNext
     /\ UNCHANGED <<part, configurationVars, vars, capabilitiesVars, bufferVars,
                    ispVars, thermalVars, callbacksVars>>
  \/ /\ part = "capabilities" /\ Capabilities!Next
     /\ UNCHANGED <<part, configurationVars, vars, streamsVars, bufferVars,
                    ispVars, thermalVars, callbacksVars>>
  \/ /\ part = "buffer" /\ BufferNext
     /\ UNCHANGED <<part, configurationVars, vars, streamsVars, capabilitiesVars,
                    ispVars, thermalVars, callbacksVars>>
  \/ /\ part = "isp" /\ IspNext
     /\ UNCHANGED <<part, configurationVars, vars, streamsVars, capabilitiesVars,
                    bufferVars, thermalVars, callbacksVars>>
  \/ /\ part = "thermal" /\ ThermalNext
     /\ UNCHANGED <<part, configurationVars, vars, streamsVars, capabilitiesVars,
                    bufferVars, ispVars, callbacksVars>>
  \/ /\ part = "clients" /\ CallbacksNext
     /\ UNCHANGED <<part, configurationVars, vars, streamsVars, capabilitiesVars,
                    bufferVars, ispVars, thermalVars>>

SpecParts ==
  /\ InitParts
  /\ [][NextParts]_<<part, vars, configurationVars, streamsVars, capabilitiesVars,
                     bufferVars, ispVars, thermalVars, callbacksVars>>

-----------------------------------------------------------------------------
(* Of CameraCapabilities: the streams that are told of are taken as they are,
   each JPEG has a YCbCr stream and room in the buffer, and a fast camera is
   told to be one, with templates of its own frame rates.                    *)
AdvertisedIsTrue == part = "capabilities" => Capabilities!AdvertisedIsTrue

(* Of CameraCapabilities: the range of a template is one that is registered. *)
OnlyRegisteredIsRead == part = "capabilities" => Capabilities!OnlyRegisteredIsRead
=============================================================================
