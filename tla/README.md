# Specifications of the tissot camera, display and thermal code

This directory holds TLA+ specifications of the code the repository adds to
LineageOS for the Xiaomi Mi A1 (tissot): the Android camera HAL of libcamera,
libcamera's simple pipeline handler with a software ISP, the resource manager,
planes and fetch pipes of the MSM8953 display driver, and a thermal HAL. Paths
below are relative to `src/source-overlay/`; `LC` stands for
`external/libcamera/src` and `DPU` for
`kernel/mainline/msm8953-mainline/drivers/gpu/drm/msm/disp/dpu1`.

## The system

| part | files | state it keeps | operations |
|---|---|---|---|
| camera device | `LC/android/camera_device.cpp`, `camera_request.cpp` | `state_`, `streams_`, `config_`, the pending requests, stream buffers and partial results, the descriptors of requests | open, close, flush, configureStreams, processCaptureRequest; the handlers of libcamera's signals; the completion of post-processing |
| stream configurations | `LC/android/camera_device.cpp` | `streams_` and the configuration of each | configureStreams: build, sort, create |
| camera capabilities | `LC/android/camera_capabilities.cpp` | stream map, frame rates, request templates | initialize; templates made when asked for, then kept |
| HAL buffers | `LC/android/mm/*.cpp` | mapped planes | map, unmap, layout |
| simple pipeline handler | `LC/libcamera/pipeline/simple/simple.cpp` | converter queue, capture buffers, owners of media entities, software auto-exposure | match, validate, configure, start, stop, queueRequest, bufferReady |
| software ISP | `LC/libcamera/converter/converter_softisp.cpp` | configuration, white balance | configure, exportBuffers, queueBuffers (debayer, scale, NV12) |
| converter factory | `LC/libcamera/converter.cpp` | registered factories | register, create, names |
| sensor properties | `LC/libcamera/camera_sensor_properties.cpp` | a constant table | lookup |
| logger | `LC/libcamera/base/log.cpp` | categories, levels, destination | set levels and targets, log |
| DPU resource manager | `DPU/dpu_rm.c` | which CRTC owns each mixer, ping-pong, control, DSC, DSPP, CDM and pipe block | reserve, release, assign pipes |
| DPU planes and scalers | `DPU/dpu_plane.c`, `dpu_hw_sspp.c`, `dpu_hw_util.c`, `dpu_hw_catalog.c` | plane state, the registers of each fetch pipe (SSPP) | atomic check, assignment of SSPPs, update, flush, disable, fill in error |
| thermal HAL | `hardware/interfaces/thermal/aidl/default/Thermal.cpp` | registered callbacks | read temperatures and cooling devices, register callbacks |
| camera application | `packages/apps/Camera2` | settings | constants |

How they interact. The camera framework calls the camera device from a capture
thread and a control thread. The device queues `libcamera::Request`s to the
Camera, whose pipeline handler captures raw frames on the video node, hands
them to the software ISP and emits `bufferComplete`, `metadataAvailable` and
`requestComplete` on the camera manager thread; post-processors (JPEG, YUV)
run in workers and delegate their completion to the camera manager thread. The
display's planes obtain their hardware from the resource manager within an
atomic commit. The thermal HAL reads sysfs on the caller's thread.

What is hard here: the interleaving of capture, control and camera manager
threads around two mutexes and a condition variable; results of libcamera in
any order, turned into results in order; failed buffers that may overtake good
ones; raw pointers into a list of owned descriptors; a flush without a timeout;
starting and stopping a pipeline with buffers in the converter; hardware blocks
shared by several CRTCs with rollback on failure; registers that each commit
writes only in part, so that they show what earlier ones left; drivers that come
and go while their files are read; arithmetic on sizes, strides and phase steps
at the edges.

What makes each part correct:

* camera device: the contract of the camera3 HAL (FIFO per stream, final
  results in order, one answer per buffer, growing metadata indices), no use
  of a freed descriptor, a flush that ends, nothing pending at configuration,
  a camera that is not stopped under a request;
* pipeline handler and software ISP: every request completes, every capture
  buffer goes back to the device or its request, one user of an entity at a
  time, images that fit their buffers;
* resource manager: a block has one owner, a failed reservation leaves others
  alone, blocks are paired as the hardware requires, release gives back all;
* thermal HAL: a device that stays is told of, whatever comes and goes beside it;
  a client is registered once;
* capabilities: what the framework is told of is what the pipeline handler
  keeps, with the streams and frame rates the framework cannot do without;
* stream configurations: each stream is made once, and a mapped one has a
  stream to be made from;
* planes and scalers: an SSPP has one user per rectangle, and its registers show
  the plane that was asked for and nothing of an earlier one; the fetched source
  covers the rectangle; the clocks of VBIF are left as they were found.

## Modules

| module | models |
|---|---|
| `CameraDevice` | the life of a capture request in the camera device |
| `CaptureContract` | what the camera framework is promised (abstract) |
| `SimplePipeline` | the simple pipeline handler and its converter while a camera streams |
| `MediaGraph` | the search for a way from a sensor to a video node |
| `MediaPipelines` | cameras that share a media device: links and pads (composes `MediaGraph`) |
| `SimpleConfiguration` | choosing a configuration: `validate`, `generateConfiguration` |
| `SwAec` | the software auto-exposure |
| `StreamConfigs` | the configurations and streams that `configureStreams` makes of a request |
| `CameraCapabilities` | finding out what a camera can do, and telling it (composes `SimpleConfiguration`) |
| `CameraBuffer` | where the planes of a buffer lie |
| `SoftIsp` | the software ISP: its threads, what they read and where they write |
| `SemiplanarFormats` | the formats it makes (constants of `SoftIsp` and `SimpleConfiguration`) |
| `DpuCrtcs` | who may own display hardware (constants of `DpuRm` and `DpuPlanes`) |
| `DpuRm` | reserving and releasing display hardware |
| `DpuPlanes` | giving the virtual planes their SSPPs, and the multirect registers |
| `DpuCatalog` | features, formats and sub-blocks of the kinds of SSPP (constants) |
| `DpuScaler` | what is computed of one fetch: can it be shown, decimation, phase steps, pixel extension, clock, QoS (composes `DpuCatalog`) |
| `DpuPipe` | the registers of one SSPP over many commits (composes `DpuScaler`) |
| `Thermal` | the calls of the thermal HAL that read sysfs, file by file |
| `ThermalCallbacks` | the clients of the thermal HAL |
| `Selection` | what a filter leaves of a list, for the two above and for `StreamConfigs`, `MediaGraph` and `MediaPipelines` |
| `MC*` | the instances for TLC. `MCSequentialParts` runs the parts that end within one call (`SimpleConfiguration`, `SwAec`, `StreamConfigs`, `CameraCapabilities`, `CameraBuffer`, `SoftIsp`, `Thermal`, `ThermalCallbacks`), `MCDpuDisplay` those of the display (`DpuRm`, `DpuPlanes`, `DpuPipe`), `MCPipelineHandler` those of the pipeline handler while cameras run (`SimplePipeline`, `MediaPipelines`); a behaviour shows one part |
| `DataLemmas` | facts on numbers, loops, finite sets and the list operators, proved once |
| `*Proofs` | theorems on the module they are named after, in `DpuDisplayProofs` on `DpuRm` and `DpuPlanes`, and in `SequentialPartsProofs` on `SwAec`, `SimpleConfiguration`, `StreamConfigs`, `CameraBuffer`, `SoftIsp`, `Thermal` and `ThermalCallbacks`; the refinement of `CaptureContract` is in `CameraDeviceProofs`. `MediaPipelinesProofs` has those on `MediaGraph` too |

A definition called "Mutant" in a comment is not part of a model. It is a
plausible mistake in the definition after it, kept to see that the properties
notice it; `PROJECT.json` names the property that does.

### CameraDevice

Threads. `cap` is the capture thread inside `processCaptureRequest`, `ctl` the
control thread inside `open`, `flush`, `configureStreams` or `close`, and `cam`
the camera manager thread, which runs one handler at a time. A step is what a
thread does between two points where another can get in: taking or leaving
`stateMutex_` or `pendingRequestMutex_`, sleeping on `pendingRequestsCv_`, or
calling out of the device. A mutex is held by the thread whose program counter
is inside its section (`StateMutexFree`, `PendingRequestMutexFree`), so mutual
exclusion is not assumed where the code has no lock: `FlushStop`
(`camera_->stop()`) runs under neither.

State. `desc[f]` is the `Camera3RequestDescriptor` of frame `f` with its
`libcamera::Request`: `life` says whether it is prepared on the capture
thread's stack, owned by `pendingRequests_`, or freed; `src[s]` is the frame
buffer that stream `s` is made from, its own (Direct, Internal) or its source's
(Mapped); `fbs` are the frame buffers libcamera still holds. A partial result is
named by the frame buffer whose completion created it. The three lists of the
code are the sequences `pendingRequests`, `pendingStreamBuffers[s]` and
`pendingPartialResults`.

| code | actions |
|---|---|
| `open`, `close` | `Open`; `CallControl`, `FlushBegin` .. `FlushEnd`, `CloseReturn` |
| `flushAndStop` | `FlushBegin`, `FlushCheck` (the wait's predicate), `FlushStop`, `FlushEnd`, `FlushReturn` |
| `configureStreams` | the flush, then `ConfigureStreams` |
| `processCaptureRequest` | `RejectRequest` or `PrepareRequest`; `AbortRequest`, `StartFails` or `EnsureStarted`, `PushRequest`, `QueueRequest` |
| `bufferComplete`, `streamProcessingComplete` | `BufferComplete`, `StreamProcessingComplete`, each entering the check (`EnterCheck`) when nothing is left to process |
| `checkAndCompleteReadyPartialResults` | `EnterCheck`, `CollectReady` (one turn of the nested loops), `CollectDone`, then `CompletePartialResult` per ready result |
| `metadataAvailable`, `requestComplete` | `MetadataAvailable`, `RequestComplete` |
| `completeRequestDescriptor` | `FinishFront` per answered request, `FinishDone`, `NotifyFlush` |

The environment. The framework numbers its requests, submits them from one
thread, may flush at any time, and configures or closes only between
submissions. libcamera completes the frame buffers of a request, good or bad,
in any order among requests, and the request after its buffers; post-processors
report in any order. libcamera does not take a request that has no buffer. Early
metadata may come for the frames in `MetadataFrames`, up to `MaxMetadata` times.

### CaptureContract

The view of the framework: which streams each request asked for, which buffers
were announced as failed or came back, which requests were aborted or answered.
`CameraDevice!ImplementsContract` maps `notified` to the announced failures and
the aborted requests; the other variables have the same names.

### SimplePipeline

One camera of the pipeline handler, with no converter, a hardware one or the
software ISP. All slots run on the pipeline handler's thread, so a slot is one
step, with all that it calls; the order of frames, conversions, requests, stops
and starts is free. `video` is the queue of the capture node, `converterQueue`
the requests whose buffers wait for a frame, `inputs` and `outputs` what a
hardware converter has in hand; the software ISP answers within
`queueBuffers()`. `pending` and `queuedRequests` are what `PipelineHandler`
keeps of a request. `bufferReady` is `FrameReady`, with a disjunct for each of
its returns (`CaptureComplete`, `FrameUnused`, `FrameWithoutConversion`,
`QueueBuffers`); `stopDevice` is `Stop`, with the frames it cancels
(`CancelFrames`). `lost` is history: what a failed `queueBuffers()` drops.

### MediaGraph and MediaPipelines

`MediaGraph` computes `entities_` as the constructor of `SimpleCameraData` does:
a breadth-first search over entities, in the order of pads and links, that
prefers a route from the sink pad it came in by. `MediaPipelines` starts from
any graph of `Graphs`, gives each sensor its path and then configures
(`setupLinks`, which may stop half-way), starts (`acquirePipeline`) and stops
(`releasePipeline`) cameras in any order.

### SimpleConfiguration and SwAec

`SimpleConfiguration` starts from any list of capture modes, with or without
the software ISP. The application asks for something (`Ask`) or has a default
made (`GenerateConfiguration`), and `Validate` adjusts it, any number of times.
Formats are numbers in the order of `PixelFormat`, because `formats_` is a map
whose first entry counts. Sizes stand for multiples of the smallest size of the
software ISP, 16x16. `std::sort` leaves the order of equal ranges open, and so
does `SortedSizes`. Taking the first of no output formats is the end of the
program (`ValidateCrashes`).

`SwAec` has one step per frame. What the code takes from the pixels is their
mean, and any mean may come next. Products with a double are truncated; where
the product is a whole number, the double may lie just below it (0.7 * 90 is
one), so `Truncated` gives both results.

### StreamConfigs

The streams of a request come in any number up to `MaxStreams`, and in any
order. `Build` is `buildStreamConfigsNoMap`, which `configureStreams` calls, or
`buildStreamConfigsDefault` with its sorting, which is built and not called
(`builder` says which); `CreateStreams` makes the HAL's own streams. The result is what
`CameraDevice` takes as its constants `Mapped`, `Internal` and `Source`. Since
no stream of an earlier configuration is read, one request is enough. The
mutants of the builder are loops that go on where the code stops.

### CameraCapabilities

`initialize` is `AcquireFails`, `StreamsFail` or
`InitializeStreamConfigurations` and then `InitializeStaticMetadata`;
`ConstructDefaultRequestSettings` makes the templates in any order. The camera
is a simple pipeline handler's with its capture modes, and `SimpleConfiguration`
answers what `validate()` makes of a stream (`Handler`). Sizes are in pixels and
durations in nanoseconds: what is capped, snapped and rounded is what the
properties are about. An assertion that fails, or the first element of an empty
list, is the phase "aborted".

### CameraBuffer and SoftIsp

`Construct` is the constructor of `CameraBuffer::Private`, which finds the
planes of a handle (`FromGralloc`, `FromFormat`); `Map` is `map()`, and
`FrameBuffer` what `createFrameBuffer` tells libcamera. A handle has
descriptors, each of a dmabuf, dmabufs have lengths, and gralloc may describe
the planes.

`SoftIsp` is `configure`, which may be called again, and `queueBuffers` with a
step for each row of each thread (`ProcessRow`), one for each stream
(`WriteOutput`, or `OutputMapFails`) and the announcement of the buffers. Values are left out: a
byte of an image is what it stands for, where it is, and the input pixels it
is made from (`Writes`). The buffers are those `exportBuffers` made, or those of
the framework, whose planes `MCSequentialParts` takes from `CameraBuffer`.

### DpuRm

An atomic check works on `draft`, a copy of the `committed` owners, releases and
reserves for the CRTCs it changes, and is then committed or thrown away
(`phase`). A failed reservation leaves the draft half changed, as in the code.
The loops that take blocks in index order are sets (`First(S, n)`). The
catalogue of a platform is a set of CONSTANTS with `CatalogAssumption`, which
says that no two mixers are wired to one pingpong or DSPP and that pairs are
mutual.

### DpuPlanes

Each plane of a check gets its SSPPs for up to `Stages` pairs of mixers, alone,
split in two rectangles, or shared with the plane before it in the stack;
rectangles are places on a coarse grid. A commit writes the multirect mode
of the SSPPs in the order of planes. A hidden plane keeps the pipes of its right
half, and writes to their SSPPs again in each later commit it is part of while it
stays attached without being seen.

### DpuCatalog, DpuScaler and DpuPipe

`DpuPipe` is one SSPP. It shows a plane alone (`CheckSolo`), the two halves of a
plane (`CheckSplit`) or two planes (`CheckShared`); a check that succeeds says
what the next commit writes (`shown`, `mode`), and the commit is `Update` for each rectangle and then `Flush`, in the order of the code, with `SetError` and
`Hide` for planes that are put in error or hidden and `OtherCommit` for a commit
that changes none of the planes but flushes them. The setters of
`dpu_hw_sspp.c` are functions from registers to registers; those that write
nothing for what they do not need are exactly that, and `NothingIsLeftOver`
compares what a history of commits leaves with programming the last one alone
(`Fresh`), as far as the hardware looks at it (`Effective`). `DpuScaler` has
the roundings of the code; `mult_frac` is `MultFrac`. Of its widths the model has
the 16 bits of a stride register, and the 32 bits of the clock's product that is
widened to 64 (`AsInt`, `AsU64`), which no mode of the instance
exceeds; the scalers' sizes and steps are far from any limit and have none. The
platform headers are not in the repository: an SSPP is one of the pairs of
feature mask and sub-block whose names tell that they belong together. What
may be asked for are `Configurations`: sources and destinations that the atomic
helpers have clipped, and that are not empty.

### Thermal and ThermalCallbacks

A call of the thermal HAL lists the entries of sysfs (`Begin`), and then reads a
file per step: the type (`ReadType`), the temperature or state (`ReadValue`), the
trip points one by one (`ReadTripTemp`, `ReadTripType`), until it answers
(`Return`). `Hotplug` may take an entry away, or put another device in its place,
between any two steps. `steady` has the entries that did not change during the
call. `ThermalCallbacks` has the two lists of callbacks; a client comes with a
new proxy for each call, so objects differ where binders do not.

## Runs

| run | shows | bounds |
|---|---|---|
| `camera_lifecycle` | types; nothing pending at configuration; no stop under a request; nothing accepted while flushing; metadata packs are numbered upwards; flushes return and requests are answered | 2 streams (Direct, Mapped with JPEG), 2 requests, early metadata of the first, every control operation, start may fail |
| `camera_order` | `CaptureContract` is implemented; no dangling reference, and the waiting buffers are exactly the listed ones | 3 streams (Direct, Mapped, Internal), 2 of them with JPEG, 2 requests, reconfiguration |
| `camera_lost_buffer` | a violation, see below | 3 streams, 1 request |
| `pipeline_handler` | streaming: a stop leaves nothing behind; a buffer waits in one place; internal buffers circulate; requests return; pipelines: shortest paths; running cameras share no pad; a configured camera's path is linked and nothing else on it | 3 requests, 2 streams, 3 internal buffers, one failed conversion; 572 graphs over 2 sensors, a bridge, a routing subdev, 2 video nodes |
| `media_single_option` | a violation, see below | the same graphs |
| `sequential_parts` | each part keeps its promise, see the table below | configuration: 1 or 2 capture modes, 3 capture sizes, up to 2 streams of 16 kinds; exposure: 2 sensor modes, 9 means; streams: up to 4 of 13 kinds; capabilities: 1 or 2 modes of 3 sizes, 6 limits of frame durations and none at all; buffers: 12 sizes, 3 formats, 21 handles; images: 2 streams, frames of 6 or 3 rows, 2 sizes; thermal: 3 zones of 3 kinds, or 3 coolers of 2, one change (`MaxChanges`) at any moment of a call; clients: 3, two of them with 2 proxies |
| `dpu_display` | blocks: chains of wired blocks have one owner, exactly what was asked for is owned, DSCs fit their pingpongs, others keep theirs, a mode can be set again; planes: one fetch per rectangle, owned SSPPs are used, multirect is off where an SSPP has one rectangle; registers: nothing is left over, each rectangle reads its own buffer, the source is covered, clocks are left as they were found | 3 CRTCs, 2 per check, 4 mixers in pairs, 4 topologies; the 3 CRTCs, 3 planes of 3 layouts, 2 SSPPs, 2 stages; 6 kinds of SSPP, 6 planes that have one alone, 4 to share one; CRTCs symmetric |
| `dpu_dspp_lost`, `planes_hidden`, `dpu_alpha_rows`, `dpu_fill` | violations, see below | the part of `dpu_display` they are about |
| `camera_templates` | a violation, see below | the part of `sequential_parts` it is about |

Of `sequential_parts`:

| property | says |
|---|---|
| `AnswersAreValid` | what `validate` adjusted it accepts, and a default needs no adjustment |
| `StreamsCanBeMade` | an accepted stream is no larger than what is captured, and converted only where there is a converter that can |
| `ExposureFirst`, `SteersToTarget` | exposure before gain; never the wrong way, and stuck only at the limits and where the change that is due is less than one |
| `EachStreamIsMade` | each stream is made once and from a source, two still captures at most, the order is the one of the comment |
| `AdvertisedIsTrue` | advertised streams are taken as they are, JPEGs have a source, cameras of 20 frames per second and more are told to be, the frame rates of their templates are advertised ones, and no assertion about streams or thumbnails fails |
| `PlanesFit`, `ImageIsWhole` | planes lie in their dmabufs and apart; an announced image has each sample, made of this frame's pixels, where its reader looks for it |
| `SteadyDevicesAreTold`, `ClientsAreListedOnce` | a device that stays is in the answer once, with its own readings; a client is listed as it was told |

Why the bounds are enough.

* Camera. Overtaking needs two requests; a Direct and a Mapped stream sharing
  one frame buffer give results with several buffers, results with one, and
  mixed good and failed ones, and the Internal stream brings a second result of a
  request that is post-processed beside. `MaxMetadataPackIndex` is the number of
  packs a request may have, as in the capabilities; early metadata for one of the
  two requests (`MetadataFrames`) is enough to number a pack before all others. A
  control operation may be repeated without bound. Frames are the only counter
  and end with `MaxRequests`.
* Pipeline. As many requests as internal buffers is what `bufferCount` (3) makes
  applications allocate and the most that `stopDevice` can bear; requests are
  reused without end. The failed conversion happens once because each costs a
  buffer for good.
* Media graphs. The bridge and the subdev have two ways out each, so that there
  are ways of different length, ways that meet again, and one entity reached by
  two pads; a path has at most four links, and the search ends by itself.
* Configurations. Two modes are what it takes to have a smaller and a larger, or
  two that are not comparable (wide and high), of one format or of two; requests
  range over too small, exact, between, and too large in one direction.
* Exposure. The limits are small: the gain and one mode go down to 1, where the
  change that is due is less than one, the other mode stays above that; means lie
  on both sides of each bound of the ratio. The theorems below do not depend on
  them.
* Streams. Two of one size, a third still capture and a JPEG that makes a third
  or fourth are what the builder distinguishes; three sizes give the sorting a
  largest, a middle and a smallest one.
* Capabilities. Sizes are below, at and above Full HD, from where the burst
  duration counts; durations lie above and below each threshold: 30 frames per
  second, 1% faster, 2% slower, 20 frames per second, and a second. Behind the frame
  rate ranges (`Behind`) may lie a pair that is of no use, one that is for preview,
  and one that is for both.
* Buffers and images. Sizes are odd and even in both directions, dmabufs shorter
  than, as long as and longer than their planes, down to nothing. A frame of 6
  rows gives the four threads bands of one and two rows, one of 3 rows has fewer
  threads; images are as wide as the frame, and smaller with positions that lie
  between pixels. `MinSize` and `Align` stand for 16.
* Thermal. Three entries have one before and one after the entry that changes;
  a second change would be a change during another call.
* Display. Four mixers make a quad pipe, on two interfaces, with a DSC for each;
  three CRTCs compete for them; a check
  that changes two (`MaxPerCheck`) moves blocks from one to the other. Two SSPPs
  of different ability and three planes let planes share, split, run out and
  swap. The kinds of SSPP are those that differ in scaler, compression, multirect
  and registers. Sizes are some tens of pixels; what is enlarged, reduced within
  the scaler's limit, and reduced beyond it, on one axis or both, plain and
  subsampled, is among them. The registers of an SSPP go from any of its planes
  to any other without end: there is no counter.

Fairness. `CameraDevice!FairSpec`: each thread that can go on does so; for each
request libcamera goes on completing what it holds and each post-processor
answers: that is what their interfaces promise, and the code relies on it. No
fairness is given to the framework's calls or to early metadata.
`SimplePipeline!FairSpec`: while the camera streams the video device fills the
buffers it has and the converter converts; the application need do nothing.
`RequestsReturn` excepts what a failed conversion loses.

Deadlock is not checked where the framework or the application may simply stop
calling: in `sequential_parts` a validation that crashed, a configuration that
was turned down, streams that are configured, a camera that is initialized and
a buffer that is mapped end the behaviour.

### Disagreements between code and comments

* `camera_lost_buffer`: `processCaptureRequest` tests the frame buffer of
  Direct and Internal streams for null but not the one it takes from the pool
  of a Mapped stream's source (`camera_device.cpp:1546`).
* `dpu_dspp_lost`: reserving mixers for a display without DSPPs writes "no
  owner" to the entry of DSPP_0, whoever has it (`dpu_rm.c:421`).
* `dpu_alpha_rows`: the rows of the alpha component get the pixel extension of
  its columns (`dpu_hw_sspp.c:424`).
* `dpu_fill`: a plane in error is filled through a scaler that may take it for
  rotated, because the rotation of the fill's configuration is never set
  (`dpu_plane.c:685`).
* `camera_templates`: the loops that look for a frame rate range count numbers and
  read pairs; for a camera below 20 frames per second they go on behind the entry
  (`camera_capabilities.cpp:1839`, `:2120`), and what looks like a range there goes
  into the template.
* `planes_hidden`: a plane that is hidden writes RECT_SOLO to SSPPs it had in
  its last visible state, which the same commit may have given to another plane
  (`dpu_plane.c:1776`).
* `media_single_option`: on a device with a single way from sensor to video node
  the search may follow another one, through a sink pad that has no active route
  (`simple.cpp:436`).

Two more disagreements no run is spent on:

* The bandwidth for a plane that is reduced counts only the whole times that its
  source is taller than the screen (`dpu_plane.c:137`), where the equation above
  the function (`dpu_plane.c:113`) has the quotient: up to half of it is not asked
  for. The figure is handed on to the interconnect and decides nothing here; it
  is not modelled.
* "Over-exposed: gain down first, then exposure" (`simple.cpp:990`): a gain of 2
  or 3 above the floor of the sensor is too small to be lowered by 30 percent, and
  while it stands there the exposure does not fall either. `SteersToTarget` says
  exactly where the loop stands still (`SwAec!CanDarken`).

Behaviours the models have, or that reading the code showed, and that no run
checks, because the code and its comments promise nothing about them:

* `start()` does not set up links again after another camera was configured
  (`simple.cpp:1399`); a merged range of sizes takes the maximum of the last one
  (`simple.cpp:1275`); `validate()` takes the first of no output formats for a
  captured format the software ISP cannot read (`simple.cpp:1189`).
* Buffers that the software ISP exports have no room for half a row of chroma and
  no padding (`converter_softisp.cpp:446`); duplicated descriptors of one dmabuf
  pass for several (`generic_camera_buffer.cpp:203`).
* Request templates fall back to ranges of frame rates that may not be advertised
  for sensors of less than 20 frames per second (`camera_capabilities.cpp:2131`).
* The index of the mixer array, not the mixer, chooses a CWB mux
  (`dpu_rm.c:255`); a display with DSC may be refused the mode it has
  (`dpu_rm.c:541`).
* The bits that force clocks before version 9 share a register that is read,
  changed and written without a lock (`dpu_hw_util.c:606`): the model has one
  SSPP. `dpu_plane_is_multirect_capable` is asked before the rotation of a plane
  is stored (`dpu_plane.c:1160`), so it answers for the last check's
  (`DpuPipe!EarlierAngle`).
* The thermal HAL never drops a client that has died, and calls none.

A frame rate of zero, of a frame duration of more than a second, is divided by; the
model has what the processor makes of it (`Forever`). An exposure of 1 or 2 never
grows, and with it the gain does not either (`SwAec!CanBrighten`).

## Proofs

* `ContractInvariant` (`CaptureContractProofs`): `GoodBuffersInOrder`,
  `FinalsInOrder` and `ReturnedOnce` for any streams and any number of requests.
  The inductive invariant adds that only requests that were asked for are
  aborted or have failed buffers, which is what makes a fresh request later
  than all others (`FreshIsLater`). With `DeviceKeepsContract`, the order of
  results follows for the device.
* `TypeCorrect` (`CameraDeviceProofs`): `TypeOK`. It needs `SourcesOK`, that a
  stream in post-processing has a source buffer, and `NextReadyType`, that the
  iterator of the nested loops finds a ready result in the list.
* `RunsWhileQueued` and `NoNewRequestWhileFlushing` (`CameraDeviceProofs`):
  `QueuedOnlyWhileRunning` and `FlushingAcceptsNothing`. The inductive
  invariant `FlushInv` relates `state_` to the program counter of the flushing
  thread (`PhaseInv`) and says that a request libcamera holds is pending and
  that the one being submitted cannot finish before it is queued (`QueueInv`);
  the camera is stopped only with an empty list, and the list cannot grow
  before `state_` is Stopped.
* `NothingDangles` and `ConfigureFindsNothing` (`CameraDeviceProofs`):
  `NoDanglingReference` and `NothingPendingAtConfigure`, for any streams and any
  mapping. The invariant `OwnerInv` adds to `FlushInv` which list has what, and
  for how long: `pendingRequests_` has the descriptors that live, a stream's
  list those for which `Waits` holds (`ListInv`); a result is in one of
  `pendingPartialResults_` and the local list of ready results, once, open and
  with no buffer left to process (`ResultInv`); a descriptor that is completed
  has sent every result (`Coherent`, `FrameInv`). They assume
  `~GetBufferCanFail`: a stream for which no internal buffer could be had leaves
  its descriptor in the list, which is what `camera_lost_buffer` shows.
* `PackIndicesAreOrdered` (`CameraDeviceProofs`): `PackIndicesGrow`, for any
  streams, if the early metadata and one pack per stream stay below
  `MaxMetadataPackIndex`. `IndexOK` bounds `nextPartialIndex_` by the number of
  completed results.
* `DeviceKeepsContract` (`CameraDeviceProofs`): `ImplementsContract`, the
  refinement, for any streams, mapping and number of requests, again under
  `~GetBufferCanFail`. Every step of the device is a step of `CaptureContract`
  or changes nothing of it. The invariant `RefInv` is `OwnerInv` with two parts.
  `AnswerInv` says what the framework knows of a request, told by its
  descriptor: of a request that lives, a buffer has come back if its result is
  completed, and is announced if its status is Error; one that is freed owes
  nothing. `OrderInv` says that the lists are in the order of the requests, and
  that the result which is sent next has no good buffer for a stream in which an
  earlier request still owes a good one (`ReadyInOrder`): it holds when the
  result is collected, because its good buffers were then first in their lists,
  and stays until it is sent, because what is settled for the earlier requests
  (`Settled`) stays settled.
* `ResourcesTyped`, `ChainsStayWhole`, `NothingIsStolen` (`DpuDisplayProofs`):
  `TypeOK`, `ChainsAreWhole`, `OthersKept`. CWB pingpongs are written without a
  look at their owner, and only because they follow their mux is nobody robbed.
* `OwnershipIsExact`, `DscsFollowPingpongs`, `SameModeAgain` (`DpuDisplayProofs`):
  `ReservedExactly`, `DscFitsPingpong` and `CanModesetAgain`, for any catalogue
  and any number of CRTCs. The invariant `IInv` adds to the types and to
  `ChainsAreWhole` that every CRTC has what it was given blocks for (`Assigned`),
  and that the DSPP of a mixer is free or with the mixer's owner
  (`DsppsFollow`): of the state in force always, and of the draft while no
  reservation in it has failed, since what a failed one leaves is thrown away.
  `Assigned` is about all CRTCs: one that was robbed would break it, so the proof
  uses that only `DSPP_0` can be taken from another (`HeldStays`), and that is
  left out of what a CRTC must own. `DsppsFollow` is what makes the mixers a CRTC
  gives back usable for it again although `DSPP_0` may have been taken from it.
  Counting is by `ChosenInPairs` and `ImageFinite`: the mixers chosen come in
  pairs, and what is wired to them one by one is as many.
  The scan for pairs of DSCs is a recursive function; `DscPairScan` is shown to
  exist and to keep its invariant for every number of slots by `IterationExists`.
  `SameModeAgain` shows that every step of the second reservation finds a
  candidate, which is what the CRTC has just released, and that a step which
  chooses among several still leaves one for the next; as in the run, it is
  about displays without DSC.
* `RectanglesAreNotShared`, `OwnersFetch`, `MultirectIsOff` (`DpuDisplayProofs`):
  `OnePipePerRectangle`, `OwnedAreUsed` and `SoloIsSolo`, for any number of
  planes, stages and SSPPs and any layouts.
  The invariant `PlanesInv` says of the places that show something (`Shown`) that
  their pipes are `Apart`: each has an SSPP (`HavePipes`), a rectangle has one
  pipe (`Unshared`), a pipe that is not alone has a mate in the other rectangle,
  in the same stage, mode and CRTC (`Mated`), and owners and users agree
  (`OwnedBy`); and that multirect is off where a pipe is alone, unless its plane
  is still to be updated (`Programmed`). In a check the set of places grows from
  those of the other CRTCs, which stay apart when the SSPPs of this one are
  released (`ReleaseStep`), by one stage of one plane a turn: a free SSPP is
  given to one pipe (`AddSolo`) or two (`AddPair`), or a pipe joins one that is
  alone (`JoinSolo`). `Assigning` carries that through the two loops, which are
  recursive functions: it adds that a plane that may still be joined has a pipe
  in its stage, and `KeepsOthers` that the pipes of other CRTCs stay. After a pipe was
  turned down nothing is claimed: such a check leaves nothing.
* `BuffersAreApart`, `ClockIsRestored`, `AllOfTheSource` and
  `HistoryIsForgotten` (`DpuPipeProofs`): `EachRectangleItsBuffer`,
  `ClocksAreAsFound`, `SourceIsCovered` and
  `NothingIsLeftOver`, for any kind of SSPP, any configurations and any history
  of commits. Each setter is described by what it sets and what it leaves
  (`AddressStep` to `FlushStep`), and an update or a fill by its setters
  (`UpdateStep`, `FillStep`). The inductive invariant `PipeInv` says that what is
  shown passed its check (`ShownOK`), that what an SSPP lacks stays as reset left
  it (`AtReset`), that a rectangle which is not still to be updated has the
  registers of what was asked, or of its fill (`Shows`), and that the conversion
  matrix is loaded once it is flushed (`CscLoaded`). The hard part is that the
  update of one half keeps what the other shows (`UpdateKeeps`, `FillKeeps`):
  they share registers for strides and multirect, and a bit for the colour
  conversion. Two register files that show the same have the same effect
  (`SameEffect`), and one that is programmed afresh shows it (`FreshShows`). What
  a scaler reads reaches to the end of the source because its step, rounded down,
  loses less than a unit for each pixel (`StepSpans`, `AxisCovered`).
* `NothingLeftBehind` (`SimplePipelineProofs`): `StopLeavesNothing`, if there
  are at most as many requests as internal buffers; with more, `stopDevice`
  leaves the rest in the queue. The invariant counts: until a buffer is lost,
  every internal buffer is in the device or the converter (`Conserved`), every
  request held waits for a frame or a conversion (`OnItsWay`), and the lists
  name each request once (`Lists`).
* `BuffersWaitOnce` and `BuffersCirculate` (`SimplePipelineProofs`): `WaitsOnce`
  and `InternalBuffersCirculate`, for any number of requests and also after a
  conversion was turned down. Both count how often a value occurs in the queues
  (`OccursAppend`, `OccursTail`). The invariant `CountInv` adds what makes a new
  start safe: a request with an incomplete buffer stays with `PipelineHandler`
  (`HeldUntilDone`), and those that a stop leaves in `converterQueue_` or that
  the converter turned down have one (`QueuedIsPending`, `LostIsPending`), so
  that `start`, which needs an empty queue, finds neither.
* `ExclusiveAccess` (`MediaPipelinesProofs`): `PadsAreExclusive`, for any graphs.
* `ConfiguredPathIsLinked` (`MediaPipelinesProofs`): `ConfiguredIsLinked`, for any
  graphs, whatever other cameras set up before. Disabling a link on one entity could
  undo the one that was enabled on the entity before, unless the path meets no
  entity twice. That it does not is a fact about the search: an entity's parent was
  visited before it (`CameFrom`, `Ranked`, kept by `Consider` and `Visit` in
  `ConsiderType` and `VisitType`), so that the path that is followed back from the
  video node rises in the order of visits (`PipelineType`), and each of its steps has
  a link to the next. Then the last write of a link says whether it is enabled
  (`LastWriteTells`), and for a link of the path that is the one that enables it
  (`LinkWritesOrdered`, `WritesLink`).
* `ExposurePreferred` and `LoopSteers` (`SequentialPartsProofs`): `ExposureFirst` and
  `SteersToTarget`, for any modes, gains and frames, the smallest values included.
  They rest on bounds of a truncated
  product (`TruncatedBounds`, `RaisedIsNoLess`, `LoweredIsNoMore`), on which
  values the two limits of the ratio move and which are too small (`LimitsMove`),
  and on `TypeOK`, which keeps the gain within the sensor's.
* `ConfigurationsCanBeMade` and `AnswersStayValid` (`SequentialPartsProofs`):
  `StreamsCanBeMade` and `AnswersAreValid`, for any video device and any requests.
  A configuration that `validate` has seen is made by the frames that were picked
  (`Made`), each stream within what they can be made into (`Makes`). Asked again,
  `validate` may pick others, but of those the streams can be made too
  (`PickedAgain`): its `maxStreamSize` is the least size that all streams fit, a
  fold, and the streams of an adjusted configuration fit in what was picked for
  it; among the frames that are large enough the smallest is picked, and else the
  largest, and `FitsNotSmaller` relates the two orders of sizes. For
  `generateConfiguration`, the first of the ranges that `Merge` leaves, a fold,
  reaches as far as one of those merged (`MergedFirst`), so that its largest size
  can be made.
* `RequestedStreamsAreMade` (`SequentialPartsProofs`): `EachStreamIsMade`, for any
  number of streams. The invariant `StreamsInv` says of what `Build` made that it is
  `MadeWell`, and of the HAL's streams that they are those of the configurations.
  The loops over the request place one stream a turn, each once and with those of
  its size (`WellMade`, kept by `PlaceKeepsMade`), until all are placed (`Fills`,
  `FillsInTurn`). A mapped stream comes after a direct one (`MappedOntoDirect`)
  because no JPEG was placed before the only JPEG. Limiting the still captures and
  sorting move configurations and change none (`Renumbered`). Of more than two
  still captures two stay since one JPEG at most is among them (`TwoAreLeft`). The
  order has each configuration once because the places in rounds, the largest of
  each format first, are those of a finite set in order (`Ranks`): its smallest
  elements have the first places, with no gap, and no two share one.
* `SteadyDevicesStayTold` (`SequentialPartsProofs`): `SteadyDevicesAreTold`, for
  any number of entries, devices with any trip points, and changes. The invariant
  `CallInv` says of a call that its entries are in order and are the steady ones
  that are there and maybe others (`Listed`); that what is found so far is in the
  order of the entries that have been read, and has of each steady one what is due
  (`Collected`); and that what is known of the entry that is being read is its
  device's, if it stays (`AtEntry`), with the thresholds of the trip points up to
  here (`HotAfter`, a step of which is `WithTrip` by `HotNext`). A change takes
  its entry out of the steady ones, and what is said of the others stays.
* `PlanesFitTheirBuffers` (`SequentialPartsProofs`): `PlanesFit`, for any
  descriptors, dmabufs and sizes of images. Where each plane has a descriptor,
  the planes lie apart because the list of descriptors has each once, a fold
  (`FdsEachOnce`), and as many descriptors as dmabufs are of different ones
  (`DistinctDmabufs`). What gralloc says of the planes the code checks no further
  than `GrallocLayoutValid`: of those handles `HandleAssumption` says that gralloc
  describes what is there, and the theorem that this is told and mapped.
* `ImagesAreWhole` (`SequentialPartsProofs`): `ImageIsWhole`, for any sizes, mosaics,
  alignment and fixed-point scale, and any number of rows. The invariant `IspInv`
  says which rows are of this frame by where the workers are in their bands, and
  that what is written of a stream is what `Writes` has for its buffer. The bands
  are one after the other although their limits are rounded (`Bands`,
  `BandsAreAll`); a block of a mosaic that is cut by the border still has every
  colour beside each pixel (`EveryColour`); a position rounded down to fixed point
  is within one pixel of the exact one (`WeightedIsNear`). A buffer fits an image
  (`Fitting`) if the framework made it, or `exportBuffers` for a size that is not
  `Odd` (`HalFits`, `ExportedFits`), and then each sample has a byte in its plane
  (`PlacesFit`) that no other has, in its plane or in another (`BytesApart`), so
  that there are as many bytes as samples (`ByteCount`).
* `ClientsStayListedOnce` (`SequentialPartsProofs`): `ClientsAreListedOnce`, for
  any clients and proxies. What `remove_if` leaves (`SelectedSelects`) has no
  object of the client, and the others where their order was.

They assume what the modules state under ASSUME: `GraphAssumption` (links and routes
connect a source pad and a sink pad, a route within one entity: what the media
controller of the kernel guarantees), `StreamAssumption`, `PlaneAssumption`,
`MarkAssumption`, `BoundAssumption`, `CatalogAssumption`, `TopologyAssumption`,
`DscAssumption` (the "Facts" of `dpu_rm.c:622`: a display has no more DSCs than
mixers, and the pingpongs of a pair of mixers are an even number and the next; the
comment at line 631 gives the numbers of DSCs), `BufferAssumption`,
`RequestAssumption`, `ConfigurationAssumption` (frames that are captured are not
empty, and the formats made of them are not Bayer formats), `RequestedAssumption` (each
format of Android's has a pixel format, JPEGs too), `ThermalAssumption`
(temperatures are numbers), `CallbacksAssumption` (an object of the HAL's own
process is the client itself), `HandleAssumption` (images are not empty,
descriptors and lengths are numbers, and the planes that gralloc describes lie in
their dmabufs and apart), `IspAssumption` (a block of a mosaic has all three
colours, no output is empty, an input is read from two rows and columns on, and
the framework's buffers hold an image of their size in planes that lie apart, as the run has it of those of
`CameraBuffer`), `PipeAssumption` (what is asked for is in `Configurations`, a
plane that has an SSPP alone is no wider than `max_linewidth`, since wider ones are
split), and for `SwAec` `ModeAssumption`, `GainAssumption` and
`MeanAssumption` (limits are natural numbers, and a default lies within them).

Recursion and loops. The library's induction theorems take an operator as a
parameter, which the provers cannot instantiate. `DataLemmas` has the same facts on
sets and functions: a set of numbers has a least one (`LeastNatural`), a set that has
0 and with each number the next has all (`InductionOnNat`), a loop of any number
of turns has one value after each (`IterationExists`), and the folds of the community
modules are such loops (`FoldExists`, `FoldPrefix`). What loops over the hardware
or over a list compute is proved with these. `SelectSeq` is recursive in the standard
module, which the provers do not see through, so that a filter is written as a
recursive function where something is proved of it (`Selection`). `FlattenSeq` is one
in the community modules: its result has each part at its place (`Flattened`).

Only model-checked: liveness (`FlushReturns`, `RequestsAreAnswered`,
`RequestsReturn`), the results of the path search (`ShortestPath`: the bounds of
`Options` and `Search` are those of the instances, so that for larger graphs the
statement would be about the bounds), and what `CameraCapabilities` advertises
(`AdvertisedIsTrue`).

## What is left

What would come next, in this order:

1. `configureStreams` composed with `StreamConfigs`, so that `CameraDevice` runs
   with the streams that were built.
2. Several SSPPs in `DpuPipe`, with the commits of two CRTCs.
3. A proof of what `CameraCapabilities` advertises.

### Not modelled

Image contents and colour arithmetic beyond sizes, Android metadata formats,
tables of constants (sensor properties, filter and colour tables, QoS limits),
fences, the device tree and build files. Whole components: the converter factory
(a list that is filled before `main` and has one entry), the logger (formatting,
and a severity for each category that nothing else reads) and the settings of the
camera application (constants). Of the pipeline handler, matching devices and
propagating formats along the path, which are calls into the kernel; of the
planes, debugfs, sharpening, which is never set up, and version 13, which no
catalogue of the repository has.
