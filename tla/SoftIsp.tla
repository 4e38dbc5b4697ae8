------------------------------ MODULE SoftIsp ------------------------------
(***************************************************************************)
(* The software ISP (libcamera, converter/converter_softisp.cpp): how a    *)
(* frame of a raw sensor becomes the images of one or more streams.  The   *)
(* threads that demosaic its rows, the rows and columns that are looked at *)
(* and the bytes that are written are modelled, not the values.  White     *)
(* balance, which changes values only, is left out.                        *)
(*                                                                         *)
(* The images go to buffers of the camera framework, whose planes          *)
(* CameraBuffer finds, or to buffers that exportBuffers() made.            *)
(***************************************************************************)
EXTENDS SemiplanarFormats, Integers, Sequences, FiniteSets, SequencesExt

CONSTANTS
  InputFormats,  \* what a sensor may give
  BayerOrder,    \* of each of them that can be read, the colours of a 2x2 block
  InputSizes, OutputSizes,
  MaxOutputs,    \* bound: the streams of a configuration
  MinInput,      \* of an input: 16 in the code
  Align,         \* of a stride: 16 in the code
  One,           \* of a fixed-point number: 65536 in the code
  Other,         \* a format that is none of these
  HalPlanes(_, _) \* the planes [dmabuf, offset, length, stride] of the buffers of the
                  \* framework, of a format and a size

VARIABLES
  order,      \* order_, as the colours of a 2x2 block
  inputSize,  \* inputSize_
  outputs,    \* outputs_: [format, size]
  configured, \* configure() returned 0
  conversion, \* where queueBuffers() is, "announced" after it
  given,      \* its outputs: of some streams a buffer [exported, planes]
  rgb,        \* rgb_: the rows that are of this frame
  row,        \* of each worker the row it is at
  image,      \* of each stream what was written: [what, plane, at, from]
  result      \* ret

ispVars == <<order, inputSize, outputs, configured, conversion, given, rgb, row, image, result>>

-----------------------------------------------------------------------------
(* debayer() *)

colorAt(r, c) == order[2 * (r % 2) + (c % 2) + 1]

InFrame(r, c) == r \in 0..(inputSize.height - 1) /\ c \in 0..(inputSize.width - 1)

(* Mutant: only pixels beside, above and below are looked at. *)
SamplesBeside(r, c, target) ==
  IF colorAt(r, c) = target THEN {<<r, c>>}
  ELSE {p \in {<<r - 1, c>>, <<r + 1, c>>, <<r, c - 1>>, <<r, c + 1>>} :
          InFrame(p[1], p[2]) /\ colorAt(p[1], p[2]) = target}

(* The pixels of the mosaic whose mean is a colour of pixel <<r, c>>. *)
Samples(r, c, target) ==
  IF colorAt(r, c) = target THEN {<<r, c>>}
  ELSE {p \in ((r - 1)..(r + 1)) \X ((c - 1)..(c + 1)) :
          InFrame(p[1], p[2]) /\ colorAt(p[1], p[2]) = target}

workerCount == Min({4, inputSize.height})

(* Mutant: all bands are equally high. *)
FirstEqual(worker) == (inputSize.height \div workerCount) * worker

First(worker) == (inputSize.height * worker) \div workerCount

-----------------------------------------------------------------------------
(* scaleToNv12(), sampleBilinear() *)

(* Mutant: scaled by the lengths. *)
PositionByLength(d, from, to) == (d * from * One) \div to

(* Where output coordinate d lies in the input, as a fixed-point number. *)
Position(d, from, to) ==
  IF to > 1 /\ from > 1 THEN (d * (from - 1) * One) \div (to - 1) ELSE 0

(* The input coordinates that have a weight at a position. *)
Weighted(position, from) ==
  LET x == position \div One
  IN  {x} \cup IF position % One = 0 THEN {} ELSE {Min({x + 1, from - 1})}

From(dy, dx, dst) ==
  Weighted(Position(dy, inputSize.height, dst.height), inputSize.height)
    \X Weighted(Position(dx, inputSize.width, dst.width), inputSize.width)

(* The bytes written for a stream: luma, and a pair of chroma for a block. *)
Writes(cfg, planes) ==
  LET yStride  == IF planes[1].stride # 0 THEN planes[1].stride ELSE cfg.size.width
      uvPlane  == Len(planes)
      uvStart  == IF Len(planes) > 1 THEN 0 ELSE yStride * cfg.size.height
      uvStride == IF Len(planes) > 1 /\ planes[2].stride # 0 THEN planes[2].stride ELSE yStride
      Rows     == 0..(cfg.size.height - 1)
      Columns  == 0..(cfg.size.width - 1)
      Block(dy, dx) == ((dy..(dy + 1)) \cap Rows) \X ((dx..(dx + 1)) \cap Columns)
      Chroma(name, dy, dx, n) ==
        [what |-> <<name, dy \div 2, dx \div 2>>, plane |-> uvPlane,
         at   |-> uvStart + (dy \div 2) * uvStride + dx + n,
         from |-> UNION {From(p[1], p[2], cfg.size) : p \in Block(dy, dx)}]
      Even(s)  == {d \in s : d % 2 = 0}
      first    == IF cfg.format = NV21 THEN "V" ELSE "U"
      second   == IF cfg.format = NV21 THEN "U" ELSE "V"
  IN  {[what |-> <<"Y", dy, dx>>, plane |-> 1, at |-> dy * yStride + dx,
        from |-> From(dy, dx, cfg.size)] : dy \in Rows, dx \in Columns}
      \cup {Chroma(first, dy, dx, 0) : dy \in Even(Rows), dx \in Even(Columns)}
      \cup {Chroma(second, dy, dx, 1) : dy \in Even(Rows), dx \in Even(Columns)}

-----------------------------------------------------------------------------
(* strideAndFrameSize(), exportBuffers() *)

Stride(s) == ((s.width + Align - 1) \div Align) * Align
FrameSize(s) == (Stride(s) * s.height * 3) \div 2

Exported(index) ==
  [exported |-> TRUE,
   planes |-> <<[dmabuf |-> <<"heap", index>>, offset |-> 0,
                 length |-> FrameSize(outputs[index].size), stride |-> 0]>>]

Given(index) ==
  {Exported(index)}
    \cup [exported : {FALSE}, planes : HalPlanes(outputs[index].format, outputs[index].size)]

(* In a 2x2 block of a mosaic is every colour. *)
Mosaics == {m \in [1..4 -> {"R", "G", "B"}] : \A target \in {"R", "G", "B"} : \E i \in 1..4 : m[i] = target}

(* Planes that hold an image, as CameraBuffer tells of them. *)
HoldImage(planes, s) ==
  LET End(i)  == planes[i].offset + planes[i].length
      Rows(i) == IF i = 1 THEN s.height ELSE (s.height + 1) \div 2
      Row(i)  == IF i = 1 THEN s.width ELSE 2 * ((s.width + 1) \div 2)
  IN  /\ DOMAIN planes = 1..2 /\ Len(planes) = 2
      /\ \A i \in 1..2 : /\ planes[i].offset \in Nat /\ planes[i].length \in Nat
                         /\ planes[i].stride \in Nat /\ planes[i].stride >= Row(i)
                         /\ planes[i].length >= planes[i].stride * Rows(i)
      /\ planes[1].dmabuf = planes[2].dmabuf =>
           End(1) <= planes[2].offset \/ End(2) <= planes[1].offset

ASSUME IspAssumption ==
  /\ MinInput \in Nat /\ MinInput >= 2 /\ One \in Nat \ {0}
  /\ Align \in Nat \ {0} /\ Align % 2 = 0
  /\ \A format \in DOMAIN BayerOrder : BayerOrder[format] \in Mosaics
  /\ InputSizes \subseteq [width : Nat, height : Nat]
  /\ OutputSizes \subseteq [width : Nat \ {0}, height : Nat \ {0}]
  /\ \A format \in {NV12, NV21}, s \in OutputSizes :
       \A planes \in HalPlanes(format, s) : HoldImage(planes, s)

-----------------------------------------------------------------------------
IspInit ==
  /\ order = <<"G", "R", "B", "G">> /\ inputSize = [width |-> 0, height |-> 0]
  /\ outputs = <<>> /\ configured = FALSE
  /\ conversion = "idle" /\ given = <<>> /\ rgb = {} /\ row = <<>> /\ image = <<>> /\ result = 0

OutputConfigs == [format : {NV12, NV21, Other}, size : OutputSizes]

(* The streams that are asked for are no larger than the frame. *)
Asked(size) ==
  LET fitting == {cfg \in OutputConfigs :
                    cfg.size.width <= size.width /\ cfg.size.height <= size.height}
  IN  UNION {[1..n -> fitting] : n \in 1..MaxOutputs}

(* bayerOrderFor() *)
Readable(format) == format \in DOMAIN BayerOrder

(* configure() returns at the first thing it cannot do, with what it has set,
   and may be called again.                                                 *)
Configure ==
  /\ conversion = "idle"
  /\ \E format \in InputFormats, size \in InputSizes : \E cfgs \in Asked(size) :
       LET readable == Readable(format)
           large    == size.width >= MinInput /\ size.height >= MinInput
           refused  == {i \in DOMAIN cfgs : cfgs[i].format \notin {NV12, NV21}}
           taken    == IF refused = {} THEN cfgs ELSE SubSeq(cfgs, 1, Min(refused) - 1)
       IN  /\ order' = IF readable THEN BayerOrder[format] ELSE order
           /\ inputSize' = IF readable /\ large THEN size ELSE inputSize
           /\ outputs' = IF readable /\ large THEN taken ELSE outputs
           /\ configured' = (readable /\ large /\ refused = {})
  /\ UNCHANGED <<conversion, given, rgb, row, image, result>>

(* queueBuffers() has a buffer for some streams, and starts the workers.  It
   returns at once where it has none, or the frame cannot be mapped.        *)
QueueBuffers ==
  /\ conversion = "idle" /\ configured
  /\ \E indices \in (SUBSET DOMAIN outputs) \ {{}} :
       \E buffers \in [indices -> UNION {Given(i) : i \in indices}] :
         /\ \A i \in indices : buffers[i] \in Given(i)
         /\ given' = buffers
  /\ conversion' = "debayer" /\ rgb' = {}
  /\ row' = [w \in 0..(workerCount - 1) |-> First(w)]
  /\ image' = <<>> /\ result' = 0
  /\ UNCHANGED <<order, inputSize, outputs, configured>>

(* Worker w does a row of its band. *)
ProcessRow(w) ==
  /\ conversion = "debayer" /\ row[w] < First(w + 1)
  /\ rgb' = rgb \cup {row[w]}
  /\ row' = [row EXCEPT ![w] = @ + 1]
  /\ UNCHANGED <<order, inputSize, outputs, configured, conversion, given, image, result>>

Join ==
  /\ conversion = "debayer" /\ \A w \in DOMAIN row : row[w] = First(w + 1)
  /\ conversion' = "write"
  /\ UNCHANGED <<order, inputSize, outputs, configured, given, rgb, row, image, result>>

Unwritten == DOMAIN given \ DOMAIN image

WriteOutput ==
  /\ conversion = "write" /\ result = 0 /\ Unwritten # {}
  /\ LET index == Min(Unwritten)
     IN  image' = [i \in DOMAIN image \cup {index} |->
                     IF i = index THEN Writes(outputs[i], given[i].planes) ELSE image[i]]
  /\ UNCHANGED <<order, inputSize, outputs, configured, conversion, given, rgb, row, result>>

(* A buffer that cannot be mapped ends the conversion. *)
OutputMapFails ==
  /\ conversion = "write" /\ result = 0 /\ Unwritten # {} /\ result' = -1
  /\ UNCHANGED <<order, inputSize, outputs, configured, conversion, given, rgb, row, image>>

(* All buffers are announced as ready, also those that were not written. *)
Announce ==
  /\ conversion = "write" /\ (result # 0 \/ Unwritten = {})
  /\ conversion' = "announced"
  /\ UNCHANGED <<order, inputSize, outputs, configured, given, rgb, row, image, result>>

ReturnFromQueue ==
  /\ conversion = "announced" /\ conversion' = "idle"
  /\ given' = <<>> /\ rgb' = {} /\ row' = <<>> /\ image' = <<>> /\ result' = 0
  /\ UNCHANGED <<order, inputSize, outputs, configured>>

IspNext ==
  \/ Configure \/ QueueBuffers
  \/ \E w \in DOMAIN row : ProcessRow(w)
  \/ Join \/ WriteOutput \/ OutputMapFails \/ Announce \/ ReturnFromQueue
IspSpec == IspInit /\ [][IspNext]_ispVars

-----------------------------------------------------------------------------
(* The bytes that the reader of a buffer takes a sample from. *)
ReadAt(cfg, buffer, what) ==
  LET Row(plane) == IF buffer.exported THEN Stride(cfg.size) ELSE buffer.planes[plane].stride
      start      == IF buffer.exported THEN Stride(cfg.size) * cfg.size.height ELSE 0
      second     == (what[1] = "U") = (cfg.format = NV21)
  IN  IF what[1] = "Y" THEN what[2] * Row(1) + what[3]
      ELSE start + what[2] * Row(2) + 2 * what[3] + IF second THEN 1 ELSE 0

(* A buffer of exportBuffers() has no room for half a row of chroma, and its
   rows are written without the padding that the stride tells of.           *)
Odd(cfg) == cfg.size.height % 2 = 1 \/ cfg.size.width % Align # 0

(* The nearest input coordinates to where an output coordinate should lie,
   which is d * (from - 1) / (to - 1).                                      *)
Near(d, from, to) ==
  IF to = 1 \/ from = 1 THEN {0}
  ELSE {x \in 0..(from - 1) : LET off == d * (from - 1) - x * (to - 1)
                              IN  off < to - 1 /\ -off < to - 1}

(* Without an error every announced image is whole, however the workers are
   scheduled: it is made of rows of this frame alone; each of their pixels has
   all three colours; each sample of the image is there, made of what is next
   to its place in the frame, in a byte of its own within its plane, where the
   reader of the buffer takes it from (queueBuffers).                       *)
ImageIsWhole ==
  conversion = "announced" /\ result = 0 =>
    /\ rgb = 0..(inputSize.height - 1)
    /\ \A r \in rgb, c \in 0..(inputSize.width - 1), target \in {"R", "G", "B"} :
         Samples(r, c, target) # {}
    /\ \A i \in DOMAIN given : ~(given[i].exported /\ Odd(outputs[i])) =>
         LET cfg    == outputs[i]
             planes == given[i].planes
             Byte(w) == <<planes[w.plane].dmabuf, planes[w.plane].offset + w.at>>
             luma   == {"Y"} \X (0..(cfg.size.height - 1)) \X (0..(cfg.size.width - 1))
             chroma == {"U", "V"} \X (0..((cfg.size.height - 1) \div 2))
                                  \X (0..((cfg.size.width - 1) \div 2))
         IN  /\ {w.what : w \in image[i]} = luma \cup chroma
             /\ Cardinality({Byte(w) : w \in image[i]}) = Cardinality(luma \cup chroma)
             /\ \A w \in image[i] :
                  /\ w.at < planes[w.plane].length
                  /\ w.at = ReadAt(cfg, given[i], w.what)
                  /\ w.what[1] = "Y" =>
                       w.from \subseteq Near(w.what[2], inputSize.height, cfg.size.height)
                                          \X Near(w.what[3], inputSize.width, cfg.size.width)
                  /\ w.from # {}
=============================================================================
