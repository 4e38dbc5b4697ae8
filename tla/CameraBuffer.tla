---------------------------- MODULE CameraBuffer ----------------------------
(***************************************************************************)
(* Where the planes of a buffer of the camera framework lie: CameraBuffer  *)
(* (libcamera, android/mm/generic_camera_buffer.cpp), which finds it out,  *)
(* and CameraDevice::createFrameBuffer(), which tells it to libcamera.     *)
(*                                                                         *)
(* A buffer has file descriptors, of which several may be of one dmabuf,   *)
(* and may come with the description that the minigbm gralloc allocator    *)
(* adds to its handles.                                                    *)
(***************************************************************************)
EXTENDS Integers, Sequences, FiniteSets, SequencesExt

CONSTANTS
  Buffers(_, _), \* the buffers that there may be for a pixel format and a size:
                 \* [fds, dmabuf, length, gralloc], dmabuf of each descriptor, length
                 \* of each dmabuf, -1 if it cannot be found out, and gralloc as a
                 \* sequence of planes [fd, stride, offset, size] or None
  BufferSizes,
  None, Semiplanar, Mjpeg

VARIABLES
  camera3Buffer, pixelFormat, size, \* the arguments of the constructor
  bufferState, \* "new", "built", "refused" with an error, "mapped", or "unmapped"
               \* where that failed
  buffer,  \* [error, layoutFromGralloc, perPlaneFds, fd, planeInfo]
  planes   \* planes_: the mapped planes as [dmabuf, offset, size]

bufferVars == <<camera3Buffer, pixelFormat, size, bufferState, buffer, planes>>

-----------------------------------------------------------------------------
(* PixelFormatInfo, of the formats with two planes, the second with half the
   rows, and of JPEG.                                                       *)
NumPlanes(format) == IF format \in Semiplanar THEN 2 ELSE 1

StrideOf(format, s) == IF format \in Semiplanar THEN ((s.width + 1) \div 2) * 2 ELSE s.width

PlaneSize(format, s, i) ==
  StrideOf(format, s) * IF i = 2 THEN (s.height + 1) \div 2 ELSE s.height

-----------------------------------------------------------------------------
LengthOf(b, fd) == b.length[b.dmabuf[fd]]

GrallocLayoutValid(b, format) ==
  /\ b.gralloc # None
  /\ Len(b.gralloc) = NumPlanes(format)
  /\ \A i \in DOMAIN b.gralloc :
       b.gralloc[i].fd >= 0 /\ b.gralloc[i].stride # 0 /\ b.gralloc[i].size # 0

FromGralloc(b) ==
  [error |-> LengthOf(b, b.gralloc[1].fd) < 0,
   layoutFromGralloc |-> TRUE, perPlaneFds |-> FALSE,
   fd |-> b.gralloc[1].fd, planeInfo |-> b.gralloc]

(* The descriptors that there are, each once. *)
Fds(b) ==
  FoldLeft(LAMBDA fds, fd : IF fd < 0 \/ fd \in ToSet(fds) THEN fds ELSE Append(fds, fd),
           <<>>, b.fds)

PerPlaneFds(b, format) == NumPlanes(format) > 1 /\ Len(Fds(b)) >= NumPlanes(format)

OffsetOf(b, format, s, i) ==
  IF i = 2 /\ ~PerPlaneFds(b, format) THEN PlaneSize(format, s, 1) ELSE 0

PlaneFd(b, format, i) == IF PerPlaneFds(b, format) THEN Fds(b)[i] ELSE Fds(b)[1]

(* A plane that is larger than what is left of its dmabuf is cut. *)
Room(b, format, s, i) == LengthOf(b, PlaneFd(b, format, i)) - OffsetOf(b, format, s, i)

(* Mutant: a plane is as large as the format says, whatever its dmabuf holds. *)
PlaneUncut(b, format, s, i) ==
  [fd |-> PlaneFd(b, format, i), stride |-> StrideOf(format, s),
   offset |-> OffsetOf(b, format, s, i), size |-> PlaneSize(format, s, i)]

PlaneFromFormat(b, format, s, i) ==
  [fd |-> PlaneFd(b, format, i), stride |-> StrideOf(format, s),
   offset |-> OffsetOf(b, format, s, i),
   size |-> Min({PlaneSize(format, s, i), Room(b, format, s, i)})]

FromFormat(b, format, s) ==
  IF Fds(b) = <<>> THEN [error |-> TRUE]
  ELSE [error |-> \E i \in 1..NumPlanes(format) : Room(b, format, s, i) <= 0,
        layoutFromGralloc |-> FALSE, perPlaneFds |-> PerPlaneFds(b, format),
        fd |-> Fds(b)[1],
        planeInfo |-> [i \in 1..NumPlanes(format) |-> PlaneFromFormat(b, format, s, i)]]

Constructed(b, format, s) ==
  IF GrallocLayoutValid(b, format) THEN FromGralloc(b) ELSE FromFormat(b, format, s)

(* createFrameBuffer(): the planes that libcamera is told of. *)
FrameBuffer(b, format, s) ==
  LET built == Constructed(b, format, s)
  IN  [i \in DOMAIN built.planeInfo |->
         [dmabuf |-> b.dmabuf[built.planeInfo[i].fd],
          offset |-> built.planeInfo[i].offset,
          length |-> built.planeInfo[i].size,
          stride |-> built.planeInfo[i].stride]]

(* Descriptors are numbers, images are not empty, and what gralloc describes is
   there.                                                                   *)
ASSUME HandleAssumption ==
  /\ BufferSizes \subseteq [width : Nat \ {0}, height : Nat \ {0}]
  /\ Mjpeg \notin Semiplanar
  /\ \A format \in Semiplanar \cup {Mjpeg}, s \in BufferSizes : \A b \in Buffers(format, s) :
       /\ b.fds \in Seq(Int)
       /\ \A fd \in ToSet(Fds(b)) : LengthOf(b, fd) \in Int
       /\ b.gralloc # None => DOMAIN b.gralloc = 1..Len(b.gralloc)
       /\ GrallocLayoutValid(b, format) /\ ~FromGralloc(b).error =>
            LET told   == FrameBuffer(b, format, s)
                End(i) == told[i].offset + told[i].length
            IN  /\ \A i \in DOMAIN told :
                     told[i].length > 0 /\ End(i) <= b.length[told[i].dmabuf]
                /\ \A i, j \in DOMAIN told :
                     i < j /\ told[i].dmabuf = told[j].dmabuf =>
                       End(i) <= told[j].offset \/ End(j) <= told[i].offset

-----------------------------------------------------------------------------
BufferInit ==
  /\ pixelFormat \in Semiplanar \cup {Mjpeg} /\ size \in BufferSizes
  /\ camera3Buffer \in Buffers(pixelFormat, size)
  /\ bufferState = "new" /\ buffer = None /\ planes = <<>>

(* Nobody uses a buffer that is not valid: createFrameBuffer() has a fatal
   message, and the post-processors fail.                                   *)
Construct ==
  /\ bufferState = "new"
  /\ buffer' = Constructed(camera3Buffer, pixelFormat, size)
  /\ bufferState' = IF buffer'.error THEN "refused" ELSE "built"
  /\ UNCHANGED <<camera3Buffer, pixelFormat, size, planes>>

(* plane(): everything is mapped when the first plane is asked for, through the
   first descriptor.                                                        *)
Map ==
  /\ bufferState \in {"built", "unmapped"}
  /\ ~(buffer.perPlaneFds /\ ~buffer.layoutFromGralloc)
  /\ planes' = [i \in DOMAIN buffer.planeInfo |->
                  [dmabuf |-> camera3Buffer.dmabuf[buffer.fd],
                   offset |-> buffer.planeInfo[i].offset,
                   size   |-> buffer.planeInfo[i].size]]
  /\ bufferState' = "mapped"
  /\ UNCHANGED <<camera3Buffer, pixelFormat, size, buffer>>

MapFails ==
  /\ bufferState \in {"built", "unmapped"} /\ bufferState' = "unmapped"
  /\ ~(buffer.perPlaneFds /\ ~buffer.layoutFromGralloc)
  /\ buffer' = [buffer EXCEPT !.error = TRUE]
  /\ UNCHANGED <<camera3Buffer, pixelFormat, size, planes>>

BufferNext == Construct \/ Map \/ MapFails
BufferSpec == BufferInit /\ [][BufferNext]_bufferVars

-----------------------------------------------------------------------------
(* Two descriptors of one dmabuf are told apart only by gralloc. *)
Ambiguous == /\ ~GrallocLayoutValid(camera3Buffer, pixelFormat)
             /\ Cardinality({camera3Buffer.dmabuf[fd] : fd \in ToSet(Fds(camera3Buffer))})
                  < Len(Fds(camera3Buffer))

(* All planes have room in the only dmabuf, or each in one of its own. *)
HasRoom ==
  LET fds     == Fds(camera3Buffer)
      Size(i) == PlaneSize(pixelFormat, size, i)
      n       == NumPlanes(pixelFormat)
  IN  /\ fds # <<>>
      /\ IF n = 1 \/ Len(fds) = 1
         THEN LengthOf(camera3Buffer, fds[1]) >= Size(1) + IF n = 2 THEN Size(2) ELSE 0
         ELSE \A i \in 1..n : LengthOf(camera3Buffer, fds[i]) >= Size(i)

(* However the descriptors are shared and however long the dmabufs are, the
   planes of a valid buffer lie within their dmabuf and apart from each other,
   those that have room are not cut, and those that are mapped are those that
   libcamera is told of, where one dmabuf holds them all (CameraBuffer,
   createFrameBuffer).                                                      *)
PlanesFit ==
  bufferState # "new" /\ ~Ambiguous =>
    LET told    == FrameBuffer(camera3Buffer, pixelFormat, size)
        End(i)  == told[i].offset + told[i].length
        gralloc == GrallocLayoutValid(camera3Buffer, pixelFormat)
    IN  /\ ~buffer.error =>
             /\ \A i \in DOMAIN told :
                  told[i].length > 0 /\ End(i) <= camera3Buffer.length[told[i].dmabuf]
             /\ \A i, j \in DOMAIN told :
                  i < j /\ told[i].dmabuf = told[j].dmabuf =>
                    End(i) <= told[j].offset \/ End(j) <= told[i].offset
        /\ ~gralloc /\ HasRoom =>
             /\ bufferState # "refused"
             /\ \A i \in DOMAIN told : told[i].length = PlaneSize(pixelFormat, size, i)
        /\ bufferState = "mapped" /\ (\A i \in DOMAIN told : told[i].dmabuf = told[1].dmabuf) =>
             \A i \in DOMAIN told :
               planes[i] = [dmabuf |-> told[i].dmabuf, offset |-> told[i].offset,
                            size |-> told[i].length]
=============================================================================
