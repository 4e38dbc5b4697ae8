--------------------------- MODULE StreamConfigs ---------------------------
(***************************************************************************)
(* How CameraDevice::configureStreams() (libcamera, android/               *)
(* camera_device.cpp) makes libcamera's stream configurations and the      *)
(* HAL's own streams of the streams that the Android framework asks for:   *)
(* buildStreamConfigsNoMap(), which it calls, and                          *)
(* buildStreamConfigsDefault() with sortCamera3StreamConfigs(), which is   *)
(* built beside it to take its place.  CameraDevice takes the result as    *)
(* its constants Mapped, Internal and Source.                              *)
(*                                                                         *)
(* Sizes and pixel formats are numbers, in the orders of Size and          *)
(* PixelFormat.  A stream's usage is the set of the bits that are looked   *)
(* at; those that are set for gralloc are left out.                        *)
(***************************************************************************)
EXTENDS SemiplanarFormats, Integers, Sequences, FiniteSets, SequencesExt, Selection

CONSTANTS
  RequestedStreams, \* what a stream may be: [format, size, usage]
  MaxStreams,       \* bound: the streams of a request
  ToPixelFormat     \* capabilities.toPixelFormat()

CONSTANTS Blob, Ycbcr   \* HAL_PIXEL_FORMAT_BLOB, HAL_PIXEL_FORMAT_YCbCr_420_888

ASSUME RequestedAssumption ==
  /\ ToPixelFormat \in [DOMAIN ToPixelFormat -> Int] /\ NV12 \in Int
  /\ Blob \in DOMAIN ToPixelFormat
  /\ \A s \in RequestedStreams : s.format \in DOMAIN ToPixelFormat /\ s.size \in Int
  /\ MaxStreams \in Nat

VARIABLES
  list,     \* stream_list
  builder,  \* the function that makes streamConfigs
  configs,  \* streamConfigs: [streams, size, format, role], streams as [stream, type]
  built,    \* "no", "yes" or "refused" with -EINVAL
  streams   \* streams_: of each stream of the request the type, its source or 0
            \* for nullptr, and the index of its configuration

streamsVars == <<list, builder, configs, built, streams>>

-----------------------------------------------------------------------------
IsJpeg(i) == list[i].format = Blob

Indices == [i \in DOMAIN list |-> i]
Jpegs   == Selected(Indices, {i \in DOMAIN list : IsJpeg(i)})
Others  == Selected(Indices, {i \in DOMAIN list : ~IsJpeg(i)})

ConfigFor(i, type, format, role) ==
  [streams |-> <<[stream |-> i, type |-> type]>>,
   size    |-> list[i].size,
   format  |-> format,
   role    |-> role]

MapOnto(config, i) ==
  [config EXCEPT !.streams = Append(@, [stream |-> i, type |-> "Mapped"])]

(* A stream is mapped onto the first of its hosts, or has a configuration. *)
Place(sofar, hosts, i, config) ==
  IF hosts # {} THEN [sofar EXCEPT ![Min(hosts)] = MapOnto(@, i)] ELSE Append(sofar, config)

IsPreview(i)     == "preview" \in list[i].usage
IsVideo(i)       == "video" \in list[i].usage
HasStillFlag(i)  == "still" \in list[i].usage
IsYuvSnapshot(i) == ~IsVideo(i) /\ ~IsPreview(i) /\ list[i].format = Ycbcr

(* In the order in which the code asks. *)
Role(i) ==
  IF HasStillFlag(i) THEN "StillCapture"
  ELSE IF IsYuvSnapshot(i) THEN "YuvSnapshot"
  ELSE IF IsVideo(i) /\ ~IsPreview(i) THEN "VideoRecording"
  ELSE "Viewfinder"

-----------------------------------------------------------------------------
(* buildStreamConfigsNoMap() *)

(* Mutant: the search goes on after a stream to map a JPEG onto was found. *)
AddJpegToAll(sofar, i) ==
  LET hosts == {k \in DOMAIN sofar : /\ sofar[k].role = "StillCapture"
                                     /\ list[sofar[k].streams[1].stream].size = list[i].size}
  IN  IF hosts # {} THEN [k \in DOMAIN sofar |-> IF k \in hosts THEN MapOnto(sofar[k], i) ELSE sofar[k]]
      ELSE Append(sofar, ConfigFor(i, "Internal", ToPixelFormat[Blob], "StillCapture"))

(* Mutant: a JPEG is mapped onto a stream of any size. *)
AddJpegOfAnySize(sofar, i) ==
  LET hosts == {k \in DOMAIN sofar : sofar[k].role = "StillCapture"}
  IN  Place(sofar, hosts, i, ConfigFor(i, "Internal", ToPixelFormat[Blob], "StillCapture"))

(* A JPEG is made from the first still capture stream of its size, or gets a
   configuration of its own.                                                *)
AddJpeg(sofar, i) ==
  LET hosts == {k \in DOMAIN sofar : /\ sofar[k].role = "StillCapture"
                                     /\ list[sofar[k].streams[1].stream].size = list[i].size}
  IN  Place(sofar, hosts, i, ConfigFor(i, "Internal", ToPixelFormat[Blob], "StillCapture"))

Stills(cs) == {k \in DOMAIN cs : cs[k].role = "StillCapture"}

(* Mutant: the loop does not stop at two. *)
LimitAllStills(cs) ==
  [k \in DOMAIN cs |->
     IF Cardinality(Stills(cs)) > 2 /\ k \in Stills(cs) /\ ~IsJpeg(cs[k].streams[1].stream)
     THEN [cs[k] EXCEPT !.role = "Viewfinder"] ELSE cs[k]]

(* The first of more than two still captures, JPEGs excepted, become
   viewfinders, until two are left.                                         *)
LimitStills(cs) ==
  LET movable == {k \in Stills(cs) : ~IsJpeg(cs[k].streams[1].stream)}
      moved   == {k \in movable :
                    Cardinality({j \in movable : j < k}) < Cardinality(Stills(cs)) - 2}
  IN  [k \in DOMAIN cs |-> IF k \in moved THEN [cs[k] EXCEPT !.role = "Viewfinder"] ELSE cs[k]]

BuildNoMap ==
  LimitStills(FoldLeft(AddJpeg,
                       [k \in DOMAIN Others |->
                          ConfigFor(Others[k], "Direct",
                                    ToPixelFormat[list[Others[k]].format], Role(Others[k]))],
                       Jpegs))

-----------------------------------------------------------------------------
(* sortCamera3StreamConfigs() *)

LargestConfig(cs, ks) == CHOOSE k \in ks : \A j \in ks : cs[j].size <= cs[k].size

(* Where a configuration comes among those of its format, the largest first. *)
Round(cs, ks, k) ==
  Cardinality({j \in ks : cs[j].format = cs[k].format /\ cs[j].size > cs[k].size})

(* The largest of each format in the order of the formats, then the next ones. *)
Before(cs, ks, j, k) ==
  \/ Round(cs, ks, j) < Round(cs, ks, k)
  \/ Round(cs, ks, j) = Round(cs, ks, k) /\ cs[j].format < cs[k].format

(* The rest, in this order. *)
Rounds(cs, ks) ==
  [n \in 1..Cardinality(ks) |->
     CHOOSE k \in ks : Cardinality({j \in ks : Before(cs, ks, j, k)}) = n - 1]

(* Mutant: the NV12 configuration for JPEG never goes before the others. *)
OrderNv12First(cs, jpeg) ==
  LET nv12 == {k \in DOMAIN cs \ jpeg : cs[k].format = NV12}
      top  == IF nv12 = {} THEN {} ELSE {LargestConfig(cs, nv12)}
  IN  SetToSeq(top) \o SetToSeq(jpeg) \o Rounds(cs, DOMAIN cs \ (jpeg \cup top))

(* jpeg holds the configuration with the JPEG stream, if there is one. *)
Order(cs, jpeg) ==
  LET nv12  == {k \in DOMAIN cs \ jpeg : cs[k].format = NV12}
      top   == IF nv12 = {} THEN {} ELSE {LargestConfig(cs, nv12)}
      ahead == \E j \in jpeg, t \in top : cs[j].format = NV12 /\ cs[t].size < cs[j].size
  IN  (IF ahead THEN SetToSeq(jpeg) \o SetToSeq(top) ELSE SetToSeq(top) \o SetToSeq(jpeg))
        \o Rounds(cs, DOMAIN cs \ (jpeg \cup top))

Sorted(cs) ==
  LET jpeg  == {k \in DOMAIN cs : \E s \in ToSet(cs[k].streams) : IsJpeg(s.stream)}
      order == Order(cs, jpeg)
  IN  [n \in DOMAIN order |-> cs[order[n]]]

-----------------------------------------------------------------------------
(* buildStreamConfigsDefault() *)

(* A stream of a size and format that there is already is mapped onto it. *)
AddOther(sofar, i) ==
  LET format == ToPixelFormat[list[i].format]
      same   == {k \in DOMAIN sofar : sofar[k].size = list[i].size /\ sofar[k].format = format}
  IN  Place(sofar, same, i, ConfigFor(i, "Direct", format, "none"))

AddJpegByNv12(sofar, i) ==
  LET hosts == {k \in DOMAIN sofar : sofar[k].size = list[i].size}
  IN  Place(sofar, hosts, i, ConfigFor(i, "Internal", NV12, "none"))

BuildDefault == Sorted(FoldLeft(AddJpegByNv12, FoldLeft(AddOther, <<>>, Others), Jpegs))

-----------------------------------------------------------------------------
StreamsInit ==
  /\ list = <<>> /\ builder \in {"NoMap", "Default"}
  /\ configs = <<>> /\ built = "no" /\ streams = <<>>

(* The framework asks for streams (once: nothing of an earlier configuration is
   read), ...                                                               *)
Request ==
  /\ list = <<>>
  /\ list' \in UNION {[1..n -> RequestedStreams] : n \in 1..MaxStreams}
  /\ UNCHANGED <<builder, configs, built, streams>>

(* ... configureStreams() makes configurations of them ... *)
Build ==
  /\ list # <<>> /\ built = "no"
  /\ \/ /\ builder = "NoMap"
        /\ configs' = BuildNoMap /\ built' = "yes"
     \/ /\ builder = "Default" /\ Len(Jpegs) <= 1
        /\ configs' = BuildDefault /\ built' = "yes"
     \/ /\ builder = "Default" /\ Len(Jpegs) > 1
        /\ built' = "refused" /\ UNCHANGED configs
  /\ UNCHANGED <<list, builder, streams>>

(* The streams of a configuration and what they are made from: sourceStream is
   the last Direct one that went before.                                    *)
CameraStreams(config, k) ==
  {<<config.streams[n].stream,
     [type   |-> config.streams[n].type,
      source |-> LET direct == {m \in 1..(n - 1) : config.streams[m].type = "Direct"}
                 IN  IF direct = {} THEN 0 ELSE config.streams[Max(direct)].stream,
      index  |-> k]>> : n \in DOMAIN config.streams}

(* ... and its own streams. *)
CreateStreams ==
  /\ built = "yes" /\ streams = <<>>
  /\ LET made == UNION {CameraStreams(configs[k], k) : k \in DOMAIN configs}
     IN  streams' = [i \in DOMAIN list |-> {s[2] : s \in {m \in made : m[1] = i}}]
  /\ UNCHANGED <<list, builder, configs, built>>

StreamsNext == Request \/ Build \/ CreateStreams
StreamsSpec == StreamsInit /\ [][StreamsNext]_streamsVars

-----------------------------------------------------------------------------
(* The order of the configurations, as its comment has it: the largest of NV12
   comes first, be it there for a JPEG or not, the one for JPEG at most behind
   it, and of the others of a format a larger one never after a smaller one
   (sortCamera3StreamConfigs).                                              *)
SortRule ==
  LET jpeg == {k \in DOMAIN configs : \E s \in ToSet(configs[k].streams) : IsJpeg(s.stream)}
      nv12 == {k \in DOMAIN configs : configs[k].format = NV12}
  IN  /\ nv12 # {} => 1 \in nv12 /\ \A k \in nv12 : configs[k].size <= configs[1].size
      /\ jpeg \subseteq {1, 2}
      /\ \A j, k \in DOMAIN configs \ jpeg :
           j < k /\ configs[j].format = configs[k].format => configs[j].size > configs[k].size

(* Of the still captures of a request with one JPEG at most, the two that the
   hardware supports are left when there were more, and all when there were
   not (buildStreamConfigsNoMap).                                           *)
TwoStillsAtMost ==
  LET asked  == {i \in DOMAIN list : ~IsJpeg(i) /\ "still" \in list[i].usage}
      hosted == \E i \in asked : \E j \in ToSet(Jpegs) : list[i].size = list[j].size
      wanted == Cardinality(asked) + IF Len(Jpegs) = 1 /\ ~hosted THEN 1 ELSE 0
  IN  Cardinality(Stills(configs)) = Min({wanted, 2})

(* However many JPEGs, equal sizes and still captures there are among them,
   each stream of the framework becomes one stream of the HAL, of exactly one
   configuration (configureStreams: priv has a single value).  With no more
   than the one JPEG that the static metadata promise, every mapped stream has
   a direct stream of its own size to be made from, as processCaptureRequest()
   asserts when a request with it comes, and the stills are limited as above;
   where the other builder is used, its order holds.                        *)
EachStreamIsMade ==
  /\ \A i \in DOMAIN streams : Cardinality(streams[i]) = 1
  /\ Len(Jpegs) <= 1 =>
       \A i \in DOMAIN streams : \A s \in streams[i] :
         s.type = "Mapped" => /\ s.source # 0
                              /\ \A d \in streams[s.source] : d.type = "Direct" /\ d.index = s.index
                              /\ list[s.source].size = list[i].size
  /\ built = "yes" /\ builder = "NoMap" /\ Len(Jpegs) <= 1 => TwoStillsAtMost
  /\ built = "yes" /\ builder = "Default" => SortRule
=============================================================================
