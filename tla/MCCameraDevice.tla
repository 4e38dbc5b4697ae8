--------------------------- MODULE MCCameraDevice ---------------------------
(* Instances of CameraDevice for TLC. *)
EXTENDS CameraDevice

CONSTANTS preview, snapshot, blob

(* A preview stream and a JPEG snapshot mapped onto it ... *)
TwoStreams == {preview, snapshot}
(* ... and beside them a JPEG of another size, made from an internal buffer. *)
ThreeStreams == {preview, snapshot, blob}

MCMapped == {snapshot}
MCSource == [s \in MCMapped |-> preview]
None     == {}
OnlyBlob == {blob}
OneJpeg  == {snapshot}
TwoJpegs == {snapshot, blob}

AllOps    == {"flush", "configure", "close"}
Configure == {"configure"}
=============================================================================
