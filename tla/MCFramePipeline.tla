--------------------------- MODULE MCFramePipeline ---------------------------
(* An instance of FramePipeline for TLC.                                   *)
EXTENDS FramePipeline

Encodings == {"rgb8", "bgr8", "bgra8", "rgba8", "mono8", "uc1", "yuv422", "uc3"}
=============================================================================
