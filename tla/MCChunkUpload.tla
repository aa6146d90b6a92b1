---------------------------- MODULE MCChunkUpload ----------------------------
(***************************************************************************)
(* The smallest instance of ChunkUpload: one device, one chunk of two      *)
(* parts.  MCDevices has the one with two of each.                         *)
(***************************************************************************)
EXTENDS ChunkUpload

CONSTANTS d1, c1

OneDevice == {d1}
OneChunk == {c1}
=============================================================================
