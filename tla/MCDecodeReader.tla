---------------------------- MODULE MCDecodeReader ----------------------------
(* Small instances of DecodeReader for TLC. *)
EXTENDS DecodeReader
=============================================================================
