----------------------------- MODULE MCShmPipe ------------------------------
(* ShmPipe on a small ring: two payload bytes, messages of up to 2 bytes.  *)
EXTENDS ShmPipe

CONSTANTS a, b

MCByte == {a, b}
MCMsg  == {<< >>, <<a>>, <<a, b>>}
=============================================================================
