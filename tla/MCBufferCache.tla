--------------------------- MODULE MCBufferCache ----------------------------
(***************************************************************************)
(* Two processes, two buffers, three blocks: every hit, recycling, pinned  *)
(* buffer and a queue of two requests, and the panic when both are pinned. *)
(***************************************************************************)
EXTENDS BufferCache, TLC
=============================================================================
