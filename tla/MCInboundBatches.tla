--------------------------- MODULE MCInboundBatches ---------------------------
(***************************************************************************)
(* A small instance of inbound batches: two messages, hence two batches at *)
(* most, and two processes of the runtime.                                 *)
(***************************************************************************)
EXTENDS InboundBatches
=============================================================================
