------------------------- MODULE MCLoggingPipeline ---------------------------
(* Small instances of LoggingPipeline for TLC. *)
EXTENDS LoggingPipeline

\* Queue of QueueLimit + 1, the same again being written, and three single roles.
MCBuffers == 1..(2 * (QueueLimit + 1) + 3)
=============================================================================
