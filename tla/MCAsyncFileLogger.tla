------------------------ MODULE MCAsyncFileLogger ---------------------------
(* Small instances of AsyncFileLogger for TLC. *)
EXTENDS AsyncFileLogger

\* Queue of QueueLimit + 1, the same again being written, and three single roles.
MCBuffers == 1..(2 * (QueueLimit + 1) + 3)
=============================================================================
