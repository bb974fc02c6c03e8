---------------------------- MODULE MCMpscQueue -----------------------------
(* Small instances of MpscQueue for TLC. *)
EXTENDS MpscQueue

\* A node per item and the stub: allocation never fails, and any address that
\* was deleted may be the next to be used.
MCNodes == 1..(MaxItems + 1)
=============================================================================
