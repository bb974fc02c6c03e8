---------------------------- MODULE MCMsgBuffer -----------------------------
(* A small instance of MsgBuffer for TLC. *)
EXTENDS NetworkBytes

\* All byte strings of one to three bytes; two byte values show every mix-up.
MCInputs == BoundedSeq(Bytes, 3) \ {<<>>}

\* No operation reads a cell outside head_..tail_, so states that differ only
\* in such left-over cells behave alike and TLC may take them for one.
ReadableView ==
  <<buf.head, buf.tail, buf.initCap, buf.size,
    [i \in (buf.head..(buf.tail - 1)) \cap DOMAIN buf.buffer |-> buf.buffer[i]]>>
=============================================================================
