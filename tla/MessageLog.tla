----------------------------- MODULE MessageLog ------------------------------
(***************************************************************************)
(* What an asynchronous log promises for the messages given to it, one per *)
(* call: a message is accepted, behind a notice of those lost since the    *)
(* last one, or it is lost and counted.  What has been accepted goes to    *)
(* the file in that order and without gaps, in portions of any size, and   *)
(* what is in the file is put into safe keeping from time to time.         *)
(***************************************************************************)
EXTENDS Integers, Sequences

VARIABLES
  calls,      \* messages given to the log
  lost,       \* messages lost since the last notice
  accepted,   \* messages and notices, in order
  file,       \* what the file has of them
  synced      \* how much of the file is safe

vars == <<calls, lost, accepted, file, synced>>

Message(n) == [kind |-> "message", n |-> n]
Notice(k)  == [kind |-> "lost", n |-> k]
LostNotice == IF lost > 0 THEN <<Notice(lost)>> ELSE <<>>

Init == calls = 0 /\ lost = 0 /\ accepted = <<>> /\ file = <<>> /\ synced = 0

Accept ==
  /\ calls' = calls + 1 /\ lost' = 0
  /\ accepted' = accepted \o LostNotice \o <<Message(calls + 1)>>
  /\ UNCHANGED <<file, synced>>

Lose ==
  /\ calls' = calls + 1 /\ lost' = lost + 1
  /\ UNCHANGED <<accepted, file, synced>>

Write ==
  /\ \E n \in (Len(file) + 1)..Len(accepted) : file' = SubSeq(accepted, 1, n)
  /\ UNCHANGED <<calls, lost, accepted, synced>>

Sync ==
  /\ synced' = Len(file)
  /\ UNCHANGED <<calls, lost, accepted, file>>

Next == Accept \/ Lose \/ Write \/ Sync

Spec == Init /\ [][Next]_vars
=============================================================================
