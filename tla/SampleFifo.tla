------------------------------ MODULE SampleFifo ------------------------------
(***************************************************************************)
(* What the audio ring promises: samples come out in the order they went   *)
(* in and none comes twice.  Only a lossy queue may forget samples, and    *)
(* then the oldest.  The samples are the numbers 1, 2, 3, ... in the order *)
(* of their production.                                                    *)
(***************************************************************************)
EXTENDS Naturals, Sequences

VARIABLES
  lossy,   \* may samples be dropped?
  last,    \* number of samples written so far
  queue,   \* samples written and not yet read
  played   \* samples delivered to the audio device so far

vars == <<lossy, last, queue, played>>

Init == lossy \in BOOLEAN /\ last = 0 /\ queue = << >> /\ played = << >>

Write(n) ==
  /\ queue' = queue \o [i \in 1 .. n |-> last + i]
  /\ last' = last + n
  /\ UNCHANGED <<lossy, played>>

Drop(n) ==
  /\ lossy
  /\ queue' = SubSeq(queue, n + 1, Len(queue))
  /\ UNCHANGED <<lossy, last, played>>

Read(n) ==
  /\ played' = played \o SubSeq(queue, 1, n)
  /\ queue' = SubSeq(queue, n + 1, Len(queue))
  /\ UNCHANGED <<lossy, last>>

Next ==
  \/ \E n \in 1 .. (last' - last) : Write(n)
  \/ \E n \in 1 .. Len(queue) : Drop(n) \/ Read(n)

Spec == Init /\ [][Next]_vars
=============================================================================
