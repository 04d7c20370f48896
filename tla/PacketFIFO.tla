------------------------------ MODULE PacketFIFO ------------------------------
(***************************************************************************)
(* What a capture instance promises the application, whatever the number   *)
(* of CPUs and the layout of their buffers: packets accepted for capture   *)
(* form one queue; the application receives them whole, once, in that      *)
(* order; a reset of the buffers discards queue and history together; and  *)
(* a packet that is not discarded is received in the end.                  *)
(***************************************************************************)
EXTENDS Naturals, Sequences

CONSTANT Packet       \* what the application can receive

VARIABLES queue, received

Init == queue = << >> /\ received = << >>

\* one more packet at the end, whichever it is
Accept ==
  /\ queue' # << >>
  /\ queue'[Len(queue')] \in Packet
  /\ queue' = Append(queue, queue'[Len(queue')])
  /\ UNCHANGED received

Deliver ==
  /\ queue # << >>
  /\ received' = Append(received, Head(queue))
  /\ queue' = Tail(queue)

Reset == queue' = << >> /\ received' = << >>

Next == Accept \/ Deliver \/ Reset

\* safety alone, and with the promise that nothing stays queued for ever
SafeSpec == Init /\ [][Next]_<<queue, received>>

Spec == SafeSpec /\ WF_<<queue, received>>(Deliver)
===============================================================================
