-------------------------- MODULE KernelBuffer_proof --------------------------
(***************************************************************************)
(* Lemmas about the arithmetic of the kernel buffer, for every size of the *)
(* ring and of PacketHeader, and the agreement of the five ways in which   *)
(* NPF_tap moves the producer over a packet.                               *)
(***************************************************************************)
EXTENDS KernelBuffer, TLAPS

\* positions a header can have in a ring of size bytes
HeaderPositions(size) == 0 .. size - HdrSize

-------------------------------------------------------------------------------
(* A packet that fits ends inside the ring, takes at least its own bytes,  *)
(* and the next header position is one a header fits at.                   *)
LEMMA PacketBounds ==
  ASSUME NEW size \in Nat, NEW p \in HeaderPositions(size), NEW n \in Nat,
         n + HdrSize <= size
  PROVE  /\ EndOfPacket(p, n, size) \in 0 .. size
         /\ PacketCost(p, n, size) \in n + HdrSize .. n + HdrSize + HdrSize
         /\ PacketCost(p, n, size) \in Nat
         /\ NextPacket(p, n, size) \in HeaderPositions(size)
  BY HdrSizeAssumption DEF HeaderPositions, EndOfPacket, PacketCost, NextPacket,
     AfterHeader, AfterData, SkipTail, InTail, Increment

(* The bytes of a packet end AfterHeader + n further on, round the ring.   *)
LEMMA NextIsCostAhead ==
  ASSUME NEW size \in Nat, NEW p \in HeaderPositions(size), NEW n \in Nat,
         n + HdrSize <= size
  PROVE  NextPacket(p, n, size) \in {p + PacketCost(p, n, size),
                                     p + PacketCost(p, n, size) - size}
  BY HdrSizeAssumption DEF HeaderPositions, EndOfPacket, PacketCost, NextPacket,
     AfterHeader, AfterData, SkipTail, InTail, Increment

(* A packet whose bytes fit in the free part of the ring fits there with   *)
(* the tail it makes everyone skip: base is where the used part starts, a  *)
(* position where a header fits, so it is never inside the tail.           *)
LEMMA TailFits ==
  ASSUME NEW size \in Nat, NEW base \in HeaderPositions(size),
         NEW used \in 0 .. size, NEW n \in Nat,
         NEW p \in HeaderPositions(size), p \in {base + used, base + used - size},
         used + n + HdrSize <= size
  PROVE  used + PacketCost(p, n, size) <= size
  BY HdrSizeAssumption DEF HeaderPositions, EndOfPacket, PacketCost,
     AfterHeader, AfterData, InTail, Increment

-------------------------------------------------------------------------------
(* A region that starts cost bytes further on: offsets keep positions.     *)
LEMMA PositionKept ==
  ASSUME NEW s \in Nat, NEW o \in HeaderPositions(s), NEW cost \in 0 .. s,
         NEW o2 \in HeaderPositions(s), o2 \in {o + cost, o + cost - s},
         NEW d \in cost .. s
  PROVE  At(o2, d - cost, s) = At(o, d, s)
  BY HdrSizeAssumption DEF HeaderPositions, At

(* Positions further on from a position further on.                        *)
LEMMA AtAt ==
  ASSUME NEW s \in Nat, NEW p \in 0 .. s - 1, NEW x \in Nat, NEW y \in Nat,
         x + y < s
  PROVE  /\ At(At(p, x, s), y, s) = At(p, x + y, s)
         /\ At(p, x, s) \in 0 .. s - 1
  BY DEF At

\* A cell x places after p is x places ahead of p, counted round the ring.
LEMMA AheadAt ==
  ASSUME NEW s \in Nat, NEW p \in 0 .. s - 1, NEW x \in 0 .. s,
         NEW q \in 0 .. s - 1
  PROVE  /\ Ahead(p, q, s) \in 0 .. s - 1
         /\ At(p, Ahead(p, q, s), s) = q
         /\ Ahead(At(p, x, s), q, s)
              = IF Ahead(p, q, s) >= x THEN Ahead(p, q, s) - x
                                       ELSE Ahead(p, q, s) - x + s
  BY DEF At, Ahead

\* At and Ahead are inverse: the cell d places on is d places ahead.
LEMMA AheadOfAt ==
  ASSUME NEW s \in Nat, NEW p \in 0 .. s - 1, NEW d \in 0 .. s - 1
  PROVE  Ahead(p, At(p, d, s), s) = d /\ At(p, d, s) \in 0 .. s - 1
  BY DEF At, Ahead

(* The used part of the ring is far ahead of the producer.                 *)
LEMMA UsedIsFarAhead ==
  ASSUME NEW s \in Nat, NEW o \in 0 .. s - 1, NEW used \in 0 .. s - 1,
         NEW x \in 0 .. used - 1
  PROVE  /\ Ahead(At(o, used, s), At(o, x, s), s) = s - used + x
         /\ At(o, x, s) \in 0 .. s - 1
  BY DEF At, Ahead

(* The bytes of a packet start HdrSize bytes after its header.             *)
LEMMA AfterHeaderIsAhead ==
  ASSUME NEW s \in Nat, NEW p \in HeaderPositions(s)
  PROVE  AfterHeader(p, s) = At(p, HdrSize, s)
  BY HdrSizeAssumption DEF HeaderPositions, AfterHeader, At

(* The split copy of NPF_tap ends where the plain copy does.               *)
THEOREM SplitCopyAgrees ==
  ASSUME NEW size \in Nat, NEW p \in HeaderPositions(size), NEW n \in Nat,
         n + HdrSize <= size, NEW hb \in 0 .. n
  PROVE  SplitCopy(AfterHeader(p, size), hb, n, size) = EndOfPacket(p, n, size)
  BY HdrSizeAssumption DEF HeaderPositions, EndOfPacket, AfterHeader, AfterData,
     SplitCopy

(* So do the staged copies followed by NdisTransferData.                   *)
THEOREM TransferAgrees ==
  ASSUME NEW size \in Nat, NEW p \in HeaderPositions(size), NEW n \in Nat,
         n + HdrSize <= size, NEW hb \in Nat, NEW la \in Nat, hb + la < n
  PROVE  TransferEnd(p, hb, la, n, size) = EndOfPacket(p, n, size)
  BY HdrSizeAssumption DEF HeaderPositions, EndOfPacket, AfterHeader, AfterData,
     TransferEnd, TransferFrom, StagedCopy
===============================================================================
