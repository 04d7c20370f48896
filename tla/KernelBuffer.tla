----------------------------- MODULE KernelBuffer -----------------------------
(***************************************************************************)
(* The arithmetic of one NPF kernel buffer: a byte ring in which every     *)
(* packet is stored as a PacketHeader followed by its captured bytes.  The *)
(* header is never split over the end of the ring ("header atomico"), the  *)
(* bytes may be; when fewer than HdrSize bytes are left before the end,    *)
(* producer and consumer both skip them.  Producer (NPF_tap,               *)
(* NPF_TransferDataComplete) and consumer (NPF_Read) each carry their own  *)
(* copy of this arithmetic and never exchange a position: they must agree. *)
(* No operator here has state; sizes and positions are bytes.              *)
(***************************************************************************)
EXTENDS Integers

CONSTANT
  HdrSize       \* sizeof(struct PacketHeader): the SN and the bpf_hdr

ASSUME HdrSizeAssumption == HdrSize \in Nat \ {0}

(* The position of the first captured byte of a packet whose header is at  *)
(* p.  A position that reaches the end of the ring becomes 0.              *)
AfterHeader(p, size) == IF p + HdrSize = size THEN 0 ELSE p + HdrSize

(* The position after copying n bytes at p: one copy, or two when the      *)
(* bytes cross the end of the ring.  It may be size itself; SkipTail       *)
(* normalises it.                                                          *)
AfterData(p, n, size) == IF size - p < n THEN n - (size - p) ELSE p + n

(* Too close to the end for another header.                                *)
InTail(p, size) == size - p < HdrSize

SkipTail(p, size) == IF InTail(p, size) THEN 0 ELSE p

(* Bytes a packet of n captured bytes that ends at p takes from the ring,  *)
(* the skipped tail included.                                              *)
Increment(p, n, size) == n + HdrSize + (IF InTail(p, size) THEN size - p ELSE 0)

(* End of the bytes of a packet whose header is at p, before SkipTail.     *)
EndOfPacket(p, n, size) == AfterData(AfterHeader(p, size), n, size)

NextPacket(p, n, size) == SkipTail(EndOfPacket(p, n, size), size)

PacketCost(p, n, size) == Increment(EndOfPacket(p, n, size), n, size)

-------------------------------------------------------------------------------
(* NPF_tap has three more ways of moving the producer over the bytes of a  *)
(* packet, when they come in a header buffer of hb bytes and a lookahead   *)
(* buffer; all must end where EndOfPacket does.                            *)

(* HeaderBuffer and LookaheadBuffer not contiguous, no NdisTransferData;   *)
(* p is the position after the header, n > hb.                             *)
SplitCopy(p, hb, n, size) ==
  IF size - p < n
    THEN IF size - p >= hb
           THEN IF p + hb = size
                  THEN n - hb
                  ELSE n - hb - (size - (p + hb))
           ELSE (hb - (size - p)) + (n - hb)
    ELSE p + hb + (n - hb)

(* One of the two staged copies that precede NdisTransferData.             *)
StagedCopy(p, n, size) ==
  IF size - p >= n
    THEN IF p + n = size THEN 0 ELSE p + n
    ELSE n - (size - p)

(* Where NdisTransferData starts writing, and NewP once it is done.        *)
TransferFrom(p, hb, la, size) ==
  StagedCopy(StagedCopy(AfterHeader(p, size), hb, size), la, size)

TransferEnd(p, hb, la, n, size) ==
  AfterData(TransferFrom(p, hb, la, size), n - hb - la, size)

-------------------------------------------------------------------------------
(* Distance from p to q going forward round the ring, and the position d   *)
(* bytes after p: how the specification talks about regions of the ring.   *)
Ahead(p, q, size) == IF q >= p THEN q - p ELSE q - p + size

At(p, d, size) == IF p + d < size THEN p + d ELSE p + d - size
===============================================================================
