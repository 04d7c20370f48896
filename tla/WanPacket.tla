------------------------------ MODULE WanPacket ------------------------------
(***************************************************************************)
(* Capture on dial-up links: a user-space ring that the callback of the    *)
(* Network Monitor library fills and PacketReceivePacket drains.  Both     *)
(* hold the adapter's critical section; WanPacketSetMode, and the wait on  *)
(* the read event, do not.  The module starts with the adapter that        *)
(* PacketOpenAdapterWanPacket has opened.                                  *)
(***************************************************************************)
EXTENDS KernelBuffer, Sequences

CONSTANTS
  WanFrames,      \* frames that arrive
  FrameLengths,   \* bytes of a frame
  RingSizes,      \* arguments of WanPacketSetBufferSize
  ReadSizes,      \* buffers of the application
  MinToCopies,    \* arguments of WanPacketSetMinToCopy
  WanCalls,       \* control calls and reads the application makes
  Align           \* records start at multiples of this in the application's buffer

ASSUME WanAssumption ==
  /\ WanFrames \in Nat /\ FrameLengths \subseteq Nat
  /\ \E n \in FrameLengths : \A m \in FrameLengths : n >= m
  /\ RingSizes \subseteq Nat /\ ReadSizes \subseteq Nat /\ MinToCopies \subseteq Nat
  /\ Align \in Nat \ {0}

VARIABLES
  wan,       \* struct WAN_ADAPTER_INT
  mem,       \* the bytes of its Buffer
  cs,        \* who holds the critical section: "none", "callback", "reader"
  frame,     \* the frame WanPacketReceiverCallback is at
  reader,    \* the call of WanPacketReceivePacket
  wanLeft,   \* frames and calls still to come
  wanQueue,  \* the packets stored and not yet read
  wanRead,   \* the packets read, as the bytes in the ring spelt them
  missed     \* the ring reached MinToCopy without a packet arriving

wanVars == <<wan, mem, cs, frame, reader, wanLeft, wanQueue, wanRead, missed>>

Modes == {"capt", "stat", "mon"}

(* A poll is a wait that expires at once.                                  *)
Timeouts == {"finite", "infinite"}

(* A byte of the ring: the k-th of packet id, or of its header.            *)
Byte(what, id, k) == [what |-> what, id |-> id, k |-> k]
Garbage == [id |-> 0, len |-> 0]

Packets == [id : 1..WanFrames, len : 1..(CHOOSE n \in FrameLengths : \A m \in FrameLengths : n >= m)]

(* WanPacketOpenAdapter: memory is zeroed, the event is reset, and the     *)
(* filter is absent.                                                       *)
WanPacketOpened ==
  [mode |-> "capt", size |-> 0, C |-> 0, P |-> 0, free |-> 0, mtc |-> 0,
   timeout |-> "finite", event |-> FALSE, filter |-> FALSE,
   dropped |-> 0, accepted |-> 0, received |-> 0, npackets |-> 0]

FrameIdle == [pc |-> "idle", id |-> 0, len |-> 0, snap |-> 0]
ReaderIdle == [pc |-> "idle", buf |-> 0, copied |-> 0]

WanInit ==
  /\ wan = WanPacketOpened /\ mem = << >> /\ cs = "none"
  /\ frame = FrameIdle /\ reader = ReaderIdle
  /\ wanQueue = << >> /\ wanRead = << >> /\ missed = FALSE

Used == wan.size - wan.free

-----------------------------------------------------------------------------
(* The callback, once per frame of the table it is given.  The filter may  *)
(* answer anything; bpf_filter of no filter accepts the whole frame.       *)

FilterResults(len) == IF wan.filter THEN 0..(len + 1) ELSE {len + 1}

ReceiverCallback ==
  /\ frame.pc = "idle" /\ wanLeft.frames > 0 /\ cs = "none"
  /\ \E len \in FrameLengths : \E result \in FilterResults(len) :
       /\ frame' = [pc |-> "stat", id |-> WanFrames + 1 - wanLeft.frames, len |-> len,
                    snap |-> IF result > len THEN len ELSE result]
       /\ wan' = [wan EXCEPT !.received = @ + 1,
                             !.event = @ \/ (wan.mode = "mon" /\ result = 1)]
  /\ cs' = "callback"
  /\ wanLeft' = [wanLeft EXCEPT !.frames = @ - 1]
  /\ UNCHANGED <<mem, reader, wanQueue, wanRead, missed>>

CallbackCounts ==
  /\ frame.pc = "stat"
  /\ wan' = [wan EXCEPT !.npackets = IF wan.mode = "stat" THEN @ + 1 ELSE @]
  /\ frame' = [frame EXCEPT !.pc = "capt"]
  /\ UNCHANGED <<mem, cs, reader, wanLeft, wanQueue, wanRead, missed>>

(* The bytes of the ring after a packet of n bytes is stored at p.         *)
Stored(id, n, p, size) ==
  [q \in 0..(size - 1) |->
     LET fromHeader == Ahead(p, q, size)
         fromData == Ahead(AfterHeader(p, size), q, size)
     IN IF fromHeader < HdrSize THEN Byte("header", id, n)
        ELSE IF fromData < n THEN Byte("data", id, fromData)
        ELSE mem[q]]

Fits(n) == n + HdrSize <= wan.free

(* As if MinToCopy had to be exceeded.                                     *)
WakesReaderAbove(free) == wan.size - free > wan.mtc

WakesReader(free) == wan.size - free >= wan.mtc

AddPacketToRingBuffer(id, n) ==
  LET free == wan.free - PacketCost(wan.P, n, wan.size)
  IN /\ Fits(n)
     /\ mem' = Stored(id, n, wan.P, wan.size)
     /\ wan' = [wan EXCEPT !.P = NextPacket(@, n, wan.size), !.free = free,
                           !.accepted = @ + 1,
                           !.event = @ \/ WakesReader(free)]
     /\ missed' = (missed /\ ~WakesReader(free))
     /\ wanQueue' = Append(wanQueue, [id |-> id, len |-> n])

CallbackCaptures ==
  /\ frame.pc = "capt"
  /\ \/ /\ wan.mode = "capt" /\ frame.snap > 0
        /\ AddPacketToRingBuffer(frame.id, frame.snap)
     \/ /\ wan.mode = "capt" /\ frame.snap > 0 /\ ~Fits(frame.snap)
        /\ wan' = [wan EXCEPT !.dropped = @ + 1]
        /\ UNCHANGED <<mem, missed, wanQueue>>
     \/ /\ wan.mode # "capt" \/ frame.snap = 0
        /\ UNCHANGED <<wan, mem, missed, wanQueue>>
  /\ frame' = FrameIdle /\ cs' = "none"
  /\ UNCHANGED <<reader, wanLeft, wanRead>>

-----------------------------------------------------------------------------
(* PacketReceivePacket on this adapter: wait, lock, drain or report.       *)

ReceivePacket ==
  /\ reader.pc = "idle" /\ wanLeft.calls > 0
  /\ \E b \in ReadSizes : reader' = [pc |-> "wait", buf |-> b, copied |-> 0]
  /\ wanLeft' = [wanLeft EXCEPT !.calls = @ - 1]
  /\ UNCHANGED <<wan, mem, cs, frame, wanQueue, wanRead, missed>>

WaitForReadEvent ==
  /\ reader.pc = "wait" /\ (wan.event \/ wan.timeout # "infinite")
  /\ reader' = [reader EXCEPT !.pc = "lock"]
  /\ UNCHANGED <<wan, mem, cs, frame, wanLeft, wanQueue, wanRead, missed>>

ResetEvent == [wan EXCEPT !.event = FALSE]

(* With the critical section; in capture mode the event is reset before    *)
(* the first packet is looked at.                                          *)
EnterRead ==
  /\ reader.pc = "lock" /\ cs = "none"
  /\ cs' = "reader"
  /\ \/ wan.mode = "capt" /\ wan' = ResetEvent /\ reader' = [reader EXCEPT !.pc = "drain"]
     \/ wan.mode # "capt" /\ UNCHANGED wan /\ reader' = [reader EXCEPT !.pc = "report"]
  /\ UNCHANGED <<mem, frame, wanLeft, wanQueue, wanRead, missed>>

Aligned(n) == ((n + Align - 1) \div Align) * Align

(* The packet the bytes at c spell.                                        *)
PacketAt(c) ==
  LET h == mem[c]
      whole == /\ \A i \in 0..(HdrSize - 1) : mem[At(c, i, wan.size)] = h
               /\ \A i \in 0..(h.k - 1) :
                    mem[At(AfterHeader(c, wan.size), i, wan.size)] = Byte("data", h.id, i)
  IN IF h.what = "header" /\ whole THEN [id |-> h.id, len |-> h.k] ELSE Garbage

CapLen(c) == mem[c].k

NextFits == CapLen(wan.C) + HdrSize <= reader.buf - reader.copied

MorePackets == reader.buf > reader.copied /\ wan.free < wan.size

(* One turn of the loop of WanPacketRemovePacketsFromRingBuffer.           *)
RemovePacket ==
  /\ reader.pc = "drain" /\ MorePackets /\ NextFits
  /\ LET n == CapLen(wan.C)
     IN /\ wan' = [wan EXCEPT !.C = NextPacket(@, n, wan.size),
                              !.free = @ + PacketCost(wan.C, n, wan.size)]
        /\ reader' = [reader EXCEPT !.copied = @ + HdrSize + Aligned(n)]
        /\ wanRead' = Append(wanRead, PacketAt(wan.C))
  /\ wanQueue' = Tail(wanQueue)
  /\ UNCHANGED <<mem, cs, frame, wanLeft, missed>>

(* The loop ends: the ring is empty, or the next packet does not fit.      *)
DrainEnds ==
  /\ reader.pc = "drain" /\ ~(MorePackets /\ NextFits)
  /\ reader' = [reader EXCEPT !.pc = "report"]
  /\ missed' = (Used > 0)
  /\ UNCHANGED <<wan, mem, cs, frame, wanLeft, wanQueue, wanRead>>

(* The mode is tested again; the statistics need room for two counters.    *)
ReportStatistics ==
  /\ reader.pc = "report"
  /\ wan' = [wan EXCEPT !.npackets =
               IF wan.mode = "stat" /\ reader.buf >= HdrSize + 2 THEN 0 ELSE @]
  /\ reader' = ReaderIdle /\ cs' = "none"
  /\ UNCHANGED <<mem, frame, wanLeft, wanQueue, wanRead, missed>>

-----------------------------------------------------------------------------
(* The control calls, which another thread of the application may make     *)
(* while one reads.                                                        *)

Control == wanLeft.calls > 0 /\ wanLeft' = [wanLeft EXCEPT !.calls = @ - 1]

(* No lock.                                                                *)
SetMode ==
  /\ Control
  /\ \E m \in Modes : wan' = [wan EXCEPT !.mode = m]
  /\ UNCHANGED <<mem, cs, frame, reader, wanQueue, wanRead, missed>>

(* As if the producer's index were left alone.                             *)
EmptiedAtC(w) == [w EXCEPT !.C = 0, !.free = w.size]

Emptied(w) == [w EXCEPT !.C = 0, !.P = 0, !.free = w.size]

Discards ==
  /\ wanQueue' = << >> /\ wanRead' = << >> /\ missed' = FALSE
  /\ UNCHANGED <<cs, frame, reader>>

(* A filter that bpf_validate refuses changes nothing.                     *)
SetBpfFilter ==
  /\ Control /\ cs = "none"
  /\ \E present \in BOOLEAN :
       wan' = [Emptied(wan) EXCEPT !.filter = present, !.accepted = 0, !.dropped = 0,
                                   !.received = 0, !.npackets = 0]
  /\ Discards /\ UNCHANGED mem

(* The memory of the new buffer holds anything.                            *)
SetBufferSize ==
  /\ Control /\ cs = "none"
  /\ \E s \in RingSizes :
       /\ wan' = Emptied([wan EXCEPT !.size = s])
       /\ mem' = [q \in 0..(s - 1) |-> Byte("data", 0, 0)]
  /\ Discards

(* The event is left alone.                                                *)
SetMinToCopy ==
  /\ Control /\ cs = "none"
  /\ \E n \in MinToCopies :
       /\ wan' = [wan EXCEPT !.mtc = n]
       /\ missed' = (missed \/ (Used > 0 /\ Used >= n))
  /\ UNCHANGED <<mem, cs, frame, reader, wanQueue, wanRead>>

SetReadTimeout ==
  /\ Control /\ cs = "none"
  /\ \E to \in Timeouts : wan' = [wan EXCEPT !.timeout = to]
  /\ UNCHANGED <<mem, cs, frame, reader, wanQueue, wanRead, missed>>

WanNext ==
  \/ ReceiverCallback \/ CallbackCounts \/ CallbackCaptures
  \/ ReceivePacket \/ WaitForReadEvent \/ EnterRead \/ RemovePacket \/ DrainEnds
  \/ ReportStatistics
  \/ SetMode \/ SetBpfFilter \/ SetBufferSize \/ SetMinToCopy \/ SetReadTimeout

(* The frames that arrive, and as many calls as the application likes.     *)
WanStart == WanInit /\ wanLeft \in [frames : 0..WanFrames, calls : Nat]

WanSpec == WanStart /\ [][WanNext]_wanVars

-----------------------------------------------------------------------------
Fifo == INSTANCE PacketFIFO WITH Packet <- Packets, queue <- wanQueue, received <- wanRead

(* The ring delivers what the callback stored, whole, once and in order,   *)
(* whatever the mode changes and resets that fall between: the arithmetic  *)
(* of WanPacketAddPacketToRingBuffer and of                                *)
(* WanPacketRemovePacketsFromRingBuffer agree.                             *)
WanFIFO == Fifo!SafeSpec

(* A read that waits for ever does so below MinToCopy, unless its packets  *)
(* were left by a buffer too small for them or MinToCopy was lowered: a    *)
(* packet that arrives around the ResetEvent of                            *)
(* WanPacketRemovePacketsFromRingBuffer is not forgotten.                  *)
WanReaderWoken ==
  reader.pc = "wait" /\ wan.timeout = "infinite" /\ ~wan.event =>
    Used = 0 \/ Used < wan.mtc \/ missed
=============================================================================
