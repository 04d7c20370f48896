------------------------------ MODULE NPFCapture ------------------------------
(***************************************************************************)
(* One open instance of the NPF driver in capture mode                     *)
(* (packetNtx/driver/Read.c, Packet.c): one kernel buffer per CPU, filled  *)
(* by NPF_tap and NPF_TransferDataComplete at DISPATCH level, drained by   *)
(* NPF_Read in the thread of the application, and emptied or reallocated   *)
(* by NPF_IoControl.                                                       *)
(*                                                                         *)
(* A tap holds the BufferLock of its CPU; NPF_Read takes no lock at all.   *)
(* They share Free, moved with InterlockedExchangeAdd after the bytes are  *)
(* in place.  Packets carry a sequence number drawn from WriterSN so that  *)
(* the reader can merge the buffers in the order of capture.               *)
(*                                                                         *)
(* The file object is opened without FILE_FLAG_OVERLAPPED (Packet32.c), so *)
(* the I/O manager runs one IRP of the instance at a time: rd and io are   *)
(* never both busy.  Taps run at any time.                                 *)
(***************************************************************************)
EXTENDS KernelBuffer, Naturals, Sequences, FiniteSets

CONSTANTS
  NCpu,           \* g_NCpu
  BpfHdrSize,     \* sizeof(struct bpf_hdr), copied before each packet
  Align,          \* sizeof(int), the unit of Packet_WORDALIGN
  Word,           \* 2^32: ULONG arithmetic is modulo Word
  Frames,         \* frames NDIS indicates: header, lookahead and total bytes
  FilterResults,  \* values bpf_filter can return: 0 rejects, large accepts all
  Dims,           \* arguments of BIOCSETBUFFERSIZE
  MinToCopies,    \* arguments of BIOCSMINTOCOPY
  TimeOuts,       \* read timeouts the application sets
  ReadLengths,    \* user buffer lengths the application reads with
  TransferResults, \* how an NdisTransferData can end
  Uniprocessor,   \* TRUE on a kernel whose spin locks only raise the IRQL
  MaxArrivals,    \* bound: frames indicated in a run
  MaxIoctls       \* bound: calls of NPF_IoControl in a run

TimeOutKinds == {"immediate", "finite", "infinite"}

ASSUME CaptureAssumption ==
  /\ NCpu \in Nat \ {0}
  /\ BpfHdrSize \in Nat /\ Align \in Nat \ {0} /\ Word \in Nat \ {0}
  /\ Frames \subseteq [hdr : Nat, look : Nat, total : Nat]
  /\ \A f \in Frames : f.hdr + f.look <= f.total
  /\ FilterResults \subseteq Nat /\ Dims \subseteq Nat
  /\ MinToCopies \subseteq Nat /\ ReadLengths \subseteq Nat
  /\ TimeOuts \subseteq TimeOutKinds
  /\ TransferResults \subseteq {"success", "failure"}
  /\ Uniprocessor \in BOOLEAN /\ (Uniprocessor => NCpu = 1)
  /\ MaxArrivals \in Nat /\ MaxIoctls \in Nat

Cpus == 0 .. NCpu - 1

VARIABLES
  size,           \* Open->Size, bytes of each CPU's buffer
  buffer,         \* CpuData[c].Buffer
  P, C, Free,     \* CpuData[c].P, .C, .Free
  lock,           \* holder of CpuData[c].BufferLock
  Received, Accepted, Dropped,
  WriterSN, ReaderSN,
  readEvent,      \* Open->ReadEvent is signalled
  minToCopy, timeOut,
  filter,         \* which filter is installed: counts BIOCSETF
  tap,            \* the NPF_tap running on each CPU
  transfer,       \* the NdisTransferData outstanding on each CPU
  unfreeze,       \* a TransferDataComplete past its release of the lock
  rd,             \* the read IRP
  io,             \* the ioctl IRP
  arrivals,       \* frames indicated so far, names them
  \* history, not in the code:
  stored,         \* per CPU, packets between C and P, oldest first
  captured,       \* all packets given a sequence number since the last reset
  produced, consumed,   \* per CPU, ring bytes taken and given back since then
  delivered       \* the bytes handed to the application since then

ringVars == <<size, buffer, P, C, Free, lock>>
countVars == <<Received, Accepted, Dropped>>
snVars == <<WriterSN, ReaderSN>>
configVars == <<minToCopy, timeOut, filter>>
historyVars == <<stored, captured, produced, consumed, delivered>>
vars == <<ringVars, countVars, snVars, readEvent, configVars, tap, transfer,
          unfreeze, rd, io, arrivals, historyVars>>

-------------------------------------------------------------------------------
(* A cell of a buffer: byte k of frame pkt, or byte k of a PacketHeader    *)
(* (frames count from 1, so pkt 0 marks a header).                         *)
Data(p, k) == [pkt |-> p, k |-> k, sn |-> -1, len |-> 0]
Header(n, l, k) == [pkt |-> 0, k |-> k, sn |-> n, len |-> l]
Unset == -1                        \* an SN field not written yet
Garbage == [pkt |-> 0, k |-> -1, sn |-> -1, len |-> 0]

\* dim/g_NCpu, or no buffer at all when a header would not fit
BufferSize(dim) == IF dim \div NCpu < HdrSize THEN 0 ELSE dim \div NCpu

\* a freshly allocated buffer holds anything
NewBuffers(s) == [c \in Cpus |-> [i \in 0 .. s - 1 |-> Garbage]]

\* buffer b with a PacketHeader written at p
WithHeader(b, p, n, l) ==
  [i \in DOMAIN b |-> LET d == Ahead(p, i, size)
                      IN  IF d < HdrSize THEN Header(n, l, d) ELSE b[i]]

\* buffer b with bytes from .. from + n - 1 of frame pkt written at p
WithData(b, p, pkt, from, n) ==
  [i \in DOMAIN b |-> LET d == Ahead(p, i, size)
                      IN  IF d < n THEN Data(pkt, from + d) ELSE b[i]]

Occupied(c) == size - Free[c]

\* mutant: the event is set only for a reader that already waits
SignalIfWaiting(enough) ==
  readEvent' = (readEvent \/ (enough /\ rd.pc = "wait"))

\* KeSetEvent(Open->ReadEvent) when the buffer holds enough
SignalIf(enough) == readEvent' = (readEvent \/ enough)

Packet_WORDALIGN(n) == ((n + Align - 1) \div Align) * Align

\* NdisAcquireSpinLock.  A uniprocessor kernel's spin lock only raises the
\* IRQL, which excludes the others while the holder runs: not while it
\* awaits NPF_TransferDataComplete.
CanAcquire(c) ==
  lock[c] = "free" \/ (Uniprocessor /\ transfer[c].pc = "pending")

-------------------------------------------------------------------------------
(*************************** the capture side ****************************)
idleTap == [pc |-> "idle", frame |-> [hdr |-> 0, look |-> 0, total |-> 0],
            pkt |-> 0, len |-> 0, filter |-> 0, inc |-> 0]
noTransfer == [pc |-> "none", frame |-> idleTap.frame,
               pkt |-> 0, len |-> 0, filter |-> 0, newP |-> 0, inc |-> 0]

(* Read.c, NPF_tap up to the filter: the frame is counted, with no lock.   *)
TapReceive(c, f) ==
  /\ tap[c].pc = "idle"
  /\ arrivals < MaxArrivals
  /\ arrivals' = arrivals + 1
  /\ Received' = [Received EXCEPT ![c] = @ + 1]
  /\ tap' = [tap EXCEPT ![c] = [idleTap EXCEPT !.pc = "filter", !.frame = f,
                                               !.pkt = arrivals + 1]]
  /\ UNCHANGED <<ringVars, Accepted, Dropped, snVars, readEvent, configVars,
                 transfer, unfreeze, rd, io, historyVars>>

(* The filter runs under MachineLock; a result of 0 rejects the packet, a  *)
(* result beyond its length means all of it.                               *)
TapFilter(c, fres) ==
  /\ tap[c].pc = "filter"
  /\ LET total == tap[c].frame.total
         len == IF fres > total THEN total ELSE fres
     IN  tap' = [tap EXCEPT ![c] =
                   IF fres = 0 THEN idleTap
                   ELSE [@ EXCEPT !.pc = "size", !.len = len, !.filter = filter]]
  /\ UNCHANGED <<ringVars, countVars, snVars, readEvent, configVars,
                 transfer, unfreeze, rd, io, arrivals, historyVars>>

(* if(Open->Size == 0): no buffer, the packet is dropped; read unlocked.   *)
TapCheckSize(c) ==
  /\ tap[c].pc = "size"
  /\ IF size = 0
       THEN /\ Dropped' = [Dropped EXCEPT ![c] = @ + 1]
            /\ tap' = [tap EXCEPT ![c] = idleTap]
       ELSE /\ tap' = [tap EXCEPT ![c].pc = "lock"]
            /\ UNCHANGED Dropped
  /\ UNCHANGED <<ringVars, Received, Accepted, snVars, readEvent, configVars,
                 transfer, unfreeze, rd, io, arrivals, historyVars>>

AtLock(c) == tap[c].pc = "lock" /\ CanAcquire(c)

Fits(c) == tap[c].len + HdrSize <= Free[c]

\* mutant: a pending transfer is not looked at
NeverPending(c) == FALSE

\* LocalData->TransferMdl1 != NULL
TransferPending(c) == transfer[c].pc \in {"pending", "publish", "signal"}

\* the lookahead holds all the bytes the filter asked for
NoTransferNeeded(c) == tap[c].frame.look + tap[c].frame.hdr >= tap[c].len

(* Acquire BufferLock, count a drop, release it.                           *)
TapDrop(c) ==
  /\ Dropped' = [Dropped EXCEPT ![c] = @ + 1]
  /\ tap' = [tap EXCEPT ![c] = idleTap]
  /\ UNCHANGED <<size, P, C, Free, lock, Received, Accepted, snVars, readEvent,
                 configVars, transfer, unfreeze, rd, io, arrivals, historyVars>>

TapNoRoom(c) ==
  /\ AtLock(c) /\ ~Fits(c)
  /\ TapDrop(c)
  /\ UNCHANGED buffer

TapDropPending(c) ==
  /\ AtLock(c) /\ Fits(c)
  /\ TransferPending(c)
  /\ TapDrop(c)
  /\ UNCHANGED buffer

(* The packet t gets the next sequence number and is complete in the       *)
(* buffer of c, its bytes ending at e; Free does not count it yet.         *)
Complete(c, t, e) ==
  /\ Accepted' = [Accepted EXCEPT ![c] = @ + 1]
  /\ WriterSN' = WriterSN + 1
  /\ P' = [P EXCEPT ![c] = SkipTail(e, size)]
  /\ stored' = [stored EXCEPT ![c] = Append(@,
                  [sn |-> WriterSN, pkt |-> t.pkt, len |-> t.len,
                   filter |-> t.filter, at |-> produced[c]])]
  /\ captured' = Append(captured, [pkt |-> t.pkt, len |-> t.len,
                                   cpu |-> c, filter |-> t.filter])
  /\ produced' = [produced EXCEPT ![c] = @ + Increment(e, t.len, size)]
  /\ UNCHANGED <<size, C, Free, Received, Dropped, ReaderSN, readEvent,
                 configVars, unfreeze, rd, io, arrivals, consumed, delivered>>

(* The bytes are in the header and lookahead buffers: copy them.           *)
TapStore(c) ==
  /\ AtLock(c) /\ Fits(c) /\ ~TransferPending(c) /\ NoTransferNeeded(c)
  /\ lock' = [lock EXCEPT ![c] = "tap"]
  /\ LET t == tap[c]
         e == EndOfPacket(P[c], t.len, size)
     IN  /\ buffer' = [buffer EXCEPT ![c] =
                         WithData(WithHeader(@, P[c], WriterSN, t.len),
                                  AfterHeader(P[c], size), t.pkt, 0, t.len)]
         /\ Complete(c, t, e)
         /\ tap' = [tap EXCEPT ![c].pc = "publish",
                               ![c].inc = Increment(e, t.len, size)]
  /\ UNCHANGED transfer

\* header and lookahead bytes are staged in the free part of the buffer
\* before the MDLs for NdisTransferData are built.
Staged(c) ==
  WithData(buffer[c], AfterHeader(P[c], size), tap[c].pkt, 0,
           tap[c].frame.hdr + tap[c].frame.look)

NeedsTransfer(c) ==
  AtLock(c) /\ Fits(c) /\ ~TransferPending(c) /\ ~NoTransferNeeded(c)

(* IoAllocateMdl or NdisAllocatePacket fails.                              *)
TapTransferFails(c) ==
  /\ NeedsTransfer(c)
  /\ buffer' = [buffer EXCEPT ![c] = Staged(c)]
  /\ TapDrop(c)

NewP(c) == TransferEnd(P[c], tap[c].frame.hdr, tap[c].frame.look, tap[c].len, size)

\* what NdisTransferData writes, if it does: the bytes after header and
\* lookahead.  Neither caller looks at the status or at BytesTransfered.
Transferred(b, p, t, result) ==
  LET have == t.frame.hdr + t.frame.look
  IN  IF result = "success"
        THEN WithData(b, TransferFrom(p, t.frame.hdr, t.frame.look, size),
                      t.pkt, have, t.len - have)
        ELSE b

(* NdisTransferData completes, one way or the other, before it returns.    *)
TapTransferNow(c, result) ==
  /\ NeedsTransfer(c)
  /\ lock' = [lock EXCEPT ![c] = "tap"]
  /\ LET t == tap[c]
     IN  /\ buffer' = [buffer EXCEPT ![c] =
                         WithHeader(Transferred(Staged(c), P[c], t, result),
                                    P[c], WriterSN, t.len)]
         /\ Complete(c, t, NewP(c))
         /\ tap' = [tap EXCEPT ![c].pc = "publish",
                               ![c].inc = Increment(NewP(c), t.len, size)]
  /\ UNCHANGED transfer

(* NdisTransferData is pending: NPF_tap returns and BufferLock stays held  *)
(* until NPF_TransferDataComplete.                                         *)
TapTransferLater(c) ==
  /\ NeedsTransfer(c)
  /\ lock' = [lock EXCEPT ![c] = "transfer"]
  /\ buffer' = [buffer EXCEPT ![c] =
                  WithHeader(Staged(c), P[c], Unset, tap[c].len)]
  /\ transfer' = [transfer EXCEPT ![c] =
                    [pc |-> "pending", frame |-> tap[c].frame,
                     pkt |-> tap[c].pkt, len |-> tap[c].len,
                     filter |-> tap[c].filter, newP |-> NewP(c), inc |-> 0]]
  /\ tap' = [tap EXCEPT ![c] = idleTap]
  /\ UNCHANGED <<size, P, C, Free, countVars, snVars, readEvent, configVars,
                 unfreeze, rd, io, arrivals, historyVars>>

(* InterlockedExchangeAdd(&Free, -increment): the reader may see it now.   *)
TapPublish(c) ==
  /\ tap[c].pc = "publish"
  /\ Free' = [Free EXCEPT ![c] = @ - tap[c].inc]
  /\ tap' = [tap EXCEPT ![c].pc = "signal"]
  /\ UNCHANGED <<size, buffer, P, C, lock, countVars, snVars, readEvent,
                 configVars, transfer, unfreeze, rd, io, arrivals, historyVars>>

(* Wake the reader if there is enough, release BufferLock, return.         *)
TapSignal(c) ==
  /\ tap[c].pc = "signal"
  /\ SignalIf(Occupied(c) >= minToCopy)
  /\ lock' = [lock EXCEPT ![c] = "free"]
  /\ tap' = [tap EXCEPT ![c] = idleTap]
  /\ UNCHANGED <<size, buffer, P, C, Free, countVars, snVars, configVars,
                 transfer, unfreeze, rd, io, arrivals, historyVars>>

-------------------------------------------------------------------------------
(***************** NPF_TransferDataComplete, on any CPU ******************)
(* NDIS is done with the rest of the packet: it gets its sequence number.  *)
(* The length is read back from the header written before the transfer.    *)
TransferComplete(c, result) ==
  /\ transfer[c].pc = "pending" /\ lock[c] # "ioctl"
  /\ LET t == transfer[c]
         inc == Increment(t.newP, buffer[c][P[c]].len, size)
     IN  /\ buffer' = [buffer EXCEPT ![c] =
                         WithHeader(Transferred(@, P[c], t, result), P[c], WriterSN,
                                    buffer[c][P[c]].len)]
         /\ Complete(c, t, t.newP)
         /\ transfer' = [transfer EXCEPT ![c].pc = "publish", ![c].inc = inc]
  /\ UNCHANGED <<lock, tap>>

TransferPublish(c) ==
  /\ transfer[c].pc = "publish"
  /\ Free' = [Free EXCEPT ![c] = @ - transfer[c].inc]
  /\ transfer' = [transfer EXCEPT ![c].pc = "signal"]
  /\ UNCHANGED <<size, buffer, P, C, lock, countVars, snVars, readEvent,
                 configVars, tap, unfreeze, rd, io, arrivals, historyVars>>

(* Signal, TransferMdl1 = NULL, release the lock taken by the tap ...      *)
(* (one completion per CPU at a time is past this point).                  *)
TransferRelease(c) ==
  /\ transfer[c].pc = "signal" /\ ~unfreeze[c]
  /\ SignalIf(Occupied(c) >= minToCopy)
  /\ lock' = [lock EXCEPT ![c] = "free"]
  /\ transfer' = [transfer EXCEPT ![c] = noTransfer]
  /\ unfreeze' = [unfreeze EXCEPT ![c] = TRUE]
  /\ UNCHANGED <<size, buffer, P, C, Free, countVars, snVars, configVars,
                 tap, rd, io, arrivals, historyVars>>

(* ... and "Unfreeze the consumer", without the lock.                      *)
TransferUnfreeze(c) ==
  /\ unfreeze[c]
  /\ SignalIf(Occupied(c) > minToCopy)
  /\ unfreeze' = [unfreeze EXCEPT ![c] = FALSE]
  /\ UNCHANGED <<ringVars, countVars, snVars, configVars, tap, transfer, rd,
                 io, arrivals, historyVars>>

-------------------------------------------------------------------------------
(******************************* NPF_Read ********************************)
idleRead == [pc |-> "idle", available |-> 0, copied |-> 0, count |-> 0,
             cpu |-> 0, occupation |-> 0, plen |-> 0, inc |-> 0]

\* one IRP of this instance at a time
NoIrp == rd.pc = "idle" /\ io.pc = "idle"

\* mutant: the round robin does not wrap
NextCpuUnwrapped(c) == c + 1

NextCpu(c) == (c + 1) % NCpu

(* A read of len bytes; it fails at once when there is no buffer.          *)
ReadStart(len) ==
  /\ NoIrp
  /\ rd' = IF size = 0 THEN rd
           ELSE [idleRead EXCEPT !.pc = "sum", !.available = len]
  /\ UNCHANGED <<ringVars, countVars, snVars, readEvent, configVars, tap,
                 transfer, unfreeze, io, arrivals, historyVars>>

(* Occupation is summed one CPU at a time, while the taps go on.           *)
ReadOccupation ==
  /\ rd.pc = "sum"
  /\ rd' = [rd EXCEPT !.occupation = @ + Occupied(rd.cpu),
                      !.cpu = NextCpu(@),
                      !.pc = IF rd.cpu = NCpu - 1 THEN "check" ELSE "sum"]
  /\ UNCHANGED <<ringVars, countVars, snVars, readEvent, configVars, tap,
                 transfer, unfreeze, io, arrivals, historyVars>>

(* Full enough, or wait: for the event or the timeout, or not at all when  *)
(* the timeout is IMMEDIATE.                                               *)
EnoughToCopy(occupation) == occupation > minToCopy * NCpu

ReadCheck ==
  /\ rd.pc = "check"
  /\ rd' = [rd EXCEPT !.pc = IF EnoughToCopy(rd.occupation) THEN "prepare"
                             ELSE IF timeOut = "immediate" THEN "clear"
                             ELSE "wait"]
  /\ UNCHANGED <<ringVars, countVars, snVars, readEvent, configVars, tap,
                 transfer, unfreeze, io, arrivals, historyVars>>

(* KeWaitForSingleObject returns: the event, or the timeout if there is    *)
(* one (TimeOut 0 waits for ever).                                         *)
ReadAwake ==
  /\ rd.pc = "wait" /\ readEvent
  /\ rd' = [rd EXCEPT !.pc = "clear"]
  /\ UNCHANGED <<ringVars, countVars, snVars, readEvent, configVars, tap,
                 transfer, unfreeze, io, arrivals, historyVars>>

ReadTimeOut ==
  /\ rd.pc = "wait" /\ timeOut = "finite"
  /\ rd' = [rd EXCEPT !.pc = "clear"]
  /\ UNCHANGED <<ringVars, countVars, snVars, readEvent, configVars, tap,
                 transfer, unfreeze, io, arrivals, historyVars>>

(* KeClearEvent after the wait, and again before the copy.                 *)
ReadClear ==
  /\ rd.pc = "clear"
  /\ readEvent' = FALSE
  /\ rd' = [rd EXCEPT !.pc = "prepare"]
  /\ UNCHANGED <<ringVars, countVars, snVars, configVars, tap, transfer,
                 unfreeze, io, arrivals, historyVars>>

ReadPrepare ==
  /\ rd.pc = "prepare"
  /\ readEvent' = FALSE
  /\ rd' = [rd EXCEPT !.pc = "scan", !.copied = 0, !.count = 0, !.cpu = 0]
  /\ UNCHANGED <<ringVars, countVars, snVars, configVars, tap, transfer,
                 unfreeze, io, arrivals, historyVars>>

\* the loop over the CPUs goes on
Scanning == rd.pc = "scan" /\ rd.count < NCpu /\ rd.available # rd.copied

\* PacketHeader at C of the buffer being looked at
HeaderAtC == buffer[rd.cpu][C[rd.cpu]]

\* mutant: any packet will do
AnyIsHere == Free[rd.cpu] < size

\* there is a packet in that buffer and it is the next one
NextIsHere == Free[rd.cpu] < size /\ HeaderAtC.sn = ReaderSN

\* mutants: the bpf_hdr is forgotten; a packet that fits exactly is refused
NoSpaceForBytes(plen) == plen > (rd.available - rd.copied) % Word
NoExactSpaceFor(plen) == plen + BpfHdrSize >= (rd.available - rd.copied) % Word

\* plen + sizeof(bpf_hdr) > available - copied, in unsigned arithmetic
NoSpaceFor(plen) == plen + BpfHdrSize > (rd.available - rd.copied) % Word

(* No packet left, user buffer full, or the next packet does not fit.      *)
ReadReturn ==
  /\ rd.pc = "scan"
  /\ \/ rd.count = NCpu
     \/ rd.available = rd.copied
     \/ Scanning /\ NextIsHere /\ NoSpaceFor(HeaderAtC.len)
  /\ rd' = idleRead
  /\ UNCHANGED <<ringVars, countVars, snVars, readEvent, configVars, tap,
                 transfer, unfreeze, io, arrivals, historyVars>>

\* mutant: empty buffers are not counted
ReadSkipUncounted ==
  /\ Scanning /\ ~NextIsHere
  /\ rd' = [rd EXCEPT !.cpu = NextCpu(@)]
  /\ UNCHANGED <<ringVars, countVars, snVars, readEvent, configVars, tap,
                 transfer, unfreeze, io, arrivals, historyVars>>

(* Nothing for us in this buffer: try the next CPU.                        *)
ReadSkipCpu ==
  /\ Scanning /\ ~NextIsHere
  /\ rd' = [rd EXCEPT !.cpu = NextCpu(@), !.count = @ + 1]
  /\ UNCHANGED <<ringVars, countVars, snVars, readEvent, configVars, tap,
                 transfer, unfreeze, io, arrivals, historyVars>>

(* The bpf_hdr goes to the user buffer and C moves past the PacketHeader.  *)
ReadHeader ==
  /\ Scanning /\ NextIsHere /\ ~NoSpaceFor(HeaderAtC.len)
  /\ rd' = [rd EXCEPT !.pc = "copy", !.plen = HeaderAtC.len,
                      !.copied = @ + BpfHdrSize]
  /\ C' = [C EXCEPT ![rd.cpu] = AfterHeader(@, size)]
  /\ UNCHANGED <<size, buffer, P, Free, lock, countVars, snVars, readEvent,
                 configVars, tap, transfer, unfreeze, io, arrivals, historyVars>>

\* mutant: the reader forgets the skipped tail
ConsumedWithoutTail(e, n) == n + HdrSize

\* the reader's own computation of what a packet took from the ring
ConsumedBytes(e, n) == Increment(e, n, size)

\* n bytes read round the ring from p on
Bytes(b, p, n) == [k \in 1 .. n |-> b[At(p, k - 1, size)]]

(* The bytes follow, in one piece or two; C skips the tail as P did.       *)
ReadData ==
  /\ rd.pc = "copy"
  /\ LET c == rd.cpu
         e == AfterData(C[c], rd.plen, size)
     IN  /\ delivered' = Append(delivered, Bytes(buffer[c], C[c], rd.plen))
         /\ C' = [C EXCEPT ![c] = SkipTail(e, size)]
         /\ rd' = [rd EXCEPT !.pc = "free", !.inc = ConsumedBytes(e, rd.plen),
                             !.copied = @ + Packet_WORDALIGN(rd.plen)]
         /\ consumed' = [consumed EXCEPT ![c] = @ + ConsumedBytes(e, rd.plen)]
         /\ stored' = [stored EXCEPT ![c] = Tail(@)]
  /\ ReaderSN' = ReaderSN + 1
  /\ UNCHANGED <<size, buffer, P, Free, lock, countVars, WriterSN, readEvent,
                 configVars, tap, transfer, unfreeze, io, arrivals, captured,
                 produced>>

(* InterlockedExchangeAdd(&Free, increment): the tap may reuse the bytes.  *)
ReadFree ==
  /\ rd.pc = "free"
  /\ Free' = [Free EXCEPT ![rd.cpu] = @ + rd.inc]
  /\ rd' = [rd EXCEPT !.pc = "scan", !.count = 0, !.inc = 0, !.plen = 0]
  /\ UNCHANGED <<size, buffer, P, C, lock, countVars, snVars, readEvent,
                 configVars, tap, transfer, unfreeze, io, arrivals, historyVars>>

-------------------------------------------------------------------------------
(***************************** NPF_IoControl *****************************)
idleIo == [pc |-> "idle", op |-> "none", size |-> 0, next |-> 0, calls |-> 0]

CanIoctl == NoIrp /\ io.calls < MaxIoctls

\* mutant: the buffers are left as they are
SetFilterOnly ==
  /\ CanIoctl
  /\ filter' = filter + 1
  /\ io' = [io EXCEPT !.calls = @ + 1]
  /\ UNCHANGED <<ringVars, countVars, snVars, readEvent, minToCopy, timeOut,
                 tap, transfer, unfreeze, rd, arrivals, historyVars>>

(* BIOCSETF: the program is swapped under MachineLock, then the buffers    *)
(* are emptied; a program that fails to validate leaves no filter and the  *)
(* buffers are emptied all the same.                                       *)
SetFilter ==
  /\ CanIoctl
  /\ filter' = filter + 1
  /\ io' = [io EXCEPT !.pc = "lock", !.op = "reset", !.next = 0, !.calls = @ + 1]
  /\ UNCHANGED <<ringVars, countVars, snVars, readEvent, minToCopy, timeOut,
                 tap, transfer, unfreeze, rd, arrivals, historyVars>>

(* BIOCISETLOBBEH with NPF_DISABLE_LOOPBACK empties the buffers too.       *)
DisableLoopback ==
  /\ CanIoctl
  /\ io' = [io EXCEPT !.pc = "lock", !.op = "reset", !.next = 0, !.calls = @ + 1]
  /\ UNCHANGED <<ringVars, countVars, snVars, readEvent, configVars,
                 tap, transfer, unfreeze, rd, arrivals, historyVars>>

(* BIOCSETBUFFERSIZE, once the new buffer is allocated.                    *)
SetBufferSize(dim) ==
  /\ CanIoctl
  /\ io' = [io EXCEPT !.pc = "lock", !.op = "resize", !.size = BufferSize(dim),
                      !.next = 0, !.calls = @ + 1]
  /\ UNCHANGED <<ringVars, countVars, snVars, readEvent, configVars,
                 tap, transfer, unfreeze, rd, arrivals, historyVars>>

(* The BufferLocks are taken one after the other ...                       *)
IoctlLock ==
  /\ io.pc = "lock" /\ CanAcquire(io.next)
  /\ lock' = [lock EXCEPT ![io.next] = "ioctl"]
  /\ io' = [io EXCEPT !.next = @ + 1,
                      !.pc = IF io.next = NCpu - 1 THEN "apply" ELSE "lock"]
  /\ UNCHANGED <<size, buffer, P, C, Free, countVars, snVars, readEvent,
                 configVars, tap, transfer, unfreeze, rd, arrivals, historyVars>>

\* mutant: Accepted is not zeroed with the others
ResetSomeCounters ==
  /\ Received' = [c \in Cpus |-> 0]
  /\ Dropped' = [c \in Cpus |-> 0]
  /\ UNCHANGED Accepted

ResetCounters ==
  /\ Received' = [c \in Cpus |-> 0]
  /\ Accepted' = [c \in Cpus |-> 0]
  /\ Dropped' = [c \in Cpus |-> 0]

\* what both ioctls set, for buffers of s bytes, before they release the locks
ResetBuffers(s) ==
  /\ P' = [c \in Cpus |-> 0] /\ C' = [c \in Cpus |-> 0]
  /\ Free' = [c \in Cpus |-> s]
  /\ ResetCounters
  /\ WriterSN' = 0 /\ ReaderSN' = 0
  /\ lock' = [c \in Cpus |-> "free"]
  /\ stored' = [c \in Cpus |-> << >>]
  /\ captured' = << >> /\ delivered' = << >>
  /\ produced' = [c \in Cpus |-> 0] /\ consumed' = [c \in Cpus |-> 0]
  /\ io' = [io EXCEPT !.pc = "idle", !.op = "none", !.size = 0, !.next = 0]
  /\ UNCHANGED <<readEvent, configVars, tap, transfer, unfreeze, rd, arrivals>>

(* ... and held while NPF_ResetBufferContents empties the buffers,         *)
ResetBufferContents ==
  /\ io.pc = "apply" /\ io.op = "reset"
  /\ ResetBuffers(size)
  /\ UNCHANGED <<size, buffer>>

(* or BIOCSETBUFFERSIZE replaces them.                                     *)
ReplaceBuffers ==
  /\ io.pc = "apply" /\ io.op = "resize"
  /\ size' = io.size
  /\ buffer' = NewBuffers(io.size)
  /\ ResetBuffers(io.size)

(* BIOCSMINTOCOPY: "An hack to make the NCPU-buffers behave like a larger  *)
(* one".                                                                   *)
PerCpuMinToCopy(m) == m \div NCpu

SetMinToCopy(m) ==
  /\ CanIoctl
  /\ minToCopy' = PerCpuMinToCopy(m)
  /\ io' = [io EXCEPT !.calls = @ + 1]
  /\ UNCHANGED <<ringVars, countVars, snVars, readEvent, timeOut, filter,
                 tap, transfer, unfreeze, rd, arrivals, historyVars>>

(* BIOCSRTIMEOUT.                                                          *)
SetTimeOut(t) ==
  /\ CanIoctl
  /\ timeOut' = t
  /\ io' = [io EXCEPT !.calls = @ + 1]
  /\ UNCHANGED <<ringVars, countVars, snVars, readEvent, minToCopy, filter,
                 tap, transfer, unfreeze, rd, arrivals, historyVars>>

-------------------------------------------------------------------------------
(* An instance the application has opened and configured: the states of    *)
(* NPF_Open followed by the ioctls above, before any frame arrives.        *)
Init ==
  /\ size \in {BufferSize(d) : d \in Dims}
  /\ buffer = NewBuffers(size)
  /\ P = [c \in Cpus |-> 0] /\ C = [c \in Cpus |-> 0]
  /\ Free = [c \in Cpus |-> size]
  /\ lock = [c \in Cpus |-> "free"]
  /\ Received = [c \in Cpus |-> 0]
  /\ Accepted = [c \in Cpus |-> 0] /\ Dropped = [c \in Cpus |-> 0]
  /\ WriterSN = 0 /\ ReaderSN = 0
  /\ readEvent = FALSE
  /\ minToCopy \in {PerCpuMinToCopy(m) : m \in MinToCopies} /\ timeOut \in TimeOuts
  /\ filter = 0
  /\ tap = [c \in Cpus |-> idleTap]
  /\ transfer = [c \in Cpus |-> noTransfer]
  /\ unfreeze = [c \in Cpus |-> FALSE]
  /\ rd = idleRead /\ io = idleIo
  /\ arrivals = 0
  /\ stored = [c \in Cpus |-> << >>]
  /\ captured = << >> /\ delivered = << >>
  /\ produced = [c \in Cpus |-> 0] /\ consumed = [c \in Cpus |-> 0]

\* NPF_tap once it has a frame
TapStep(c) ==
  \/ \E fres \in FilterResults : TapFilter(c, fres)
  \/ TapCheckSize(c)
  \/ TapNoRoom(c) \/ TapDropPending(c) \/ TapStore(c)
  \/ TapTransferFails(c) \/ TapTransferLater(c)
  \/ \E result \in TransferResults : TapTransferNow(c, result)
  \/ TapPublish(c) \/ TapSignal(c)

TransferStep(c) ==
  \/ \E result \in TransferResults : TransferComplete(c, result)
  \/ TransferPublish(c)
  \/ TransferRelease(c) \/ TransferUnfreeze(c)

ReadStep ==
  \/ ReadOccupation \/ ReadCheck
  \/ ReadAwake \/ ReadTimeOut \/ ReadClear \/ ReadPrepare
  \/ ReadSkipCpu \/ ReadHeader \/ ReadData \/ ReadFree \/ ReadReturn

IoctlStep == IoctlLock \/ ResetBufferContents \/ ReplaceBuffers

Ioctl ==
  \/ SetFilter \/ DisableLoopback
  \/ \E dim \in Dims : SetBufferSize(dim)
  \/ \E m \in MinToCopies : SetMinToCopy(m)
  \/ \E t \in TimeOuts : SetTimeOut(t)

Next ==
  \/ \E c \in Cpus, f \in Frames : TapReceive(c, f)
  \/ \E c \in Cpus : TapStep(c) \/ TransferStep(c)
  \/ \E len \in ReadLengths : ReadStart(len)
  \/ ReadStep
  \/ Ioctl
  \/ IoctlStep

Spec == Init /\ [][Next]_vars

\* A tap, a completion and a thread inside the driver go on; NDIS completes
\* every transfer; the application reads again after each read.  Frames and
\* ioctls come or do not.
Fairness ==
  /\ \A c \in Cpus : WF_vars(TapStep(c)) /\ WF_vars(TransferStep(c))
  /\ WF_vars(ReadStep) /\ WF_vars(IoctlStep)
  /\ WF_vars(\E len \in ReadLengths : ReadStart(len))

FairSpec == Spec /\ Fairness

-------------------------------------------------------------------------------
(****************************** properties *******************************)
Cell == [pkt : Nat, k : Int, sn : Int, len : Nat]
Frame == [hdr : Nat, look : Nat, total : Nat]
Tap == [pc : {"idle", "filter", "size", "lock", "publish", "signal"},
        frame : Frame, pkt : Nat, len : Nat, filter : Nat, inc : Nat]
Transfer == [pc : {"none", "pending", "publish", "signal"}, frame : Frame,
             pkt : Nat, len : Nat, filter : Nat, newP : Int, inc : Int]
Read == [pc : {"idle", "sum", "check", "wait", "clear", "prepare", "scan",
               "copy", "free"},
         available : Nat, copied : Nat, count : 0 .. NCpu, cpu : Cpus,
         occupation : Int, plen : Nat, inc : Nat]
Io == [pc : {"idle", "lock", "apply"}, op : {"none", "reset", "resize"},
       size : Nat, next : 0 .. NCpu, calls : Nat]
Stored == [sn : Nat, pkt : Nat, len : Nat, filter : Nat, at : Int]

(* Types.                                                                  *)
TypeOK ==
  /\ size \in Nat
  /\ buffer \in [Cpus -> [0 .. size - 1 -> Cell]]
  /\ P \in [Cpus -> Int] /\ C \in [Cpus -> Int] /\ Free \in [Cpus -> Int]
  /\ lock \in [Cpus -> {"free", "tap", "transfer", "ioctl"}]
  /\ Received \in [Cpus -> Nat] /\ Accepted \in [Cpus -> Nat]
  /\ Dropped \in [Cpus -> Nat]
  /\ WriterSN \in Nat /\ ReaderSN \in Nat
  /\ readEvent \in BOOLEAN
  /\ minToCopy \in Nat /\ timeOut \in TimeOutKinds /\ filter \in Nat
  /\ tap \in [Cpus -> Tap] /\ transfer \in [Cpus -> Transfer]
  /\ unfreeze \in [Cpus -> BOOLEAN]
  /\ rd \in Read /\ io \in Io /\ arrivals \in Nat
  /\ stored \in [Cpus -> Seq(Stored)]
  /\ captured \in Seq([pkt : Nat, len : Nat, cpu : Cpus, filter : Nat])
  /\ produced \in [Cpus -> Int] /\ consumed \in [Cpus -> Int]
  /\ delivered \in Seq(Seq(Cell))

\* bytes in the ring of c between its header positions, stored or being freed
InUse(c) == produced[c] - consumed[c]

\* bytes of c a producer has filled and not yet taken from Free
Unpublished(c) ==
  (IF tap[c].pc = "publish" THEN tap[c].inc ELSE 0)
    + (IF transfer[c].pc = "publish" THEN transfer[c].inc ELSE 0)

\* bytes of c the reader has copied and not yet given back to Free
Unfreed(c) == IF rd.pc = "free" /\ rd.cpu = c THEN rd.inc ELSE 0

\* the header position of the oldest packet of c; C itself, except between
\* the two copies of a packet, when C is past its header
OldestAt(c) ==
  IF rd.pc = "copy" /\ rd.cpu = c
    THEN IF C[c] = 0 THEN size - HdrSize ELSE C[c] - HdrSize
    ELSE C[c]

(* Free always says how much of the ring is free, whatever tap and reader  *)
(* have in hand: it never underflows and never exceeds the buffer, even    *)
(* though each side adds or subtracts the skipped tail on its own, and P   *)
(* is always as far ahead of C as the bytes in use say (Read.c, the two    *)
(* computations of increment).                                             *)
RingAccounting ==
  \A c \in Cpus :
    /\ Free[c] \in 0 .. size
    /\ Free[c] = size - InUse(c) + Unpublished(c) - Unfreed(c)
    /\ InUse(c) \in 0 .. size
    /\ P[c] \in {OldestAt(c) + InUse(c), OldestAt(c) + InUse(c) - size}
    /\ size > 0 => {P[c], OldestAt(c)} \subseteq 0 .. size - HdrSize

\* where the header of stored packet s of c is
Position(c, s) == At(OldestAt(c), s.at - consumed[c], size)

\* the packet s is in buffer b at p: every cell of its header and its bytes
IntactAt(b, p, s) ==
  /\ \A k \in 0 .. HdrSize - 1 : b[At(p, k, size)] = Header(s.sn, s.len, k)
  /\ \A k \in 0 .. s.len - 1 :
       b[At(AfterHeader(p, size), k, size)] = Data(s.pkt, k)

(* No producer ever writes over a packet the application has not read yet, *)
(* and the oldest one is where C points: each packet keeps its header and  *)
(* bytes until the reader has copied them, over wraps, skipped tails,      *)
(* staged and pending transfers and resets.                                *)
StoredIntact ==
  \A c \in Cpus :
    /\ \A i \in DOMAIN stored[c] :
         IntactAt(buffer[c], Position(c, stored[c][i]), stored[c][i])
    /\ stored[c] # << >> => Head(stored[c]).at = consumed[c]

\* the bytes of a captured packet
BytesOf(p) == [k \in 1 .. p.len |-> Data(p.pkt, k - 1)]

(* The application gets every captured packet once, in the order of the    *)
(* sequence numbers although they come from several buffers, with the      *)
(* bytes that were on the wire.                                            *)
DeliveredInOrder ==
  /\ Len(captured) = WriterSN /\ Len(delivered) = ReaderSN
  /\ ReaderSN <= WriterSN
  /\ \A i \in 1 .. Len(delivered) : delivered[i] = BytesOf(captured[i])

\* a frame counted on c whose fate is not
InFlight(c) ==
  (IF tap[c].pc \in {"filter", "size", "lock"} THEN 1 ELSE 0)
    + (IF transfer[c].pc = "pending" THEN 1 ELSE 0)

(* A frame that was counted in Received before the counters were reset and *)
(* is accepted or dropped after it can make the statistics of a CPU exceed *)
(* what it received, but by one frame at most.                             *)
StatisticsDrift ==
  \A c \in Cpus : Accepted[c] + Dropped[c] + InFlight(c) <= Received[c] + 1

\* packets of c from a filter that is no longer installed
StalePackets(c) ==
  {i \in DOMAIN captured : captured[i].cpu = c /\ captured[i].filter # filter}

(* Once BIOCSETF has returned, at most one packet per CPU can still come   *)
(* from an older filter: the one whose tap was past the filter.            *)
OneStalePacketPerCpu ==
  io.pc = "idle" => \A c \in Cpus : Cardinality(StalePackets(c)) <= 1

(* The documented intent of BIOCSETF (ioctls.h): no packet that does not   *)
(* match the filter in the buffer.                                         *)
NoStalePacket == io.pc = "idle" => \A c \in Cpus : StalePackets(c) = {}

(* A read never writes past the end of the user buffer.                    *)
ReadFitsUserBuffer == rd.pc = "copy" => rd.copied + rd.plen <= rd.available

\* no producer is between filling the buffer and setting the event
NoSignalDue ==
  \A c \in Cpus : /\ tap[c].pc \notin {"publish", "signal"}
                  /\ transfer[c].pc \notin {"publish", "signal"}
                  /\ ~unfreeze[c]

\* bytes in the buffers of the CPUs below n
SumBelow[n \in 0 .. NCpu] ==
  IF n = 0 THEN 0 ELSE SumBelow[n - 1] + Occupied(n - 1)

(* A reader stays blocked only while the buffers hold no more than         *)
(* MinToCopy, once the taps have done their signalling (NPF_Read in        *)
(* Packet.h).                                                              *)
BlockedOnlyBelowMinToCopy ==
  rd.pc = "wait" /\ ~readEvent /\ NoSignalDue
    => ~EnoughToCopy(SumBelow[NCpu])

\* what is in the buffers of all CPUs, merged by sequence number
Queue == [i \in 1 .. Len(captured) - Len(delivered) |->
            BytesOf(captured[Len(delivered) + i])]

FIFO == INSTANCE PacketFIFO WITH Packet <- Seq(Cell), queue <- Queue,
                                 received <- delivered

(* Every packet given a sequence number reaches the application or is      *)
(* discarded by a reset: the driver implements PacketFIFO, liveness        *)
(* included (the round robin of NPF_Read over the CPUs and its event).     *)
DeliversAll == FIFO!Spec

(* A read that has a timeout returns, whatever the taps do meanwhile.      *)
ReadReturns == rd.pc # "idle" ~> rd.pc = "idle"
===============================================================================
