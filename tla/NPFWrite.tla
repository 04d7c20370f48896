------------------------------- MODULE NPFWrite -------------------------------
(***************************************************************************)
(* Packet injection by one open instance (packetNtx/driver/Write.c and     *)
(* BIOCSENDPACKETS* in Packet.c): NPF_Write repeats one packet Nwrites     *)
(* times, NPF_BufferedWrite sends a queue of packets, and NDIS gives each  *)
(* packet back through NPF_SendComplete, in the thread of the writer or in *)
(* a DPC of any CPU.                                                       *)
(*                                                                         *)
(* The packets in flight are counted in TransmitPendingPackets or          *)
(* Multiple_Write_Counter; the two events are all the writer waits for.    *)
(* WriteEvent only ends early a wait that has a timeout, so such a wait    *)
(* may end at any time here and the event itself has no state.             *)
(***************************************************************************)
EXTENDS NPFBinding, FiniteSets

CONSTANTS
  Writers,          \* threads with IRPs of this instance
  Dpcs,             \* CPUs on which NDIS completes sends
  TRANSMIT_PACKETS, \* packets of Open->PacketPool
  Repeats,          \* values of Nwrites, set with BIOCSWRITEREP
  Bursts,           \* numbers of packets in a send queue; 0: buffered writes
                    \* are not used
  WaitsExpire,      \* NDIS may take longer than TRANSMIT_PACKETS waits
  Word,             \* 2^32: ULONG counters
  MaxCalls          \* bound: IRPs of each writer

ASSUME WriteAssumption ==
  /\ TRANSMIT_PACKETS \in Nat \ {0}
  /\ Repeats \subseteq Nat /\ Bursts \subseteq Nat
  /\ WaitsExpire \in BOOLEAN
  /\ IsFiniteSet(Writers) /\ IsFiniteSet(Dpcs) /\ Writers \cap Dpcs = {}
  /\ Word \in Nat /\ Word > TRANSMIT_PACKETS + Cardinality(Writers \cup Dpcs)
  /\ MaxCalls \in Nat

Packets == 1 .. TRANSMIT_PACKETS

Contexts == Writers \cup Dpcs

VARIABLES
  WriteInProgress,
  TransmitPendingPackets, Multiple_Write_Counter,
  writeComplete,    \* NdisWriteCompleteEvent is signalled
  packet,           \* where each packet of the pool is, and whose it is
  writer,           \* each writer's place in NPF_Write or BIOCSENDPACKETS*
  completion        \* the NPF_SendComplete running in each context

writeVars == <<WriteInProgress, TransmitPendingPackets, Multiple_Write_Counter,
               writeComplete, packet, writer, completion>>
vars == <<bindingVars, writeVars>>

-------------------------------------------------------------------------------
\* a packet of the pool: irp is the call of writer by that sends it
FreePacket == [at |-> "free", kind |-> "none", by |-> 0, irp |-> 0]

\* calls numbers the IRPs of a writer, todo counts packets still to send,
\* waits the waits of NPF_WaitEndOfBufferedWrite
IdleWriter == [pc |-> "idle", kind |-> "none", todo |-> 0, waits |-> 0, calls |-> 0]

\* still is stillPendingPackets; pkt 0 is no packet
NoCompletion == [pc |-> "none", pkt |-> 0, still |-> 0]

Free == {p \in Packets : packet[p].at = "free"}

At(w, pc) == writer[w].pc = pc

Goto(w, pc) == writer' = [writer EXCEPT ![w].pc = pc]

\* the packet w has taken from the pool and not yet given to NDIS
InHand(w) == CHOOSE p \in Packets : packet[p].at = "taken" /\ packet[p].by = w

-------------------------------------------------------------------------------
(* NPF_Write up to the lock: Nwrites copies of one packet of legal length, *)
(* if the adapter is still bound.  (It returns at once otherwise.)         *)
WriteStart(w, n) ==
  /\ At(w, "idle") /\ writer[w].calls < MaxCalls /\ n > 0
  /\ StartUsingBinding
  /\ writer' = [writer EXCEPT ![w] = [pc |-> "claim", kind |-> "write", todo |-> n,
                                       waits |-> 0, calls |-> writer[w].calls + 1]]
  /\ UNCHANGED <<WriteInProgress, TransmitPendingPackets,
                 Multiple_Write_Counter, writeComplete, packet, completion>>

\* mutant: the failing write does not release the binding
BusyKeepsBinding(w) ==
  /\ At(w, "claim") /\ WriteInProgress
  /\ Goto(w, "idle")
  /\ UNCHANGED <<bindingVars, WriteInProgress, TransmitPendingPackets,
                 Multiple_Write_Counter, writeComplete, packet, completion>>

(* Under WriteLock: one write at a time, a second one fails.               *)
WriteBusy(w) ==
  /\ At(w, "claim") /\ WriteInProgress
  /\ StopUsingBinding
  /\ Goto(w, "idle")
  /\ UNCHANGED <<WriteInProgress, TransmitPendingPackets,
                 Multiple_Write_Counter, writeComplete, packet, completion>>

\* mutant: the flag is not looked at
ClaimAnyway(w) ==
  /\ At(w, "claim")
  /\ WriteInProgress' = TRUE /\ writeComplete' = FALSE
  /\ Goto(w, "reset")
  /\ UNCHANGED <<bindingVars, TransmitPendingPackets, Multiple_Write_Counter,
                 packet, completion>>

WriteClaim(w) ==
  /\ At(w, "claim") /\ ~WriteInProgress
  /\ WriteInProgress' = TRUE /\ writeComplete' = FALSE
  /\ Goto(w, "reset")
  /\ UNCHANGED <<bindingVars, TransmitPendingPackets, Multiple_Write_Counter,
                 packet, completion>>

WriteReset(w) ==
  /\ At(w, "reset")
  /\ TransmitPendingPackets' = 0
  /\ Goto(w, "send")
  /\ UNCHANGED <<bindingVars, WriteInProgress, Multiple_Write_Counter,
                 writeComplete, packet, completion>>

\* a packet leaves the pool for writer w (which one does not matter)
Take(w) ==
  \E p \in Free :
    /\ \A q \in Free : p <= q
    /\ packet' = [packet EXCEPT ![p] = [at |-> "taken", kind |-> writer[w].kind,
                                        by |-> w, irp |-> writer[w].calls]]

(* NdisAllocatePacket, then InterlockedIncrement.  With no free packet the *)
(* loop tries again a millisecond later.                                   *)
WriteTake(w) ==
  /\ At(w, "send") /\ writer[w].kind = "write" /\ writer[w].todo > 0
  /\ Take(w)
  /\ TransmitPendingPackets' = (TransmitPendingPackets + 1) % Word
  /\ Goto(w, "arm")
  /\ UNCHANGED <<bindingVars, WriteInProgress, Multiple_Write_Counter,
                 writeComplete, completion>>

(* NdisResetEvent(&Open->NdisWriteCompleteEvent).                          *)
WriteArm(w) ==
  /\ At(w, "arm")
  /\ writeComplete' = FALSE
  /\ Goto(w, "ndis")
  /\ UNCHANGED <<bindingVars, WriteInProgress, TransmitPendingPackets,
                 Multiple_Write_Counter, packet, completion>>

(* NdisSend returns NDIS_STATUS_PENDING: NDIS will complete the packet.    *)
SendPends(w) ==
  /\ At(w, "ndis")
  /\ packet' = [packet EXCEPT ![InHand(w)].at = "ndis"]
  /\ writer' = [writer EXCEPT ![w].pc = "send", ![w].todo = @ - 1]
  /\ UNCHANGED <<bindingVars, WriteInProgress, TransmitPendingPackets,
                 Multiple_Write_Counter, writeComplete, completion>>

\* NPF_SendComplete starts in context x for packet p: it decrements the
\* counter first for NPF_Write, frees the packet first for buffered writes
SendComplete(x, p) ==
  /\ packet' = [packet EXCEPT ![p].at = "back"]
  /\ completion' = [completion EXCEPT ![x] =
       [pc |-> IF packet[p].kind = "write" THEN "count" ELSE "free", pkt |-> p, still |-> 0]]

(* NdisSend has sent it: the writer calls NPF_SendComplete itself.         *)
SendIsDone(w) ==
  /\ At(w, "ndis")
  /\ SendComplete(w, InHand(w))
  /\ Goto(w, "completing")
  /\ UNCHANGED <<bindingVars, WriteInProgress, TransmitPendingPackets,
                 Multiple_Write_Counter, writeComplete>>

SendReturns(w) ==
  /\ At(w, "completing") /\ completion[w].pc = "none"
  /\ writer' = [writer EXCEPT ![w].pc = "send", ![w].todo = @ - 1]
  /\ UNCHANGED <<bindingVars, WriteInProgress, TransmitPendingPackets,
                 Multiple_Write_Counter, writeComplete, packet, completion>>

(* "wait for all the packets to be completed by the SendComplete", then    *)
(* "release the use of the adapter binding".                               *)
WriteDrained(w) ==
  /\ At(w, "send") /\ writer[w].kind = "write" /\ writer[w].todo = 0
  /\ writeComplete
  /\ StopUsingBinding
  /\ Goto(w, "unclaim")
  /\ UNCHANGED <<WriteInProgress, TransmitPendingPackets,
                 Multiple_Write_Counter, writeComplete, packet, completion>>

(* No write is in progress any more; the IRP is completed.                 *)
WriteUnclaim(w) ==
  /\ At(w, "unclaim")
  /\ WriteInProgress' = FALSE
  /\ Goto(w, "idle")
  /\ UNCHANGED <<bindingVars, TransmitPendingPackets, Multiple_Write_Counter,
                 writeComplete, packet, completion>>

-------------------------------------------------------------------------------
(* BIOCSENDPACKETS*: fails if a write is in progress ...                   *)
BufferedStart(w, n) ==
  /\ At(w, "idle") /\ writer[w].calls < MaxCalls /\ n > 0
  /\ ~WriteInProgress
  /\ WriteInProgress' = TRUE
  /\ writer' = [writer EXCEPT ![w] = [pc |-> "bind", kind |-> "buffered", todo |-> n,
                                       waits |-> 0, calls |-> writer[w].calls + 1]]
  /\ UNCHANGED <<bindingVars, TransmitPendingPackets, Multiple_Write_Counter,
                 writeComplete, packet, completion>>

(* ... or does nothing: the adapter was removed, or there is no buffer to  *)
(* send or no frame size (the binding is released again at once).          *)
BufferedRefused(w) ==
  /\ At(w, "bind")
  /\ Goto(w, "unclaim")
  /\ UNCHANGED <<bindingVars, WriteInProgress, TransmitPendingPackets,
                 Multiple_Write_Counter, writeComplete, packet, completion>>

BufferedBind(w) ==
  /\ At(w, "bind")
  /\ StartUsingBinding
  /\ Multiple_Write_Counter' = 0
  /\ Goto(w, "send")
  /\ UNCHANGED <<WriteInProgress, TransmitPendingPackets, writeComplete,
                 packet, completion>>

(* The next packet of the queue, with an MDL of its own.                   *)
BufferedTake(w) ==
  /\ At(w, "send") /\ writer[w].kind = "buffered" /\ writer[w].todo > 0
  /\ Take(w)
  /\ Multiple_Write_Counter' = (Multiple_Write_Counter + 1) % Word
  /\ Goto(w, "ndis")
  /\ UNCHANGED <<bindingVars, WriteInProgress, TransmitPendingPackets,
                 writeComplete, completion>>

(* End of the queue, a malformed header, no memory, a pool still empty     *)
(* after a second, or a schedule that takes longer than a second.          *)
BufferedEnd(w) ==
  /\ At(w, "send") /\ writer[w].kind = "buffered"
  /\ Goto(w, "drain")
  /\ UNCHANGED <<bindingVars, WriteInProgress, TransmitPendingPackets,
                 Multiple_Write_Counter, writeComplete, packet, completion>>

(* NPF_WaitEndOfBufferedWrite, one wait of 100 ms: the last one expires    *)
(* only if NDIS is slow.                                                   *)
BufferedWait(w) ==
  /\ At(w, "drain")
  /\ Multiple_Write_Counter > 0
  /\ writer[w].waits < TRANSMIT_PACKETS - (IF WaitsExpire THEN 0 ELSE 1)
  /\ writer' = [writer EXCEPT ![w].waits = @ + 1]
  /\ UNCHANGED <<bindingVars, WriteInProgress, TransmitPendingPackets,
                 Multiple_Write_Counter, writeComplete, packet, completion>>

\* mutant: the counter is not looked at
BufferedGiveUp(w) == At(w, "drain")

BufferedIsOver(w) ==
  /\ At(w, "drain")
  /\ Multiple_Write_Counter = 0 \/ writer[w].waits = TRANSMIT_PACKETS

BufferedDrained(w) ==
  /\ BufferedIsOver(w)
  /\ StopUsingBinding
  /\ Goto(w, "unclaim")
  /\ UNCHANGED <<WriteInProgress, TransmitPendingPackets,
                 Multiple_Write_Counter, writeComplete, packet, completion>>

-------------------------------------------------------------------------------
(* NDIS gives packet p back, in a DPC.                                     *)
NdisCompletes(d, p) ==
  /\ completion[d].pc = "none" /\ packet[p].at = "ndis"
  /\ SendComplete(d, p)
  /\ UNCHANGED <<bindingVars, WriteInProgress, TransmitPendingPackets,
                 Multiple_Write_Counter, writeComplete, writer>>

\* mutant: the count is taken before the decrement
CompleteCountEarly(x) ==
  /\ completion[x].pc = "count"
  /\ TransmitPendingPackets' = (TransmitPendingPackets - 1) % Word
  /\ completion' = [completion EXCEPT ![x].pc = "recycle",
                                      ![x].still = TransmitPendingPackets]
  /\ UNCHANGED <<bindingVars, WriteInProgress, Multiple_Write_Counter,
                 writeComplete, packet, writer>>

(* NPF_SendComplete for NPF_Write: InterlockedDecrement, then the packet   *)
(* goes back to the pool, then the event if this was the last packet.      *)
CompleteCount(x) ==
  /\ completion[x].pc = "count"
  /\ TransmitPendingPackets' = (TransmitPendingPackets - 1) % Word
  /\ completion' = [completion EXCEPT ![x].pc = "recycle",
                                      ![x].still = TransmitPendingPackets']
  /\ UNCHANGED <<bindingVars, WriteInProgress, Multiple_Write_Counter,
                 writeComplete, packet, writer>>

CompleteRecycle(x) ==
  /\ completion[x].pc = "recycle"
  /\ packet' = [packet EXCEPT ![completion[x].pkt] = FreePacket]
  /\ completion' = [completion EXCEPT ![x].pc = "signal", ![x].pkt = 0]
  /\ UNCHANGED <<bindingVars, WriteInProgress, TransmitPendingPackets,
                 Multiple_Write_Counter, writeComplete, writer>>

CompleteSignal(x) ==
  /\ completion[x].pc = "signal"
  /\ writeComplete' = (writeComplete \/ completion[x].still = 0)
  /\ completion' = [completion EXCEPT ![x] = NoCompletion]
  /\ UNCHANGED <<bindingVars, WriteInProgress, TransmitPendingPackets,
                 Multiple_Write_Counter, packet, writer>>

(* NPF_SendComplete for buffered writes: MDL and packet are freed, then    *)
(* the counter is decremented.                                             *)
CompleteFree(x) ==
  /\ completion[x].pc = "free"
  /\ packet' = [packet EXCEPT ![completion[x].pkt] = FreePacket]
  /\ completion' = [completion EXCEPT ![x].pc = "discount", ![x].pkt = 0]
  /\ UNCHANGED <<bindingVars, WriteInProgress, TransmitPendingPackets,
                 Multiple_Write_Counter, writeComplete, writer>>

CompleteDiscount(x) ==
  /\ completion[x].pc = "discount"
  /\ Multiple_Write_Counter' = (Multiple_Write_Counter - 1) % Word
  /\ completion' = [completion EXCEPT ![x] = NoCompletion]
  /\ UNCHANGED <<bindingVars, WriteInProgress, TransmitPendingPackets,
                 writeComplete, packet, writer>>

-------------------------------------------------------------------------------
Init ==
  /\ BindingInit
  /\ WriteInProgress = FALSE
  /\ TransmitPendingPackets = 0 /\ Multiple_Write_Counter = 0
  /\ writeComplete = FALSE
  /\ packet = [p \in Packets |-> FreePacket]
  /\ writer = [w \in Writers |-> IdleWriter]
  /\ completion = [x \in Contexts |-> NoCompletion]

\* NPF_Write, then BIOCSENDPACKETS*, once they are past their first lock
WriterStep(w) ==
  \/ WriteBusy(w) \/ WriteClaim(w) \/ WriteReset(w) \/ WriteTake(w)
  \/ WriteArm(w) \/ SendPends(w) \/ SendIsDone(w) \/ SendReturns(w)
  \/ WriteDrained(w) \/ WriteUnclaim(w)
  \/ BufferedRefused(w) \/ BufferedBind(w) \/ BufferedTake(w)
  \/ BufferedEnd(w) \/ BufferedWait(w) \/ BufferedDrained(w)

CompletionStep(x) ==
  \/ CompleteCount(x) \/ CompleteRecycle(x) \/ CompleteSignal(x)
  \/ CompleteFree(x) \/ CompleteDiscount(x)

\* NPF_UnbindAdapter and NPF_Cleanup may close the binding at any time
UnbindStep(t) == CloseBindingStep(t) /\ UNCHANGED writeVars

Next ==
  \/ \E w \in Writers : \E n \in Repeats : WriteStart(w, n)
  \/ \E w \in Writers : \E n \in Bursts : BufferedStart(w, n)
  \/ \E w \in Writers : WriterStep(w)
  \/ \E d \in Dpcs, p \in Packets : NdisCompletes(d, p)
  \/ \E x \in Contexts : CompletionStep(x)
  \/ \E t \in Closers : CloseBinding(t) /\ UNCHANGED writeVars
  \/ \E t \in Closers : UnbindStep(t)

Spec == Init /\ [][Next]_vars

\* Threads and DPCs go on, and NDIS gives every packet back.
Fairness ==
  /\ \A w \in Writers : WF_vars(WriterStep(w))
  /\ \A x \in Contexts : WF_vars(CompletionStep(x))
  /\ \A p \in Packets : WF_vars(\E d \in Dpcs : NdisCompletes(d, p))
  /\ \A t \in Closers : WF_vars(UnbindStep(t))

FairSpec == Spec /\ Fairness

-------------------------------------------------------------------------------
(****************************** properties *******************************)
WriterPcs == {"idle", "claim", "reset", "send", "arm", "ndis", "completing",
              "unclaim", "bind", "drain"}

TypeOK ==
  /\ BindingTypeOK
  /\ WriteInProgress \in BOOLEAN /\ writeComplete \in BOOLEAN
  /\ TransmitPendingPackets \in 0 .. Word - 1
  /\ Multiple_Write_Counter \in 0 .. Word - 1
  /\ packet \in [Packets -> [at : {"free", "taken", "ndis", "back"},
                              kind : {"none", "write", "buffered"},
                              by : Writers \cup {0}, irp : Nat]]
  /\ writer \in [Writers -> [pc : WriterPcs, kind : {"none", "write", "buffered"},
                              todo : Nat, waits : Nat, calls : Nat]]
  /\ completion \in [Contexts ->
       [pc : {"none", "count", "recycle", "signal", "free", "discount"},
        pkt : Packets \cup {0}, still : 0 .. Word - 1]]

\* packets NDIS or NPF_SendComplete still has
Outstanding == {p \in Packets : packet[p].at \in {"ndis", "back"}}

\* w is between NPF_StartUsingBinding and NPF_StopUsingBinding of its call
Holding(w) == writer[w].pc \notin {"idle", "unclaim", "bind"}

(* The user's memory and the handle of the adapter outlive the packets     *)
(* made of them: a packet NDIS has not given back belongs to the call its  *)
(* writer is still in, and that call still holds the binding ("all the     *)
(* packets have been transmitted, release the use of the adapter           *)
(* binding").                                                              *)
PacketsHeld ==
  \A p \in Outstanding :
    LET w == packet[p].by
    IN  Holding(w) /\ writer[w].calls = packet[p].irp

\* packets of this kind that have been counted and not yet discounted
Counted(kind, pcs) ==
  Cardinality({p \in Packets : /\ packet[p].kind = kind
                               /\ packet[p].at # "free"
                               /\ \A x \in Contexts : completion[x].pkt = p
                                     => completion[x].pc \notin pcs})

(* "the number of packets that are pending to be transmitted": neither     *)
(* counter is ever off, although writers reset them, increment them and    *)
(* read them while completions decrement them without a lock; off by one   *)
(* and a writer never wakes, or wakes too soon.                            *)
PendingIsExact ==
  /\ TransmitPendingPackets = Counted("write", {"recycle"})
  /\ Multiple_Write_Counter
       = Counted("buffered", {})
           + Cardinality({x \in Contexts : completion[x].pc = "discount"})

(* The adapter is closed only when no write holds its handle.              *)
NoUseOfClosedAdapter ==
  (\E w \in Writers : Holding(w)) => AdapterBindingStatus = "bound"

(* A write ends: no event is lost and no counter left above 0.             *)
WriteReturns == \A w \in Writers : writer[w].pc # "idle" ~> writer[w].pc = "idle"

(* NPF_CloseBinding ends: no write keeps the binding for ever.             *)
UnbindReturns == \A t \in Closers : closer[t] # "none" ~> closer[t] = "done"
===============================================================================
