---------------------------- MODULE NPFWrite_proof ----------------------------
(***************************************************************************)
(* For any number of writers, CPUs, packets and calls: the adapter is not  *)
(* closed under a write, and (for Nwrites = 1 and waits that do not        *)
(* expire) both counters of pending packets are exact and no call ends     *)
(* before NDIS has given its packets back.                                 *)
(***************************************************************************)
EXTENDS NPFWrite, FiniteSetTheorems, TLAPS

(******************************* the invariant ***************************)
PacketRecord == [at : {"free", "taken", "ndis", "back"}, kind : {"none", "write", "buffered"},
                 by : Writers \cup {0}, irp : Nat]
WriterRecord == [pc : WriterPcs, kind : {"none", "write", "buffered"}, todo : Nat,
                 waits : Nat, calls : Nat]
CompletionRecord == [pc : {"none", "count", "recycle", "signal", "free", "discount"},
                     pkt : Packets \cup {0}, still : 0 .. Word - 1]

\* everything but the binding
StateTypeOK ==
  /\ WriteInProgress \in BOOLEAN /\ writeComplete \in BOOLEAN
  /\ TransmitPendingPackets \in 0 .. Word - 1
  /\ Multiple_Write_Counter \in 0 .. Word - 1
  /\ packet \in [Packets -> PacketRecord]
  /\ writer \in [Writers -> WriterRecord]
  /\ completion \in [Contexts -> CompletionRecord]

\* past the lock of NPF_Write, or past the flag of BIOCSENDPACKETS*
Active(w) == writer[w].pc \notin {"idle", "claim"}

Sending(w) == writer[w].pc \in {"send", "arm", "ndis", "completing", "drain"}

(* One call at a time is past the test of WriteInProgress.                 *)
Exclusive ==
  /\ WriteInProgress <=> \E w \in Writers : Active(w)
  /\ \A v, w \in Writers : Active(v) /\ Active(w) => v = w

(* What a place in the code says of the call.                              *)
Place(w) ==
  /\ writer[w].pc \in {"claim", "reset", "arm"} => writer[w].kind = "write"
  /\ writer[w].pc \in {"bind", "drain"} => writer[w].kind = "buffered"
  /\ Sending(w) => writer[w].kind \in {"write", "buffered"}
  /\ writer[w].pc \in {"arm", "ndis", "completing"} => writer[w].todo > 0
  /\ writer[w].pc \in {"arm", "ndis"} =>
       \E p \in Packets : packet[p].at = "taken" /\ packet[p].by = w
  /\ writer[w].kind = "write" => writer[w].todo <= 1
  /\ writer[w].pc \in {"claim", "reset"} => writer[w].todo = 1
  /\ writer[w].waits < TRANSMIT_PACKETS
  /\ completion[w].pc # "none" => writer[w].pc = "completing"

Places == \A w \in Writers : Place(w)

(* A packet out of the pool belongs to a call that is still sending.       *)
Owned ==
  \A p \in Packets :
    packet[p].at # "free" =>
      /\ packet[p].by \in Writers /\ Sending(packet[p].by)
      /\ packet[p].irp = writer[packet[p].by].calls
      /\ packet[p].kind = writer[packet[p].by].kind
      /\ packet[p].at = "taken" => /\ writer[packet[p].by].pc \in {"arm", "ndis"}
                                   /\ \A q \in Packets : packet[q].at = "taken" => q = p

(* Each NPF_SendComplete has its packet until it gives it to the pool, and *)
(* its sender waits for it to the end.                                     *)
Completions ==
  /\ \A x \in Contexts :
       /\ completion[x].pc \in {"count", "recycle"} <=>
            completion[x].pkt # 0 /\ packet[completion[x].pkt].kind = "write"
       /\ completion[x].pkt # 0 => /\ completion[x].pc \in {"count", "recycle", "free"}
                                   /\ packet[completion[x].pkt].at = "back"
       /\ completion[x].pc = "free" => completion[x].pkt # 0
       /\ completion[x].pc = "signal" =>
            \E w \in Writers : Sending(w) /\ writer[w].kind = "write"
       /\ completion[x].pc = "discount" =>
            \E w \in Writers : Sending(w) /\ writer[w].kind = "buffered"
  /\ \A x, y \in Contexts : completion[x].pkt = completion[y].pkt /\ completion[x].pkt # 0 => x = y

Signalling == {x \in Contexts : completion[x].pc = "signal"}

(* The one packet of NPF_Write is in the hands of one at a time, and the   *)
(* event says that nobody has it any more.                                 *)
Sole(w) ==
  Sending(w) /\ writer[w].kind = "write" =>
    /\ writer[w].pc \in {"arm", "ndis"} => \A p \in Packets : packet[p].at \in {"free", "taken"}
    /\ writer[w].pc = "ndis" => ~writeComplete
    /\ \/ writer[w].pc = "send" /\ writer[w].todo > 0
       \/ writer[w].pc \in {"send", "completing"} /\ writeComplete
       => Free = Packets /\ Signalling = {}

WriteOnce ==
  /\ \A p, q \in Packets : packet[p].at # "free" /\ packet[p].kind = "write"
                             /\ packet[q].at # "free" => p = q
  /\ \A p \in Packets : packet[p].at # "free" /\ packet[p].kind = "write" => Signalling = {}
  /\ \A x, y \in Signalling : x = y
  /\ \A w \in Writers : Sole(w)

WriteCounted == {p \in Packets : /\ packet[p].kind = "write" /\ packet[p].at # "free"
                                 /\ \A x \in Contexts : completion[x].pkt = p
                                       => completion[x].pc \notin {"recycle"}}
BufferedCounted == {p \in Packets : packet[p].kind = "buffered" /\ packet[p].at # "free"}
Discounting == {x \in Contexts : completion[x].pc = "discount"}

PendingInv ==
  /\ TransmitPendingPackets = Cardinality(WriteCounted)
  /\ Multiple_Write_Counter = Cardinality(BufferedCounted) + Cardinality(Discounting)

WriteInv ==
  /\ StateTypeOK /\ Exclusive /\ Places /\ Owned /\ Completions /\ WriteOnce
  /\ PendingInv

-------------------------------------------------------------------------------
(* What the steps do to a writer, and what they leave.                     *)
Others(w) == \A v \in Writers \ {w} : writer'[v] = writer[v]

LEMMA GotoEffect ==
  ASSUME writer \in [Writers -> WriterRecord], NEW w \in Writers, NEW pc \in WriterPcs,
         Goto(w, pc)
  PROVE  /\ writer' \in [Writers -> WriterRecord] /\ Others(w)
         /\ writer'[w].pc = pc /\ writer'[w].kind = writer[w].kind
         /\ writer'[w].todo = writer[w].todo /\ writer'[w].waits = writer[w].waits
         /\ writer'[w].calls = writer[w].calls
BY DEF Goto, Others, WriterRecord

\* a packet less to send
LEMMA SentEffect ==
  ASSUME writer \in [Writers -> WriterRecord], NEW w \in Writers, writer[w].todo > 0,
         writer' = [writer EXCEPT ![w].pc = "send", ![w].todo = @ - 1]
  PROVE  /\ writer' \in [Writers -> WriterRecord] /\ Others(w)
         /\ writer'[w].pc = "send" /\ writer'[w].kind = writer[w].kind
         /\ writer'[w].todo = writer[w].todo - 1 /\ writer'[w].waits = writer[w].waits
         /\ writer'[w].calls = writer[w].calls
BY DEF Others, WriterRecord, WriterPcs

LEMMA StartEffect ==
  ASSUME writer \in [Writers -> WriterRecord], NEW w \in Writers, NEW n \in Nat,
         NEW pc \in WriterPcs, NEW kind \in {"write", "buffered"},
         writer' = [writer EXCEPT ![w] = [pc |-> pc, kind |-> kind, todo |-> n, waits |-> 0,
                                          calls |-> writer[w].calls + 1]]
  PROVE  /\ writer' \in [Writers -> WriterRecord] /\ Others(w)
         /\ writer'[w].pc = pc /\ writer'[w].kind = kind
         /\ writer'[w].todo = n /\ writer'[w].waits = 0
BY DEF Others, WriterRecord, WriterPcs

(* Only the call that is sending has packets out of the pool or an         *)
(* NPF_SendComplete under way.                                             *)
Quiescent == Free = Packets /\ Signalling = {} /\ Discounting = {}

LEMMA OneSender ==
  ASSUME WriteInv, NEW w \in Writers, Active(w)
  PROVE  /\ \A p \in Packets : packet[p].at # "free" =>
                packet[p].by = w /\ Sending(w) /\ packet[p].kind = writer[w].kind
         /\ \A x \in Contexts : completion[x].pc = "signal" =>
                Sending(w) /\ writer[w].kind = "write"
         /\ \A x \in Contexts : completion[x].pc = "discount" =>
                Sending(w) /\ writer[w].kind = "buffered"
<1>1. \A v \in Writers : Sending(v) => Active(v) /\ v = w
  BY DEF WriteInv, Exclusive, Sending, Active
<1> QED
  BY <1>1 DEF WriteInv, Owned, Completions

LEMMA NoSender ==
  ASSUME WriteInv, ~WriteInProgress \/ \E w \in Writers : Active(w) /\ ~Sending(w)
  PROVE  Quiescent
<1>1. \A v \in Writers : ~Sending(v)
  BY DEF WriteInv, Exclusive, Sending, Active
<1> QED
  BY <1>1 DEF WriteInv, Owned, Completions, Quiescent, Free, Signalling, Discounting

(* Steps that touch neither packets nor completions.                       *)
LEMMA QuietKeeps ==
  ASSUME WriteInv, NEW w \in Writers, Others(w), packet' = packet, completion' = completion,
         Sending(w) /\ Sending(w)' =>
           /\ writer'[w].kind = writer[w].kind /\ writer'[w].calls = writer[w].calls
           /\ writer[w].pc \in {"arm", "ndis"} => writer'[w].pc \in {"arm", "ndis"},
         Sending(w) /\ ~Sending(w)' => Quiescent
  PROVE  /\ Owned' /\ Completions'
         /\ WriteCounted' = WriteCounted /\ BufferedCounted' = BufferedCounted
         /\ Discounting' = Discounting /\ Signalling' = Signalling /\ Free' = Free
<1>1. Owned /\ Completions
  BY DEF WriteInv
<1>2. ASSUME NEW v \in Writers, Sending(v), ~Quiescent
      PROVE  Sending(v)' /\ writer'[v].kind = writer[v].kind /\ writer'[v].calls = writer[v].calls
             /\ (writer[v].pc \in {"arm", "ndis"} => writer'[v].pc \in {"arm", "ndis"})
  BY <1>2 DEF Others, Sending
<1>3. Owned'
  <2>1. CASE Quiescent
    BY <2>1 DEF Owned, Quiescent, Free
  <2>2. CASE ~Quiescent
    BY <1>1, <1>2, <2>2 DEF Owned
  <2> QED
    BY <2>1, <2>2
<1>4. Completions'
  <2>1. CASE Quiescent
    BY <1>1, <2>1 DEF Completions, Quiescent, Signalling, Discounting
  <2>2. CASE ~Quiescent
    BY <1>1, <1>2, <2>2 DEF Completions
  <2> QED
    BY <2>1, <2>2
<1> QED
  BY <1>3, <1>4 DEF WriteCounted, BufferedCounted, Discounting, Signalling, Free

\* what a call does of WriteInProgress when it passes the test and when it ends
Claims(w) ==
  \/ (Active(w) <=> Active(w)') /\ WriteInProgress' = WriteInProgress
  \/ ~Active(w) /\ Active(w)' /\ ~WriteInProgress /\ WriteInProgress'
  \/ Active(w) /\ ~Active(w)' /\ ~WriteInProgress'

LEMMA ClaimsKeeps ==
  ASSUME Exclusive, NEW w \in Writers, Others(w), Claims(w), WriteInProgress \in BOOLEAN,
         WriteInProgress' \in BOOLEAN
  PROVE  Exclusive'
<1>1. \A v \in Writers \ {w} : Active(v)' <=> Active(v)
  BY DEF Others, Active
<1>2. CASE (Active(w) <=> Active(w)') /\ WriteInProgress' = WriteInProgress
  BY <1>1, <1>2 DEF Exclusive
<1>3. CASE ~Active(w) /\ Active(w)' /\ ~WriteInProgress /\ WriteInProgress'
  BY <1>1, <1>3 DEF Exclusive
<1>4. CASE Active(w) /\ ~Active(w)' /\ ~WriteInProgress'
  BY <1>1, <1>4 DEF Exclusive
<1> QED
  BY <1>2, <1>3, <1>4 DEF Claims

(* A step of w that touches neither packets nor completions.               *)
Quiet(w) ==
  /\ Others(w) /\ Claims(w) /\ writer' \in [Writers -> WriterRecord]
  /\ packet' = packet /\ completion' = completion
  /\ Sending(w) /\ Sending(w)' =>
       /\ writer'[w].kind = writer[w].kind /\ writer'[w].calls = writer[w].calls
       /\ writer[w].pc \in {"arm", "ndis"} => writer'[w].pc \in {"arm", "ndis"}
  /\ Sending(w) /\ ~Sending(w)' => Quiescent
  /\ WriteInProgress' \in BOOLEAN /\ writeComplete' \in BOOLEAN
  /\ writeComplete' = writeComplete \/ ~WriteInProgress \/ Active(w)
  /\ TransmitPendingPackets' = TransmitPendingPackets
       \/ (TransmitPendingPackets' = 0 /\ Quiescent)
  /\ Multiple_Write_Counter' = Multiple_Write_Counter
       \/ (Multiple_Write_Counter' = 0 /\ Quiescent)

LEMMA QuietStep ==
  ASSUME WriteAssumption, WriteInv, NEW w \in Writers, Quiet(w), Place(w)', Sole(w)'
  PROVE  WriteInv'
<1>0. /\ Others(w) /\ Claims(w) /\ writer' \in [Writers -> WriterRecord]
      /\ packet' = packet /\ completion' = completion
      /\ Sending(w) /\ Sending(w)' =>
           /\ writer'[w].kind = writer[w].kind /\ writer'[w].calls = writer[w].calls
           /\ writer[w].pc \in {"arm", "ndis"} => writer'[w].pc \in {"arm", "ndis"}
      /\ Sending(w) /\ ~Sending(w)' => Quiescent
      /\ WriteInProgress' \in BOOLEAN /\ writeComplete' \in BOOLEAN
      /\ writeComplete' = writeComplete \/ ~WriteInProgress \/ Active(w)
      /\ TransmitPendingPackets' = TransmitPendingPackets
           \/ (TransmitPendingPackets' = 0 /\ Quiescent)
      /\ Multiple_Write_Counter' = Multiple_Write_Counter
           \/ (Multiple_Write_Counter' = 0 /\ Quiescent)
  BY DEF Quiet
<1>1. /\ StateTypeOK /\ Exclusive /\ Places /\ Owned /\ Completions /\ WriteOnce
      /\ PendingInv
  BY DEF WriteInv
<1>2. /\ Owned' /\ Completions'
      /\ WriteCounted' = WriteCounted /\ BufferedCounted' = BufferedCounted
      /\ Discounting' = Discounting /\ Signalling' = Signalling /\ Free' = Free
  BY <1>0, QuietKeeps
<1>3. Exclusive'
  BY <1>0, <1>1, ClaimsKeeps DEF StateTypeOK
<1>4. StateTypeOK'
  BY <1>0, <1>1 DEF StateTypeOK, WriteAssumption
<1>5. Places'
  <2>1. ASSUME NEW v \in Writers \ {w} PROVE Place(v)'
    BY <1>0, <1>1 DEF Places, Place, Others, Sending
  <2> QED
    BY <2>1 DEF Places
<1>6. WriteOnce'
  <2>1. ASSUME NEW v \in Writers \ {w} PROVE Sole(v)'
    <3>1. writer'[v] = writer[v]
      BY <1>0 DEF Others
    <3>2. CASE ~Sending(v)
      BY <3>1, <3>2 DEF Sole, Sending
    <3>3. CASE Sending(v)
      <4>1. Active(v) /\ ~Active(w) /\ WriteInProgress
        BY <1>1, <3>3 DEF Exclusive, Active, Sending
      <4>2. writeComplete' = writeComplete
        BY <1>0, <4>1
      <4> QED
        BY <1>0, <1>1, <1>2, <3>1, <4>2 DEF WriteOnce, Sole, Sending
    <3> QED
      BY <3>2, <3>3
  <2>2. \A v \in Writers : Sole(v)'
    BY <2>1
  <2> QED
    BY <1>0, <1>1, <1>2, <2>2 DEF WriteOnce
<1>7. PendingInv'
  <2>1. Quiescent => WriteCounted = {} /\ BufferedCounted = {} /\ Discounting = {}
    BY DEF Quiescent, Free, WriteCounted, BufferedCounted
  <2> QED
    BY <1>0, <1>1, <1>2, <2>1, FS_EmptySet DEF PendingInv
<1> QED
  BY <1>2, <1>3, <1>4, <1>5, <1>6, <1>7 DEF WriteInv

(* The sets that the counters count.                                       *)
LEMMA FiniteSets ==
  ASSUME WriteAssumption
  PROVE  /\ IsFiniteSet(Packets) /\ Cardinality(Packets) = TRANSMIT_PACKETS
         /\ IsFiniteSet(Contexts) /\ Cardinality(Contexts) \in Nat
         /\ Word > TRANSMIT_PACKETS + Cardinality(Contexts)
<1>1. IsFiniteSet(Packets) /\ Cardinality(Packets) = TRANSMIT_PACKETS
  BY FS_Interval DEF Packets, WriteAssumption
<1>2. IsFiniteSet(Contexts)
  BY FS_Union DEF Contexts, WriteAssumption
<1> QED
  BY <1>1, <1>2, FS_CardinalityType DEF Contexts, WriteAssumption

LEMMA PendingBounds ==
  ASSUME WriteAssumption
  PROVE  /\ IsFiniteSet(WriteCounted) /\ Cardinality(WriteCounted) \in 0 .. TRANSMIT_PACKETS
         /\ IsFiniteSet(BufferedCounted) /\ Cardinality(BufferedCounted) \in 0 .. TRANSMIT_PACKETS
         /\ IsFiniteSet(Discounting) /\ Cardinality(Discounting) \in 0 .. Cardinality(Contexts)
<1>1. WriteCounted \subseteq Packets /\ BufferedCounted \subseteq Packets
      /\ Discounting \subseteq Contexts
  BY DEF WriteCounted, BufferedCounted, Discounting
<1>2. /\ IsFiniteSet(WriteCounted) /\ Cardinality(WriteCounted) <= Cardinality(Packets)
      /\ IsFiniteSet(BufferedCounted) /\ Cardinality(BufferedCounted) <= Cardinality(Packets)
      /\ IsFiniteSet(Discounting) /\ Cardinality(Discounting) <= Cardinality(Contexts)
  BY <1>1, FiniteSets, FS_Subset
<1>3. /\ Cardinality(WriteCounted) \in Nat /\ Cardinality(BufferedCounted) \in Nat
      /\ Cardinality(Discounting) \in Nat
  BY <1>2, FS_CardinalityType
<1> QED
  BY <1>2, <1>3, FiniteSets DEF WriteAssumption

-------------------------------------------------------------------------------
(* NPF_Write.                                                              *)
OneCopy == Repeats \subseteq {1} /\ ~WaitsExpire

LEMMA WriteStartKeeps ==
  ASSUME WriteAssumption, OneCopy, WriteInv, NEW w \in Writers, NEW n \in Repeats, WriteStart(w, n)
  PROVE  WriteInv'
<1>1. n = 1 /\ writer \in [Writers -> WriterRecord] /\ writer[w].pc = "idle" /\ Place(w)
  BY DEF OneCopy, WriteInv, StateTypeOK, WriteStart, At, Places
<1>2. /\ writer' = [writer EXCEPT ![w] = [pc |-> "claim", kind |-> "write", todo |-> n,
                                          waits |-> 0, calls |-> writer[w].calls + 1]]
      /\ UNCHANGED <<WriteInProgress, TransmitPendingPackets, Multiple_Write_Counter,
                     writeComplete, packet, completion>>
  BY DEF WriteStart
<1>3. "claim" \in WriterPcs
  BY DEF WriterPcs
<1>4. /\ writer' \in [Writers -> WriterRecord] /\ Others(w)
      /\ writer'[w].pc = "claim" /\ writer'[w].kind = "write" /\ writer'[w].todo = 1
      /\ writer'[w].waits = 0
  BY <1>1, <1>2, <1>3, StartEffect
<1>5. ~Sending(w) /\ ~Sending(w)' /\ ~Active(w) /\ ~Active(w)'
  BY <1>1, <1>4 DEF Sending, Active
<1>6. Place(w)' /\ Sole(w)' /\ Claims(w)
  BY <1>1, <1>2, <1>4, <1>5 DEF Place, Sole, Claims, WriteAssumption
<1>7. WriteInProgress \in BOOLEAN /\ writeComplete \in BOOLEAN
  BY DEF WriteInv, StateTypeOK
<1>8. Quiet(w)
  BY <1>2, <1>4, <1>5, <1>6, <1>7 DEF Quiet
<1> QED
  BY <1>6, <1>8, QuietStep

LEMMA BeforeSendingKeeps ==
  ASSUME WriteAssumption, OneCopy, WriteInv, NEW w \in Writers,
         WriteBusy(w) \/ WriteClaim(w) \/ WriteReset(w)
  PROVE  WriteInv'
<1> DEFINE pc == IF writer[w].pc = "reset" THEN "send"
                 ELSE IF WriteInProgress THEN "idle" ELSE "reset"
<1>1. /\ writer \in [Writers -> WriterRecord] /\ writer[w].pc \in {"claim", "reset"}
      /\ Place(w) /\ WriteInProgress \in BOOLEAN /\ writeComplete \in BOOLEAN
  BY DEF WriteInv, StateTypeOK, WriteBusy, WriteClaim, WriteReset, At, Places
<1>2. /\ Goto(w, pc) /\ packet' = packet /\ completion' = completion
      /\ Multiple_Write_Counter' = Multiple_Write_Counter
      /\ writer[w].pc = "claim" => TransmitPendingPackets' = TransmitPendingPackets
      /\ writer[w].pc = "reset" => TransmitPendingPackets' = 0
      /\ IF pc = "reset" THEN ~WriteInProgress /\ WriteInProgress' = TRUE /\ writeComplete' = FALSE
         ELSE WriteInProgress' = WriteInProgress /\ writeComplete' = writeComplete
  BY DEF WriteBusy, WriteClaim, WriteReset, At
<1>3. pc \in WriterPcs
  BY DEF WriterPcs
<1> HIDE DEF pc
<1>4. /\ writer' \in [Writers -> WriterRecord] /\ Others(w)
      /\ writer'[w].pc = pc /\ writer'[w].kind = writer[w].kind
      /\ writer'[w].todo = writer[w].todo /\ writer'[w].waits = writer[w].waits
  BY <1>1, <1>2, <1>3, GotoEffect
<1>5. /\ ~Sending(w) /\ writer[w].kind = "write"
      /\ writer[w].pc = "reset" => Active(w) /\ pc = "send"
      /\ writer[w].pc = "claim" => ~Active(w) /\ pc \in {"idle", "reset"}
      /\ pc # "send" => ~Sending(w)'
      /\ Active(w)' <=> pc # "idle"
  BY <1>1, <1>4 DEF Sending, Active, Place, pc
<1>6. writer[w].pc = "reset" => Quiescent
  BY <1>5, NoSender
<1>7. Claims(w)
  BY <1>1, <1>2, <1>5 DEF Claims
<1>8. Place(w)'
  BY <1>1, <1>2, <1>4, <1>5 DEF Place
<1>9. Sole(w)'
  BY <1>1, <1>2, <1>4, <1>5, <1>6 DEF Sole, Quiescent, Free, Signalling
<1>10. writeComplete' = writeComplete \/ ~WriteInProgress
  BY <1>2
<1>11. Quiet(w)
  BY <1>1, <1>2, <1>4, <1>5, <1>6, <1>7, <1>10 DEF Quiet
<1> QED
  BY <1>8, <1>9, <1>11, QuietStep

LEMMA WriteArmKeeps ==
  ASSUME WriteAssumption, OneCopy, WriteInv, NEW w \in Writers, WriteArm(w)
  PROVE  WriteInv'
<1>1. /\ writer \in [Writers -> WriterRecord] /\ writer[w].pc = "arm" /\ Place(w) /\ Sole(w)
      /\ WriteInProgress \in BOOLEAN
  BY DEF WriteInv, StateTypeOK, WriteArm, At, Places, WriteOnce
<1>2. /\ Goto(w, "ndis") /\ packet' = packet /\ completion' = completion
      /\ Multiple_Write_Counter' = Multiple_Write_Counter
      /\ TransmitPendingPackets' = TransmitPendingPackets
      /\ WriteInProgress' = WriteInProgress /\ writeComplete' = FALSE
  BY DEF WriteArm
<1>3. "ndis" \in WriterPcs
  BY DEF WriterPcs
<1>4. /\ writer' \in [Writers -> WriterRecord] /\ Others(w)
      /\ writer'[w].pc = "ndis" /\ writer'[w].kind = writer[w].kind
      /\ writer'[w].todo = writer[w].todo /\ writer'[w].waits = writer[w].waits
      /\ writer'[w].calls = writer[w].calls
  BY <1>1, <1>2, <1>3, GotoEffect
<1>5. Sending(w) /\ Sending(w)' /\ Active(w) /\ Active(w)'
  BY <1>1, <1>4 DEF Sending, Active
<1>6. Quiet(w)
  BY <1>1, <1>2, <1>4, <1>5 DEF Quiet, Claims
<1>7. Place(w)'
  BY <1>1, <1>2, <1>4, <1>5 DEF Place
<1>8. Sole(w)'
  BY <1>1, <1>2, <1>4, <1>5 DEF Sole
<1> QED
  BY <1>6, <1>7, <1>8, QuietStep

LEMMA SendReturnsKeeps ==
  ASSUME WriteAssumption, OneCopy, WriteInv, NEW w \in Writers, SendReturns(w)
  PROVE  WriteInv'
<1>1. /\ writer \in [Writers -> WriterRecord] /\ writer[w].pc = "completing" /\ Place(w)
      /\ Sole(w) /\ WriteInProgress \in BOOLEAN /\ writeComplete \in BOOLEAN
      /\ completion[w].pc = "none"
  BY DEF WriteInv, StateTypeOK, SendReturns, At, Places, WriteOnce
<1>2. /\ writer' = [writer EXCEPT ![w].pc = "send", ![w].todo = @ - 1]
      /\ packet' = packet /\ completion' = completion
      /\ Multiple_Write_Counter' = Multiple_Write_Counter
      /\ TransmitPendingPackets' = TransmitPendingPackets
      /\ WriteInProgress' = WriteInProgress /\ writeComplete' = writeComplete
  BY DEF SendReturns
<1>3. writer[w].todo > 0 /\ writer[w].todo \in Nat
  BY <1>1 DEF Place, WriterRecord
<1>4. /\ writer' \in [Writers -> WriterRecord] /\ Others(w)
      /\ writer'[w].pc = "send" /\ writer'[w].kind = writer[w].kind
      /\ writer'[w].todo = writer[w].todo - 1 /\ writer'[w].waits = writer[w].waits
      /\ writer'[w].calls = writer[w].calls
  BY <1>1, <1>2, <1>3, SentEffect
<1>5. Sending(w) /\ Sending(w)' /\ Active(w) /\ Active(w)'
  BY <1>1, <1>4 DEF Sending, Active
<1>6. Quiet(w)
  BY <1>1, <1>2, <1>4, <1>5 DEF Quiet, Claims
<1>7. Place(w)'
  BY <1>1, <1>2, <1>3, <1>4, <1>5 DEF Place
<1>8. Sole(w)'
  <2>1. writer[w].kind = "write" => ~(writer'[w].todo > 0)
    BY <1>1, <1>3, <1>4 DEF Place
  <2> QED
    BY <1>1, <1>2, <1>4, <1>5, <2>1 DEF Sole, Free, Signalling
<1> QED
  BY <1>6, <1>7, <1>8, QuietStep

\* nothing is out when NPF_Write has seen the event, or when the counter is 0
LEMMA DrainedIsQuiescent ==
  ASSUME WriteAssumption, OneCopy, WriteInv, NEW w \in Writers,
         WriteDrained(w) \/ BufferedDrained(w)
  PROVE  Quiescent
<1>1. CASE WriteDrained(w)
  <2>1. writer[w].pc = "send" /\ writer[w].kind = "write" /\ writeComplete /\ Sole(w)
    BY <1>1 DEF WriteDrained, At, WriteInv, WriteOnce
  <2>2. Sending(w) /\ Active(w)
    BY <2>1 DEF Sending, Active
  <2>3. Free = Packets /\ Signalling = {}
    BY <2>1, <2>2 DEF Sole
  <2>4. Discounting = {}
    BY <2>1, <2>2, OneSender DEF Discounting
  <2> QED
    BY <2>3, <2>4 DEF Quiescent
<1>2. CASE BufferedDrained(w)
  <2>1. writer[w].pc = "drain" /\ writer[w].kind = "buffered" /\ Place(w)
        /\ (Multiple_Write_Counter = 0 \/ writer[w].waits = TRANSMIT_PACKETS)
        /\ writer[w].waits \in Nat
    BY <1>2 DEF BufferedDrained, BufferedIsOver, At, WriteInv, Places, Place, StateTypeOK, WriterRecord
  <2>2. Multiple_Write_Counter = 0
    BY <2>1 DEF Place, WriteAssumption
  <2>3. /\ IsFiniteSet(BufferedCounted) /\ IsFiniteSet(Discounting)
        /\ Cardinality(BufferedCounted) \in Nat /\ Cardinality(Discounting) \in Nat
    BY PendingBounds
  <2>4. BufferedCounted = {} /\ Discounting = {}
    <3>1. Cardinality(BufferedCounted) + Cardinality(Discounting) = 0
      BY <2>2 DEF WriteInv, PendingInv
    <3>2. Cardinality(BufferedCounted) = 0 /\ Cardinality(Discounting) = 0
      BY <2>3, <3>1
    <3> QED
      BY <2>3, <3>2, FS_EmptySet
  <2>5. Active(w)
    BY <2>1 DEF Active
  <2>6. Free = Packets /\ Signalling = {}
    BY <2>1, <2>4, <2>5, OneSender DEF Free, Signalling, BufferedCounted
  <2> QED
    BY <2>4, <2>6 DEF Quiescent
<1> QED
  BY <1>1, <1>2

LEMMA EndingKeeps ==
  ASSUME WriteAssumption, OneCopy, WriteInv, NEW w \in Writers,
         WriteDrained(w) \/ BufferedDrained(w) \/ BufferedRefused(w) \/ WriteUnclaim(w)
  PROVE  WriteInv'
<1> DEFINE pc == IF writer[w].pc = "unclaim" THEN "idle" ELSE "unclaim"
<1>1. /\ writer \in [Writers -> WriterRecord] /\ Place(w)
      /\ writer[w].pc \in {"send", "drain", "bind", "unclaim"}
      /\ WriteInProgress \in BOOLEAN /\ writeComplete \in BOOLEAN
  BY DEF WriteInv, StateTypeOK, WriteDrained, BufferedDrained, BufferedRefused, WriteUnclaim, At,
         Places, BufferedIsOver
<1>2. /\ Goto(w, pc) /\ packet' = packet /\ completion' = completion
      /\ Multiple_Write_Counter' = Multiple_Write_Counter
      /\ TransmitPendingPackets' = TransmitPendingPackets
      /\ WriteInProgress' = IF pc = "idle" THEN FALSE ELSE WriteInProgress
      /\ writeComplete' = writeComplete
  BY DEF WriteDrained, BufferedDrained, BufferedRefused, WriteUnclaim, At, BufferedIsOver
<1>3. pc \in WriterPcs
  BY DEF WriterPcs
<1> HIDE DEF pc
<1>4. /\ writer' \in [Writers -> WriterRecord] /\ Others(w)
      /\ writer'[w].pc = pc /\ writer'[w].kind = writer[w].kind
      /\ writer'[w].todo = writer[w].todo /\ writer'[w].waits = writer[w].waits
  BY <1>1, <1>2, <1>3, GotoEffect
<1>5. /\ Active(w) /\ ~Sending(w)' /\ pc \in {"idle", "unclaim"}
      /\ Active(w)' <=> pc # "idle"
  BY <1>1, <1>4 DEF Sending, Active, pc
<1>6. Sending(w) => Quiescent
  BY DrainedIsQuiescent DEF Sending, BufferedRefused, WriteUnclaim, At
<1>7. Claims(w)
  BY <1>2, <1>5 DEF Claims
<1>8. Quiet(w)
  BY <1>1, <1>2, <1>4, <1>5, <1>6, <1>7 DEF Quiet
<1>9. Place(w)'
  <2>1. completion[w].pc = "none"
    BY <1>1 DEF Place
  <2> QED
    BY <1>1, <1>2, <1>4, <1>5, <2>1 DEF Place
<1>10. Sole(w)'
  BY <1>5 DEF Sole
<1> QED
  BY <1>8, <1>9, <1>10, QuietStep

(* BIOCSENDPACKETS*.                                                       *)
LEMMA BufferedStartKeeps ==
  ASSUME WriteAssumption, OneCopy, WriteInv, NEW w \in Writers, NEW n \in Bursts, BufferedStart(w, n)
  PROVE  WriteInv'
<1>1. /\ n \in Nat /\ writer \in [Writers -> WriterRecord] /\ writer[w].pc = "idle" /\ Place(w)
      /\ ~WriteInProgress
  BY DEF WriteInv, StateTypeOK, BufferedStart, At, Places, WriteAssumption
<1>2. /\ writer' = [writer EXCEPT ![w] = [pc |-> "bind", kind |-> "buffered", todo |-> n,
                                          waits |-> 0, calls |-> writer[w].calls + 1]]
      /\ WriteInProgress' = TRUE
      /\ UNCHANGED <<TransmitPendingPackets, Multiple_Write_Counter, writeComplete, packet,
                     completion>>
  BY DEF BufferedStart
<1>3. "bind" \in WriterPcs
  BY DEF WriterPcs
<1>4. /\ writer' \in [Writers -> WriterRecord] /\ Others(w)
      /\ writer'[w].pc = "bind" /\ writer'[w].kind = "buffered"
      /\ writer'[w].waits = 0
  BY <1>1, <1>2, <1>3, StartEffect
<1>5. ~Sending(w) /\ ~Sending(w)' /\ ~Active(w) /\ Active(w)'
  BY <1>1, <1>4 DEF Sending, Active
<1>6. Place(w)' /\ Sole(w)' /\ Claims(w)
  <2>1. Place(w)'
    BY <1>1, <1>2, <1>4, <1>5 DEF Place, WriteAssumption
  <2>2. Sole(w)'
    BY <1>5 DEF Sole
  <2>3. Claims(w)
    BY <1>1, <1>2, <1>5 DEF Claims
  <2> QED
    BY <2>1, <2>2, <2>3
<1>7. writeComplete \in BOOLEAN
  BY DEF WriteInv, StateTypeOK
<1>8. Quiet(w)
  BY <1>2, <1>4, <1>5, <1>6, <1>7 DEF Quiet
<1> QED
  BY <1>6, <1>8, QuietStep

LEMMA BufferedMovesKeeps ==
  ASSUME WriteAssumption, OneCopy, WriteInv, NEW w \in Writers,
         BufferedBind(w) \/ BufferedEnd(w)
  PROVE  WriteInv'
<1> DEFINE pc == IF writer[w].pc = "bind" THEN "send" ELSE "drain"
<1>1. /\ writer \in [Writers -> WriterRecord] /\ Place(w)
      /\ writer[w].pc \in {"bind", "send"} /\ writer[w].kind = "buffered"
      /\ WriteInProgress \in BOOLEAN /\ writeComplete \in BOOLEAN
  BY DEF WriteInv, StateTypeOK, BufferedBind, BufferedEnd, At, Places, Place
<1>2. /\ Goto(w, pc) /\ packet' = packet /\ completion' = completion
      /\ Multiple_Write_Counter' = IF pc = "send" THEN 0 ELSE Multiple_Write_Counter
      /\ TransmitPendingPackets' = TransmitPendingPackets
      /\ WriteInProgress' = WriteInProgress /\ writeComplete' = writeComplete
  BY DEF BufferedBind, BufferedEnd, At
<1>3. pc \in WriterPcs /\ pc \in {"send", "drain"}
  BY DEF WriterPcs
<1>4. pc = "send" => writer[w].pc = "bind"
  OBVIOUS
<1> HIDE DEF pc
<1>5. /\ writer' \in [Writers -> WriterRecord] /\ Others(w)
      /\ writer'[w].pc = pc /\ writer'[w].kind = writer[w].kind
      /\ writer'[w].todo = writer[w].todo /\ writer'[w].waits = writer[w].waits
      /\ writer'[w].calls = writer[w].calls
  BY <1>1, <1>2, <1>3, GotoEffect
<1>6. Active(w) /\ Active(w)' /\ Sending(w)' /\ (writer[w].pc = "bind" => ~Sending(w))
  BY <1>1, <1>3, <1>5 DEF Sending, Active
<1>7. pc = "send" => Quiescent
  BY <1>4, <1>6, NoSender
<1>8. Quiet(w)
  BY <1>1, <1>2, <1>5, <1>6, <1>7 DEF Quiet, Claims
<1>9. Place(w)'
  BY <1>1, <1>2, <1>3, <1>5 DEF Place
<1>10. Sole(w)'
  BY <1>1, <1>5 DEF Sole
<1> QED
  BY <1>8, <1>9, <1>10, QuietStep

LEMMA BufferedWaitKeeps ==
  ASSUME WriteAssumption, OneCopy, WriteInv, NEW w \in Writers, BufferedWait(w)
  PROVE  WriteInv'
<1>1. /\ writer \in [Writers -> WriterRecord] /\ Place(w) /\ writer[w].pc = "drain"
      /\ writer[w].kind = "buffered" /\ writer[w].waits \in Nat
      /\ WriteInProgress \in BOOLEAN /\ writeComplete \in BOOLEAN
  BY DEF WriteInv, StateTypeOK, BufferedWait, At, Places, Place, WriterRecord
<1>2. /\ writer' = [writer EXCEPT ![w].waits = @ + 1]
      /\ writer[w].waits < TRANSMIT_PACKETS - 1
      /\ UNCHANGED <<WriteInProgress, TransmitPendingPackets, Multiple_Write_Counter,
                     writeComplete, packet, completion>>
  BY DEF BufferedWait, OneCopy
<1>3. /\ writer' \in [Writers -> WriterRecord] /\ Others(w)
      /\ writer'[w].pc = "drain" /\ writer'[w].kind = writer[w].kind
      /\ writer'[w].todo = writer[w].todo /\ writer'[w].waits = writer[w].waits + 1
      /\ writer'[w].calls = writer[w].calls
  BY <1>1, <1>2 DEF Others, WriterRecord
<1>4. Active(w) /\ Active(w)' /\ Sending(w) /\ Sending(w)'
  BY <1>1, <1>3 DEF Sending, Active
<1>5. Quiet(w)
  BY <1>1, <1>2, <1>3, <1>4 DEF Quiet, Claims
<1>6. Place(w)'
  BY <1>1, <1>2, <1>3, <1>4 DEF Place, WriteAssumption
<1>7. Sole(w)'
  BY <1>1, <1>3 DEF Sole
<1> QED
  BY <1>5, <1>6, <1>7, QuietStep


-------------------------------------------------------------------------------
(* A packet leaves the pool.                                               *)
LEMMA TakeEffect ==
  ASSUME WriteInv, NEW w \in Writers, Take(w)
  PROVE  \E p \in Free : /\ packet' \in [Packets -> PacketRecord]
                         /\ \A q \in Packets \ {p} : packet'[q] = packet[q]
                         /\ packet'[p].at = "taken" /\ packet'[p].kind = writer[w].kind
                         /\ packet'[p].by = w /\ packet'[p].irp = writer[w].calls
<1>1. PICK p \in Free :
        packet' = [packet EXCEPT ![p] = [at |-> "taken", kind |-> writer[w].kind,
                                         by |-> w, irp |-> writer[w].calls]]
  BY DEF Take
<1>2. packet \in [Packets -> PacketRecord] /\ writer \in [Writers -> WriterRecord] /\ p \in Packets
  BY DEF WriteInv, StateTypeOK, Free
<1>3. [at |-> "taken", kind |-> writer[w].kind, by |-> w, irp |-> writer[w].calls]
        \in PacketRecord
  BY <1>2 DEF PacketRecord, WriterRecord
<1> QED
  BY <1>1, <1>2, <1>3

LEMMA TakeKeeps ==
  ASSUME WriteAssumption, OneCopy, WriteInv, NEW w \in Writers, WriteTake(w) \/ BufferedTake(w)
  PROVE  WriteInv'
<1> DEFINE pc == IF writer[w].kind = "write" THEN "arm" ELSE "ndis"
<1>1. /\ StateTypeOK /\ Exclusive /\ Places /\ Owned /\ Completions /\ WriteOnce /\ PendingInv
      /\ Place(w) /\ Sole(w) /\ writer \in [Writers -> WriterRecord]
  BY DEF WriteInv, Places, WriteOnce, StateTypeOK
<1>2. /\ writer[w].pc = "send" /\ writer[w].todo > 0 /\ writer[w].kind \in {"write", "buffered"}
      /\ Goto(w, pc) /\ Take(w)
      /\ UNCHANGED <<WriteInProgress, writeComplete, completion>>
      /\ writer[w].kind = "write" =>
           /\ TransmitPendingPackets' = (TransmitPendingPackets + 1) % Word
           /\ Multiple_Write_Counter' = Multiple_Write_Counter
      /\ writer[w].kind = "buffered" =>
           /\ Multiple_Write_Counter' = (Multiple_Write_Counter + 1) % Word
           /\ TransmitPendingPackets' = TransmitPendingPackets
  BY DEF WriteTake, BufferedTake, At
<1>3. pc \in WriterPcs /\ pc \in {"arm", "ndis"}
  BY DEF WriterPcs
<1>4. (pc = "arm" <=> writer[w].kind = "write")
  OBVIOUS
<1> HIDE DEF pc
<1>5. /\ writer' \in [Writers -> WriterRecord] /\ Others(w)
      /\ writer'[w].pc = pc /\ writer'[w].kind = writer[w].kind
      /\ writer'[w].todo = writer[w].todo /\ writer'[w].waits = writer[w].waits
      /\ writer'[w].calls = writer[w].calls
  BY <1>1, <1>2, <1>3, GotoEffect
<1>6. PICK p \in Free : /\ packet' \in [Packets -> PacketRecord]
                        /\ \A q \in Packets \ {p} : packet'[q] = packet[q]
                        /\ packet'[p].at = "taken" /\ packet'[p].kind = writer[w].kind
                        /\ packet'[p].by = w /\ packet'[p].irp = writer[w].calls
  BY <1>2, TakeEffect
<1>7. p \in Packets /\ packet[p].at = "free"
  BY <1>6 DEF Free
<1>8. Active(w) /\ Active(w)' /\ Sending(w) /\ Sending(w)'
  BY <1>2, <1>3, <1>5 DEF Active, Sending
<1>9. /\ \A q \in Packets : packet[q].at # "free" =>
            packet[q].by = w /\ packet[q].kind = writer[w].kind /\ packet[q].at # "taken"
      /\ writer[w].kind = "write" => Free = Packets /\ Signalling = {}
      /\ \A v \in Writers \ {w} : ~Active(v) /\ ~Sending(v)
  BY <1>1, <1>2, <1>8, OneSender DEF Owned, Sole, Exclusive, Sending, Active
<1>10. \A x \in Contexts : completion[x].pkt # p /\ completion[x].pkt \in Packets \cup {0}
  <2>1. p # 0
    BY <1>7 DEF Packets, WriteAssumption
  <2> QED
    BY <1>1, <1>7, <2>1 DEF Completions, StateTypeOK, CompletionRecord
<1>11. StateTypeOK'
  <2>1. TransmitPendingPackets' \in 0 .. Word - 1 /\ Multiple_Write_Counter' \in 0 .. Word - 1
    BY <1>1, <1>2 DEF StateTypeOK, WriteAssumption
  <2> QED
    BY <1>1, <1>2, <1>5, <1>6, <2>1 DEF StateTypeOK
<1>12. Exclusive'
  BY <1>1, <1>2, <1>5, <1>8, ClaimsKeeps DEF Claims, StateTypeOK
<1>13. Places'
  <2>1. Place(w)'
    BY <1>1, <1>2, <1>3, <1>4, <1>5, <1>6, <1>7, <1>8 DEF Place
  <2>2. ASSUME NEW v \in Writers \ {w} PROVE Place(v)'
    <3>1. Place(v) /\ ~Sending(v) /\ writer'[v] = writer[v] /\ completion' = completion
      BY <1>1, <1>2, <1>5, <1>9 DEF Places, Others
    <3> QED
      BY <3>1 DEF Place, Sending
  <2> QED
    BY <2>1, <2>2 DEF Places
<1>14. Owned'
  BY <1>1, <1>3, <1>5, <1>6, <1>7, <1>8, <1>9 DEF Owned
<1>15. Completions'
  <2>1. \A x \in Contexts : completion[x].pkt # 0 => packet'[completion[x].pkt] = packet[completion[x].pkt]
    BY <1>6, <1>10
  <2>2. \A v \in Writers : Sending(v) => Sending(v)' /\ writer'[v].kind = writer[v].kind
    BY <1>5, <1>8, <1>9
  <2> QED
    BY <1>1, <1>2, <2>1, <2>2 DEF Completions
<1>16. WriteOnce'
  <2>1. Signalling' = Signalling
    BY <1>2 DEF Signalling
  <2>2. Sole(w)'
    BY <1>2, <1>3, <1>4, <1>5, <1>6, <1>7, <1>9 DEF Sole, Free
  <2>3. \A v \in Writers \ {w} : Sole(v)'
    BY <1>5, <1>9 DEF Sole, Others, Sending
  <2>4. CASE writer[w].kind = "write"
    BY <1>1, <1>6, <1>7, <1>9, <2>1, <2>2, <2>3, <2>4 DEF WriteOnce, Free
  <2>5. CASE writer[w].kind = "buffered"
    BY <1>1, <1>6, <1>7, <1>9, <2>1, <2>2, <2>3, <2>5 DEF WriteOnce
  <2> QED
    BY <1>2, <2>4, <2>5
<1>17. PendingInv'
  <2>1. Discounting' = Discounting
    BY <1>2 DEF Discounting
  <2>2. CASE writer[w].kind = "write"
    <3>1. WriteCounted = {} /\ WriteCounted' = {p} /\ BufferedCounted' = BufferedCounted
      BY <1>2, <1>6, <1>7, <1>9, <1>10, <2>2 DEF WriteCounted, BufferedCounted, Free
    <3>2. Cardinality(WriteCounted) = 0 /\ Cardinality(WriteCounted)' = 1
      BY <3>1, FS_EmptySet, FS_Singleton
    <3>3. TransmitPendingPackets = 0
      BY <1>1, <3>2 DEF PendingInv
    <3>4. TransmitPendingPackets' = 1
      <4>1. 1 < Word /\ Word \in Nat
        BY FiniteSets DEF WriteAssumption
      <4>2. (0 + 1) % Word = 1
        BY <4>1
      <4> QED
        BY <1>2, <2>2, <3>3, <4>2
    <3> QED
      BY <1>1, <1>2, <2>1, <2>2, <3>1, <3>2, <3>4 DEF PendingInv
  <2>3. CASE writer[w].kind = "buffered"
    <3>1. BufferedCounted' = BufferedCounted \cup {p} /\ p \notin BufferedCounted
      BY <1>6, <1>7, <2>3 DEF BufferedCounted
    <3>2. WriteCounted' = WriteCounted
      BY <1>2, <1>6, <1>7, <1>10, <2>3 DEF WriteCounted
    <3>3. Cardinality(BufferedCounted)' = Cardinality(BufferedCounted) + 1
      BY <3>1, PendingBounds, FS_AddElement
    <3>4. /\ Multiple_Write_Counter = Cardinality(BufferedCounted) + Cardinality(Discounting)
          /\ Cardinality(BufferedCounted)' \in 0 .. TRANSMIT_PACKETS
          /\ Cardinality(BufferedCounted) \in Nat
          /\ Cardinality(Discounting) \in 0 .. Cardinality(Contexts)
      <4>1. Cardinality(BufferedCounted)' <= TRANSMIT_PACKETS
        <5>1. BufferedCounted' \subseteq Packets
          BY DEF BufferedCounted
        <5> QED
          BY <5>1, FiniteSets, FS_Subset
      <4> QED
        BY <1>1, <3>3, <4>1, PendingBounds DEF PendingInv, WriteAssumption
    <3>5. Multiple_Write_Counter + 1 \in 0 .. Word - 1
      BY <3>3, <3>4, FiniteSets DEF WriteAssumption
    <3>6. Multiple_Write_Counter' = Multiple_Write_Counter + 1
      BY <1>2, <2>3, <3>5 DEF WriteAssumption
    <3> QED
      BY <1>1, <1>2, <2>1, <2>3, <3>2, <3>3, <3>4, <3>6 DEF PendingInv
  <2> QED
    BY <1>2, <2>2, <2>3
<1> QED
  BY <1>11, <1>12, <1>13, <1>14, <1>15, <1>16, <1>17 DEF WriteInv

-------------------------------------------------------------------------------
(* A packet passes from the writer to NDIS and to NPF_SendComplete.        *)
LEMMA InHandIs ==
  ASSUME WriteInv, NEW w \in Writers, writer[w].pc = "ndis"
  PROVE  InHand(w) \in Packets /\ packet[InHand(w)].at = "taken" /\ packet[InHand(w)].by = w
<1>1. \E p \in Packets : packet[p].at = "taken" /\ packet[p].by = w
  BY DEF WriteInv, Places, Place
<1> QED
  BY <1>1 DEF InHand

\* the packet only changes hands
Passed(p, at) ==
  /\ packet' \in [Packets -> PacketRecord]
  /\ \A q \in Packets \ {p} : packet'[q] = packet[q]
  /\ packet'[p].at = at /\ packet'[p].kind = packet[p].kind
  /\ packet'[p].by = packet[p].by /\ packet'[p].irp = packet[p].irp

LEMMA PassEffect ==
  ASSUME WriteInv, NEW p \in Packets, NEW at \in {"ndis", "back"},
         packet' = [packet EXCEPT ![p].at = at]
  PROVE  Passed(p, at)
BY DEF WriteInv, StateTypeOK, PacketRecord, Passed

LEMMA CompletionsKept ==
  ASSUME Completions, completion' = completion,
         \A x \in Contexts : completion[x].pkt # 0 =>
           packet'[completion[x].pkt] = packet[completion[x].pkt],
         \A v \in Writers : Sending(v) => Sending(v)' /\ writer'[v].kind = writer[v].kind
  PROVE  Completions'
<1>1. ASSUME NEW x \in Contexts
      PROVE  /\ completion'[x].pc \in {"count", "recycle"} <=>
                  completion'[x].pkt # 0 /\ packet'[completion'[x].pkt].kind = "write"
             /\ completion'[x].pkt # 0 => /\ completion'[x].pc \in {"count", "recycle", "free"}
                                          /\ packet'[completion'[x].pkt].at = "back"
             /\ completion'[x].pc = "free" => completion'[x].pkt # 0
  BY <1>1 DEF Completions
<1>2. ASSUME NEW x \in Contexts
      PROVE  /\ completion'[x].pc = "signal" =>
                  \E w \in Writers : Sending(w)' /\ writer'[w].kind = "write"
             /\ completion'[x].pc = "discount" =>
                  \E w \in Writers : Sending(w)' /\ writer'[w].kind = "buffered"
  BY <1>2 DEF Completions
<1>3. \A x, y \in Contexts :
        completion'[x].pkt = completion'[y].pkt /\ completion'[x].pkt # 0 => x = y
  BY DEF Completions
<1> QED
  BY <1>1, <1>2, <1>3 DEF Completions

LEMMA SendPendsKeeps ==
  ASSUME WriteAssumption, OneCopy, WriteInv, NEW w \in Writers, SendPends(w)
  PROVE  WriteInv'
<1> DEFINE p == InHand(w)
<1>1. /\ StateTypeOK /\ Exclusive /\ Places /\ Owned /\ Completions /\ WriteOnce /\ PendingInv
      /\ Place(w) /\ Sole(w) /\ writer \in [Writers -> WriterRecord]
  BY DEF WriteInv, Places, WriteOnce, StateTypeOK
<1>2. /\ writer[w].pc = "ndis"
      /\ packet' = [packet EXCEPT ![p].at = "ndis"]
      /\ writer' = [writer EXCEPT ![w].pc = "send", ![w].todo = @ - 1]
      /\ UNCHANGED <<WriteInProgress, writeComplete, completion, TransmitPendingPackets,
                     Multiple_Write_Counter>>
  BY DEF SendPends, At
<1>3. p \in Packets /\ packet[p].at = "taken" /\ packet[p].by = w
  BY <1>2, InHandIs
<1> HIDE DEF p
<1>4. writer[w].todo > 0 /\ writer[w].todo \in Nat
  BY <1>1, <1>2 DEF Place, WriterRecord
<1>5. /\ writer' \in [Writers -> WriterRecord] /\ Others(w)
      /\ writer'[w].pc = "send" /\ writer'[w].kind = writer[w].kind
      /\ writer'[w].todo = writer[w].todo - 1 /\ writer'[w].waits = writer[w].waits
      /\ writer'[w].calls = writer[w].calls
  BY <1>1, <1>2, <1>4, SentEffect
<1>6. Passed(p, "ndis")
  BY <1>2, <1>3, PassEffect
<1>7. Active(w) /\ Active(w)' /\ Sending(w) /\ Sending(w)'
  BY <1>2, <1>5 DEF Active, Sending
<1>8. /\ \A q \in Packets : packet[q].at # "free" =>
            packet[q].by = w /\ packet[q].kind = writer[w].kind
      /\ \A q \in Packets \ {p} : packet[q].at # "taken"
      /\ \A v \in Writers \ {w} : ~Active(v) /\ ~Sending(v)
  BY <1>1, <1>3, <1>7, OneSender DEF Owned, Exclusive, Sending, Active
<1>9. \A x \in Contexts : completion[x].pkt # p
  <2>1. p # 0
    BY <1>3 DEF Packets, WriteAssumption
  <2> QED
    BY <1>1, <1>3, <2>1 DEF Completions
<1>10. StateTypeOK'
  BY <1>1, <1>2, <1>5, <1>6 DEF StateTypeOK, Passed
<1>11. Exclusive'
  BY <1>1, <1>2, <1>5, <1>7, ClaimsKeeps DEF Claims, StateTypeOK
<1>12. Places'
  <2>1. Place(w)'
    BY <1>1, <1>2, <1>4, <1>5, <1>7 DEF Place
  <2>2. ASSUME NEW v \in Writers \ {w} PROVE Place(v)'
    <3>1. Place(v) /\ ~Sending(v) /\ writer'[v] = writer[v] /\ completion' = completion
      BY <1>1, <1>2, <1>5, <1>8 DEF Places, Others
    <3> QED
      BY <3>1 DEF Place, Sending
  <2> QED
    BY <2>1, <2>2 DEF Places
<1>13. Owned'
  BY <1>1, <1>3, <1>5, <1>6, <1>7, <1>8 DEF Owned, Passed
<1>14. Completions'
  <2>1. \A x \in Contexts : completion[x].pkt # 0 => packet'[completion[x].pkt] = packet[completion[x].pkt]
    BY <1>1, <1>6, <1>9 DEF Passed, StateTypeOK, CompletionRecord
  <2>2. \A v \in Writers : Sending(v) => Sending(v)' /\ writer'[v].kind = writer[v].kind
    BY <1>5, <1>7, <1>8
  <2> QED
    BY <1>1, <1>2, <2>1, <2>2, CompletionsKept
<1>15. WriteOnce'
  <2>1. Signalling' = Signalling /\ writeComplete' = writeComplete
    BY <1>2 DEF Signalling
  <2>2. Sole(w)'
    <3>1. writer[w].kind = "write" => ~(writer'[w].todo > 0) /\ ~writeComplete
      BY <1>1, <1>2, <1>4, <1>5, <1>7 DEF Place, Sole
    <3> QED
      BY <1>5, <2>1, <3>1 DEF Sole
  <2>3. \A v \in Writers \ {w} : Sole(v)'
    BY <1>5, <1>8 DEF Sole, Others, Sending
  <2> QED
    BY <1>1, <1>3, <1>6, <2>1, <2>2, <2>3 DEF WriteOnce, Passed
<1>16. PendingInv'
  <2>1. Discounting' = Discounting /\ BufferedCounted' = BufferedCounted
    BY <1>2, <1>3, <1>6 DEF Discounting, BufferedCounted, Passed
  <2>2. WriteCounted' = WriteCounted
    BY <1>2, <1>3, <1>6 DEF WriteCounted, Passed
  <2> QED
    BY <1>1, <1>2, <2>1, <2>2 DEF PendingInv
<1> QED
  BY <1>10, <1>11, <1>12, <1>13, <1>14, <1>15, <1>16 DEF WriteInv

\* NPF_SendComplete starts, in whichever context
LEMMA SendCompleteEffect ==
  ASSUME WriteAssumption, WriteInv, NEW x \in Contexts, NEW p \in Packets, SendComplete(x, p)
  PROVE  /\ Passed(p, "back")
         /\ completion' \in [Contexts -> CompletionRecord]
         /\ \A y \in Contexts \ {x} : completion'[y] = completion[y]
         /\ completion'[x].pkt = p
         /\ completion'[x].pc = IF packet[p].kind = "write" THEN "count" ELSE "free"
<1>1. Passed(p, "back")
  BY PassEffect DEF SendComplete
<1> DEFINE pc == IF packet[p].kind = "write" THEN "count" ELSE "free"
<1>2. pc \in {"count", "free"} /\ 0 \in 0 .. Word - 1
  BY FiniteSets DEF WriteAssumption
<1>3. completion' = [completion EXCEPT ![x] = [pc |-> pc, pkt |-> p, still |-> 0]]
  BY DEF SendComplete
<1> HIDE DEF pc
<1>4. [pc |-> pc, pkt |-> p, still |-> 0] \in CompletionRecord
  BY <1>2 DEF CompletionRecord
<1>5. completion \in [Contexts -> CompletionRecord]
  BY DEF WriteInv, StateTypeOK
<1> QED
  BY <1>1, <1>3, <1>4, <1>5 DEF pc

LEMMA GivenBackKeeps ==
  ASSUME WriteAssumption, WriteInv, NEW x \in Contexts, NEW p \in Packets, SendComplete(x, p),
         completion[x].pc = "none", packet[p].at \in {"taken", "ndis"},
         \A v \in Writers : Sending(v) =>
           Sending(v)' /\ writer'[v].kind = writer[v].kind /\ writer'[v].calls = writer[v].calls,
         \A q \in Packets \ {p} : packet[q].at = "taken" =>
           writer'[packet[q].by] = writer[packet[q].by]
  PROVE  /\ packet' \in [Packets -> PacketRecord]
         /\ completion' \in [Contexts -> CompletionRecord]
         /\ Owned' /\ Completions'
         /\ WriteCounted' = WriteCounted /\ BufferedCounted' = BufferedCounted
         /\ Discounting' = Discounting /\ Signalling' = Signalling
         /\ WriteOnce => /\ \A q, r \in Packets : packet'[q].at # "free" /\ packet'[q].kind = "write"
                                         /\ packet'[r].at # "free" => q = r
                         /\ \A q \in Packets : packet'[q].at # "free" /\ packet'[q].kind = "write"
                              => Signalling' = {}
                         /\ \A y, z \in Signalling' : y = z
         /\ Free' = Free
<1>1. /\ StateTypeOK /\ Owned /\ Completions
      /\ completion \in [Contexts -> CompletionRecord] /\ packet \in [Packets -> PacketRecord]
  BY DEF WriteInv, StateTypeOK
<1>2. /\ Passed(p, "back")
      /\ completion' \in [Contexts -> CompletionRecord]
      /\ \A y \in Contexts \ {x} : completion'[y] = completion[y]
      /\ completion'[x].pkt = p
      /\ completion'[x].pc = IF packet[p].kind = "write" THEN "count" ELSE "free"
  BY SendCompleteEffect
<1>3. p # 0 /\ \A q \in Packets : q # 0
  BY DEF Packets, WriteAssumption
<1>4. /\ completion[x].pkt = 0
      /\ \A y \in Contexts : completion[y].pkt # p
      /\ \A y \in Contexts : completion[y].pkt # 0 => completion[y].pkt \in Packets \ {p}
  BY <1>1, <1>3 DEF Completions, CompletionRecord
<1>5. /\ packet[p].kind \in {"write", "buffered"}
      /\ packet'[p].kind = packet[p].kind /\ packet'[p].at = "back"
      /\ \A q \in Packets \ {p} : packet'[q] = packet[q]
  BY <1>1, <1>2 DEF Owned, Passed, WriteInv, Places, Place
<1>6. Owned'
  BY <1>1, <1>2, <1>5 DEF Owned, Passed
<1>7. Completions'
  <2>1. \A y \in Contexts \ {x} :
          /\ completion'[y] = completion[y]
          /\ completion[y].pkt # 0 => packet'[completion[y].pkt] = packet[completion[y].pkt]
    BY <1>2, <1>4, <1>5
  <2>2. ASSUME NEW y \in Contexts
        PROVE  /\ completion'[y].pc \in {"count", "recycle"} <=>
                    completion'[y].pkt # 0 /\ packet'[completion'[y].pkt].kind = "write"
               /\ completion'[y].pkt # 0 => /\ completion'[y].pc \in {"count", "recycle", "free"}
                                            /\ packet'[completion'[y].pkt].at = "back"
               /\ completion'[y].pc = "free" => completion'[y].pkt # 0
    <3>1. CASE y = x
      BY <1>2, <1>3, <1>5, <3>1
    <3>2. CASE y # x
      BY <1>1, <2>1, <3>2 DEF Completions
    <3> QED
      BY <3>1, <3>2
  <2>3. ASSUME NEW y \in Contexts
        PROVE  /\ completion'[y].pc = "signal" =>
                    \E w \in Writers : Sending(w)' /\ writer'[w].kind = "write"
               /\ completion'[y].pc = "discount" =>
                    \E w \in Writers : Sending(w)' /\ writer'[w].kind = "buffered"
    <3>1. CASE y = x
      BY <1>2, <3>1
    <3>2. CASE y # x
      BY <1>1, <2>1, <3>2 DEF Completions
    <3> QED
      BY <3>1, <3>2
  <2>4. \A y, z \in Contexts :
          completion'[y].pkt = completion'[z].pkt /\ completion'[y].pkt # 0 => y = z
    BY <1>1, <1>2, <1>4 DEF Completions
  <2> QED
    BY <2>2, <2>3, <2>4 DEF Completions
<1>8. BufferedCounted' = BufferedCounted /\ Free' = Free
  BY <1>5 DEF BufferedCounted, Free
<1>9. Discounting' = Discounting /\ Signalling' = Signalling
  BY <1>2 DEF Discounting, Signalling
<1>10. WriteCounted' = WriteCounted
  <2>1. ASSUME NEW q \in Packets
        PROVE  (\A y \in Contexts : completion'[y].pkt = q => completion'[y].pc \notin {"recycle"})
                 <=> \A y \in Contexts : completion[y].pkt = q => completion[y].pc \notin {"recycle"}
    <3>1. CASE q = p
      BY <1>2, <1>4, <3>1
    <3>2. CASE q # p
      BY <1>2, <1>3, <1>4, <3>2
    <3> QED
      BY <3>1, <3>2
  <2> QED
    BY <1>5, <2>1 DEF WriteCounted
<1>11. packet' \in [Packets -> PacketRecord]
  BY <1>2 DEF Passed
<1>12. \A q \in Packets : packet'[q].kind = packet[q].kind
                          /\ (packet'[q].at # "free" <=> packet[q].at # "free")
  BY <1>5
<1> QED
  BY <1>2, <1>6, <1>7, <1>8, <1>9, <1>10, <1>11, <1>12 DEF WriteOnce

LEMMA SendIsDoneKeeps ==
  ASSUME WriteAssumption, OneCopy, WriteInv, NEW w \in Writers, SendIsDone(w)
  PROVE  WriteInv'
<1> DEFINE p == InHand(w)
<1>1. /\ StateTypeOK /\ Exclusive /\ Places /\ Owned /\ Completions /\ WriteOnce /\ PendingInv
      /\ Place(w) /\ Sole(w) /\ writer \in [Writers -> WriterRecord] /\ w \in Contexts
  BY DEF WriteInv, Places, WriteOnce, StateTypeOK, Contexts
<1>2. /\ writer[w].pc = "ndis" /\ SendComplete(w, p) /\ Goto(w, "completing")
      /\ UNCHANGED <<WriteInProgress, writeComplete, TransmitPendingPackets,
                     Multiple_Write_Counter>>
  BY DEF SendIsDone, At
<1>3. p \in Packets /\ packet[p].at = "taken" /\ packet[p].by = w
  BY <1>2, InHandIs
<1> HIDE DEF p
<1>4. "completing" \in WriterPcs
  BY DEF WriterPcs
<1>5. /\ writer' \in [Writers -> WriterRecord] /\ Others(w)
      /\ writer'[w].pc = "completing" /\ writer'[w].kind = writer[w].kind
      /\ writer'[w].todo = writer[w].todo /\ writer'[w].waits = writer[w].waits
      /\ writer'[w].calls = writer[w].calls
  BY <1>1, <1>2, <1>4, GotoEffect
<1>6. Active(w) /\ Active(w)' /\ Sending(w) /\ Sending(w)'
  BY <1>2, <1>5 DEF Active, Sending
<1>7. /\ completion[w].pc = "none"
      /\ \A q \in Packets \ {p} : packet[q].at # "taken"
      /\ \A v \in Writers \ {w} : ~Active(v) /\ ~Sending(v)
  BY <1>1, <1>2, <1>3, <1>6 DEF Place, Owned, Exclusive, Sending, Active
<1>8. \A v \in Writers : Sending(v) =>
        Sending(v)' /\ writer'[v].kind = writer[v].kind /\ writer'[v].calls = writer[v].calls
  BY <1>5, <1>6, <1>7
<1>9. /\ packet' \in [Packets -> PacketRecord]
      /\ completion' \in [Contexts -> CompletionRecord]
      /\ Owned' /\ Completions'
      /\ WriteCounted' = WriteCounted /\ BufferedCounted' = BufferedCounted
      /\ Discounting' = Discounting /\ Signalling' = Signalling
      /\ \A q, r \in Packets : packet'[q].at # "free" /\ packet'[q].kind = "write"
                                 /\ packet'[r].at # "free" => q = r
      /\ \A q \in Packets : packet'[q].at # "free" /\ packet'[q].kind = "write"
           => Signalling' = {}
      /\ \A y, z \in Signalling' : y = z
      /\ Free' = Free
  BY <1>1, <1>2, <1>3, <1>7, <1>8, GivenBackKeeps
<1>10. StateTypeOK'
  BY <1>1, <1>2, <1>5, <1>9 DEF StateTypeOK
<1>11. Exclusive'
  BY <1>1, <1>2, <1>5, <1>6, ClaimsKeeps DEF Claims, StateTypeOK
<1>12. Places'
  <2>1. Place(w)'
    BY <1>1, <1>2, <1>5, <1>6 DEF Place
  <2>2. ASSUME NEW v \in Writers \ {w} PROVE Place(v)'
    <3>1. /\ Place(v) /\ ~Sending(v) /\ writer'[v] = writer[v]
          /\ completion'[v] = completion[v]
      <4>1. v \in Contexts
        BY DEF Contexts
      <4> QED
        BY <1>1, <1>2, <1>3, <1>5, <1>7, <4>1, SendCompleteEffect DEF Places, Others
    <3> QED
      BY <3>1 DEF Place, Sending
  <2> QED
    BY <2>1, <2>2 DEF Places
<1>13. WriteOnce'
  <2>1. Sole(w)'
    BY <1>1, <1>2, <1>5, <1>6 DEF Sole
  <2>2. \A v \in Writers \ {w} : Sole(v)'
    BY <1>5, <1>7 DEF Sole, Others, Sending
  <2> QED
    BY <1>9, <2>1, <2>2 DEF WriteOnce
<1>14. PendingInv'
  BY <1>1, <1>2, <1>9 DEF PendingInv
<1> QED
  BY <1>9, <1>10, <1>11, <1>12, <1>13, <1>14 DEF WriteInv

LEMMA NdisCompletesKeeps ==
  ASSUME WriteAssumption, OneCopy, WriteInv, NEW d \in Dpcs, NEW p \in Packets, NdisCompletes(d, p)
  PROVE  WriteInv'
<1>1. /\ StateTypeOK /\ Exclusive /\ Places /\ Owned /\ Completions /\ WriteOnce /\ PendingInv
      /\ d \in Contexts /\ d \notin Writers
  BY DEF WriteInv, Places, WriteOnce, StateTypeOK, Contexts, WriteAssumption
<1>2. /\ completion[d].pc = "none" /\ packet[p].at = "ndis" /\ SendComplete(d, p)
      /\ UNCHANGED <<WriteInProgress, writeComplete, TransmitPendingPackets,
                     Multiple_Write_Counter, writer>>
  BY DEF NdisCompletes
<1>3. /\ packet' \in [Packets -> PacketRecord]
      /\ completion' \in [Contexts -> CompletionRecord]
      /\ Owned' /\ Completions'
      /\ WriteCounted' = WriteCounted /\ BufferedCounted' = BufferedCounted
      /\ Discounting' = Discounting /\ Signalling' = Signalling
      /\ \A q, r \in Packets : packet'[q].at # "free" /\ packet'[q].kind = "write"
                                 /\ packet'[r].at # "free" => q = r
      /\ \A q \in Packets : packet'[q].at # "free" /\ packet'[q].kind = "write"
           => Signalling' = {}
      /\ \A y, z \in Signalling' : y = z
      /\ Free' = Free
  BY <1>1, <1>2, GivenBackKeeps DEF Sending
<1>4. StateTypeOK' /\ Exclusive'
  BY <1>1, <1>2, <1>3 DEF StateTypeOK, Exclusive, Active
<1>5. /\ Passed(p, "back")
      /\ \A y \in Contexts \ {d} : completion'[y] = completion[y]
  BY <1>1, <1>2, SendCompleteEffect
<1>6. Places'
  <2>1. ASSUME NEW v \in Writers PROVE Place(v)'
    <3>1. /\ Place(v) /\ writer'[v] = writer[v] /\ completion'[v] = completion[v]
      BY <1>1, <1>2, <1>5 DEF Places, Contexts
    <3>2. ASSUME writer[v].pc \in {"arm", "ndis"}
          PROVE  \E q \in Packets : packet'[q].at = "taken" /\ packet'[q].by = v
      <4>1. PICK q \in Packets : packet[q].at = "taken" /\ packet[q].by = v
        BY <3>1, <3>2 DEF Place
      <4>2. q # p
        BY <1>2, <4>1
      <4> QED
        BY <1>5, <4>1, <4>2 DEF Passed
    <3> QED
      BY <3>1, <3>2 DEF Place, Sending
  <2> QED
    BY <2>1 DEF Places
<1>7. WriteOnce'
  <2>1. ASSUME NEW v \in Writers PROVE Sole(v)'
    <3>1. Sole(v)
      BY <1>1 DEF WriteOnce
    <3>2. writer[v].pc \notin {"arm", "ndis"} \/ writer[v].kind # "write" \/ ~Sending(v)
      BY <1>2, <3>1 DEF Sole
    <3> QED
      BY <1>2, <1>3, <3>1, <3>2 DEF Sole, Sending
  <2> QED
    BY <1>3, <2>1 DEF WriteOnce
<1>8. PendingInv'
  BY <1>1, <1>2, <1>3 DEF PendingInv
<1> QED
  BY <1>3, <1>4, <1>6, <1>7, <1>8 DEF WriteInv

-------------------------------------------------------------------------------
(* The steps of NPF_SendComplete.                                          *)
LEMMA CompletionEffect ==
  ASSUME WriteInv, NEW x \in Contexts, NEW c \in CompletionRecord,
         completion' = [completion EXCEPT ![x] = c]
  PROVE  /\ completion' \in [Contexts -> CompletionRecord]
         /\ \A y \in Contexts \ {x} : completion'[y] = completion[y]
         /\ completion'[x] = c
BY DEF WriteInv, StateTypeOK

\* who sends, and what the others do, while x completes a packet
LEMMA SenderOf ==
  ASSUME WriteAssumption, WriteInv, NEW x \in Contexts, completion[x].pc # "none"
  PROVE  \E w \in Writers :
           /\ Sending(w) /\ Active(w)
           /\ \A v \in Writers \ {w} : ~Active(v) /\ ~Sending(v)
           /\ writer[w].kind = IF completion[x].pc \in {"count", "recycle", "signal"}
                               THEN "write" ELSE "buffered"
           /\ \A p \in Packets : packet[p].at # "free" =>
                packet[p].by = w /\ packet[p].kind = writer[w].kind
<1>1. /\ StateTypeOK /\ Exclusive /\ Places /\ Owned /\ Completions
      /\ completion[x].pc \in {"count", "recycle", "signal", "free", "discount"}
      /\ completion[x].pkt \in Packets \cup {0}
  BY DEF WriteInv, StateTypeOK, CompletionRecord
<1>2. ASSUME NEW w \in Writers, Sending(w)
      PROVE  /\ Active(w)
             /\ \A v \in Writers \ {w} : ~Active(v) /\ ~Sending(v)
             /\ \A p \in Packets : packet[p].at # "free" =>
                  packet[p].by = w /\ packet[p].kind = writer[w].kind
  <2>1. Active(w)
    BY <1>2 DEF Sending, Active
  <2>2. \A v \in Writers \ {w} : ~Active(v) /\ ~Sending(v)
    BY <1>1, <2>1 DEF Exclusive, Sending, Active
  <2> QED
    BY <2>1, <2>2, OneSender
<1>3. CASE completion[x].pc \in {"count", "recycle", "free"}
  <2> DEFINE p == completion[x].pkt
  <2>1. p \in Packets /\ packet[p].at = "back"
        /\ (completion[x].pc \in {"count", "recycle"} <=> packet[p].kind = "write")
    BY <1>1, <1>3 DEF Completions
  <2>2. packet[p].by \in Writers /\ Sending(packet[p].by)
        /\ packet[p].kind = writer[packet[p].by].kind
    BY <1>1, <2>1 DEF Owned
  <2>3. writer[packet[p].by].kind \in {"write", "buffered"}
    BY <1>1, <2>2 DEF Places, Place
  <2> QED
    BY <1>2, <1>3, <2>1, <2>2, <2>3
<1>4. CASE completion[x].pc = "signal"
  <2>1. PICK w \in Writers : Sending(w) /\ writer[w].kind = "write"
    BY <1>1, <1>4 DEF Completions
  <2> QED
    BY <1>2, <1>4, <2>1
<1>5. CASE completion[x].pc = "discount"
  <2>1. PICK w \in Writers : Sending(w) /\ writer[w].kind = "buffered"
    BY <1>1, <1>5 DEF Completions
  <2> QED
    BY <1>2, <1>5, <2>1
<1> QED
  BY <1>1, <1>3, <1>4, <1>5

LEMMA CompleteCountKeeps ==
  ASSUME WriteAssumption, OneCopy, WriteInv, NEW x \in Contexts, CompleteCount(x)
  PROVE  WriteInv'
<1> DEFINE p == completion[x].pkt
<1>1. /\ StateTypeOK /\ Exclusive /\ Places /\ Owned /\ Completions /\ WriteOnce /\ PendingInv
      /\ completion \in [Contexts -> CompletionRecord] /\ TransmitPendingPackets \in 0 .. Word - 1
  BY DEF WriteInv, StateTypeOK
<1>2. /\ completion[x].pc = "count"
      /\ TransmitPendingPackets' = (TransmitPendingPackets - 1) % Word
      /\ completion' = [completion EXCEPT ![x].pc = "recycle", ![x].still = TransmitPendingPackets']
      /\ UNCHANGED <<WriteInProgress, Multiple_Write_Counter, writeComplete, packet, writer>>
  BY DEF CompleteCount
<1>3. p \in Packets /\ packet[p].at = "back" /\ packet[p].kind = "write"
      /\ \A y \in Contexts : completion[y].pkt = p => y = x
  <2>1. p # 0 /\ p \in Packets \cup {0}
    BY <1>1, <1>2 DEF Completions, CompletionRecord
  <2> QED
    BY <1>1, <1>2, <2>1 DEF Completions
<1>4. p \in WriteCounted
  BY <1>2, <1>3 DEF WriteCounted
\* the decrement does not wrap
<1>5. /\ Cardinality(WriteCounted) \in Nat \ {0} /\ TransmitPendingPackets = Cardinality(WriteCounted)
      /\ Cardinality(WriteCounted \ {p}) = Cardinality(WriteCounted) - 1
  <2>1. IsFiniteSet(WriteCounted) /\ Cardinality(WriteCounted) \in Nat
    BY PendingBounds
  <2>2. Cardinality(WriteCounted) # 0
    BY <1>4, <2>1, FS_EmptySet
  <2>3. Cardinality(WriteCounted \ {p}) = Cardinality(WriteCounted) - 1
    <3> HIDE DEF p
    <3> QED
      BY <1>4, <2>1, FS_RemoveElement
  <2> QED
    BY <1>1, <2>1, <2>2, <2>3 DEF PendingInv
<1>6. TransmitPendingPackets' = TransmitPendingPackets - 1
      /\ TransmitPendingPackets' \in 0 .. Word - 1
  <2>1. TransmitPendingPackets - 1 \in 0 .. Word - 1 /\ Word \in Nat
    BY <1>1, <1>5 DEF WriteAssumption
  <2>2. (TransmitPendingPackets - 1) % Word = TransmitPendingPackets - 1
    BY <2>1
  <2> QED
    BY <1>2, <2>1, <2>2
<1> DEFINE still == TransmitPendingPackets'
<1>7. /\ completion' \in [Contexts -> CompletionRecord]
      /\ \A y \in Contexts \ {x} : completion'[y] = completion[y]
      /\ completion'[x].pc = "recycle" /\ completion'[x].pkt = p
  <2>1. still \in 0 .. Word - 1 /\ completion' = [completion EXCEPT ![x].pc = "recycle", ![x].still = still]
    BY <1>2, <1>6
  <2> HIDE DEF still
  <2> QED
    BY <1>1, <2>1 DEF CompletionRecord
<1> HIDE DEF p, still
<1>8. StateTypeOK' /\ Exclusive' /\ Owned'
  BY <1>1, <1>2, <1>6, <1>7 DEF StateTypeOK, Exclusive, Owned, Active, Sending
<1>9. Places'
  <2>1. ASSUME NEW v \in Writers PROVE Place(v)'
    <3>1. /\ Place(v) /\ writer'[v] = writer[v] /\ packet' = packet
          /\ completion'[v].pc # "none" => completion[v].pc # "none"
      BY <1>1, <1>2, <1>7 DEF Places, Contexts
    <3> QED
      BY <3>1 DEF Place, Sending
  <2> QED
    BY <2>1 DEF Places
<1>10. Completions'
  <2>1. \A y \in Contexts : completion'[y].pkt = completion[y].pkt
                            /\ (y # x => completion'[y].pc = completion[y].pc)
    BY <1>7 DEF p
  <2> QED
    BY <1>1, <1>2, <1>3, <1>7, <2>1 DEF Completions, Sending
<1>11. WriteOnce'
  <2>1. Signalling' = Signalling /\ Free' = Free
    BY <1>2, <1>7 DEF Signalling, Free
  <2>2. \A v \in Writers : Sole(v)'
    BY <1>1, <1>2, <2>1 DEF WriteOnce, Sole, Sending
  <2> QED
    BY <1>1, <1>2, <2>1, <2>2 DEF WriteOnce
<1>12. PendingInv'
  <2>1. BufferedCounted' = BufferedCounted /\ Discounting' = Discounting
    BY <1>2, <1>7 DEF BufferedCounted, Discounting
  <2>2. WriteCounted' = WriteCounted \ {p}
    BY <1>2, <1>3, <1>7 DEF WriteCounted
  <2> QED
    BY <1>1, <1>2, <1>5, <1>6, <2>1, <2>2 DEF PendingInv
<1> QED
  BY <1>8, <1>9, <1>10, <1>11, <1>12 DEF WriteInv

\* the packet goes back to the pool
LEMMA FreedKeeps ==
  ASSUME WriteAssumption, OneCopy, WriteInv, NEW x \in Contexts, CompleteRecycle(x) \/ CompleteFree(x)
  PROVE  WriteInv'
<1> DEFINE p == completion[x].pkt
           next == IF completion[x].pc = "recycle" THEN "signal" ELSE "discount"
<1>1. /\ StateTypeOK /\ Exclusive /\ Places /\ Owned /\ Completions /\ WriteOnce /\ PendingInv
      /\ completion \in [Contexts -> CompletionRecord] /\ packet \in [Packets -> PacketRecord]
  BY DEF WriteInv, StateTypeOK
<1>2. /\ completion[x].pc \in {"recycle", "free"}
      /\ packet' = [packet EXCEPT ![p] = FreePacket]
      /\ completion' = [completion EXCEPT ![x].pc = next, ![x].pkt = 0]
      /\ UNCHANGED <<WriteInProgress, TransmitPendingPackets, Multiple_Write_Counter,
                     writeComplete, writer>>
  BY DEF CompleteRecycle, CompleteFree
<1>3. /\ p \in Packets /\ p # 0 /\ packet[p].at = "back"
      /\ (completion[x].pc = "recycle" <=> packet[p].kind = "write")
      /\ \A y \in Contexts : completion[y].pkt = p => y = x
  <2>1. p # 0 /\ p \in Packets \cup {0}
    BY <1>1, <1>2 DEF Completions, CompletionRecord
  <2> QED
    BY <1>1, <1>2, <2>1 DEF Completions
<1>4. next \in {"signal", "discount"} /\ (next = "signal" <=> completion[x].pc = "recycle")
  OBVIOUS
<1> HIDE DEF p, next
<1>5. /\ completion' \in [Contexts -> CompletionRecord]
      /\ \A y \in Contexts \ {x} : completion'[y] = completion[y]
      /\ completion'[x].pc = next /\ completion'[x].pkt = 0
  BY <1>1, <1>2, <1>4 DEF CompletionRecord
<1>6. /\ packet' \in [Packets -> PacketRecord]
      /\ \A q \in Packets \ {p} : packet'[q] = packet[q]
      /\ packet'[p].at = "free" /\ packet'[p].kind = "none"
  <2>1. FreePacket \in PacketRecord /\ FreePacket.at = "free" /\ FreePacket.kind = "none"
    BY DEF FreePacket, PacketRecord
  <2> HIDE DEF FreePacket
  <2> QED
    BY <1>1, <1>2, <1>3, <2>1
<1>7. PICK w \in Writers :
           /\ Sending(w) /\ Active(w)
           /\ \A v \in Writers \ {w} : ~Active(v) /\ ~Sending(v)
           /\ writer[w].kind = IF completion[x].pc \in {"count", "recycle", "signal"}
                               THEN "write" ELSE "buffered"
           /\ \A q \in Packets : packet[q].at # "free" =>
                packet[q].by = w /\ packet[q].kind = writer[w].kind
  BY <1>2, SenderOf
<1>8. StateTypeOK' /\ Exclusive'
  BY <1>1, <1>2, <1>5, <1>6 DEF StateTypeOK, Exclusive, Active
<1>9. Owned'
  BY <1>1, <1>2, <1>6 DEF Owned, Sending
<1>10. Places'
  <2>1. ASSUME NEW v \in Writers PROVE Place(v)'
    <3>1. /\ Place(v) /\ writer'[v] = writer[v]
          /\ completion'[v].pc # "none" => completion[v].pc # "none"
      BY <1>1, <1>2, <1>5 DEF Places, Contexts
    <3>2. ASSUME NEW q \in Packets, packet[q].at = "taken"
          PROVE  packet'[q] = packet[q]
      BY <1>3, <1>6, <3>2
    <3> QED
      BY <3>1, <3>2 DEF Place, Sending
  <2> QED
    BY <2>1 DEF Places
<1>11. Completions'
  <2>1. ASSUME NEW y \in Contexts, y # x
        PROVE  /\ completion'[y] = completion[y]
               /\ completion[y].pkt # 0 => packet'[completion[y].pkt] = packet[completion[y].pkt]
    <3>1. completion[y].pkt # p /\ completion[y].pkt \in Packets \cup {0}
      BY <1>1, <1>3, <2>1 DEF CompletionRecord
    <3> QED
      BY <1>5, <1>6, <2>1, <3>1
  <2>2. ASSUME NEW y \in Contexts
        PROVE  /\ completion'[y].pc \in {"count", "recycle"} <=>
                    completion'[y].pkt # 0 /\ packet'[completion'[y].pkt].kind = "write"
               /\ completion'[y].pkt # 0 => /\ completion'[y].pc \in {"count", "recycle", "free"}
                                            /\ packet'[completion'[y].pkt].at = "back"
               /\ completion'[y].pc = "free" => completion'[y].pkt # 0
    <3>1. CASE y = x
      BY <1>4, <1>5, <3>1
    <3>2. CASE y # x
      BY <1>1, <2>1, <3>2 DEF Completions
    <3> QED
      BY <3>1, <3>2
  <2>3. ASSUME NEW y \in Contexts
        PROVE  /\ completion'[y].pc = "signal" =>
                    \E v \in Writers : Sending(v)' /\ writer'[v].kind = "write"
               /\ completion'[y].pc = "discount" =>
                    \E v \in Writers : Sending(v)' /\ writer'[v].kind = "buffered"
    <3>1. CASE y = x
      BY <1>2, <1>4, <1>5, <1>7, <3>1 DEF Sending
    <3>2. CASE y # x
      BY <1>1, <1>2, <2>1, <3>2 DEF Completions, Sending
    <3> QED
      BY <3>1, <3>2
  <2>4. \A y, z \in Contexts :
          completion'[y].pkt = completion'[z].pkt /\ completion'[y].pkt # 0 => y = z
    BY <1>1, <1>5 DEF Completions
  <2> QED
    BY <2>2, <2>3, <2>4 DEF Completions
<1>12. WriteOnce'
  <2>1. CASE packet[p].kind = "write"
    \* this was the only packet, and nobody was signalling
    <3>1. /\ \A q \in Packets : packet'[q].at = "free"
          /\ Signalling = {} /\ Signalling' \subseteq {x}
      BY <1>1, <1>3, <1>5, <1>6, <2>1 DEF WriteOnce, Signalling
    <3>2. \A v \in Writers : Sole(v)'
      <4>1. ASSUME NEW v \in Writers PROVE Sole(v)'
        <5>1. Sole(v) /\ writer'[v] = writer[v] /\ Free # Packets
          BY <1>1, <1>2, <1>3 DEF WriteOnce, Free
        <5>2. \A q \in Packets : packet'[q].at \in {"free", "taken"}
          BY <3>1
        <5> QED
          BY <1>2, <5>1, <5>2 DEF Sole, Sending
      <4> QED
        BY <4>1
    <3> QED
      BY <3>1, <3>2 DEF WriteOnce
  <2>2. CASE packet[p].kind # "write"
    <3>1. Signalling' = Signalling
      BY <1>2, <1>3, <1>4, <1>5, <2>2 DEF Signalling
    <3>2. \A v \in Writers : Sole(v)'
      BY <1>2, <1>3, <1>7, <2>2 DEF Sole, Sending
    <3> QED
      BY <1>1, <1>6, <3>1, <3>2 DEF WriteOnce
  <2> QED
    BY <2>1, <2>2
<1>13. WriteCounted' = WriteCounted
  <2> DEFINE Unrecycled(q) == \A y \in Contexts : completion[y].pkt = q
                                                     => completion[y].pc \notin {"recycle"}
  <2>1. ASSUME NEW q \in Packets \ {p} PROVE Unrecycled(q)' <=> Unrecycled(q)
    <3>1. q # 0
      BY DEF Packets, WriteAssumption
    <3>2. completion[x].pkt # q /\ completion'[x].pkt # q
      BY <1>5, <3>1 DEF p
    <3> QED
      BY <1>5, <3>2
  <2>2. packet[p].kind = "write" => ~Unrecycled(p)
    BY <1>3 DEF p
  <2> HIDE DEF Unrecycled
  <2>3. /\ \A q \in Packets : q \in WriteCounted <=>
              packet[q].kind = "write" /\ packet[q].at # "free" /\ Unrecycled(q)
        /\ \A q \in Packets : q \in WriteCounted' <=>
              packet'[q].kind = "write" /\ packet'[q].at # "free" /\ Unrecycled(q)'
        /\ WriteCounted \subseteq Packets /\ WriteCounted' \subseteq Packets
    BY DEF WriteCounted, Unrecycled
  <2>4. \A q \in Packets : q \in WriteCounted' <=> q \in WriteCounted
    BY <1>6, <2>1, <2>2, <2>3
  <2> QED
    BY <2>3, <2>4
<1>14. PendingInv'
  <2>1. CASE packet[p].kind = "write"
    <3>1. Discounting' = Discounting /\ BufferedCounted' = BufferedCounted
      BY <1>2, <1>3, <1>4, <1>5, <1>6, <2>1 DEF Discounting, BufferedCounted
    <3> QED
      BY <1>1, <1>2, <1>13, <3>1 DEF PendingInv
  <2>2. CASE packet[p].kind # "write"
    <3>1. /\ Discounting' = Discounting \cup {x} /\ x \notin Discounting
          /\ BufferedCounted' = BufferedCounted \ {p} /\ p \in BufferedCounted
      BY <1>2, <1>3, <1>4, <1>5, <1>6, <1>7, <2>2 DEF Discounting, BufferedCounted
    <3>3. /\ Cardinality(Discounting)' = Cardinality(Discounting) + 1
          /\ Cardinality(BufferedCounted)' = Cardinality(BufferedCounted) - 1
          /\ Cardinality(Discounting) \in Nat /\ Cardinality(BufferedCounted) \in Nat
      <4>1. /\ IsFiniteSet(Discounting) /\ Cardinality(Discounting) \in Nat
            /\ IsFiniteSet(BufferedCounted) /\ Cardinality(BufferedCounted) \in Nat
        BY PendingBounds
      <4>2. Cardinality(Discounting)' = Cardinality(Discounting) + 1
        BY <3>1, <4>1, FS_AddElement
      <4>3. Cardinality(BufferedCounted)' = Cardinality(BufferedCounted) - 1
        BY <3>1, <4>1, FS_RemoveElement
      <4> QED
        BY <4>1, <4>2, <4>3
    <3> QED
      BY <1>1, <1>2, <1>13, <3>3 DEF PendingInv
  <2> QED
    BY <2>1, <2>2
<1> QED
  BY <1>8, <1>9, <1>10, <1>11, <1>12, <1>14 DEF WriteInv

\* NPF_SendComplete is done with the event or the counter
LEMMA LastStepKeeps ==
  ASSUME WriteAssumption, OneCopy, WriteInv, NEW x \in Contexts,
         CompleteSignal(x) \/ CompleteDiscount(x)
  PROVE  WriteInv'
<1>1. /\ StateTypeOK /\ Exclusive /\ Places /\ Owned /\ Completions /\ WriteOnce /\ PendingInv
      /\ completion \in [Contexts -> CompletionRecord]
  BY DEF WriteInv, StateTypeOK
<1>2. /\ completion[x].pc \in {"signal", "discount"}
      /\ completion' = [completion EXCEPT ![x] = NoCompletion]
      /\ UNCHANGED <<WriteInProgress, TransmitPendingPackets, packet, writer>>
      /\ IF completion[x].pc = "signal"
         THEN /\ writeComplete' = (writeComplete \/ completion[x].still = 0)
              /\ Multiple_Write_Counter' = Multiple_Write_Counter
         ELSE /\ writeComplete' = writeComplete
              /\ Multiple_Write_Counter' = (Multiple_Write_Counter - 1) % Word
  BY DEF CompleteSignal, CompleteDiscount
<1>3. /\ NoCompletion \in CompletionRecord /\ NoCompletion.pc = "none" /\ NoCompletion.pkt = 0
  BY FiniteSets DEF NoCompletion, CompletionRecord, WriteAssumption
<1>4. /\ completion' \in [Contexts -> CompletionRecord]
      /\ \A y \in Contexts \ {x} : completion'[y] = completion[y]
      /\ completion'[x].pc = "none" /\ completion'[x].pkt = 0
  <2> HIDE DEF NoCompletion
  <2> QED
    BY <1>2, <1>3, CompletionEffect
<1>5. completion[x].pkt = 0
  BY <1>1, <1>2 DEF Completions
<1>6. PICK w \in Writers :
           /\ Sending(w) /\ Active(w)
           /\ \A v \in Writers \ {w} : ~Active(v) /\ ~Sending(v)
           /\ writer[w].kind = IF completion[x].pc \in {"count", "recycle", "signal"}
                               THEN "write" ELSE "buffered"
           /\ \A q \in Packets : packet[q].at # "free" =>
                packet[q].by = w /\ packet[q].kind = writer[w].kind
  BY <1>2, SenderOf
<1>7. /\ WriteCounted' = WriteCounted /\ BufferedCounted' = BufferedCounted /\ Free' = Free
      /\ Signalling' = Signalling \ {x} /\ Discounting' = Discounting \ {x}
  <2>1. \A q \in Packets : q # 0
    BY DEF Packets, WriteAssumption
  <2>2. ASSUME NEW q \in Packets
        PROVE  (\A y \in Contexts : completion'[y].pkt = q => completion'[y].pc \notin {"recycle"})
                 <=> \A y \in Contexts : completion[y].pkt = q => completion[y].pc \notin {"recycle"}
    BY <1>4, <1>5, <2>1
  <2>3. WriteCounted' = WriteCounted
    BY <1>2, <2>2 DEF WriteCounted
  <2>4. BufferedCounted' = BufferedCounted /\ Free' = Free
    BY <1>2 DEF BufferedCounted, Free
  <2>5. Signalling' = Signalling \ {x} /\ Discounting' = Discounting \ {x}
    BY <1>2, <1>4 DEF Signalling, Discounting
  <2> QED
    BY <2>3, <2>4, <2>5
\* the decrement does not wrap
<1>8. completion[x].pc = "discount" =>
        /\ Multiple_Write_Counter' = Multiple_Write_Counter - 1
        /\ Multiple_Write_Counter' \in 0 .. Word - 1
        /\ Cardinality(Discounting)' = Cardinality(Discounting) - 1
  <2> SUFFICES ASSUME completion[x].pc = "discount"
               PROVE  /\ Multiple_Write_Counter' = Multiple_Write_Counter - 1
                      /\ Multiple_Write_Counter' \in 0 .. Word - 1
                      /\ Cardinality(Discounting)' = Cardinality(Discounting) - 1
    OBVIOUS
  <2>1. /\ IsFiniteSet(Discounting) /\ Cardinality(Discounting) \in Nat
        /\ Cardinality(BufferedCounted) \in Nat
    BY PendingBounds
  <2>2. x \in Discounting
    BY DEF Discounting
  <2>3. Cardinality(Discounting) # 0
    BY <2>1, <2>2, FS_EmptySet
  <2>4. Cardinality(Discounting)' = Cardinality(Discounting) - 1
    BY <1>7, <2>1, <2>2, FS_RemoveElement
  <2>5. /\ Multiple_Write_Counter - 1 \in 0 .. Word - 1 /\ Word \in Nat
        /\ Multiple_Write_Counter' = (Multiple_Write_Counter - 1) % Word
    <3>1. /\ Multiple_Write_Counter = Cardinality(BufferedCounted) + Cardinality(Discounting)
          /\ Multiple_Write_Counter \in 0 .. Word - 1
      BY <1>1 DEF PendingInv, StateTypeOK
    <3> QED
      BY <1>2, <2>1, <2>3, <3>1 DEF WriteAssumption
  <2>6. (Multiple_Write_Counter - 1) % Word = Multiple_Write_Counter - 1
    BY <2>5
  <2> QED
    BY <2>4, <2>5, <2>6
<1>9. StateTypeOK' /\ Exclusive' /\ Owned'
  <2>1. writeComplete' \in BOOLEAN /\ Multiple_Write_Counter' \in 0 .. Word - 1
    BY <1>1, <1>2, <1>8 DEF StateTypeOK
  <2> QED
    BY <1>1, <1>2, <1>4, <2>1 DEF StateTypeOK, Exclusive, Owned, Active, Sending
<1>10. Places'
  <2>1. ASSUME NEW v \in Writers PROVE Place(v)'
    <3>1. /\ Place(v) /\ writer'[v] = writer[v] /\ packet' = packet
          /\ completion'[v].pc # "none" => completion[v].pc # "none"
      BY <1>1, <1>2, <1>4 DEF Places, Contexts
    <3> QED
      BY <3>1 DEF Place, Sending
  <2> QED
    BY <2>1 DEF Places
<1>11. Completions'
  <2>1. ASSUME NEW y \in Contexts
        PROVE  /\ completion'[y].pc \in {"count", "recycle"} <=>
                    completion'[y].pkt # 0 /\ packet'[completion'[y].pkt].kind = "write"
               /\ completion'[y].pkt # 0 => /\ completion'[y].pc \in {"count", "recycle", "free"}
                                            /\ packet'[completion'[y].pkt].at = "back"
               /\ completion'[y].pc = "free" => completion'[y].pkt # 0
    <3>1. CASE y = x
      BY <1>4, <3>1
    <3>2. CASE y # x
      BY <1>1, <1>2, <1>4, <3>2 DEF Completions
    <3> QED
      BY <3>1, <3>2
  <2>2. ASSUME NEW y \in Contexts
        PROVE  /\ completion'[y].pc = "signal" =>
                    \E v \in Writers : Sending(v)' /\ writer'[v].kind = "write"
               /\ completion'[y].pc = "discount" =>
                    \E v \in Writers : Sending(v)' /\ writer'[v].kind = "buffered"
    BY <1>1, <1>2, <1>4, <2>2 DEF Completions, Sending
  <2>3. \A y, z \in Contexts :
          completion'[y].pkt = completion'[z].pkt /\ completion'[y].pkt # 0 => y = z
    BY <1>1, <1>4 DEF Completions
  <2> QED
    BY <2>1, <2>2, <2>3 DEF Completions
<1>12. WriteOnce'
  <2>1. CASE completion[x].pc = "signal"
    \* nobody has a packet, and nobody else is signalling
    <3>1. Signalling' = {} /\ \A q \in Packets : packet[q].at = "free"
      BY <1>1, <1>6, <1>7, <2>1 DEF WriteOnce, Signalling
    <3>2. Free' = Packets
      BY <1>7, <3>1 DEF Free
    <3>3. ASSUME NEW v \in Writers PROVE Sole(v)'
      <4>1. writer[v].pc \in {"arm", "ndis"} => packet[InHand(v)].at = "taken" /\ InHand(v) \in Packets
        <5>1. writer[v].pc \in {"arm", "ndis"} =>
                \E q \in Packets : packet[q].at = "taken" /\ packet[q].by = v
          BY <1>1 DEF Places, Place
        <5> QED
          BY <5>1 DEF InHand
      <4>2. writer[v].pc \notin {"arm", "ndis"}
        BY <3>1, <4>1
      <4> QED
        BY <1>2, <3>1, <3>2, <4>2 DEF Sole
    <3> QED
      BY <1>2, <3>1, <3>3 DEF WriteOnce
  <2>2. CASE completion[x].pc = "discount"
    <3>1. Signalling' = Signalling
      BY <1>7, <2>2 DEF Signalling
    <3>2. \A v \in Writers : Sole(v)'
      BY <1>1, <1>2, <1>7, <2>2, <3>1 DEF WriteOnce, Sole, Sending
    <3> QED
      BY <1>1, <1>2, <3>1, <3>2 DEF WriteOnce
  <2> QED
    BY <1>2, <2>1, <2>2
<1>13. PendingInv'
  <2>1. CASE completion[x].pc = "signal"
    <3>1. Discounting' = Discounting
      BY <1>7, <2>1 DEF Discounting
    <3> QED
      BY <1>1, <1>2, <1>7, <2>1, <3>1 DEF PendingInv
  <2>2. CASE completion[x].pc = "discount"
    BY <1>1, <1>2, <1>7, <1>8, <2>2, PendingBounds DEF PendingInv
  <2> QED
    BY <1>2, <2>1, <2>2
<1> QED
  BY <1>9, <1>10, <1>11, <1>12, <1>13 DEF WriteInv

-------------------------------------------------------------------------------
LEMMA WriteInvariance ==
  ASSUME OneCopy
  PROVE  Spec => []WriteInv
<1> USE WriteAssumption
<1>1. Init => WriteInv
  <2> SUFFICES ASSUME Init PROVE WriteInv
    OBVIOUS
  <2>1. /\ packet = [p \in Packets |-> FreePacket] /\ writer = [w \in Writers |-> IdleWriter]
        /\ completion = [x \in Contexts |-> NoCompletion]
        /\ WriteInProgress = FALSE /\ writeComplete = FALSE
        /\ TransmitPendingPackets = 0 /\ Multiple_Write_Counter = 0
    BY DEF Init
  <2>2. 0 \in 0 .. Word - 1 /\ Writers \subseteq Contexts
    BY FiniteSets DEF WriteAssumption, Contexts
  <2>3. /\ FreePacket \in PacketRecord /\ IdleWriter \in WriterRecord
        /\ NoCompletion \in CompletionRecord
    BY <2>2 DEF FreePacket, PacketRecord, IdleWriter, WriterRecord, WriterPcs, NoCompletion,
                CompletionRecord
  <2>4. /\ FreePacket.at = "free" /\ FreePacket.kind = "none"
        /\ IdleWriter.pc = "idle" /\ IdleWriter.kind = "none" /\ IdleWriter.waits = 0
        /\ NoCompletion.pc = "none" /\ NoCompletion.pkt = 0
    BY DEF FreePacket, IdleWriter, NoCompletion
  <2> HIDE DEF FreePacket, IdleWriter, NoCompletion
  <2>5. /\ \A p \in Packets : packet[p].at = "free" /\ packet[p].kind = "none"
        /\ \A w \in Writers : writer[w].pc = "idle" /\ writer[w].kind = "none"
                                /\ writer[w].waits = 0
        /\ \A x \in Contexts : completion[x].pc = "none" /\ completion[x].pkt = 0
    BY <2>1, <2>4
  <2>6. StateTypeOK
    BY <2>1, <2>2, <2>3 DEF StateTypeOK
  <2>7. Exclusive /\ Owned
    BY <2>1, <2>5 DEF Exclusive, Owned, Active
  <2>8. Places
    BY <2>2, <2>5 DEF Places, Place, Sending, WriteAssumption
  <2>9. Completions
    BY <2>5 DEF Completions
  <2>10. WriteOnce
    BY <2>5 DEF WriteOnce, Sole, Sending, Signalling
  <2>11. PendingInv
    <3>1. WriteCounted = {} /\ BufferedCounted = {} /\ Discounting = {}
      BY <2>5 DEF WriteCounted, BufferedCounted, Discounting
    <3> QED
      BY <2>1, <3>1, FS_EmptySet DEF PendingInv
  <2> QED
    BY <2>6, <2>7, <2>8, <2>9, <2>10, <2>11 DEF WriteInv
<1>2. WriteInv /\ [Next]_vars => WriteInv'
  <2> SUFFICES ASSUME WriteInv, [Next]_vars PROVE WriteInv'
    OBVIOUS
  <2>1. ASSUME NEW w \in Writers, NEW n \in Repeats, WriteStart(w, n) PROVE WriteInv'
    BY <2>1, WriteStartKeeps
  <2>2. ASSUME NEW w \in Writers, NEW n \in Bursts, BufferedStart(w, n) PROVE WriteInv'
    BY <2>2, BufferedStartKeeps
  <2>3. ASSUME NEW w \in Writers, WriterStep(w) PROVE WriteInv'
    <3>1. CASE WriteBusy(w) \/ WriteClaim(w) \/ WriteReset(w)
      BY <3>1, BeforeSendingKeeps
    <3>2. CASE WriteTake(w) \/ BufferedTake(w)
      BY <3>2, TakeKeeps
    <3>3. CASE WriteArm(w)
      BY <3>3, WriteArmKeeps
    <3>4. CASE SendPends(w)
      BY <3>4, SendPendsKeeps
    <3>5. CASE SendIsDone(w)
      BY <3>5, SendIsDoneKeeps
    <3>6. CASE SendReturns(w)
      BY <3>6, SendReturnsKeeps
    <3>7. CASE WriteDrained(w) \/ BufferedDrained(w) \/ BufferedRefused(w) \/ WriteUnclaim(w)
      BY <3>7, EndingKeeps
    <3>8. CASE BufferedBind(w) \/ BufferedEnd(w)
      BY <3>8, BufferedMovesKeeps
    <3>9. CASE BufferedWait(w)
      BY <3>9, BufferedWaitKeeps
    <3> QED
      BY <2>3, <3>1, <3>2, <3>3, <3>4, <3>5, <3>6, <3>7, <3>8, <3>9 DEF WriterStep
  <2>4. ASSUME NEW d \in Dpcs, NEW p \in Packets, NdisCompletes(d, p) PROVE WriteInv'
    BY <2>4, NdisCompletesKeeps
  <2>5. ASSUME NEW x \in Contexts, CompletionStep(x) PROVE WriteInv'
    BY <2>5, CompleteCountKeeps, FreedKeeps, LastStepKeeps DEF CompletionStep
  <2>6. ASSUME UNCHANGED writeVars PROVE WriteInv'
    <3>1. /\ WriteInProgress' = WriteInProgress /\ writeComplete' = writeComplete
          /\ TransmitPendingPackets' = TransmitPendingPackets
          /\ Multiple_Write_Counter' = Multiple_Write_Counter
          /\ packet' = packet /\ writer' = writer /\ completion' = completion
      BY <2>6 DEF writeVars
    <3>2. StateTypeOK' /\ Exclusive' /\ Places' /\ Owned'
      BY <3>1 DEF WriteInv, StateTypeOK, Exclusive, Active, Places, Place, Sending, Owned
    <3>3. Completions' /\ WriteOnce'
      BY <3>1 DEF WriteInv, Completions, WriteOnce, Sole, Sending, Free, Signalling
    <3>4. PendingInv'
      BY <3>1 DEF WriteInv, PendingInv, WriteCounted, BufferedCounted, Discounting
    <3> QED
      BY <3>2, <3>3, <3>4 DEF WriteInv
  <2> QED
    BY <2>1, <2>2, <2>3, <2>4, <2>5, <2>6 DEF Next, UnbindStep, vars
<1> QED
  BY <1>1, <1>2, PTL DEF Spec

(* "all the packets have been transmitted" (Write.c:244-252): the user's   *)
(* buffer, which NPF_Write and NPF_BufferedWrite send without a copy, and  *)
(* the handle of the adapter outlive every packet made of them.            *)
THEOREM PacketsAreHeld ==
  ASSUME Repeats \subseteq {1}, ~WaitsExpire
  PROVE  Spec => []PacketsHeld
<1>1. WriteInv => PacketsHeld
  BY DEF WriteInv, Owned, PacketsHeld, Outstanding, Holding, Sending
<1>2. OneCopy
  BY DEF OneCopy
<1> QED
  BY <1>1, <1>2, WriteInvariance, PTL

(* The two counters of pending packets, which writers reset and increment  *)
(* (Write.c:163, 205, 336, 461) and NPF_SendComplete decrements with no    *)
(* lock (588, 601), never wrap and are never off by one.                   *)
THEOREM PendingCountsAreExact ==
  ASSUME Repeats \subseteq {1}, ~WaitsExpire
  PROVE  Spec => []PendingIsExact
<1>1. WriteInv => PendingIsExact
  <2>1. /\ Counted("write", {"recycle"}) = Cardinality(WriteCounted)
        /\ Counted("buffered", {}) = Cardinality(BufferedCounted)
    <3>1. BufferedCounted = {p \in Packets : /\ packet[p].kind = "buffered"
                                             /\ packet[p].at # "free"
                                             /\ \A x \in Contexts : completion[x].pkt = p
                                                   => completion[x].pc \notin {}}
      BY DEF BufferedCounted
    <3> QED
      BY <3>1 DEF Counted, WriteCounted
  <2> QED
    BY <2>1 DEF WriteInv, PendingInv, PendingIsExact, Discounting
<1>2. OneCopy
  BY DEF OneCopy
<1> QED
  BY <1>1, <1>2, WriteInvariance, PTL

-------------------------------------------------------------------------------
(* The handle of the adapter, whatever Nwrites is and however long NDIS    *)
(* takes: it is counted by the calls that use it.                          *)
Holders == {w \in Writers : Holding(w)}

HoldInv ==
  /\ writer \in [Writers -> [pc : WriterPcs, kind : {"none", "write", "buffered"}, todo : Int,
                             waits : Int, calls : Int]]
  /\ closer \in [Closers -> {"none", "unused", "settled", "close", "closed", "done"}]
  /\ AdapterHandleUsageCounter = Cardinality(Holders)
  /\ Holders # {} => AdapterBindingStatus = "bound"
  /\ \A t \in Closers : closer[t] \in {"settled", "close", "closed", "done"} =>
       AdapterBindingStatus # "bound"

LEMMA HolderKeeps ==
  ASSUME WriteAssumption, HoldInv, NEW w \in Writers,
         writer' \in [Writers -> [pc : WriterPcs, kind : {"none", "write", "buffered"}, todo : Int,
                                  waits : Int, calls : Int]],
         \A v \in Writers \ {w} : writer'[v] = writer[v],
         \/ (Holding(w)' <=> Holding(w)) /\ UNCHANGED bindingVars
         \/ ~Holding(w) /\ Holding(w)' /\ StartUsingBinding
         \/ Holding(w) /\ ~Holding(w)' /\ StopUsingBinding
  PROVE  HoldInv'
<1>1. IsFiniteSet(Holders)
  BY FS_Subset DEF Holders, WriteAssumption
<1>2. \A v \in Writers \ {w} : Holding(v)' <=> Holding(v)
  BY DEF Holding
<1>3. CASE (Holding(w)' <=> Holding(w)) /\ UNCHANGED bindingVars
  <2>1. Holders' = Holders
    BY <1>2, <1>3 DEF Holders
  <2> QED
    BY <1>3, <2>1 DEF HoldInv, bindingVars
<1>4. CASE ~Holding(w) /\ Holding(w)' /\ StartUsingBinding
  <2>1. Holders' = Holders \cup {w} /\ w \notin Holders
    BY <1>2, <1>4 DEF Holders
  <2>2. Cardinality(Holders)' = Cardinality(Holders) + 1
    BY <1>1, <2>1, FS_AddElement
  <2> QED
    BY <1>4, <2>2 DEF HoldInv, StartUsingBinding
<1>5. CASE Holding(w) /\ ~Holding(w)' /\ StopUsingBinding
  <2>1. Holders' = Holders \ {w} /\ w \in Holders
    BY <1>2, <1>5 DEF Holders
  <2>2. Cardinality(Holders)' = Cardinality(Holders) - 1
    BY <1>1, <2>1, FS_RemoveElement
  <2> QED
    BY <1>5, <2>1, <2>2 DEF HoldInv, StopUsingBinding
<1> QED
  BY <1>3, <1>4, <1>5

LEMMA WriterStepHolds ==
  ASSUME WriteAssumption, HoldInv, NEW w \in Writers,
         WriterStep(w) \/ (\E n \in Repeats : WriteStart(w, n))
           \/ \E n \in Bursts : BufferedStart(w, n)
  PROVE  HoldInv'
<1> DEFINE Rec == [pc : WriterPcs, kind : {"none", "write", "buffered"}, todo : Int,
                   waits : Int, calls : Int]
<1>1. writer \in [Writers -> Rec] /\ writer[w] \in Rec
  BY DEF HoldInv
<1>2. ASSUME NEW pc \in WriterPcs, Goto(w, pc)
      PROVE  /\ writer' \in [Writers -> Rec] /\ \A v \in Writers \ {w} : writer'[v] = writer[v]
             /\ writer'[w].pc = pc
  BY <1>1, <1>2 DEF Goto
<1>3. ASSUME NEW n \in Nat, NEW pc \in WriterPcs, NEW kind \in {"write", "buffered"},
             writer' = [writer EXCEPT ![w] = [pc |-> pc, kind |-> kind, todo |-> n, waits |-> 0,
                                              calls |-> writer[w].calls + 1]]
      PROVE  /\ writer' \in [Writers -> Rec] /\ \A v \in Writers \ {w} : writer'[v] = writer[v]
             /\ writer'[w].pc = pc
  BY <1>1, <1>3
<1>4. {"idle", "claim", "reset", "send", "arm", "ndis", "completing", "unclaim", "bind", "drain"}
        = WriterPcs
  BY DEF WriterPcs
<1>5. CASE \E n \in Repeats : WriteStart(w, n)
  <2>1. PICK n \in Repeats : WriteStart(w, n)
    BY <1>5
  <2>2. n \in Nat /\ writer[w].pc = "idle" /\ StartUsingBinding
    BY <2>1 DEF WriteStart, At, WriteAssumption
  <2>3. /\ writer' \in [Writers -> Rec] /\ \A v \in Writers \ {w} : writer'[v] = writer[v]
        /\ writer'[w].pc = "claim"
    BY <1>3, <1>4, <2>1, <2>2 DEF WriteStart
  <2>4. ~Holding(w) /\ Holding(w)'
    BY <2>2, <2>3 DEF Holding
  <2> QED
    BY <2>2, <2>3, <2>4, HolderKeeps
<1>6. CASE \E n \in Bursts : BufferedStart(w, n)
  <2>1. PICK n \in Bursts : BufferedStart(w, n)
    BY <1>6
  <2>2. n \in Nat /\ writer[w].pc = "idle" /\ UNCHANGED bindingVars
    BY <2>1 DEF BufferedStart, At, WriteAssumption
  <2>3. /\ writer' \in [Writers -> Rec] /\ \A v \in Writers \ {w} : writer'[v] = writer[v]
        /\ writer'[w].pc = "bind"
    BY <1>3, <1>4, <2>1, <2>2 DEF BufferedStart
  <2>4. ~Holding(w) /\ ~Holding(w)'
    BY <2>2, <2>3 DEF Holding
  <2> QED
    BY <2>2, <2>3, <2>4, HolderKeeps
<1>7. CASE WriteBusy(w) \/ WriteDrained(w) \/ BufferedDrained(w)
  <2> DEFINE pc == IF writer[w].pc = "claim" THEN "idle" ELSE "unclaim"
  <2>1. /\ writer[w].pc \in {"claim", "send", "drain"} /\ Goto(w, pc) /\ StopUsingBinding
    BY <1>7 DEF WriteBusy, WriteDrained, BufferedDrained, BufferedIsOver, At
  <2>2. pc \in WriterPcs /\ pc \in {"idle", "unclaim"}
    BY <1>4
  <2> HIDE DEF pc
  <2>3. /\ writer' \in [Writers -> Rec] /\ \A v \in Writers \ {w} : writer'[v] = writer[v]
        /\ writer'[w].pc = pc
    BY <1>2, <2>1, <2>2
  <2>4. Holding(w) /\ ~Holding(w)'
    BY <2>1, <2>2, <2>3 DEF Holding
  <2> QED
    BY <2>1, <2>3, <2>4, HolderKeeps
<1>8. CASE BufferedBind(w)
  <2>1. /\ writer[w].pc = "bind" /\ Goto(w, "send") /\ StartUsingBinding
    BY <1>8 DEF BufferedBind, At
  <2>2. /\ writer' \in [Writers -> Rec] /\ \A v \in Writers \ {w} : writer'[v] = writer[v]
        /\ writer'[w].pc = "send"
    BY <1>2, <1>4, <2>1
  <2>3. ~Holding(w) /\ Holding(w)'
    BY <2>1, <2>2 DEF Holding
  <2> QED
    BY <2>1, <2>2, <2>3, HolderKeeps
<1>9. CASE WriteClaim(w) \/ WriteReset(w) \/ WriteTake(w) \/ WriteArm(w) \/ SendIsDone(w)
             \/ WriteUnclaim(w) \/ BufferedRefused(w) \/ BufferedTake(w) \/ BufferedEnd(w)
  <2>1. \E pc \in WriterPcs : Goto(w, pc)
    BY <1>4, <1>9 DEF WriteClaim, WriteReset, WriteTake, WriteArm, SendIsDone, WriteUnclaim,
       BufferedRefused, BufferedTake, BufferedEnd
  <2>2. PICK pc \in WriterPcs : Goto(w, pc)
    BY <2>1
  <2>3. /\ writer' \in [Writers -> Rec] /\ \A v \in Writers \ {w} : writer'[v] = writer[v]
    BY <1>2, <2>2
  <2>4. UNCHANGED bindingVars
    BY <1>9 DEF WriteClaim, WriteReset, WriteTake, WriteArm, SendIsDone, WriteUnclaim,
       BufferedRefused, BufferedTake, BufferedEnd
  <2>5. Holding(w)' <=> Holding(w)
    <3>1. CASE WriteUnclaim(w) \/ BufferedRefused(w)
      <4>1. writer[w].pc \in {"unclaim", "bind"}
            /\ (Goto(w, "idle") \/ Goto(w, "unclaim"))
        BY <3>1 DEF WriteUnclaim, BufferedRefused, At
      <4>2. writer'[w].pc \in {"idle", "unclaim"}
        BY <1>2, <1>4, <4>1
      <4> QED
        BY <4>1, <4>2 DEF Holding
    <3>2. CASE WriteClaim(w) \/ WriteReset(w) \/ WriteTake(w) \/ WriteArm(w) \/ SendIsDone(w)
                 \/ BufferedTake(w) \/ BufferedEnd(w)
      <4>1. writer[w].pc \in {"claim", "reset", "send", "arm", "ndis"}
            /\ \E c \in {"reset", "send", "arm", "ndis", "completing", "drain"} : Goto(w, c)
        BY <3>2 DEF WriteClaim, WriteReset, WriteTake, WriteArm, SendIsDone, BufferedTake,
           BufferedEnd, At
      <4>2. writer'[w].pc \in {"reset", "send", "arm", "ndis", "completing", "drain"}
        BY <1>2, <1>4, <4>1
      <4> QED
        BY <4>1, <4>2 DEF Holding
    <3> QED
      BY <1>9, <3>1, <3>2
  <2> QED
    BY <2>3, <2>4, <2>5, HolderKeeps
<1>10. CASE SendPends(w) \/ SendReturns(w)
  <2>1. /\ writer[w].pc \in {"ndis", "completing"} /\ UNCHANGED bindingVars
        /\ writer' = [writer EXCEPT ![w].pc = "send", ![w].todo = @ - 1]
    BY <1>10 DEF SendPends, SendReturns, At
  <2>2. /\ writer' \in [Writers -> Rec] /\ \A v \in Writers \ {w} : writer'[v] = writer[v]
        /\ writer'[w].pc = "send"
    BY <1>1, <1>4, <2>1
  <2>3. Holding(w)' <=> Holding(w)
    BY <2>1, <2>2 DEF Holding
  <2> QED
    BY <2>1, <2>2, <2>3, HolderKeeps
<1>11. CASE BufferedWait(w)
  <2>1. /\ writer' = [writer EXCEPT ![w].waits = @ + 1] /\ UNCHANGED bindingVars
    BY <1>11 DEF BufferedWait
  <2>2. /\ writer' \in [Writers -> Rec] /\ \A v \in Writers \ {w} : writer'[v] = writer[v]
        /\ writer'[w].pc = writer[w].pc
    BY <1>1, <2>1
  <2>3. Holding(w)' <=> Holding(w)
    BY <2>2 DEF Holding
  <2> QED
    BY <2>1, <2>2, <2>3, HolderKeeps
<1> QED
  BY <1>5, <1>6, <1>7, <1>8, <1>9, <1>10, <1>11 DEF WriterStep

\* NPF_CloseBinding waits until nobody uses the handle
LEMMA CloserHolds ==
  ASSUME WriteAssumption, HoldInv, NEW t \in Closers, CloseBinding(t) \/ UnbindStep(t),
         writer' = writer
  PROVE  HoldInv'
<1>1. Holders' = Holders
  BY DEF Holders, Holding
<1>2. IsFiniteSet(Holders)
  BY FS_Subset DEF Holders, WriteAssumption
<1>3. CASE CloseBinding(t)
  BY <1>1, <1>3 DEF HoldInv, CloseBinding
<1>4. ASSUME Decide(t),
             \/ closer[t] = "settled" /\ AdapterBindingStatus # "unbinding"
             \/ AdapterHandleUsageCounter = 0
      PROVE  HoldInv'
  <2>1. closer[t] = "settled" => AdapterBindingStatus # "bound"
    BY DEF HoldInv
  <2>2. AdapterHandleUsageCounter = 0 => Holders = {}
    BY <1>2, FS_EmptySet DEF HoldInv
  <2>3. Holders = {}
    BY <1>4, <2>1, <2>2 DEF HoldInv
  <2>4. AdapterBindingStatus' # "bound" /\ AdapterHandleUsageCounter' = AdapterHandleUsageCounter
    BY <1>4 DEF Decide
  <2>5. closer' \in [Closers -> {"none", "unused", "settled", "close", "closed", "done"}]
    <3>1. \E at \in {"settled", "done", "close"} : closer' = [closer EXCEPT ![t] = at]
      BY <1>4, Zenon DEF Decide
    <3> QED
      BY <3>1 DEF HoldInv
  <2> QED
    BY <1>1, <2>3, <2>4, <2>5 DEF HoldInv
<1>5. CASE WaitUnused(t) \/ WaitSettled(t)
  BY <1>4, <1>5 DEF WaitUnused, WaitSettled
<1>6. CASE CloseAdapter(t) \/ Unbound(t)
  <2>1. AdapterBindingStatus # "bound"
    BY <1>6 DEF HoldInv, CloseAdapter, Unbound
  <2>2. Holders = {}
    BY <2>1 DEF HoldInv
  <2> QED
    BY <1>1, <1>6, <2>1, <2>2 DEF HoldInv, CloseAdapter, Unbound
<1> QED
  BY <1>3, <1>5, <1>6 DEF UnbindStep, CloseBindingStep

LEMMA HoldInvariance == Spec => []HoldInv
<1> USE WriteAssumption
<1>1. Init => HoldInv
  <2> SUFFICES ASSUME Init PROVE HoldInv
    OBVIOUS
  <2>1. writer \in [Writers -> [pc : WriterPcs, kind : {"none", "write", "buffered"}, todo : Int,
                                waits : Int, calls : Int]]
    BY DEF Init, IdleWriter, WriterPcs
  <2>2. \A w \in Writers : writer[w].pc = "idle"
    BY DEF Init, IdleWriter
  <2>3. Holders = {}
    BY <2>2 DEF Holders, Holding
  <2> QED
    BY <2>1, <2>3, FS_EmptySet DEF HoldInv, Init, BindingInit
<1>2. HoldInv /\ [Next]_vars => HoldInv'
  <2> SUFFICES ASSUME HoldInv, [Next]_vars PROVE HoldInv'
    OBVIOUS
  <2>1. ASSUME NEW w \in Writers,
               WriterStep(w) \/ (\E n \in Repeats : WriteStart(w, n))
                 \/ \E n \in Bursts : BufferedStart(w, n)
        PROVE  HoldInv'
    BY <2>1, WriterStepHolds
  <2>2. ASSUME UNCHANGED <<bindingVars, writer>> PROVE HoldInv'
    BY <2>2 DEF HoldInv, Holders, Holding, bindingVars
  <2>3. ASSUME NEW d \in Dpcs, NEW p \in Packets, NdisCompletes(d, p) PROVE HoldInv'
    BY <2>2, <2>3 DEF NdisCompletes
  <2>4. ASSUME NEW x \in Contexts, CompletionStep(x) PROVE HoldInv'
    BY <2>2, <2>4 DEF CompletionStep, CompleteCount, CompleteRecycle, CompleteSignal,
       CompleteFree, CompleteDiscount
  <2>5. ASSUME NEW t \in Closers, (CloseBinding(t) /\ UNCHANGED writeVars) \/ UnbindStep(t)
        PROVE  HoldInv'
    BY <2>5, CloserHolds DEF UnbindStep, writeVars
  <2>6. CASE UNCHANGED vars
    BY <2>2, <2>6 DEF vars, writeVars
  <2> QED
    BY <2>1, <2>3, <2>4, <2>5, <2>6 DEF Next
<1> QED
  BY <1>1, <1>2, PTL DEF Spec

(* NPF_StartUsingBinding and NPF_StopUsingBinding (Openclos.c:77-117)      *)
(* enclose every use NPF_Write and BIOCSENDPACKETS* make of the handle.    *)
THEOREM AdapterIsOpenWhileWriting == Spec => []NoUseOfClosedAdapter
<1>1. HoldInv => NoUseOfClosedAdapter
  BY DEF HoldInv, Holders, NoUseOfClosedAdapter
<1> QED
  BY <1>1, HoldInvariance, PTL
===============================================================================
