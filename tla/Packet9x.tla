------------------------------ MODULE Packet9x ------------------------------
(***************************************************************************)
(* The driver of Windows 95 and 98 (NPF.VXD) with the calls that its       *)
(* Packet.dll makes.  The machine has one processor: a call of a driver    *)
(* leaves it only where it waits, but frames (Packet_tap) and timeouts     *)
(* (ReadTimeout) come between any two of its steps, and run to their end.  *)
(* Transfers of NDIS complete at once: the driver frees the packet of a    *)
(* transfer without a look at its status.                                  *)
(***************************************************************************)
EXTENDS Integers, Sequences, FiniteSets

CONSTANTS
  Programs,          \* applications, each with one handle of the VxD
  VxFrames,          \* lengths of frames
  VxRings,           \* arguments of PacketSetBuff
  VxHdr,             \* bytes of a bpf_hdr
  VxAlign,           \* Packet_WORDALIGN
  TRANSMIT_PACKETS,  \* packets and buffers of an instance
  MAX_REQUESTS       \* request blocks of an instance

ASSUME ProgramsAssumption == IsFiniteSet(Programs)

VARIABLES
  vxd,      \* the driver: its device extension, Instances, OpenList, handles of CreateFile
  open9x,   \* the OPEN_INSTANCE of each program
  app,      \* what each program executes
  timers,   \* timeouts that VMM holds
  past,     \* packets stored for a program and packets it has read
  exits9x,  \* ways out of the ordinary that have happened
  left9x    \* frames, refusals of NDIS and removals of adapters still to come

vx9xVars == <<vxd, open9x, app, timers, past, exits9x, left9x>>

WordAlign(n) == ((n + VxAlign - 1) \div VxAlign) * VxAlign

NoInstance ==
  [life |-> "none", size |-> 0, head |-> 0, tail |-> 0, last |-> 0, mem |-> << >>,
   program |-> "NULL", mode |-> "capt", timeout |-> "zero", timer |-> 0, rcv |-> << >>,
   event |-> FALSE, pool |-> TRANSMIT_PACKETS, sending |-> 0,
   requests |-> MAX_REQUESTS, resets |-> 0,
   received |-> 0, dropped |-> 0, npackets |-> 0]

(* PacketOpen.                                                             *)
Opened9x == [NoInstance EXCEPT !.life = "open"]

Call(do, arg) == [do |-> do, arg |-> arg]
Op(name, from, to) == [op |-> name, from |-> from, to |-> to]

AppAt(at, calls) == [at |-> at, calls |-> calls, ioctls |-> << >>, plan |-> << >>, reads |-> 0]

VxInit ==
  /\ vxd = [extension |-> "none", instances |-> 0, list |-> << >>, files |-> {}]
  /\ open9x = [p \in Programs |-> NoInstance]
  /\ timers = {} /\ exits9x = {}
  /\ past = [p \in Programs |-> [stored |-> << >>, read |-> << >>, answered |-> 0]]

(* The code of a driver is not left for another program's.                 *)
InDriver == {"plan", "queue", "arm"}
Runs(p) == \A q \in Programs \ {p} : app[q].at \notin InDriver

Exit9x(what) == exits9x' = exits9x \cup {what}

(* Those after which head, tail and last byte say nothing of the packets.  *)
RingExits == {"looksEmpty", "laps", "staleLast", "outsideBuffer"}

-----------------------------------------------------------------------------
(* packet.dll: the requests that a call sends to the driver.               *)

OpenRequests(name) == <<Call("open", name), Call("timezone", 0), Call("evname", 0)>>
MaxLookaheadRequests == <<Call("oid", "query"), Call("oid", "set")>>
NetTypeRequests == <<Call("oid", "first"), Call("oid", "query")>>
HwFilterRequests == <<Call("oid", "set")>>

(* One adapter in one of the two passes of PacketGetAdapterNames.          *)
NamesRequests(name) ==
  OpenRequests(name) \o MaxLookaheadRequests \o <<Call("oid", "query"), Call("close", 0)>>

VxRequests(call) ==
  CASE call.do = "open" -> OpenRequests(call.arg) \o MaxLookaheadRequests
    [] call.do = "nettype" -> NetTypeRequests
    [] call.do = "hwfilter" -> HwFilterRequests
    [] call.do = "names" -> NamesRequests(call.arg)
    [] OTHER -> <<call>>

Openers9x == {"open", "names"}

(* A handle of the VxD: the first one loads it.                            *)
CreateFile(p) ==
  /\ app[p].at = "main" /\ app[p].calls # << >> /\ Head(app[p].calls).do \in Openers9x
  /\ p \notin vxd.files /\ Runs(p)
  /\ vxd' = [vxd EXCEPT !.files = @ \cup {p},
                        !.extension = IF vxd.files = {} THEN "ready" ELSE @]
  /\ UNCHANGED <<open9x, app, timers, past, exits9x, left9x>>

(* A program that has an adapter open closes it before it opens another.   *)
EnterCall(p) ==
  /\ app[p].at = "main" /\ app[p].calls # << >> /\ p \in vxd.files
  /\ Head(app[p].calls).do \in Openers9x => open9x[p].life = "none"
  /\ app' = [app EXCEPT ![p] = [@ EXCEPT !.at = "ioctl", !.calls = Tail(app[p].calls),
                                         !.ioctls = VxRequests(Head(app[p].calls))]]
  /\ UNCHANGED <<vxd, open9x, timers, past, exits9x, left9x>>

Calls9x(p, do) == app[p].at = "ioctl" /\ app[p].ioctls # << >> /\ Head(app[p].ioctls).do = do /\ Runs(p)
Arg9x(p) == Head(app[p].ioctls).arg

(* The request succeeds: the next one, or the call is over.  It fails:     *)
(* the call is over.                                                       *)
Succeeds(a) ==
  [a EXCEPT !.ioctls = Tail(@), !.plan = << >>, !.at = IF Len(a.ioctls) = 1 THEN "main" ELSE "ioctl"]
Fails(a) == [a EXCEPT !.ioctls = << >>, !.plan = << >>, !.at = "main"]

(* CloseHandle: with the last handle goes the VxD.                         *)
WithoutFile(v, p) ==
  [v EXCEPT !.files = @ \ {p},
            !.extension = IF v.files = {p} THEN "none" ELSE @,
            !.instances = IF v.files = {p} THEN 0 ELSE @]

(* GetRunningAdapter finds no instance of this handle.                     *)
NoInstanceHere(p) ==
  /\ app[p].at = "ioctl" /\ app[p].ioctls # << >> /\ Head(app[p].ioctls).do # "open"
  /\ Runs(p) /\ open9x[p].life = "none"
  /\ app' = [app EXCEPT ![p] = Fails(@)]
  /\ vxd' = IF Head(app[p].ioctls).do = "close" THEN WithoutFile(vxd, p) ELSE vxd
  /\ UNCHANGED <<open9x, timers, past, exits9x, left9x>>

-----------------------------------------------------------------------------
(* IOCTL_OPEN.  Instances counts the call, not its success.                *)

Counted == [vxd EXCEPT !.instances = @ + 1]

OpenUnknown(p) ==
  /\ Calls9x(p, "open") /\ Arg9x(p) = "unknown" /\ vxd.extension = "ready"
  /\ vxd' = Counted
  /\ app' = [app EXCEPT ![p] = Fails(@)]
  /\ UNCHANGED <<open9x, timers, past, exits9x, left9x>>

(* The other program has taken the device extension with it.               *)
OpenWithoutExtension(p) ==
  /\ Calls9x(p, "open") /\ vxd.extension = "freed"
  /\ Exit9x("extensionGone")
  /\ app' = [app EXCEPT ![p].at = "lost"]
  /\ UNCHANGED <<vxd, open9x, timers, past, left9x>>

OpenAtOnce(p) ==
  /\ Calls9x(p, "open") /\ Arg9x(p) = "card" /\ vxd.extension = "ready"
  /\ vxd' = [Counted EXCEPT !.list = <<p>> \o @]
  /\ open9x' = [open9x EXCEPT ![p] = Opened9x]
  /\ app' = [app EXCEPT ![p] = Succeeds(@)]
  /\ UNCHANGED <<timers, past, exits9x, left9x>>

OpenRefused(p) ==
  /\ Calls9x(p, "open") /\ Arg9x(p) = "card" /\ vxd.extension = "ready" /\ left9x.refusals > 0
  /\ left9x' = [left9x EXCEPT !.refusals = @ - 1]
  /\ vxd' = Counted
  /\ app' = [app EXCEPT ![p] = Fails(@)]
  /\ UNCHANGED <<open9x, timers, past, exits9x>>

OpenLater(p) ==
  /\ Calls9x(p, "open") /\ Arg9x(p) = "card" /\ vxd.extension = "ready"
  /\ vxd' = Counted
  /\ open9x' = [open9x EXCEPT ![p] = [NoInstance EXCEPT !.life = "opening"]]
  /\ app' = [app EXCEPT ![p].at = "opening"]
  /\ UNCHANGED <<timers, past, exits9x, left9x>>

PacketOpenAdapterComplete(p) ==
  /\ open9x[p].life = "opening"
  /\ vxd' = [vxd EXCEPT !.list = <<p>> \o @]
  /\ open9x' = [open9x EXCEPT ![p] = Opened9x]
  /\ app' = [app EXCEPT ![p] = Succeeds(@)]
  /\ UNCHANGED <<timers, past, exits9x, left9x>>

(* It returns before it has written the status: PacketOpen waits for ever. *)
OpenAdapterFails(p) ==
  /\ open9x[p].life = "opening" /\ left9x.refusals > 0
  /\ left9x' = [left9x EXCEPT !.refusals = @ - 1]
  /\ open9x' = [open9x EXCEPT ![p] = NoInstance]
  /\ app' = [app EXCEPT ![p].at = "lost"]
  /\ Exit9x("openNeverEnds")
  /\ UNCHANGED <<vxd, timers, past>>

-----------------------------------------------------------------------------
(* Requests made of several steps between which frames may come.           *)

SetBpfPlan == <<Op("filter", "NULL", 0), Op("filter", "some", 0), Op("head", 0, 0), Op("tail", 0, 0),
                Op("last", 0, 0), Op("counters", 0, 0)>>
InvalidBpfPlan == <<Op("filter", "NULL", 0)>>
SetBuffPlan(dim) == <<Op("buffer", 0, 0), Op("buffer", dim, 0), Op("head", 0, 0), Op("tail", 0, 0),
                      Op("last", 0, 0), Op("size", dim, 0)>>
NoMemoryPlan == <<Op("buffer", 0, 0), Op("size", 0, 0)>>
ClosePlan == <<Op("size", 0, 0), Op("cancel", 0, 0), Op("ndisclose", 0, 0)>>

Plans(p) == [app EXCEPT ![p].at = "plan"]

PacketSetBpf9x(p) ==
  /\ Calls9x(p, "setbpf") /\ open9x[p].life = "open"
  /\ \E plan \in {SetBpfPlan, InvalidBpfPlan} : app' = [Plans(p) EXCEPT ![p].plan = plan]
  /\ UNCHANGED <<vxd, open9x, timers, past, exits9x, left9x>>

PacketSetBuff9x(p) ==
  /\ Calls9x(p, "setbuff") /\ open9x[p].life = "open"
  /\ \/ app' = [Plans(p) EXCEPT ![p].plan = SetBuffPlan(Arg9x(p))] /\ UNCHANGED left9x
     \/ /\ left9x.refusals > 0
        /\ left9x' = [left9x EXCEPT !.refusals = @ - 1]
        /\ app' = [Plans(p) EXCEPT ![p].plan = NoMemoryPlan]
  /\ UNCHANGED <<vxd, open9x, timers, past, exits9x>>

PacketClose(p) ==
  /\ Calls9x(p, "close") /\ open9x[p].life = "open"
  /\ app' = [Plans(p) EXCEPT ![p].plan = ClosePlan]
  /\ UNCHANGED <<vxd, open9x, timers, past, exits9x, left9x>>

-----------------------------------------------------------------------------
(* PacketRead.  Cells of the ring are bytes of packets; a read delivers    *)
(* the packets whose header it copies, whole if their bytes follow.        *)

Cell(id, k, len) == [id |-> id, k |-> k, len |-> len]
NoCell == Cell(0, 1, 0)

Copied(mem, from, to) ==
  LET cells == SubSeq(mem, from + 1, to)
      starts == {j \in DOMAIN cells : cells[j].k = 0}
      whole(j) == /\ j + VxHdr + cells[j].len - 1 <= Len(cells)
                  /\ \A k \in 0..(VxHdr + cells[j].len - 1) : cells[j + k].id = cells[j].id /\ cells[j + k].k = k
      nth(n) == CHOOSE j \in starts : Cardinality({i \in starts : i <= j}) = n
  IN [n \in 1..Cardinality(starts) |-> IF whole(nth(n)) THEN cells[nth(n)].id ELSE 0]

Snapshot(p) == [head |-> open9x[p].head, tail |-> open9x[p].tail, last |-> open9x[p].last]

(* Packet by packet, as long as they fit: where the walk ends, and what    *)
(* has to be copied on the way.                                            *)
Walk(mem, at, len) ==
  LET Start == [at |-> at.head, from |-> at.head, bytes |-> 0, ops |-> << >>, over |-> FALSE]
      Wrapped(w) == IF w.at # at.last THEN w
                    ELSE [w EXCEPT !.at = 0, !.from = 0,
                                   !.ops = @ \o <<Op("move", w.from, w.at), Op("head", 0, 1)>>]
      Taken(w) == LET need == mem[w.at + 1].len + VxHdr
                  IN IF w.bytes + need > len \/ mem[w.at + 1].k # 0 THEN [w EXCEPT !.over = TRUE]
                     ELSE [w EXCEPT !.at = @ + WordAlign(need), !.bytes = @ + WordAlign(need)]
      step[n \in 0..(Len(mem) + 1)] ==
        IF n = 0 THEN Start
        ELSE LET w == step[n - 1]
             IN IF w.over THEN w
                ELSE IF w.at = at.tail THEN [w EXCEPT !.over = TRUE] ELSE Taken(Wrapped(w))
      w == step[Len(mem) + 1]
  IN w.ops \o <<Op("move", w.from, w.at)>>

ToTail(at) == <<Op("move", at.head, at.tail), Op("event", 0, 0)>>
ToEnd(at) == <<Op("move", at.head, at.last), Op("last", at.tail, 1), Op("head", 0, 1)>>

ReadPlan(mem, at, len) ==
  IF at.tail > at.head /\ at.tail - at.head < len THEN ToTail(at)
  ELSE IF at.tail <= at.head /\ at.last >= at.head /\ at.last - at.head < len THEN ToEnd(at)
  ELSE Walk(mem, at, len)

(* Once its positions have gone wrong, the ring is not followed.           *)
ReadSome(p) ==
  /\ Calls9x(p, "read") /\ open9x[p].life = "open" /\ open9x[p].head # open9x[p].tail
  /\ exits9x \cap RingExits = {}
  /\ app' = [Plans(p) EXCEPT ![p].plan = ReadPlan(open9x[p].mem, Snapshot(p), Arg9x(p))]
  /\ UNCHANGED <<vxd, open9x, timers, past, exits9x, left9x>>

ReadNothing(p) ==
  /\ Calls9x(p, "read") /\ open9x[p].life = "open"
  /\ open9x[p].head = open9x[p].tail /\ open9x[p].timeout = "immediate"
  /\ app' = [app EXCEPT ![p] = Succeeds(@)]
  /\ UNCHANGED <<vxd, open9x, timers, past, exits9x, left9x>>

ReadWillWait(p) ==
  /\ Calls9x(p, "read") /\ open9x[p].life = "open"
  /\ open9x[p].head = open9x[p].tail /\ open9x[p].timeout # "immediate"
  /\ app' = [app EXCEPT ![p].at = "queue"]
  /\ UNCHANGED <<vxd, open9x, timers, past, exits9x, left9x>>

(* The read is queued; without a packet for it, it is pending all the same.*)
ReadQueue(p) ==
  /\ app[p].at = "queue" /\ open9x[p].pool > 0
  /\ open9x' = [open9x EXCEPT ![p].rcv = Append(@, Arg9x(p)), ![p].pool = @ - 1]
  /\ app' = [app EXCEPT ![p].at = "arm", ![p].reads = @ + 1]
  /\ UNCHANGED <<vxd, timers, past, exits9x, left9x>>

ReadForgotten(p) ==
  /\ app[p].at = "queue" /\ open9x[p].pool = 0
  /\ app' = [app EXCEPT ![p] = [Succeeds(@) EXCEPT !.reads = app[p].reads + 1]]
  /\ Exit9x("readForgotten")
  /\ UNCHANGED <<vxd, open9x, timers, past, left9x>>

NewTimer(p) == [of |-> p, nr |-> app[p].reads]

(* As ReadArm, with one timeout for all the reads that wait.               *)
ReadArmOnce(p) ==
  /\ app[p].at = "arm"
  /\ timers' = IF open9x[p].timer = 0 THEN timers \cup {NewTimer(p)} ELSE timers
  /\ open9x' = [open9x EXCEPT ![p].timer = IF @ = 0 THEN app[p].reads ELSE @]
  /\ app' = [app EXCEPT ![p] = Succeeds(@)]
  /\ UNCHANGED <<vxd, past, exits9x, left9x>>

ReadArm(p) ==
  /\ app[p].at = "arm"
  /\ timers' = timers \cup {NewTimer(p)}
  /\ open9x' = [open9x EXCEPT ![p].timer = app[p].reads]
  /\ app' = [app EXCEPT ![p] = Succeeds(@)]
  /\ UNCHANGED <<vxd, past, exits9x, left9x>>

(* PacketWaitPacket, or a Sync argument: until every read is answered.     *)
WaitRead(p) ==
  /\ Calls9x(p, "wait") /\ open9x[p].life = "open" /\ past[p].answered = app[p].reads
  /\ app' = [app EXCEPT ![p] = Succeeds(@)]
  /\ UNCHANGED <<vxd, open9x, timers, past, exits9x, left9x>>

-----------------------------------------------------------------------------
(* One step of a request.                                                  *)

OpDone(o, op) ==
  CASE op.op = "filter" -> [o EXCEPT !.program = op.from]
    [] op.op = "head" -> [o EXCEPT !.head = 0]
    [] op.op = "tail" -> [o EXCEPT !.tail = 0]
    [] op.op = "last" -> [o EXCEPT !.last = op.from]
    [] op.op = "counters" -> [o EXCEPT !.received = 0, !.dropped = 0]
    [] op.op = "buffer" -> [o EXCEPT !.mem = [k \in 1..op.from |-> NoCell]]
    [] op.op = "size" -> [o EXCEPT !.size = op.from]
    [] op.op = "move" -> [o EXCEPT !.head = @ + op.to - op.from]
    [] op.op = "event" -> [o EXCEPT !.event = FALSE]
    [] op.op = "cancel" -> [o EXCEPT !.timer = 0]
    [] OTHER -> o

(* A frame has come while the reader thought it knew the tail; PacketClose *)
(* cancels the timeout of reads that it leaves in RcvList.                 *)
OpExits(o, op) ==
  (IF op.op = "last" /\ o.tail # op.from THEN {"staleLast"} ELSE {})
  \cup (IF op.op = "event" /\ o.head # o.tail THEN {"signalErased"} ELSE {})
  \cup (IF op.op = "cancel" /\ o.rcv # << >> THEN {"readsLost"} ELSE {})

PlanStep(p) ==
  /\ app[p].at = "plan" /\ Head(app[p].plan).op # "ndisclose"
  /\ LET o == open9x[p]
         op == Head(app[p].plan)
     IN /\ open9x' = [open9x EXCEPT ![p] = OpDone(o, op)]
        /\ exits9x' = exits9x \cup OpExits(o, op)
        /\ past' = [past EXCEPT ![p].read = IF op.op = "move" THEN @ \o Copied(o.mem, op.from, op.to) ELSE @,
                               ![p].stored = IF op.op = "tail" THEN past[p].read ELSE @]
        /\ timers' = IF op.op = "cancel" THEN timers \ {[of |-> p, nr |-> o.timer]} ELSE timers
  /\ app' = [app EXCEPT ![p] = IF Len(@.plan) = 1 THEN Succeeds(@)
                                ELSE [@ EXCEPT !.plan = Tail(app[p].plan)]]
  /\ UNCHANGED <<vxd, left9x>>

(* The end of DIOC_CLOSEHANDLE.  With the last instance goes the device    *)
(* extension.  PacketClose does not wait for NdisCloseAdapter: the status  *)
(* it looks at is the one of the open.                                     *)
RemoveEntryList(q, p) ==
  LET i == CHOOSE k \in DOMAIN q : q[k] = p IN SubSeq(q, 1, i - 1) \o SubSeq(q, i + 1, Len(q))

InstanceGone(p) ==
  LET left == [vxd EXCEPT !.instances = @ - 1, !.list = RemoveEntryList(@, p)]
  IN IF left.instances > 0 THEN left ELSE [left EXCEPT !.extension = "freed", !.list = << >>]

CloseEnds(p) ==
  /\ app[p].at = "plan" /\ Head(app[p].plan).op = "ndisclose"
  /\ vxd' = WithoutFile(InstanceGone(p), p)
  /\ open9x' = [open9x EXCEPT ![p] = NoInstance]
  /\ \E later \in IF left9x.refusals > 0 THEN {{}, {"closeLater"}} ELSE {{}} :
       /\ left9x' = [left9x EXCEPT !.refusals = IF later = {} THEN @ ELSE @ - 1]
       /\ exits9x' = exits9x \cup later
                      \cup (IF \E t \in timers : t.of = p THEN {"timerLeft"} ELSE {})
  /\ app' = [app EXCEPT ![p] = Succeeds(@)]
  /\ UNCHANGED <<timers, past>>

-----------------------------------------------------------------------------
(* Packet_tap.                                                             *)

FilterResults9x(o, len) == IF o.program = "some" THEN {0, 1, len} ELSE {len}

(* PacketTransferDataComplete for the first read that waits; its timeout   *)
(* is the last one set.                                                    *)
AnsweredBy(o) == [o EXCEPT !.rcv = Tail(@), !.pool = @ + 1, !.timer = 0]

TapAnswers(p, id) ==
  /\ open9x' = [open9x EXCEPT ![p] = [AnsweredBy(@) EXCEPT !.received = open9x[p].received + 1]]
  /\ timers' = timers \ {[of |-> p, nr |-> open9x[p].timer]}
  /\ past' = [past EXCEPT ![p].stored = Append(@, id), ![p].read = Append(@, id), ![p].answered = @ + 1]
  /\ exits9x' = exits9x \cup (IF open9x[p].head # open9x[p].tail THEN {"overtakes"} ELSE {})

WrapsAt(o, need) == o.tail + need >= o.size
TailFor(o, need) == IF WrapsAt(o, need) THEN 0 ELSE o.tail
(* As NoRoom, with room up to the head.                                    *)
NoRoomButHead(o, need) ==
  \/ WrapsAt(o, need) /\ o.head <= need
  \/ TailFor(o, need) < o.head /\ TailFor(o, need) + need > o.head + VxHdr

NoRoom(o, need) ==
  \/ WrapsAt(o, need) /\ o.head <= need
  \/ TailFor(o, need) < o.head /\ TailFor(o, need) + need >= o.head

Drops(o, need) == NoRoom(o, need) \/ o.pool = 0

Filled(mem, at, id, len) ==
  [j \in DOMAIN mem |-> IF j - 1 \in at..(at + VxHdr + len - 1) THEN Cell(id, j - 1 - at, len) ELSE mem[j]]

(* What can go wrong when a packet is stored: the aligned tail meets the   *)
(* head, the tail wraps while it is behind the head, or the buffer is not  *)
(* the one that BufSize is about.                                          *)
StoreExits(o, need, tail) ==
  (IF tail = o.head THEN {"looksEmpty"} ELSE {})
  \cup (IF WrapsAt(o, need) /\ o.tail < o.head THEN {"laps"} ELSE {})
  \cup (IF TailFor(o, need) + need > Len(o.mem) THEN {"outsideBuffer"} ELSE {})

TapStores(p, id, len) ==
  LET o == open9x[p]
      tail == TailFor(o, len + VxHdr) + WordAlign(len + VxHdr)
  IN /\ open9x' = [open9x EXCEPT ![p] =
                     [o EXCEPT !.mem = Filled(@, TailFor(o, len + VxHdr), id, len), !.tail = tail,
                               !.last = IF tail > o.head THEN tail ELSE @,
                               !.event = TRUE, !.received = @ + 1]]
     /\ past' = [past EXCEPT ![p].stored = Append(@, id)]
     /\ exits9x' = exits9x \cup StoreExits(o, len + VxHdr, tail)

(* A frame the filter rejects, one for the statistics, one for a read that *)
(* waits, one with no buffer, one with no room, one to be stored.          *)
Packet_tap(p) ==
  /\ open9x[p].life = "open" /\ left9x.frames > 0 /\ exits9x \cap RingExits = {}
  /\ left9x' = [left9x EXCEPT !.frames = @ - 1]
  /\ \E size \in VxFrames : \E len \in FilterResults9x(open9x[p], size) :
       LET o == open9x[p]
           Only(oo) == open9x' = [open9x EXCEPT ![p] = oo] /\ UNCHANGED <<timers, past, exits9x>>
       IN \/ len = 0 /\ Only([o EXCEPT !.received = @ + 1])
          \/ /\ len > 0 /\ o.mode = "stat"
             /\ Only([o EXCEPT !.received = @ + 1, !.npackets = @ + 1])
          \/ len > 0 /\ o.mode = "capt" /\ o.rcv # << >> /\ TapAnswers(p, left9x.frames)
          \/ /\ len > 0 /\ o.mode = "capt" /\ o.rcv = << >> /\ o.size = 0
             /\ Only([o EXCEPT !.received = @ + 1])
          \/ /\ len > 0 /\ o.mode = "capt" /\ o.rcv = << >> /\ o.size > 0
             /\ IF Drops(o, len + VxHdr) THEN Only([o EXCEPT !.received = @ + 1, !.dropped = @ + 1])
                ELSE TapStores(p, left9x.frames, len) /\ UNCHANGED timers
  /\ UNCHANGED <<vxd, app>>

-----------------------------------------------------------------------------
(* ReadTimeout: the first read that waits is answered, whoever's timeout   *)
(* this is; with the counters in statistics mode.                          *)

ReadTimeout(t) ==
  /\ timers' = timers \ {t}
  /\ LET o == open9x[t.of]
     IN IF o.life = "open"
        THEN /\ open9x' = [open9x EXCEPT ![t.of] =
                            IF o.rcv = << >> THEN [o EXCEPT !.timer = 0]
                            ELSE [AnsweredBy(o) EXCEPT !.npackets = IF o.mode = "stat" THEN 0 ELSE @]]
             /\ past' = [past EXCEPT ![t.of].answered = IF o.rcv = << >> THEN @ ELSE @ + 1]
             /\ UNCHANGED exits9x
        ELSE Exit9x("timerLate") /\ UNCHANGED <<open9x, past>>
  /\ UNCHANGED <<vxd, app, left9x>>

-----------------------------------------------------------------------------
(* Requests of one step.                                                   *)

Quick == {"timezone", "evname", "timeout", "statmode", "captmode", "getstats"}

QuickDone(o, do, arg) ==
  CASE do = "timeout" -> [o EXCEPT !.timeout = arg]
    [] do = "evname" -> [o EXCEPT !.event = FALSE]
    [] do = "statmode" -> [o EXCEPT !.mode = "stat", !.npackets = 0,
                                    !.timeout = IF @ = "zero" THEN "finite" ELSE @]
    [] do = "captmode" -> [o EXCEPT !.mode = "capt"]
    [] OTHER -> o

QuickCall(p) ==
  /\ \E do \in Quick :
       /\ Calls9x(p, do) /\ open9x[p].life = "open"
       /\ open9x' = [open9x EXCEPT ![p] = QuickDone(@, do, Arg9x(p))]
  /\ app' = [app EXCEPT ![p] = Succeeds(@)]
  /\ UNCHANGED <<vxd, timers, past, exits9x, left9x>>

(* PacketWrite returns pending, or 0 if there is no packet for it.         *)
PacketWrite(p) ==
  /\ Calls9x(p, "write") /\ open9x[p].life = "open"
  /\ \/ open9x[p].pool > 0 /\ open9x' = [open9x EXCEPT ![p].pool = @ - 1, ![p].sending = @ + 1]
     \/ open9x[p].pool = 0 /\ UNCHANGED open9x
  /\ app' = [app EXCEPT ![p] = Succeeds(@)]
  /\ UNCHANGED <<vxd, timers, past, exits9x, left9x>>

PacketSendComplete(p) ==
  /\ open9x[p].sending > 0
  /\ open9x' = [open9x EXCEPT ![p].pool = @ + 1, ![p].sending = @ - 1]
  /\ UNCHANGED <<vxd, app, timers, past, exits9x, left9x>>

(* PacketReset moves a request block to ResetIrpList.                      *)
PacketReset(p) ==
  /\ Calls9x(p, "reset") /\ open9x[p].life = "open"
  /\ \/ open9x[p].requests > 0 /\ open9x' = [open9x EXCEPT ![p].requests = @ - 1, ![p].resets = @ + 1]
     \/ open9x[p].requests = 0 /\ UNCHANGED open9x
  /\ app' = [app EXCEPT ![p] = Succeeds(@)]
  /\ UNCHANGED <<vxd, timers, past, exits9x, left9x>>

PacketResetComplete(p) ==
  /\ open9x[p].resets > 0
  /\ open9x' = [open9x EXCEPT ![p].requests = @ + 1, ![p].resets = @ - 1]
  /\ UNCHANGED <<vxd, app, timers, past, exits9x, left9x>>

(* PacketRequest of the DLL waits for the driver's; only PacketGetNetType  *)
(* looks at the result before it asks again.                               *)
AfterOid(p, ok) == IF ok \/ Arg9x(p) # "first" THEN Succeeds(app[p]) ELSE Fails(app[p])

PacketRequest9x(p) ==
  /\ Calls9x(p, "oid") /\ open9x[p].life = "open" /\ open9x[p].requests > 0
  /\ open9x' = [open9x EXCEPT ![p].requests = @ - 1]
  /\ app' = [app EXCEPT ![p].at = "asking"]
  /\ UNCHANGED <<vxd, timers, past, exits9x, left9x>>

NoRequestBlock(p) ==
  /\ Calls9x(p, "oid") /\ open9x[p].life = "open" /\ open9x[p].requests = 0
  /\ app' = [app EXCEPT ![p] = AfterOid(p, FALSE)]
  /\ UNCHANGED <<vxd, open9x, timers, past, exits9x, left9x>>

PacketRequestComplete(p) ==
  /\ app[p].at = "asking"
  /\ open9x' = [open9x EXCEPT ![p].requests = @ + 1]
  /\ \E ok \in BOOLEAN : app' = [app EXCEPT ![p] = AfterOid(p, ok)]
  /\ UNCHANGED <<vxd, timers, past, exits9x, left9x>>

-----------------------------------------------------------------------------
(* NDIS removes the adapter: the reads are answered, the instance is freed *)
(* and stays in OpenList.  Its program is not followed any further.        *)

PacketUnbindAdapter(p) ==
  /\ open9x[p].life = "open" /\ left9x.removals > 0 /\ \A q \in Programs : app[q].at \notin InDriver
  /\ left9x' = [left9x EXCEPT !.removals = @ - 1]
  /\ past' = [past EXCEPT ![p].answered = @ + Len(open9x[p].rcv)]
  /\ open9x' = [open9x EXCEPT ![p] = [NoInstance EXCEPT !.life = "freed"]]
  /\ app' = [app EXCEPT ![p].at = "lost"]
  /\ Exit9x("unboundListed")
  /\ UNCHANGED <<vxd, timers>>

-----------------------------------------------------------------------------

VxCallNext(p) ==
  \/ CreateFile(p) \/ EnterCall(p) \/ NoInstanceHere(p) \/ QuickCall(p)
  \/ OpenUnknown(p) \/ OpenWithoutExtension(p) \/ OpenAtOnce(p) \/ OpenRefused(p) \/ OpenLater(p)
  \/ PacketSetBpf9x(p) \/ PacketSetBuff9x(p) \/ PacketClose(p) \/ PlanStep(p) \/ CloseEnds(p)
  \/ ReadSome(p) \/ ReadNothing(p) \/ ReadWillWait(p) \/ ReadQueue(p) \/ ReadForgotten(p)
  \/ ReadArm(p) \/ WaitRead(p)
  \/ PacketWrite(p) \/ PacketReset(p) \/ PacketRequest9x(p) \/ NoRequestBlock(p)

VxNdisNext(p) ==
  \/ PacketOpenAdapterComplete(p) \/ OpenAdapterFails(p) \/ Packet_tap(p) \/ PacketUnbindAdapter(p)
  \/ PacketSendComplete(p) \/ PacketResetComplete(p) \/ PacketRequestComplete(p)

VxNext ==
  \/ \E p \in Programs : VxCallNext(p) \/ VxNdisNext(p)
  \/ \E t \in timers : ReadTimeout(t)

(* Programs may make any calls, and requests have no others.               *)
VxCallNames == Quick \cup Openers9x \cup
  {"close", "setbuff", "setbpf", "read", "wait", "write", "reset", "oid", "nettype", "hwfilter"}
VxCallArgs == {"card", "unknown", "first", "query", "set", "zero", "immediate", "finite"} \cup Nat
VxCall == [do : VxCallNames, arg : VxCallArgs]

VxStart ==
  /\ VxInit
  /\ left9x \in [frames : Nat, refusals : Nat, removals : Nat]
  /\ \E calls \in [Programs -> Seq(VxCall)] : app = [p \in Programs |-> AppAt("main", calls[p])]

VxSpec == VxStart /\ [][VxNext]_vx9xVars

-----------------------------------------------------------------------------
(* PacketRead and Packet_tap share the ring without a lock: unless the     *)
(* ring has gone wrong in one of the ways of RingExits, or a frame has     *)
(* come between PacketRead's look at the ring and its place in RcvList     *)
(* (overtakes), a program reads the packets that were stored, whole and in *)
(* order; a ring that looks empty has nothing unread; and one that does    *)
(* not has its event set, unless the event was reset under a new frame.    *)
VxdFIFO ==
  exits9x \cap (RingExits \cup {"overtakes"}) = {} =>
    \A p \in Programs :
      LET o == open9x[p]
          Quiet == o.life = "open" /\ app[p].at # "plan"
      IN /\ past[p].read = SubSeq(past[p].stored, 1, Len(past[p].read))
         /\ Quiet /\ o.head = o.tail => past[p].read = past[p].stored
         /\ Quiet /\ o.head # o.tail /\ "signalErased" \notin exits9x => o.event

(* ReadTimeoutTimer holds one timeout, RcvList many reads: there are at    *)
(* least as many timeouts as reads that wait, so that each read ends, as   *)
(* long as no handle is closed with reads in RcvList.                      *)
ReadsTimed ==
  "readsLost" \notin exits9x => \A p \in Programs :
    Len(open9x[p].rcv) <= Cardinality({t \in timers : t.of = p}) + (IF app[p].at = "arm" THEN 1 ELSE 0)

(* OpenList, the timeouts and the device extension refer to instances that *)
(* are open, unless NDIS removed the adapter, or the handle was closed     *)
(* with a timeout it had forgotten.                                        *)
NothingFreedIsReached ==
  /\ "unboundListed" \notin exits9x => \A k \in DOMAIN vxd.list : open9x[vxd.list[k]].life = "open"
  /\ exits9x \cap {"unboundListed", "timerLeft"} = {} => \A t \in timers : open9x[t.of].life = "open"
  /\ Len(vxd.list) <= vxd.instances
  /\ vxd.extension # "ready" => vxd.list = << >>

(* Every read that waits will end, and nothing in the driver leads to an   *)
(* instance that PacketClose has freed.                                    *)
VxdReadsEnd == ReadsTimed /\ NothingFreedIsReached
=============================================================================
