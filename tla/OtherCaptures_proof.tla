------------------------ MODULE OtherCaptures_proof ------------------------
(***************************************************************************)
(* Proofs about the captures that do not go through NPF: TurboCap boards,  *)
(* WanPacket's ring, and the driver of Windows 9x.  The three have nothing *)
(* in common but the library's theorems.                                   *)
(***************************************************************************)
EXTENDS TurboCap, WanPacket, Packet9x, KernelBuffer_proof,
        FiniteSetTheorems, SequenceTheorems, TLAPS

-----------------------------------------------------------------------------
(* TurboCap keeps its promise (TcReads) for any number of threads, any     *)
(* program of each, and any packets, breaks and failures.                  *)

TcPlaces ==
  {"main", "dll", "table", "publish", "cannot", "loadwait", "loaded", "activate", "receive", "loop",
   "query"}

PcapType ==
  [name : TcPorts \cup {"none"}, ppi : BOOLEAN, instance : BOOLEAN, held : BOOLEAN,
   buffer : Seq(Nat), brk : BOOLEAN, filter : BOOLEAN, card : Seq(Nat), arrived : Nat,
   seen : Seq(Nat), asked : BOOLEAN, after : Nat, sent : Nat, kept : SUBSET {"ppi", "statistics"}]

ThreadType == [at : TcPlaces, calls : Seq(TcOperations), n : Nat]
LeftType == [packets : Nat, breaks : Nat, failures : Nat]

TcTypeOK ==
  /\ tcApi \in [status : {"UNLOADED", "LOADING", "LOADED", "CANNOT_LOAD"}, dll : BOOLEAN,
                table : {"empty", "holes", "complete"}]
  /\ tcp \in [TcThreads -> PcapType]
  /\ tcTh \in [TcThreads -> ThreadType]
  /\ tcLeft \in LeftType

(* One thread at most fills the table, and while it does the status says   *)
(* so; who is past the loading, or has an instance, saw LOADED.            *)
Loading == {"dll", "table", "publish", "cannot"}
PastLoading == {"loaded", "activate", "receive", "loop", "query"}

LoadInv(t) ==
  /\ tcTh[t].at \in Loading => tcApi.status = "LOADING"
  /\ tcTh[t].at \in {"table", "publish"} => tcApi.dll
  /\ tcTh[t].at = "publish" => tcApi.table = "complete"
  /\ tcTh[t].at \in PastLoading \/ tcp[t].instance => tcApi.status = "LOADED"
OneLoader ==
  \A t, u \in TcThreads : tcTh[t].at \in Loading /\ tcTh[u].at \in Loading => t = u
LoadedIsWhole == tcApi.status = "LOADED" => tcApi.table = "complete" /\ tcApi.dll

(* A call is under way; a port is activated.                               *)
CallInv(t) ==
  /\ tcTh[t].at # "main" => tcTh[t].calls # << >>
  /\ tcTh[t].at = "activate" => TcArg(t) \in TcPorts

(* A buffer not held is empty, and TcReceive replaces only such a one.     *)
AllThere(p) == p.seen \o p.buffer \o p.card = [k \in 1..p.arrived |-> k]

BufferInv(t) ==
  /\ ~tcp[t].held => tcp[t].buffer = << >>
  /\ tcTh[t].at = "receive" => ~tcp[t].held
  /\ AllThere(tcp[t])

(* The flag is up from the break to its report, so that no packet is       *)
(* queried for after the one in hand.                                      *)
BreakInv(t) ==
  /\ tcp[t].brk = tcp[t].asked
  /\ tcp[t].after \in {0, 1}
  /\ tcp[t].after = 1 => tcp[t].brk
  /\ tcTh[t].at = "query" => tcp[t].after = 0

TcInv ==
  /\ TcTypeOK /\ OneLoader /\ LoadedIsWhole
  /\ \A t \in TcThreads : LoadInv(t) /\ CallInv(t) /\ BufferInv(t) /\ BreakInv(t)

-----------------------------------------------------------------------------
(* The values a step gives the pcap_t of a thread.                         *)
Activated(p, name) ==
  [NoPcap EXCEPT !.name = name, !.ppi = TRUE, !.instance = TRUE, !.kept = p.kept]
Closed(p) == [NoPcap EXCEPT !.kept = p.kept]
Arrived(p) == [p EXCEPT !.card = Append(@, p.arrived + 1), !.arrived = @ + 1]
Received(p, k) ==
  [p EXCEPT !.held = k > 0, !.buffer = SubSeq(p.card, 1, k), !.card = SubSeq(@, k + 1, Len(@))]

LEMMA ActivatedValue ==
  ASSUME NEW p \in PcapType, NEW name \in TcPorts
  PROVE  /\ Activated(p, name) \in PcapType
         /\ Activated(p, name).instance /\ ~Activated(p, name).held
         /\ Activated(p, name).buffer = << >> /\ Activated(p, name).card = << >>
         /\ Activated(p, name).seen = << >> /\ Activated(p, name).arrived = 0
         /\ ~Activated(p, name).brk /\ ~Activated(p, name).asked /\ Activated(p, name).after = 0
BY EmptySeq DEF Activated, NoPcap, PcapType

LEMMA ClosedValue ==
  ASSUME NEW p \in PcapType
  PROVE  /\ Closed(p) \in PcapType
         /\ ~Closed(p).instance /\ ~Closed(p).held
         /\ Closed(p).buffer = << >> /\ Closed(p).card = << >>
         /\ Closed(p).seen = << >> /\ Closed(p).arrived = 0
         /\ ~Closed(p).brk /\ ~Closed(p).asked /\ Closed(p).after = 0
BY EmptySeq DEF Closed, NoPcap, PcapType

LEMMA BreakValues ==
  ASSUME NEW p \in PcapType
  PROVE  /\ BreakAsked(p) \in PcapType
         /\ BreakAsked(p).instance = p.instance /\ BreakAsked(p).held = p.held
         /\ BreakAsked(p).buffer = p.buffer /\ BreakAsked(p).card = p.card
         /\ BreakAsked(p).seen = p.seen /\ BreakAsked(p).arrived = p.arrived
         /\ BreakAsked(p).brk /\ BreakAsked(p).asked /\ BreakAsked(p).after = p.after
         /\ BreakReported(p) \in PcapType
         /\ BreakReported(p).instance = p.instance /\ BreakReported(p).held = p.held
         /\ BreakReported(p).buffer = p.buffer /\ BreakReported(p).card = p.card
         /\ BreakReported(p).seen = p.seen /\ BreakReported(p).arrived = p.arrived
         /\ ~BreakReported(p).brk /\ ~BreakReported(p).asked /\ BreakReported(p).after = 0
BY DEF BreakAsked, BreakReported, PcapType

LEMMA ArrivedValue ==
  ASSUME NEW p \in PcapType
  PROVE  /\ Arrived(p) \in PcapType
         /\ Arrived(p).instance = p.instance /\ Arrived(p).held = p.held
         /\ Arrived(p).buffer = p.buffer /\ Arrived(p).card = Append(p.card, p.arrived + 1)
         /\ Arrived(p).seen = p.seen /\ Arrived(p).arrived = p.arrived + 1
         /\ Arrived(p).brk = p.brk /\ Arrived(p).asked = p.asked /\ Arrived(p).after = p.after
<1> DEFINE card == Append(p.card, p.arrived + 1)
           next == p.arrived + 1
<1>1. card \in Seq(Nat) /\ next \in Nat
  BY AppendProperties DEF PcapType
<1>2. Arrived(p) = [p EXCEPT !.card = card, !.arrived = next]
  BY DEF Arrived
<1> SUFFICES /\ Arrived(p) \in PcapType
             /\ Arrived(p).instance = p.instance /\ Arrived(p).held = p.held
             /\ Arrived(p).buffer = p.buffer /\ Arrived(p).card = card
             /\ Arrived(p).seen = p.seen /\ Arrived(p).arrived = next
             /\ Arrived(p).brk = p.brk /\ Arrived(p).asked = p.asked
             /\ Arrived(p).after = p.after
  OBVIOUS
<1> HIDE DEF card, next
<1> QED
  BY <1>1, <1>2, ZenonT(60) DEF PcapType

LEMMA ReceivedValue ==
  ASSUME NEW p \in PcapType, NEW k \in 0..Len(p.card)
  PROVE  /\ Received(p, k) \in PcapType
         /\ Received(p, k).instance = p.instance /\ Received(p, k).held = (k > 0)
         /\ Received(p, k).buffer = SubSeq(p.card, 1, k)
         /\ Received(p, k).card = SubSeq(p.card, k + 1, Len(p.card))
         /\ Received(p, k).seen = p.seen /\ Received(p, k).arrived = p.arrived
         /\ Received(p, k).brk = p.brk /\ Received(p, k).asked = p.asked
         /\ Received(p, k).after = p.after
<1>1. p.card \in Seq(Nat)
  BY DEF PcapType
<1>2. /\ SubSeq(p.card, 1, k) \in Seq(Nat)
      /\ SubSeq(p.card, k + 1, Len(p.card)) \in Seq(Nat)
  BY <1>1, SubSeqProperties, ElementOfSeq
<1> DEFINE held == k > 0
           buffer == SubSeq(p.card, 1, k)
           card == SubSeq(p.card, k + 1, Len(p.card))
<1>3. held \in BOOLEAN /\ buffer \in Seq(Nat) /\ card \in Seq(Nat)
  BY <1>2
<1>4. Received(p, k) = [p EXCEPT !.held = held, !.buffer = buffer, !.card = card]
  BY DEF Received
<1> SUFFICES /\ Received(p, k) \in PcapType
             /\ Received(p, k).instance = p.instance /\ Received(p, k).held = held
             /\ Received(p, k).buffer = buffer /\ Received(p, k).card = card
             /\ Received(p, k).seen = p.seen /\ Received(p, k).arrived = p.arrived
             /\ Received(p, k).brk = p.brk /\ Received(p, k).asked = p.asked
             /\ Received(p, k).after = p.after
  OBVIOUS
<1> HIDE DEF held, buffer, card
<1> DEFINE q == [p EXCEPT !.buffer = buffer, !.card = card]
<1>5. /\ q \in PcapType
      /\ q.instance = p.instance /\ q.buffer = buffer /\ q.card = card
      /\ q.seen = p.seen /\ q.arrived = p.arrived
      /\ q.brk = p.brk /\ q.asked = p.asked /\ q.after = p.after
  BY <1>3 DEF PcapType
<1>6. Received(p, k) = [q EXCEPT !.held = held]
  BY <1>3, <1>4 DEF PcapType
<1> HIDE DEF q
<1> QED
  BY <1>3, <1>5, <1>6 DEF PcapType

LEMMA TakenValue ==
  ASSUME NEW p \in PcapType, p.buffer # << >>
  PROVE  /\ TcTaken(p) \in PcapType
         /\ TcTaken(p).instance = p.instance /\ TcTaken(p).held = p.held
         /\ TcTaken(p).buffer = Tail(p.buffer) /\ TcTaken(p).card = p.card
         /\ TcTaken(p).seen = Append(p.seen, Head(p.buffer)) /\ TcTaken(p).arrived = p.arrived
         /\ TcTaken(p).brk = p.brk /\ TcTaken(p).asked = p.asked /\ TcTaken(p).after = p.after
<1>1. p.buffer \in Seq(Nat) /\ p.seen \in Seq(Nat)
  BY DEF PcapType
<1>2. Tail(p.buffer) \in Seq(Nat) /\ Append(p.seen, Head(p.buffer)) \in Seq(Nat)
  BY <1>1, HeadTailProperties, AppendProperties
<1> QED
  BY <1>2 DEF TcTaken, PcapType

LEMMA HandedValue ==
  ASSUME NEW p \in PcapType, p.buffer # << >>
  PROVE  /\ TcHanded(p) \in PcapType
         /\ TcHanded(p).instance = p.instance /\ TcHanded(p).held = p.held
         /\ TcHanded(p).buffer = Tail(p.buffer) /\ TcHanded(p).card = p.card
         /\ TcHanded(p).seen = Append(p.seen, Head(p.buffer)) /\ TcHanded(p).arrived = p.arrived
         /\ TcHanded(p).brk = p.brk /\ TcHanded(p).asked = p.asked
         /\ TcHanded(p).after = IF p.asked THEN p.after + 1 ELSE p.after
<1> DEFINE q == TcTaken(p)
<1>1. /\ q \in PcapType /\ q.after = p.after
      /\ q.instance = p.instance /\ q.held = p.held /\ q.buffer = Tail(p.buffer)
      /\ q.card = p.card /\ q.seen = Append(p.seen, Head(p.buffer)) /\ q.arrived = p.arrived
      /\ q.brk = p.brk /\ q.asked = p.asked
  BY TakenValue
<1> DEFINE after == IF p.asked THEN p.after + 1 ELSE p.after
<1>2. after \in Nat
  BY DEF PcapType
<1>3. TcHanded(p) = [q EXCEPT !.after = after]
  BY <1>1 DEF TcHanded
<1> SUFFICES /\ TcHanded(p) \in PcapType
             /\ TcHanded(p).instance = q.instance /\ TcHanded(p).held = q.held
             /\ TcHanded(p).buffer = q.buffer /\ TcHanded(p).card = q.card
             /\ TcHanded(p).seen = q.seen /\ TcHanded(p).arrived = q.arrived
             /\ TcHanded(p).brk = q.brk /\ TcHanded(p).asked = q.asked /\ TcHanded(p).after = after
  BY <1>1
<1> HIDE DEF q, after
<1> QED
  BY <1>1, <1>2, <1>3 DEF PcapType

-----------------------------------------------------------------------------
(* A thread moves, and its pcap_t takes a value.                           *)
Moved(t, at) ==
  /\ tcTh' \in [TcThreads -> ThreadType]
  /\ tcTh'[t].at = at
  /\ at # "main" => tcTh'[t].calls = tcTh[t].calls
  /\ \A u \in TcThreads : u # t => tcTh'[u] = tcTh[u]

LEMMA GoesMoves ==
  ASSUME TcTypeOK, NEW t \in TcThreads, NEW at \in TcPlaces, TcGoes(t, at)
  PROVE  Moved(t, at)
BY DEF TcTypeOK, ThreadType, TcGoes, Moved

LEMMA TailIsProgram ==
  ASSUME NEW calls \in Seq(TcOperations), calls # << >>
  PROVE  Tail(calls) \in Seq(TcOperations)
BY HeadTailProperties

LEMMA ReturnsMoves ==
  ASSUME TcTypeOK, NEW t \in TcThreads, tcTh[t].calls # << >>, TcReturns(t)
  PROVE  Moved(t, "main")
<1> DEFINE rest == Tail(tcTh[t].calls)
<1>1. rest \in Seq(TcOperations)
  BY TailIsProgram DEF TcTypeOK, ThreadType
<1>2. tcTh' = [tcTh EXCEPT ![t] = [at |-> "main", calls |-> rest, n |-> 0]]
  BY DEF TcReturns, TcAt, TcTypeOK
<1> HIDE DEF rest
<1> QED
  BY <1>1, <1>2 DEF TcTypeOK, ThreadType, TcPlaces, Moved

LEMMA FailsLeft == ASSUME TcTypeOK, TcFails PROVE tcLeft' \in LeftType
BY DEF TcTypeOK, TcFails, LeftType

LEMMA SameLeft == ASSUME TcTypeOK, UNCHANGED tcLeft PROVE tcLeft' \in LeftType
BY DEF TcTypeOK

LocalStep(t, at, p) ==
  /\ Moved(t, at) /\ tcp' = [tcp EXCEPT ![t] = p] /\ UNCHANGED tcApi /\ tcLeft' \in LeftType

(* What the invariant asks of a thread at a place with a pcap_t.           *)
Sound(t, at, p) ==
  /\ at \in TcPlaces \ Loading /\ p \in PcapType
  /\ at \in PastLoading \/ p.instance => tcApi.status = "LOADED"
  /\ at # "main" => tcTh[t].calls # << >>
  /\ at = "activate" => TcArg(t) \in TcPorts
  /\ ~p.held => p.buffer = << >>
  /\ at = "receive" => ~p.held
  /\ AllThere(p)
  /\ p.brk = p.asked
  /\ p.after \in {0, 1}
  /\ p.after = 1 => p.brk
  /\ at = "query" => p.after = 0

LEMMA LocalKeeps ==
  ASSUME TcInv, NEW t \in TcThreads, NEW at, NEW p, LocalStep(t, at, p), Sound(t, at, p)
  PROVE  TcInv'
<1>1. /\ tcTh'[t].at = at /\ tcp'[t] = p /\ tcApi' = tcApi
      /\ at # "main" => tcTh'[t].calls = tcTh[t].calls
      /\ \A u \in TcThreads : u # t => tcTh'[u] = tcTh[u] /\ tcp'[u] = tcp[u]
  BY DEF LocalStep, Moved, TcInv, TcTypeOK
<1>2. TcTypeOK'
  BY DEF LocalStep, Moved, TcInv, TcTypeOK, Sound
<1>3. OneLoader' /\ LoadedIsWhole'
  BY <1>1 DEF TcInv, OneLoader, LoadedIsWhole, Sound
<1>4. ASSUME NEW u \in TcThreads
      PROVE  (LoadInv(u) /\ CallInv(u) /\ BufferInv(u) /\ BreakInv(u))'
  <2>1. CASE u # t
    BY <1>1, <2>1, ZenonT(60) DEF TcInv, LoadInv, CallInv, BufferInv, BreakInv, AllThere, TcArg
  <2>2. CASE u = t
    <3>1. LoadInv(t)'
      BY <1>1 DEF LoadInv, Sound, Loading
    <3>2. CallInv(t)'
      BY <1>1 DEF CallInv, Sound, TcArg
    <3>3. BufferInv(t)'
      BY <1>1 DEF BufferInv, Sound, AllThere
    <3>4. BreakInv(t)'
      BY <1>1 DEF BreakInv, Sound
    <3> QED
      BY <2>2, <3>1, <3>2, <3>3, <3>4
  <2> QED
    BY <2>1, <2>2
<1> QED
  BY <1>2, <1>3, <1>4 DEF TcInv

(* A thread that does not touch its pcap_t.                                *)
LEMMA MoveKeeps ==
  ASSUME TcInv, NEW t \in TcThreads, NEW at \in TcPlaces \ Loading,
         Moved(t, at), UNCHANGED <<tcApi, tcp>>, tcLeft' \in LeftType,
         at \in PastLoading => tcApi.status = "LOADED",
         at # "main" => tcTh[t].calls # << >>,
         at = "activate" => TcArg(t) \in TcPorts,
         at = "receive" => ~tcp[t].held,
         at = "query" => tcp[t].after = 0
  PROVE  TcInv'
<1>1. tcp' = [tcp EXCEPT ![t] = tcp[t]]
  BY DEF TcInv, TcTypeOK
<1>2. LocalStep(t, at, tcp[t])
  BY <1>1 DEF LocalStep
<1>3. LoadInv(t) /\ BufferInv(t) /\ BreakInv(t) /\ tcp[t] \in PcapType
  BY DEF TcInv, TcTypeOK
<1>4. Sound(t, at, tcp[t])
  BY <1>3 DEF Sound, LoadInv, BufferInv, BreakInv
<1> QED
  BY <1>2, <1>4, LocalKeeps

-----------------------------------------------------------------------------
(* The loading of TcApi.dll: the only steps that change what all share.    *)
ApiType ==
  [status : {"UNLOADED", "LOADING", "LOADED", "CANNOT_LOAD"}, dll : BOOLEAN,
   table : {"empty", "holes", "complete"}]

LEMMA ApiKeeps ==
  ASSUME TcInv, NEW t \in TcThreads, NEW at \in TcPlaces,
         Moved(t, at), UNCHANGED tcp, tcLeft' \in LeftType, tcApi' \in ApiType,
         at # "main" => tcTh[t].calls # << >>, at \notin {"activate", "receive", "query"},
         OneLoader', LoadedIsWhole', \A u \in TcThreads : LoadInv(u)'
  PROVE  TcInv'
<1>1. /\ tcTh'[t].at = at /\ tcp' = tcp
      /\ at # "main" => tcTh'[t].calls = tcTh[t].calls
      /\ \A u \in TcThreads : u # t => tcTh'[u] = tcTh[u]
  BY DEF Moved
<1>2. TcTypeOK'
  BY DEF Moved, TcInv, TcTypeOK, ApiType
<1>3. ASSUME NEW u \in TcThreads
      PROVE  (CallInv(u) /\ BufferInv(u) /\ BreakInv(u))'
  <2>1. CASE u # t
    BY <1>1, <2>1, ZenonT(60) DEF TcInv, CallInv, BufferInv, BreakInv, AllThere, TcArg
  <2>2. CASE u = t
    BY <1>1, <2>2 DEF TcInv, CallInv, BufferInv, BreakInv, AllThere, TcArg
  <2> QED
    BY <2>1, <2>2
<1> QED
  BY <1>2, <1>3 DEF TcInv

LEMMA LoadEnterKeeps ==
  ASSUME TcInv, NEW t \in TcThreads, LoadEnter(t) PROVE TcInv'
<1>1. tcTh[t].at = "main" /\ tcTh[t].calls # << >> /\ UNCHANGED <<tcp, tcLeft>>
  BY DEF LoadEnter, TcCalls
<1>2. TcTypeOK /\ tcLeft' \in LeftType
  BY <1>1, SameLeft DEF TcInv
<1>3. CASE tcApi.status # "UNLOADED" /\ TcGoes(t, "loadwait") /\ UNCHANGED tcApi
  <2>1. Moved(t, "loadwait")
    BY <1>2, <1>3, GoesMoves DEF TcPlaces
  <2> QED
    BY <1>1, <1>2, <1>3, <2>1, MoveKeeps DEF TcPlaces, Loading, PastLoading
<1>4. CASE /\ tcApi.status = "UNLOADED"
           /\ tcApi' = [tcApi EXCEPT !.status = "LOADING"] /\ TcGoes(t, "dll")
  <2>1. Moved(t, "dll")
    BY <1>2, <1>4, GoesMoves DEF TcPlaces
  <2>2. tcApi' \in ApiType /\ tcApi'.status = "LOADING"
    BY <1>2, <1>4 DEF TcTypeOK, ApiType
  <2>3. \A u \in TcThreads : /\ tcTh[u].at \notin Loading /\ tcTh[u].at \notin PastLoading
                            /\ ~tcp[u].instance
    BY <1>4 DEF TcInv, LoadInv
  <2>4. OneLoader' /\ LoadedIsWhole'
    BY <2>1, <2>2, <2>3 DEF OneLoader, LoadedIsWhole, Moved
  <2>5. ASSUME NEW u \in TcThreads PROVE LoadInv(u)'
    BY <1>1, <2>1, <2>2, <2>3 DEF LoadInv, Moved, Loading, PastLoading
  <2> QED
    BY <1>1, <1>2, <2>1, <2>2, <2>4, <2>5, ApiKeeps DEF TcPlaces
<1> QED
  BY <1>3, <1>4 DEF LoadEnter

(* The loader goes on from one of its places to another, or comes out.     *)
LEMMA LoaderKeeps ==
  ASSUME TcInv, NEW t \in TcThreads, tcTh[t].at \in Loading, NEW at \in TcPlaces,
         Moved(t, at), UNCHANGED tcp, tcLeft' \in LeftType, tcApi' \in ApiType,
         at \in Loading \cup {"main", "loaded"},
         at \in Loading => tcApi'.status = "LOADING",
         at \in {"table", "publish"} => tcApi'.dll,
         at = "publish" => tcApi'.table = "complete",
         at = "loaded" => tcApi'.status = "LOADED",
         tcApi'.status = "LOADED" => tcApi'.table = "complete" /\ tcApi'.dll
  PROVE  TcInv'
<1>1. tcTh[t].calls # << >> /\ tcApi.status = "LOADING"
  BY DEF TcInv, CallInv, LoadInv, Loading
<1>2. \A u \in TcThreads : /\ tcTh[u].at \in Loading => u = t
                          /\ tcTh[u].at \notin PastLoading /\ ~tcp[u].instance
  BY <1>1 DEF TcInv, OneLoader, LoadInv
<1>3. OneLoader' /\ LoadedIsWhole'
  BY <1>2 DEF OneLoader, LoadedIsWhole, Moved
<1>4. ASSUME NEW u \in TcThreads PROVE LoadInv(u)'
  BY <1>2 DEF LoadInv, Moved, Loading, PastLoading
<1> QED
  BY <1>1, <1>3, <1>4, ApiKeeps DEF Loading

LEMMA LoadLibrarySafeKeeps ==
  ASSUME TcInv, NEW t \in TcThreads, LoadLibrarySafe(t) PROVE TcInv'
<1>1. tcTh[t].at = "dll" /\ tcApi.status = "LOADING" /\ UNCHANGED tcp /\ TcTypeOK
  BY DEF LoadLibrarySafe, TcInv, LoadInv, Loading
<1>2. CASE tcApi' = [tcApi EXCEPT !.dll = TRUE] /\ TcGoes(t, "table") /\ UNCHANGED tcLeft
  <2>1. Moved(t, "table") /\ tcLeft' \in LeftType
    BY <1>1, <1>2, GoesMoves, SameLeft DEF TcPlaces
  <2>2. tcApi' \in ApiType /\ tcApi'.status = "LOADING" /\ tcApi'.dll
    BY <1>1, <1>2 DEF TcTypeOK, ApiType
  <2> QED
    BY <1>1, <2>1, <2>2, LoaderKeeps DEF TcPlaces, Loading
<1>3. CASE TcFails /\ TcGoes(t, "cannot") /\ UNCHANGED tcApi
  <2>1. Moved(t, "cannot") /\ tcLeft' \in LeftType
    BY <1>1, <1>3, GoesMoves, FailsLeft DEF TcPlaces
  <2>2. tcApi' \in ApiType /\ tcApi'.status = "LOADING"
    BY <1>1, <1>3 DEF TcTypeOK, ApiType
  <2> QED
    BY <1>1, <2>1, <2>2, LoaderKeeps DEF TcPlaces, Loading
<1> QED
  BY <1>2, <1>3 DEF LoadLibrarySafe

LEMMA GetProcAddressesKeeps ==
  ASSUME TcInv, NEW t \in TcThreads, GetProcAddresses(t) PROVE TcInv'
<1>1. /\ tcTh[t].at = "table" /\ tcApi.status = "LOADING" /\ tcApi.dll
      /\ UNCHANGED tcp /\ TcTypeOK
  BY DEF GetProcAddresses, TcInv, LoadInv, Loading
<1>2. CASE tcApi' = [tcApi EXCEPT !.table = "complete"] /\ TcGoes(t, "publish") /\ UNCHANGED tcLeft
  <2>1. Moved(t, "publish") /\ tcLeft' \in LeftType
    BY <1>1, <1>2, GoesMoves, SameLeft DEF TcPlaces
  <2>2. tcApi' \in ApiType /\ tcApi'.status = "LOADING" /\ tcApi'.dll /\ tcApi'.table = "complete"
    BY <1>1, <1>2 DEF TcTypeOK, ApiType
  <2> QED
    BY <1>1, <2>1, <2>2, LoaderKeeps DEF TcPlaces, Loading
<1>3. CASE TcFails /\ TcGoes(t, "cannot") /\ tcApi' = [tcApi EXCEPT !.table = "holes"]
  <2>1. Moved(t, "cannot") /\ tcLeft' \in LeftType
    BY <1>1, <1>3, GoesMoves, FailsLeft DEF TcPlaces
  <2>2. tcApi' \in ApiType /\ tcApi'.status = "LOADING"
    BY <1>1, <1>3 DEF TcTypeOK, ApiType
  <2> QED
    BY <1>1, <2>1, <2>2, LoaderKeeps DEF TcPlaces, Loading
<1> QED
  BY <1>2, <1>3 DEF GetProcAddresses

LEMMA LoadPublishesKeeps ==
  ASSUME TcInv, NEW t \in TcThreads, LoadPublishes(t) PROVE TcInv'
<1>1. /\ tcTh[t].at = "publish" /\ tcApi.dll /\ tcApi.table = "complete"
      /\ UNCHANGED <<tcp, tcLeft>> /\ TcTypeOK
  BY DEF LoadPublishes, TcInv, LoadInv, Loading
<1>2. Moved(t, "loaded") /\ tcLeft' \in LeftType
  BY <1>1, GoesMoves, SameLeft DEF LoadPublishes, TcPlaces
<1>3. /\ tcApi' \in ApiType /\ tcApi'.status = "LOADED" /\ tcApi'.dll
      /\ tcApi'.table = "complete"
  BY <1>1 DEF LoadPublishes, TcTypeOK, ApiType
<1> QED
  BY <1>1, <1>2, <1>3, LoaderKeeps DEF TcPlaces, Loading

LEMMA LoadGivesUpKeeps ==
  ASSUME TcInv, NEW t \in TcThreads, LoadGivesUp(t) PROVE TcInv'
<1>1. /\ tcTh[t].at = "cannot" /\ tcTh[t].calls # << >>
      /\ UNCHANGED <<tcp, tcLeft>> /\ TcTypeOK
  BY DEF LoadGivesUp, TcInv, CallInv
<1>2. Moved(t, "main") /\ tcLeft' \in LeftType
  BY <1>1, ReturnsMoves, SameLeft DEF LoadGivesUp
<1>3. tcApi' \in ApiType /\ tcApi'.status = "CANNOT_LOAD"
  BY <1>1 DEF LoadGivesUp, TcTypeOK, ApiType
<1> QED
  BY <1>1, <1>2, <1>3, LoaderKeeps DEF TcPlaces, Loading

-----------------------------------------------------------------------------
(* Calls that end, or go on, with the pcap_t as it was.                    *)
LEMMA ReturnKeeps ==
  ASSUME TcInv, NEW t \in TcThreads, tcTh[t].calls # << >>, TcReturns(t),
         UNCHANGED <<tcApi, tcp>>, tcLeft' \in LeftType
  PROVE  TcInv'
<1>1. Moved(t, "main")
  BY ReturnsMoves DEF TcInv
<1> QED
  BY <1>1, MoveKeeps DEF TcPlaces, Loading, PastLoading

LEMMA LoadWaitsKeeps ==
  ASSUME TcInv, NEW t \in TcThreads, LoadWaits(t) PROVE TcInv'
<1>1. /\ tcTh[t].calls # << >> /\ UNCHANGED <<tcApi, tcp>> /\ TcTypeOK
      /\ tcLeft' \in LeftType
  BY SameLeft DEF LoadWaits, TcInv, CallInv
<1>2. CASE tcApi.status = "LOADED" /\ TcGoes(t, "loaded")
  <2>1. Moved(t, "loaded")
    BY <1>1, <1>2, GoesMoves DEF TcPlaces
  <2> QED
    BY <1>1, <1>2, <2>1, MoveKeeps DEF TcPlaces, Loading
<1>3. CASE tcApi.status = "CANNOT_LOAD" /\ TcReturns(t)
  BY <1>1, <1>3, ReturnKeeps
<1> QED
  BY <1>2, <1>3 DEF LoadWaits

LEMMA FailureKeeps ==
  ASSUME TcInv, NEW t \in TcThreads,
         QueryPortListFails(t) \/ ActivateFails(t) \/ TcReadFails(t)
  PROVE  TcInv'
<1>1. TcReturns(t) /\ UNCHANGED <<tcApi, tcp>> /\ TcFails /\ tcTh[t].at # "main"
  BY DEF QueryPortListFails, ActivateFails, TcReadFails
<1>2. tcTh[t].calls # << >> /\ tcLeft' \in LeftType
  BY <1>1, FailsLeft DEF TcInv, CallInv
<1> QED
  BY <1>1, <1>2, ReturnKeeps

LEMMA CallKeeps ==
  ASSUME TcInv, NEW t \in TcThreads, TcFindAllDevs(t) \/ NotActivated(t) \/ TcSetter(t)
  PROVE  TcInv'
<1>1. TcReturns(t) /\ UNCHANGED <<tcApi, tcp, tcLeft>> /\ tcTh[t].calls # << >>
  BY DEF TcFindAllDevs, NotActivated, TcSetter, TcCalls, TcInv, CallInv
<1>2. tcLeft' \in LeftType
  BY <1>1, SameLeft DEF TcInv
<1> QED
  BY <1>1, <1>2, ReturnKeeps

LEMMA IsTcDeviceKeeps ==
  ASSUME TcInv, NEW t \in TcThreads, IsTcDevice(t) PROVE TcInv'
<1>1. /\ tcTh[t].calls # << >> /\ UNCHANGED <<tcApi, tcp>> /\ TcTypeOK
      /\ tcLeft' \in LeftType /\ tcApi.status = "LOADED"
  BY SameLeft DEF IsTcDevice, TcInv, CallInv, LoadInv, PastLoading
<1>2. CASE TcArg(t) \in TcPorts
  <2>1. Moved(t, "activate")
    BY <1>1, <1>2, GoesMoves DEF IsTcDevice, TcPlaces
  <2> QED
    BY <1>1, <1>2, <2>1, MoveKeeps DEF TcPlaces, Loading
<1>3. CASE TcArg(t) \notin TcPorts
  BY <1>1, <1>3, ReturnKeeps DEF IsTcDevice
<1> QED
  BY <1>2, <1>3

-----------------------------------------------------------------------------
(* Calls that give the pcap_t a value and end.                             *)
SoundPcap(p) ==
  /\ p \in PcapType
  /\ p.instance => tcApi.status = "LOADED"
  /\ ~p.held => p.buffer = << >>
  /\ AllThere(p)
  /\ p.brk = p.asked
  /\ p.after \in {0, 1}
  /\ p.after = 1 => p.brk

LEMMA ValueKeeps ==
  ASSUME TcInv, NEW t \in TcThreads, tcTh[t].calls # << >>, TcReturns(t),
         NEW p, tcp' = [tcp EXCEPT ![t] = p], UNCHANGED tcApi, tcLeft' \in LeftType,
         SoundPcap(p)
  PROVE  TcInv'
<1>1. LocalStep(t, "main", p)
  BY ReturnsMoves DEF LocalStep, TcInv
<1>2. Sound(t, "main", p)
  BY DEF Sound, SoundPcap, TcPlaces, Loading, PastLoading
<1> QED
  BY <1>1, <1>2, LocalKeeps

(* What the invariant says of the pcap_t of a thread.                      *)
LEMMA PcapFacts ==
  ASSUME TcInv, NEW t \in TcThreads
  PROVE  SoundPcap(tcp[t])
BY DEF TcInv, TcTypeOK, LoadInv, BufferInv, BreakInv, SoundPcap

(* An empty pcap_t has nothing to account for.                             *)
LEMMA NothingThere ==
  ASSUME NEW p, p.buffer = << >>, p.card = << >>, p.seen = << >>, p.arrived = 0
  PROVE  AllThere(p)
<1>1. << >> \o << >> \o << >> = << >>
  BY ConcatEmptySeq, EmptySeq
<1>2. [k \in 1..0 |-> k] = << >>
  OBVIOUS
<1> QED
  BY <1>1, <1>2 DEF AllThere

LEMMA TcActivateKeeps ==
  ASSUME TcInv, NEW t \in TcThreads, TcActivate(t) PROVE TcInv'
<1> DEFINE p == Activated(tcp[t], TcArg(t))
<1>1. /\ tcTh[t].calls # << >> /\ TcArg(t) \in TcPorts /\ tcApi.status = "LOADED"
      /\ TcReturns(t) /\ UNCHANGED <<tcApi, tcLeft>> /\ tcLeft' \in LeftType
  BY SameLeft DEF TcActivate, TcInv, CallInv, LoadInv, PastLoading
<1>2. tcp' = [tcp EXCEPT ![t] = p]
  BY DEF TcActivate, Activated
<1>3. /\ p \in PcapType /\ p.buffer = << >> /\ p.card = << >> /\ p.seen = << >>
      /\ p.arrived = 0 /\ ~p.brk /\ ~p.asked /\ p.after = 0
  BY <1>1, PcapFacts, ActivatedValue DEF SoundPcap
<1> HIDE DEF p
<1>4. AllThere(p)
  BY <1>3, NothingThere
<1>5. SoundPcap(p)
  BY <1>1, <1>3, <1>4 DEF SoundPcap, PcapType
<1> QED
  BY <1>1, <1>2, <1>5, ValueKeeps

LEMMA TcCleanupKeeps ==
  ASSUME TcInv, NEW t \in TcThreads, TcCleanup(t) PROVE TcInv'
<1> DEFINE p == Closed(tcp[t])
<1>1. /\ tcTh[t].calls # << >> /\ TcReturns(t) /\ UNCHANGED <<tcApi, tcLeft>>
      /\ tcLeft' \in LeftType
  BY SameLeft DEF TcCleanup, TcCalls, TcInv
<1>2. tcp' = [tcp EXCEPT ![t] = p]
  BY DEF TcCleanup, Closed
<1>3. /\ p \in PcapType /\ p.buffer = << >> /\ p.card = << >> /\ p.seen = << >>
      /\ p.arrived = 0 /\ ~p.instance /\ ~p.brk /\ ~p.asked /\ p.after = 0
  BY PcapFacts, ClosedValue DEF SoundPcap
<1> HIDE DEF p
<1>4. AllThere(p)
  BY <1>3, NothingThere
<1>5. SoundPcap(p)
  BY <1>1, <1>3, <1>4 DEF SoundPcap, PcapType
<1> QED
  BY <1>1, <1>2, <1>5, ValueKeeps

LEMMA SameCaptureIsSound ==
  ASSUME NEW p, SoundPcap(p), NEW q \in PcapType,
         q.instance = p.instance, q.held = p.held, q.buffer = p.buffer, q.card = p.card,
         q.seen = p.seen, q.arrived = p.arrived, q.brk = p.brk, q.asked = p.asked,
         q.after = p.after
  PROVE  SoundPcap(q)
BY DEF SoundPcap, AllThere

LEMMA InstanceOpenFailsKeeps ==
  ASSUME TcInv, NEW t \in TcThreads, InstanceOpenFails(t) PROVE TcInv'
<1> DEFINE p == tcp[t]
           q == [p EXCEPT !.kept = @ \cup {"ppi"}]
<1>1. /\ tcTh[t].calls # << >> /\ TcReturns(t) /\ UNCHANGED tcApi /\ tcLeft' \in LeftType
  BY FailsLeft DEF InstanceOpenFails, TcInv, CallInv
<1>2. tcp' = [tcp EXCEPT ![t] = q]
  BY DEF InstanceOpenFails
<1>3. SoundPcap(p) /\ p \in PcapType
  BY PcapFacts DEF SoundPcap
<1> HIDE DEF p
<1>4. SoundPcap(q)
  <2>1. q \in PcapType /\ q.instance = p.instance /\ q.held = p.held /\ q.buffer = p.buffer
        /\ q.card = p.card /\ q.seen = p.seen /\ q.arrived = p.arrived /\ q.brk = p.brk
        /\ q.asked = p.asked /\ q.after = p.after
    BY <1>3 DEF PcapType
  <2> HIDE DEF q
  <2> QED
    BY <1>3, <2>1, SameCaptureIsSound
<1> QED
  BY <1>1, <1>2, <1>4, ValueKeeps

LEMMA TcStatsKeeps ==
  ASSUME TcInv, NEW t \in TcThreads, TcStats(t) PROVE TcInv'
<1> DEFINE p == tcp[t]
           q == [p EXCEPT !.kept = @ \cup {"statistics"}]
<1>1. tcTh[t].calls # << >> /\ TcReturns(t) /\ UNCHANGED tcApi /\ TcTypeOK
  BY DEF TcStats, TcCalls, TcInv
<1>2. CASE TcFails /\ UNCHANGED tcp
  BY <1>1, <1>2, FailsLeft, ReturnKeeps
<1>3. CASE tcp' = [tcp EXCEPT ![t] = q] /\ UNCHANGED tcLeft
  <2>1. SoundPcap(p) /\ p \in PcapType
    BY PcapFacts DEF SoundPcap
  <2>2. tcp' = [tcp EXCEPT ![t] = q] /\ tcLeft' \in LeftType
    BY <1>1, <1>3, SameLeft
  <2> HIDE DEF p
  <2>3. q \in PcapType /\ q.instance = p.instance /\ q.held = p.held /\ q.buffer = p.buffer
        /\ q.card = p.card /\ q.seen = p.seen /\ q.arrived = p.arrived /\ q.brk = p.brk
        /\ q.asked = p.asked /\ q.after = p.after
    BY <2>1 DEF PcapType
  <2> HIDE DEF q
  <2>4. SoundPcap(q)
    BY <2>1, <2>3, SameCaptureIsSound
  <2> QED
    BY <1>1, <2>2, <2>4, ValueKeeps
<1> QED
  BY <1>2, <1>3 DEF TcStats

LEMMA TcSetFilterKeeps ==
  ASSUME TcInv, NEW t \in TcThreads, TcSetFilter(t) PROVE TcInv'
<1> DEFINE p == tcp[t]
           q == [p EXCEPT !.filter = TRUE]
<1>1. /\ tcTh[t].calls # << >> /\ TcReturns(t) /\ UNCHANGED tcApi /\ tcLeft' \in LeftType
  BY SameLeft DEF TcSetFilter, TcCalls, TcInv
<1>2. tcp' = [tcp EXCEPT ![t] = q]
  BY DEF TcSetFilter
<1>3. SoundPcap(p) /\ p \in PcapType
  BY PcapFacts DEF SoundPcap
<1> HIDE DEF p
<1>4. q \in PcapType /\ q.instance = p.instance /\ q.held = p.held /\ q.buffer = p.buffer
      /\ q.card = p.card /\ q.seen = p.seen /\ q.arrived = p.arrived /\ q.brk = p.brk
      /\ q.asked = p.asked /\ q.after = p.after
  BY <1>3 DEF PcapType
<1> HIDE DEF q
<1>5. SoundPcap(q)
  BY <1>3, <1>4, SameCaptureIsSound
<1> QED
  BY <1>1, <1>2, <1>5, ValueKeeps

LEMMA TcInjectKeeps ==
  ASSUME TcInv, NEW t \in TcThreads, TcInject(t) PROVE TcInv'
<1> DEFINE size == TcArg(t)
           Sent == size < TcUshort - 1 /\ TcAligned(size) >= size
           p == tcp[t]
           n == IF Sent THEN p.sent + 1 ELSE p.sent
           q == [p EXCEPT !.sent = n]
<1>1. /\ tcTh[t].calls # << >> /\ TcReturns(t) /\ UNCHANGED tcApi /\ tcLeft' \in LeftType
  BY SameLeft DEF TcInject, TcCalls, TcInv
<1>2. tcp' = [tcp EXCEPT ![t] = q]
  BY DEF TcInject
<1> HIDE DEF size, Sent
<1>3. SoundPcap(p) /\ p \in PcapType /\ n \in Nat
  BY PcapFacts DEF SoundPcap, PcapType
<1> HIDE DEF p, n
<1>4. q \in PcapType /\ q.instance = p.instance /\ q.held = p.held /\ q.buffer = p.buffer
      /\ q.card = p.card /\ q.seen = p.seen /\ q.arrived = p.arrived /\ q.brk = p.brk
      /\ q.asked = p.asked /\ q.after = p.after
  BY <1>3 DEF PcapType
<1> HIDE DEF q
<1>5. SoundPcap(q)
  BY <1>3, <1>4, SameCaptureIsSound
<1> QED
  BY <1>1, <1>2, <1>5, ValueKeeps

-----------------------------------------------------------------------------
(* TcRead: no step of it loses, repeats or reorders a packet.              *)
LEMMA TakenIsThere ==
  ASSUME NEW p \in PcapType, AllThere(p), p.buffer # << >>,
         NEW q, q.seen = Append(p.seen, Head(p.buffer)), q.buffer = Tail(p.buffer),
         q.card = p.card, q.arrived = p.arrived
  PROVE  AllThere(q)
<1>1. p.seen \in Seq(Nat) /\ p.buffer \in Seq(Nat)
  BY DEF PcapType
<1> DEFINE s == p.seen
           b == p.buffer
<1>2. s \in Seq(Nat) /\ b \in Seq(Nat) /\ b # << >>
  BY <1>1
<1> HIDE DEF s, b
<1>3. Append(s, Head(b)) \o Tail(b) = s \o b
  <2>1. Head(b) \in Nat /\ Tail(b) \in Seq(Nat) /\ Len(Tail(b)) = Len(b) - 1
        /\ \A i \in 1..Len(Tail(b)) : Tail(b)[i] = b[i + 1]
    BY <1>2, HeadTailProperties
  <2> DEFINE a == Append(s, Head(b))
             r == Tail(b)
  <2>2. /\ a \in Seq(Nat) /\ Len(a) = Len(s) + 1
        /\ \A i \in 1..Len(s) : a[i] = s[i]
        /\ a[Len(s) + 1] = Head(b)
    BY <1>2, <2>1, AppendProperties
  <2>3. Head(b) = b[1] /\ Len(s) \in Nat /\ Len(b) \in Nat \ {0}
    BY <1>2, EmptySeq, LenProperties
  <2>4. r \in Seq(Nat) /\ Len(r) = Len(b) - 1 /\ \A i \in 1..Len(r) : r[i] = b[i + 1]
    BY <2>1
  <2> HIDE DEF a, r
  <2>5. /\ a \o r \in Seq(Nat) /\ Len(a \o r) = Len(a) + Len(r)
        /\ \A i \in 1..Len(a) + Len(r) :
             (a \o r)[i] = IF i <= Len(a) THEN a[i] ELSE r[i - Len(a)]
    BY <2>2, <2>4, ConcatProperties
  <2>6. /\ s \o b \in Seq(Nat) /\ Len(s \o b) = Len(s) + Len(b)
        /\ \A i \in 1..Len(s) + Len(b) :
             (s \o b)[i] = IF i <= Len(s) THEN s[i] ELSE b[i - Len(s)]
    BY <1>2, ConcatProperties
  <2>7. Len(a \o r) = Len(s \o b)
    BY <2>2, <2>3, <2>4, <2>5, <2>6
  <2>8. ASSUME NEW i \in 1..Len(a \o r) PROVE (a \o r)[i] = (s \o b)[i]
    <3>1. i \in 1..Len(a) + Len(r) /\ i \in 1..Len(s) + Len(b)
      BY <2>5, <2>6, <2>7, <2>8
    <3>2. CASE i <= Len(s)
      BY <2>2, <2>3, <2>5, <2>6, <3>1, <3>2
    <3>3. CASE i = Len(s) + 1
      BY <2>2, <2>3, <2>5, <2>6, <3>1, <3>3
    <3>4. CASE i > Len(s) + 1
      <4>1. (a \o r)[i] = r[i - Len(a)] /\ (s \o b)[i] = b[i - Len(s)]
        <5>1. i \in Int /\ ~(i <= Len(a)) /\ ~(i <= Len(s))
          BY <2>2, <2>3, <3>1, <3>4
        <5> QED
          BY <2>5, <2>6, <3>1, <5>1
      <4>2. i - Len(a) \in 1..Len(r) /\ (i - Len(a)) + 1 = i - Len(s)
        BY <2>2, <2>3, <2>4, <3>1, <3>4
      <4> QED
        BY <2>4, <4>1, <4>2
    <3> QED
      BY <2>3, <3>1, <3>2, <3>3, <3>4
  <2>9. a \o r = s \o b
    BY <2>5, <2>6, <2>7, <2>8, SeqEqual
  <2> QED
    BY <2>9 DEF a, r
<1>4. q.seen \o q.buffer = p.seen \o p.buffer
  BY <1>3 DEF s, b
<1> QED
  BY <1>4 DEF AllThere

LEMMA Regrouped ==
  ASSUME NEW s \in Seq(Nat), NEW b \in Seq(Nat), NEW r \in Seq(Nat)
  PROVE  (s \o b) \o r = s \o (b \o r)
<1>1. /\ s \o b \in Seq(Nat) /\ b \o r \in Seq(Nat)
      /\ Len(s) \in Nat /\ Len(b) \in Nat /\ Len(r) \in Nat
  BY ConcatProperties, LenProperties
<1> DEFINE x == (s \o b) \o r
           y == s \o (b \o r)
<1>2. x \in Seq(Nat) /\ y \in Seq(Nat)
  BY <1>1, ConcatProperties
<1>3. Len(x) = Len(s) + Len(b) + Len(r) /\ Len(y) = Len(s) + Len(b) + Len(r)
  BY <1>1, ConcatProperties
<1>4. ASSUME NEW i \in 1..Len(x) PROVE x[i] = y[i]
  <2> DEFINE a == s \o b
             c == b \o r
  <2>1. /\ a \in Seq(Nat) /\ Len(a) = Len(s) + Len(b)
        /\ \A j \in 1..Len(s) + Len(b) : a[j] = IF j <= Len(s) THEN s[j] ELSE b[j - Len(s)]
    BY <1>1, ConcatProperties
  <2>2. /\ c \in Seq(Nat) /\ Len(c) = Len(b) + Len(r)
        /\ \A j \in 1..Len(b) + Len(r) : c[j] = IF j <= Len(b) THEN b[j] ELSE r[j - Len(b)]
    BY <1>1, ConcatProperties
  <2>3. i \in 1..Len(s) + Len(b) + Len(r)
    BY <1>3
  <2> HIDE DEF a, c
  <2>4. (a \o r)[i] = IF i <= Len(a) THEN a[i] ELSE r[i - Len(a)]
    BY <1>1, <2>1, <2>3, ConcatProperties
  <2>5. (s \o c)[i] = IF i <= Len(s) THEN s[i] ELSE c[i - Len(s)]
    BY <1>1, <2>2, <2>3, ConcatProperties
  <2>6. CASE i <= Len(s)
    BY <1>1, <2>1, <2>3, <2>4, <2>5, <2>6 DEF a, c
  <2>7. CASE ~(i <= Len(s)) /\ i <= Len(s) + Len(b)
    <3>1. i - Len(s) \in 1..Len(b) + Len(r) /\ i - Len(s) <= Len(b) /\ i \in 1..Len(s) + Len(b)
      BY <1>1, <2>3, <2>7
    <3>2. a[i] = b[i - Len(s)] /\ c[i - Len(s)] = b[i - Len(s)]
      BY <2>1, <2>2, <2>7, <3>1
    <3> QED
      BY <2>1, <2>4, <2>5, <2>7, <3>2 DEF a, c
  <2>8. CASE ~(i <= Len(s) + Len(b))
    <3>1. /\ i - Len(s) \in 1..Len(b) + Len(r) /\ ~(i - Len(s) <= Len(b)) /\ ~(i <= Len(s))
          /\ (i - Len(s)) - Len(b) = i - Len(a)
      BY <1>1, <2>1, <2>3, <2>8
    <3>2. c[i - Len(s)] = r[(i - Len(s)) - Len(b)]
      BY <2>2, <3>1
    <3> QED
      BY <2>1, <2>4, <2>5, <2>8, <3>1, <3>2 DEF a, c
  <2> QED
    BY <2>6, <2>7, <2>8
<1> HIDE DEF x, y
<1>5. x = y
  BY <1>2, <1>3, <1>4, SeqEqual
<1> QED
  BY <1>5 DEF x, y

LEMMA ReceivedIsThere ==
  ASSUME NEW p \in PcapType, AllThere(p), p.buffer = << >>, NEW k \in 0..Len(p.card),
         NEW q, q.seen = p.seen, q.buffer = SubSeq(p.card, 1, k),
         q.card = SubSeq(p.card, k + 1, Len(p.card)), q.arrived = p.arrived
  PROVE  AllThere(q)
<1> DEFINE c == p.card
           b == SubSeq(c, 1, k)
           r == SubSeq(c, k + 1, Len(c))
<1>1. c \in Seq(Nat) /\ p.seen \in Seq(Nat) /\ Len(c) \in Nat /\ k \in 0..Len(c)
  BY LenProperties DEF PcapType
<1>2. b \in Seq(Nat) /\ r \in Seq(Nat)
  BY <1>1, SubSeqProperties, ElementOfSeq, SMTT(30)
<1>3. b \o r = c
  <2>1. b \o r = SubSeq(c, 1, Len(c))
    <3>1. 1 \in 1..Len(c) + 1 /\ k \in (1 - 1)..Len(c) /\ Len(c) \in k..Len(c)
      BY <1>1
    <3> HIDE DEF c
    <3> QED
      BY <1>1, <3>1, ConcatAdjacentSubSeq
  <2> QED
    BY <1>1, <2>1, SubSeqFull
<1>4. q.seen \o q.buffer \o q.card = (p.seen \o b) \o r
  <2>1. q.seen = p.seen /\ q.buffer = b /\ q.card = r
    OBVIOUS
  <2> HIDE DEF b, r
  <2> QED
    BY <2>1
<1>5. p.seen \o p.buffer \o p.card = p.seen \o c
  BY <1>1, ConcatEmptySeq
<1> HIDE DEF c, b, r
<1>6. (p.seen \o b) \o r = p.seen \o c
  <2> DEFINE s == p.seen
  <2>1. s \in Seq(Nat)
    BY <1>1
  <2> HIDE DEF s
  <2>2. (s \o b) \o r = s \o (b \o r)
    BY <1>2, <2>1, Regrouped
  <2>3. s \o (b \o r) = s \o c
    BY <1>3, Zenon
  <2>4. (s \o b) \o r = s \o c
    BY <2>2, <2>3, Zenon
  <2> QED
    BY <2>4, Zenon DEF s
<1> QED
  BY <1>4, <1>5, <1>6 DEF AllThere

LEMMA ArrivedIsThere ==
  ASSUME NEW p \in PcapType, AllThere(p),
         NEW q, q.seen = p.seen, q.buffer = p.buffer,
         q.card = Append(p.card, p.arrived + 1), q.arrived = p.arrived + 1
  PROVE  AllThere(q)
<1> DEFINE c == p.card
           n == p.arrived
           a == p.seen \o p.buffer
<1>1. c \in Seq(Nat) /\ n \in Nat /\ n + 1 \in Nat
  BY DEF PcapType
<1>2. a \in Seq(Nat)
  BY ConcatProperties DEF PcapType
<1>3. a \o c = [k \in 1..n |-> k]
  BY DEF AllThere
<1>4. q.seen \o q.buffer \o q.card = a \o Append(c, n + 1)
  OBVIOUS
<1> HIDE DEF a, c, n
<1>5. a \o Append(c, n + 1) = Append(a \o c, n + 1)
  <2>1. Append(c, n + 1) = c \o <<n + 1>> /\ <<n + 1>> \in Seq(Nat) /\ a \o c \in Seq(Nat)
    BY <1>1, <1>2, AppendIsConcat, ConcatProperties
  <2>2. Append(a \o c, n + 1) = (a \o c) \o <<n + 1>>
    BY <1>1, <2>1, AppendIsConcat
  <2>3. a \o (c \o <<n + 1>>) = (a \o c) \o <<n + 1>>
    BY <1>1, <1>2, <2>1, ConcatAssociative
  <2> QED
    BY <2>1, <2>2, <2>3
<1>6. Append([k \in 1..n |-> k], n + 1) = [k \in 1..(n + 1) |-> k]
  <2> DEFINE f == [k \in 1..n |-> k]
             g == [k \in 1..(n + 1) |-> k]
  <2>1. f \in Seq(Nat) /\ Len(f) = n /\ \A k \in 1..n : f[k] = k
    BY <1>1
  <2>2. g \in Seq(Nat) /\ Len(g) = n + 1 /\ \A k \in 1..(n + 1) : g[k] = k
    BY <1>1
  <2> HIDE DEF f, g
  <2>3. /\ Append(f, n + 1) \in Seq(Nat) /\ Len(Append(f, n + 1)) = n + 1
        /\ \A k \in 1..n : Append(f, n + 1)[k] = f[k]
        /\ Append(f, n + 1)[n + 1] = n + 1
    BY <1>1, <2>1, AppendProperties
  <2>4. ASSUME NEW k \in 1..Len(g) PROVE g[k] = Append(f, n + 1)[k]
    BY <1>1, <2>1, <2>2, <2>3
  <2>5. g = Append(f, n + 1)
    BY <2>2, <2>3, <2>4, SeqEqual
  <2> QED
    BY <2>5 DEF f, g
<1> QED
  BY <1>3, <1>4, <1>5, <1>6 DEF AllThere, n

-----------------------------------------------------------------------------
LEMMA ReportedIsSound ==
  ASSUME NEW p, SoundPcap(p)
  PROVE  SoundPcap(BreakReported(p))
<1>1. p \in PcapType
  BY DEF SoundPcap
<1> DEFINE q == BreakReported(p)
<1>2. /\ q \in PcapType /\ q.instance = p.instance /\ q.held = p.held
      /\ q.buffer = p.buffer /\ q.card = p.card /\ q.seen = p.seen /\ q.arrived = p.arrived
      /\ ~q.brk /\ ~q.asked /\ q.after = 0
  BY <1>1, BreakValues
<1> HIDE DEF q
<1>3. q.brk = q.asked
  BY <1>2 DEF PcapType
<1>4. AllThere(q)
  BY <1>2 DEF SoundPcap, AllThere
<1>5. SoundPcap(q)
  BY <1>2, <1>3, <1>4 DEF SoundPcap
<1> QED
  BY <1>5 DEF q

LEMMA TcReadEnterKeeps ==
  ASSUME TcInv, NEW t \in TcThreads, TcReadEnter(t) PROVE TcInv'
<1>1. /\ tcTh[t].calls # << >> /\ tcp[t].instance /\ UNCHANGED <<tcApi, tcLeft>>
      /\ TcTypeOK /\ tcLeft' \in LeftType /\ SoundPcap(tcp[t])
  BY SameLeft, PcapFacts DEF TcReadEnter, TcCalls, TcInv
<1>2. CASE tcp[t].brk
  <2>1. tcp' = [tcp EXCEPT ![t] = BreakReported(tcp[t])] /\ TcReturns(t)
    BY <1>2 DEF TcReadEnter
  <2>2. SoundPcap(BreakReported(tcp[t]))
    BY <1>1, ReportedIsSound
  <2> QED
    BY <1>1, <2>1, <2>2, ValueKeeps
<1>3. CASE ~tcp[t].brk
  <2> DEFINE at == IF tcp[t].held THEN "loop" ELSE "receive"
  <2>1. TcGoes(t, at) /\ UNCHANGED tcp /\ at \in TcPlaces
    BY <1>3 DEF TcReadEnter, TcPlaces
  <2>2. Moved(t, at) /\ at \in {"loop", "receive"} /\ (at = "receive" => ~tcp[t].held)
    BY <1>1, <2>1, GoesMoves
  <2>3. tcApi.status = "LOADED"
    BY <1>1 DEF SoundPcap
  <2> HIDE DEF at
  <2> QED
    BY <1>1, <2>1, <2>2, <2>3, MoveKeeps DEF TcPlaces, Loading
<1> QED
  BY <1>2, <1>3

LEMMA TcReceiveKeeps ==
  ASSUME TcInv, NEW t \in TcThreads, TcReceive(t) PROVE TcInv'
<1> DEFINE p == tcp[t]
<1>1. /\ tcTh[t].calls # << >> /\ ~p.held /\ UNCHANGED <<tcApi, tcLeft>>
      /\ TcTypeOK /\ tcLeft' \in LeftType /\ SoundPcap(p) /\ p.after \in {0, 1}
      /\ tcApi.status = "LOADED"
  BY SameLeft, PcapFacts
  DEF TcReceive, TcInv, CallInv, BufferInv, BreakInv, LoadInv, PastLoading
<1>2. PICK k \in 0..Len(p.card) : tcp' = [tcp EXCEPT ![t] = Received(p, k)]
  BY <1>1, ZenonT(60) DEF TcReceive, Received, TcTypeOK
<1>3. Moved(t, "loop")
  BY <1>1, GoesMoves DEF TcReceive, TcPlaces
<1> DEFINE q == Received(p, k)
<1>4. p \in PcapType /\ AllThere(p) /\ p.buffer = << >>
  BY <1>1 DEF SoundPcap
<1>5. /\ q \in PcapType /\ q.instance = p.instance /\ q.held = (k > 0)
      /\ q.buffer = SubSeq(p.card, 1, k) /\ q.card = SubSeq(p.card, k + 1, Len(p.card))
      /\ q.seen = p.seen /\ q.arrived = p.arrived
      /\ q.brk = p.brk /\ q.asked = p.asked /\ q.after = p.after
  BY <1>4, ReceivedValue
<1> HIDE DEF p, q
<1>6. AllThere(q)
  BY <1>4, <1>5, ReceivedIsThere
<1>7. ~q.held => q.buffer = << >>
  <2>1. SUFFICES ASSUME ~q.held PROVE q.buffer = << >>
    OBVIOUS
  <2>2. k \in Int /\ k < 1
    BY <1>4, <1>5, <2>1, LenProperties DEF PcapType
  <2> QED
    BY <1>5, <2>2, SubSeqEmpty
<1>8. Sound(t, "loop", q)
  BY <1>1, <1>5, <1>6, <1>7 DEF Sound, SoundPcap, TcPlaces, Loading
<1>9. LocalStep(t, "loop", q)
  BY <1>1, <1>2, <1>3 DEF LocalStep, q
<1> QED
  BY <1>8, <1>9, LocalKeeps

LEMMA TcLoopKeeps ==
  ASSUME TcInv, NEW t \in TcThreads, TcLoop(t) PROVE TcInv'
<1>1. /\ tcTh[t].calls # << >> /\ UNCHANGED <<tcApi, tcLeft>>
      /\ TcTypeOK /\ tcLeft' \in LeftType /\ SoundPcap(tcp[t]) /\ tcApi.status = "LOADED"
  BY SameLeft, PcapFacts DEF TcLoop, TcInv, CallInv, LoadInv, PastLoading
<1>2. CASE /\ tcp[t].brk /\ TcReturns(t)
           /\ tcp' = [tcp EXCEPT ![t] = IF tcTh[t].n = 0 THEN BreakReported(@) ELSE @]
  <2> DEFINE q == IF tcTh[t].n = 0 THEN BreakReported(tcp[t]) ELSE tcp[t]
  <2>1. tcp' = [tcp EXCEPT ![t] = q] /\ TcReturns(t)
    BY <1>2
  <2>2. SoundPcap(q)
    BY <1>1, ReportedIsSound
  <2> HIDE DEF q
  <2> QED
    BY <1>1, <2>1, <2>2, ValueKeeps
<1>3. CASE ~tcp[t].brk /\ ~tcp[t].held /\ TcReturns(t) /\ UNCHANGED tcp
  BY <1>1, <1>3, ReturnKeeps
<1>4. CASE ~tcp[t].brk /\ tcp[t].held /\ TcGoes(t, "query") /\ UNCHANGED tcp
  <2>1. Moved(t, "query")
    BY <1>1, <1>4, GoesMoves DEF TcPlaces
  <2>2. tcp[t].after = 0
    BY <1>1, <1>4 DEF SoundPcap
  <2> QED
    BY <1>1, <1>4, <2>1, <2>2, MoveKeeps DEF TcPlaces, Loading
<1> QED
  BY <1>2, <1>3, <1>4 DEF TcLoop

LEMMA TcEndOfBufferKeeps ==
  ASSUME TcInv, NEW t \in TcThreads, TcEndOfBuffer(t) PROVE TcInv'
<1> DEFINE p == tcp[t]
           q == [p EXCEPT !.held = FALSE]
<1>1. /\ tcTh[t].calls # << >> /\ TcReturns(t) /\ UNCHANGED <<tcApi, tcLeft>>
      /\ tcLeft' \in LeftType /\ SoundPcap(p) /\ p.buffer = << >>
  BY SameLeft, PcapFacts DEF TcEndOfBuffer, TcInv, CallInv
<1>2. tcp' = [tcp EXCEPT ![t] = q]
  BY DEF TcEndOfBuffer
<1>3. p \in PcapType
  BY <1>1 DEF SoundPcap
<1> HIDE DEF p
<1>4. q \in PcapType /\ q.instance = p.instance /\ q.buffer = p.buffer
      /\ q.card = p.card /\ q.seen = p.seen /\ q.arrived = p.arrived /\ q.brk = p.brk
      /\ q.asked = p.asked /\ q.after = p.after
  BY <1>3 DEF PcapType
<1> HIDE DEF q
<1>5. SoundPcap(q)
  BY <1>1, <1>4 DEF SoundPcap, AllThere
<1> QED
  BY <1>1, <1>2, <1>5, ValueKeeps

LEMMA TcFilteredOutKeeps ==
  ASSUME TcInv, NEW t \in TcThreads, TcFilteredOut(t) PROVE TcInv'
<1> DEFINE p == tcp[t]
           q == TcTaken(p)
<1>1. /\ tcTh[t].calls # << >> /\ UNCHANGED <<tcApi, tcLeft>> /\ TcTypeOK
      /\ tcLeft' \in LeftType /\ SoundPcap(p) /\ p.buffer # << >> /\ tcApi.status = "LOADED"
  BY SameLeft, PcapFacts DEF TcFilteredOut, TcInv, CallInv, LoadInv, PastLoading
<1>2. tcp' = [tcp EXCEPT ![t] = q]
  BY DEF TcFilteredOut
<1>3. p \in PcapType /\ AllThere(p) /\ (~p.held => p.buffer = << >>)
  BY <1>1 DEF SoundPcap
<1>4. /\ q \in PcapType /\ q.held = p.held /\ q.buffer = Tail(p.buffer) /\ q.card = p.card
      /\ q.seen = Append(p.seen, Head(p.buffer)) /\ q.arrived = p.arrived
      /\ q.brk = p.brk /\ q.asked = p.asked /\ q.after = p.after
  BY <1>1, <1>3, TakenValue
<1>5. Moved(t, "loop")
  BY <1>1, GoesMoves DEF TcFilteredOut, TcPlaces
<1>6. LocalStep(t, "loop", q)
  BY <1>1, <1>2, <1>5 DEF LocalStep
<1> HIDE DEF p, q
<1>7. AllThere(q)
  BY <1>1, <1>3, <1>4, TakenIsThere
<1>8. Sound(t, "loop", q)
  BY <1>1, <1>3, <1>4, <1>7 DEF Sound, SoundPcap, TcPlaces, Loading
<1> QED
  BY <1>6, <1>8, LocalKeeps

LEMMA TcCallbackKeeps ==
  ASSUME TcInv, NEW t \in TcThreads, TcCallback(t) PROVE TcInv'
<1> DEFINE p == tcp[t]
           q == TcHanded(p)
           n == tcTh[t].n + 1
<1>1. /\ tcTh[t].calls # << >> /\ UNCHANGED <<tcApi, tcLeft>> /\ TcTypeOK
      /\ tcLeft' \in LeftType /\ SoundPcap(p) /\ p.buffer # << >> /\ p.after = 0
      /\ tcApi.status = "LOADED"
  BY SameLeft, PcapFacts DEF TcCallback, TcInv, CallInv, LoadInv, BreakInv, PastLoading
<1>2. tcp' = [tcp EXCEPT ![t] = q]
  BY DEF TcCallback
<1>3. p \in PcapType /\ AllThere(p) /\ (~p.held => p.buffer = << >>) /\ p.brk = p.asked
  BY <1>1 DEF SoundPcap
<1>4. /\ q \in PcapType /\ q.instance = p.instance /\ q.held = p.held
      /\ q.buffer = Tail(p.buffer) /\ q.card = p.card
      /\ q.seen = Append(p.seen, Head(p.buffer)) /\ q.arrived = p.arrived
      /\ q.brk = p.brk /\ q.asked = p.asked
      /\ q.after = IF p.asked THEN p.after + 1 ELSE p.after
  BY <1>1, <1>3, HandedValue
<1>5. TcReturns(t) \/ tcTh' = [tcTh EXCEPT ![t].at = "loop", ![t].n = n]
  BY DEF TcCallback
<1>6. n \in Nat
  BY <1>1 DEF TcTypeOK, ThreadType
<1> HIDE DEF p, q, n
<1>7. SoundPcap(q)
  <2>1. AllThere(q)
    BY <1>1, <1>3, <1>4, TakenIsThere
  <2>2. q.after \in {0, 1} /\ (q.after = 1 => q.brk) /\ q.brk = q.asked
    BY <1>1, <1>3, <1>4
  <2> QED
    BY <1>1, <1>3, <1>4, <2>1, <2>2 DEF SoundPcap
<1>8. CASE TcReturns(t)
  BY <1>1, <1>2, <1>7, <1>8, ValueKeeps
<1>9. CASE tcTh' = [tcTh EXCEPT ![t].at = "loop", ![t].n = n]
  <2>1. Moved(t, "loop")
    BY <1>1, <1>6, <1>9 DEF Moved, TcTypeOK, ThreadType, TcPlaces
  <2>2. LocalStep(t, "loop", q)
    BY <1>1, <1>2, <2>1 DEF LocalStep
  <2>3. Sound(t, "loop", q)
    BY <1>1, <1>7 DEF Sound, SoundPcap, TcPlaces, Loading
  <2> QED
    BY <2>2, <2>3, LocalKeeps
<1> QED
  BY <1>5, <1>8, <1>9

-----------------------------------------------------------------------------
(* The port and pcap_breakloop, while the thread is anywhere in its call.  *)
LEMMA AnywhereKeeps ==
  ASSUME TcInv, NEW t \in TcThreads, tcp[t].instance, UNCHANGED <<tcApi, tcTh>>,
         tcLeft' \in LeftType, NEW q, tcp' = [tcp EXCEPT ![t] = q], SoundPcap(q),
         q.held = tcp[t].held, q.after = tcp[t].after
  PROVE  TcInv'
<1> DEFINE at == tcTh[t].at
<1>1. Moved(t, at) /\ at \in TcPlaces
  BY DEF Moved, TcInv, TcTypeOK, ThreadType
<1>2. LocalStep(t, at, q)
  BY <1>1 DEF LocalStep
<1>3. /\ tcApi.status = "LOADED" /\ at \notin Loading
      /\ at # "main" => tcTh[t].calls # << >>
      /\ at = "activate" => TcArg(t) \in TcPorts
      /\ at = "receive" => ~tcp[t].held
      /\ at = "query" => tcp[t].after = 0
  BY DEF TcInv, LoadInv, CallInv, BufferInv, BreakInv
<1> HIDE DEF at
<1>4. Sound(t, at, q)
  BY <1>1, <1>3 DEF Sound, SoundPcap
<1> QED
  BY <1>2, <1>4, LocalKeeps

LEMMA TcArriveKeeps ==
  ASSUME TcInv, NEW t \in TcThreads, TcArrive(t) PROVE TcInv'
<1> DEFINE p == tcp[t]
           q == Arrived(p)
<1>1. /\ p.instance /\ UNCHANGED <<tcApi, tcTh>> /\ tcLeft' \in LeftType /\ SoundPcap(p)
      /\ tcp' = [tcp EXCEPT ![t] = q]
  <2>1. tcLeft' \in LeftType
    BY DEF TcArrive, TcInv, TcTypeOK, LeftType
  <2> QED
    BY <2>1, PcapFacts, Zenon DEF TcArrive, Arrived
<1>2. p \in PcapType /\ AllThere(p)
  BY <1>1 DEF SoundPcap
<1>3. /\ q \in PcapType /\ q.instance = p.instance /\ q.held = p.held /\ q.buffer = p.buffer
      /\ q.card = Append(p.card, p.arrived + 1) /\ q.seen = p.seen
      /\ q.arrived = p.arrived + 1
      /\ q.brk = p.brk /\ q.asked = p.asked /\ q.after = p.after
  BY <1>2, ArrivedValue
<1> HIDE DEF q
<1>4. AllThere(q)
  BY <1>2, <1>3, ArrivedIsThere
<1>5. SoundPcap(q)
  BY <1>1, <1>3, <1>4 DEF SoundPcap
<1> QED
  BY <1>1, <1>3, <1>5, AnywhereKeeps

LEMMA BreakLoopKeeps ==
  ASSUME TcInv, NEW t \in TcThreads, BreakLoop(t) PROVE TcInv'
<1> DEFINE p == tcp[t]
           q == BreakAsked(p)
<1>1. /\ p.instance /\ UNCHANGED <<tcApi, tcTh>> /\ tcLeft' \in LeftType /\ SoundPcap(p)
      /\ tcp' = [tcp EXCEPT ![t] = q]
  BY PcapFacts DEF BreakLoop, TcInv, TcTypeOK, LeftType
<1>2. p \in PcapType
  BY <1>1 DEF SoundPcap
<1>3. /\ q \in PcapType /\ q.instance = p.instance /\ q.held = p.held /\ q.buffer = p.buffer
      /\ q.card = p.card /\ q.seen = p.seen /\ q.arrived = p.arrived
      /\ q.brk /\ q.asked /\ q.after = p.after
  BY <1>2, BreakValues
<1> HIDE DEF q
<1>4. q.brk = q.asked
  BY <1>3 DEF PcapType
<1>5. SoundPcap(q)
  BY <1>1, <1>3, <1>4 DEF SoundPcap, AllThere
<1> QED
  BY <1>1, <1>3, <1>5, AnywhereKeeps

-----------------------------------------------------------------------------
LEMMA StartIsSound == TcStart => TcInv
<1> SUFFICES ASSUME TcStart PROVE TcInv
  OBVIOUS
<1>1. PICK calls \in [TcThreads -> Seq(TcOperations)] :
        tcTh = [t \in TcThreads |-> TcAt("main", calls[t])]
  BY DEF TcStart
<1>2. \A t \in TcThreads : tcTh[t].at = "main" /\ tcp[t] = NoPcap
  BY <1>1 DEF TcStart, TcInit, TcAt
<1>3. tcApi = [status |-> "UNLOADED", dll |-> FALSE, table |-> "empty"]
  BY DEF TcStart, TcInit
<1>4. /\ NoPcap \in PcapType /\ ~NoPcap.instance /\ ~NoPcap.held /\ NoPcap.buffer = << >>
      /\ NoPcap.card = << >> /\ NoPcap.seen = << >> /\ NoPcap.arrived = 0
      /\ NoPcap.brk = NoPcap.asked /\ NoPcap.after = 0
  BY EmptySeq DEF NoPcap, PcapType
<1>5. AllThere(NoPcap)
  BY <1>4, NothingThere
<1>6. TcTypeOK
  BY <1>1, <1>3, <1>4 DEF TcTypeOK, TcStart, TcInit, TcAt, ThreadType, LeftType, TcPlaces
<1>7. OneLoader /\ LoadedIsWhole
  BY <1>2, <1>3 DEF OneLoader, LoadedIsWhole, Loading
<1>8. ASSUME NEW t \in TcThreads PROVE LoadInv(t) /\ CallInv(t) /\ BufferInv(t) /\ BreakInv(t)
  BY <1>2, <1>4, <1>5 DEF LoadInv, CallInv, BufferInv, BreakInv, Loading, PastLoading
<1> QED
  BY <1>6, <1>7, <1>8 DEF TcInv

LEMMA StepIsSound == TcInv /\ [TcNext]_tcVars => TcInv'
<1> SUFFICES ASSUME TcInv, [TcNext]_tcVars PROVE TcInv'
  OBVIOUS
<1>1. CASE UNCHANGED tcVars
  BY <1>1 DEF tcVars, TcInv, TcTypeOK, OneLoader, LoadedIsWhole, LoadInv, CallInv, TcArg,
              BufferInv, AllThere, BreakInv
<1>2. ASSUME NEW t \in TcThreads, TcThreadNext(t) \/ TcArrive(t) \/ BreakLoop(t)
      PROVE  TcInv'
  BY <1>2, LoadEnterKeeps, LoadLibrarySafeKeeps, GetProcAddressesKeeps, LoadPublishesKeeps,
     LoadGivesUpKeeps, LoadWaitsKeeps, FailureKeeps, CallKeeps, IsTcDeviceKeeps, TcActivateKeeps,
     InstanceOpenFailsKeeps, TcCleanupKeeps, TcReadEnterKeeps, TcReceiveKeeps, TcLoopKeeps,
     TcEndOfBufferKeeps, TcFilteredOutKeeps, TcCallbackKeeps, TcSetFilterKeeps, TcStatsKeeps,
     TcInjectKeeps, TcArriveKeeps, BreakLoopKeeps
  DEF TcThreadNext
<1> QED
  BY <1>1, <1>2 DEF TcNext

(* TcRead, pcap_breakloop and LoadTcFunctions (pcap-tc.c): the table of    *)
(* TcApi.dll is whole for whoever may call through it, every packet of a   *)
(* port is seen once and in order whatever ends the reads, and a break     *)
(* lets at most the packet in hand through.                                *)
THEOREM TurboCapReads == TcSpec => []TcReads
<1>1. TcInv => TcReads
  <2>1. TcInv => TableComplete
    BY DEF TcInv, LoadInv, LoadedIsWhole, PastLoading, TableComplete
  <2>2. TcInv => NothingSkipped
    <3>1. TcInv => \A t \in TcThreads : AllThere(tcp[t])
      BY DEF TcInv, BufferInv
    <3> QED
      BY <3>1, Zenon DEF AllThere, NothingSkipped
  <2>3. TcInv => BreaksSoon
    <3>1. TcInv => \A t \in TcThreads : tcp[t].after \in {0, 1}
      BY DEF TcInv, BreakInv
    <3> QED
      <4>1. \A n \in {0, 1} : n <= 1
        OBVIOUS
      <4> QED
        BY <3>1, <4>1 DEF BreaksSoon
  <2> QED
    BY <2>1, <2>2, <2>3 DEF TcReads
<1> QED
  BY <1>1, StartIsSound, StepIsSound, PTL DEF TcSpec

-----------------------------------------------------------------------------
(* WanPacket, for any ring, any frames, and any sequence of reads and      *)
(* control calls: the ring is a queue (WanFIFO), and a read that waits for *)
(* ever does so below MinToCopy (WanReaderWoken).                          *)

Longest == CHOOSE n \in FrameLengths : \A m \in FrameLengths : n >= m

WanType ==
  [mode : Modes, size : Nat, C : Nat, P : Nat, free : Nat, mtc : Nat, timeout : Timeouts,
   event : BOOLEAN, filter : BOOLEAN, dropped : Nat, accepted : Nat, received : Nat,
   npackets : Nat]

WanTypeOK ==
  /\ wan \in WanType
  /\ frame \in [pc : {"idle", "stat", "capt"}, id : 0 .. WanFrames, len : Nat, snap : 0 .. Longest]
  /\ frame.pc # "idle" => frame.id \in 1 .. WanFrames
  /\ reader \in [pc : {"idle", "wait", "lock", "drain", "report"}, buf : Nat, copied : Nat]
  /\ wanLeft \in [frames : 0 .. WanFrames, calls : Nat]
  /\ wanQueue \in Seq(Packets)
  /\ missed \in BOOLEAN

-----------------------------------------------------------------------------
(* The packets q lie one after the other in a ring of s bytes, from c on:  *)
(* off has the distance of each from c, and last that of the free part.    *)
Layout(off, q, c, used, s) ==
  /\ off \in [1 .. Len(q) + 1 -> 0 .. s]
  /\ off[1] = 0 /\ off[Len(q) + 1] = used
  /\ \A i \in 1 .. Len(q) :
       /\ At(c, off[i], s) \in HeaderPositions(s)
       /\ off[i + 1] = off[i] + PacketCost(At(c, off[i], s), q[i].len, s)
       /\ off[i] + q[i].len + HdrSize <= used
  /\ \A i, j \in 1 .. Len(q) + 1 : i <= j => off[i] <= off[j]

\* byte d of a stored packet
ByteOf(r, d) == IF d < HdrSize THEN Byte("header", r.id, r.len)
                               ELSE Byte("data", r.id, d - HdrSize)

Contents(m, off, q, c, s) ==
  \A i \in 1 .. Len(q) : \A d \in 0 .. HdrSize + q[i].len - 1 :
    m[At(c, off[i] + d, s)] = ByteOf(q[i], d)

(* The producer is where the used part ends; a ring too small for a header *)
(* stays empty.                                                            *)
Ends(c, p, used, s) ==
  /\ s \in Nat /\ used \in 0 .. s
  /\ s >= HdrSize => /\ c \in HeaderPositions(s) /\ p \in HeaderPositions(s)
                     /\ p \in {c + used, c + used - s}

RingHolds(m, q, c, p, used, s) ==
  /\ Ends(c, p, used, s)
  /\ \E off : Layout(off, q, c, used, s) /\ Contents(m, off, q, c, s)

(* What the callback has added since the event was reset is below          *)
(* MinToCopy, once the read that reset it has emptied the ring.            *)
Woken == ~wan.event => Used = 0 \/ Used < wan.mtc \/ missed \/ reader.pc = "drain"

WanInv ==
  /\ WanTypeOK
  /\ RingHolds(mem, wanQueue, wan.C, wan.P, Used, wan.size)
  /\ Woken

-----------------------------------------------------------------------------
\* No frame is longer than the longest.
LEMMA LongestFrame ==
  Longest \in Nat /\ \A n \in FrameLengths : n \in Nat /\ n <= Longest
<1>1. \E n \in FrameLengths : \A m \in FrameLengths : n >= m
  BY WanAssumption
<1>2. Longest \in FrameLengths /\ \A m \in FrameLengths : Longest >= m
  BY <1>1 DEF Longest
<1> QED  BY <1>2, WanAssumption

\* A packet is a number and a captured length.
LEMMA PacketFields ==
  /\ Packets = [id : 1 .. WanFrames, len : 1 .. Longest]
  /\ \A r \in Packets : r.id \in Nat /\ r.len \in Nat
<1>1. Packets = [id : 1 .. WanFrames, len : 1 .. Longest]
  BY DEF Packets, Longest
<1> QED  BY <1>1, LongestFrame, WanAssumption

(* An empty ring.                                                          *)
LEMMA EmptyRing ==
  ASSUME NEW m, NEW s \in Nat, NEW c, NEW p, c = 0, p = 0
  PROVE  RingHolds(m, << >>, c, p, 0, s)
<1>1. Ends(c, p, 0, s)
  BY HdrSizeAssumption DEF Ends, HeaderPositions
<1> DEFINE off == [i \in 1 .. 1 |-> 0]
<1>2. Layout(off, << >>, c, 0, s)
  BY DEF Layout
<1>3. Contents(m, off, << >>, c, s)
  BY DEF Contents
<1> QED  BY <1>1, <1>2, <1>3 DEF RingHolds

(* A packet is stored where the free part starts.                          *)
Written(m2, m, r, p, s) ==
  \A x \in 0 .. s - 1 :
    m2[x] = IF Ahead(p, x, s) < HdrSize + r.len THEN ByteOf(r, Ahead(p, x, s)) ELSE m[x]

\* Storing a packet at P keeps the others and adds one at the end.
LEMMA RingAppend ==
  ASSUME NEW m, NEW q \in Seq(Packets), NEW c, NEW p, NEW used, NEW s,
         RingHolds(m, q, c, p, used, s),
         NEW r \in Packets, used + r.len + HdrSize <= s,
         NEW m2, Written(m2, m, r, p, s)
  PROVE  /\ used + PacketCost(p, r.len, s) <= s
         /\ PacketCost(p, r.len, s) \in Nat
         /\ NextPacket(p, r.len, s) \in Nat
         /\ RingHolds(m2, Append(q, r), c, NextPacket(p, r.len, s),
                      used + PacketCost(p, r.len, s), s)
<1> DEFINE n == Len(q)
           cost == PacketCost(p, r.len, s)
           p2 == NextPacket(p, r.len, s)
           t == Append(q, r)
<1>1. r.len \in Nat /\ n \in Nat /\ \A i \in 1 .. n : q[i] \in Packets /\ q[i].len \in Nat
  BY PacketFields, LenProperties, ElementOfSeq
<1>2. /\ s \in Nat /\ used \in 0 .. s /\ s >= HdrSize
      /\ c \in HeaderPositions(s) /\ p \in HeaderPositions(s)
      /\ p \in {c + used, c + used - s} /\ used < s
  BY <1>1, HdrSizeAssumption DEF RingHolds, Ends
<1>3. /\ cost \in r.len + HdrSize .. r.len + HdrSize + HdrSize /\ cost \in Nat
      /\ p2 \in HeaderPositions(s) /\ p2 \in {p + cost, p + cost - s}
      /\ used + cost <= s
  <2>1. r.len + HdrSize <= s  BY <1>1, <1>2, HdrSizeAssumption
  <2> QED  BY <2>1, <1>1, <1>2, PacketBounds, NextIsCostAhead, TailFits
<1>4. p = At(c, used, s) /\ p \in 0 .. s - 1 /\ c \in 0 .. s - 1
  BY <1>2, HdrSizeAssumption DEF At, HeaderPositions
<1>5. PICK off : Layout(off, q, c, used, s) /\ Contents(m, off, q, c, s)
  BY DEF RingHolds
<1>6. /\ t \in Seq(Packets) /\ Len(t) = n + 1 /\ t[n + 1] = r
      /\ \A i \in 1 .. n : t[i] = q[i]
  BY AppendProperties
<1> DEFINE off2 == [i \in 1 .. n + 2 |-> IF i = n + 2 THEN used + cost ELSE off[i]]
<1> HIDE DEF n, cost, p2, t
<1>7. /\ off2 \in [1 .. n + 2 -> 0 .. s] /\ off2[n + 2] = used + cost
      /\ \A i \in 1 .. n + 1 : off2[i] = off[i] /\ off[i] \in 0 .. used
      /\ off[n + 1] = used
  <2>1. /\ off \in [1 .. n + 1 -> 0 .. s] /\ off[n + 1] = used
        /\ \A i \in 1 .. n + 1 : off[i] <= off[n + 1]
    <3>1. n + 1 \in 1 .. n + 1 /\ \A i \in 1 .. n + 1 : i <= n + 1
      BY <1>1
    <3> QED  BY <3>1, <1>5 DEF Layout, n
  <2>2. \A i \in 1 .. n + 1 : off[i] \in 0 .. used
    BY <2>1, <1>2
  <2>3. \A i \in 1 .. n + 2 : i # n + 2 => i \in 1 .. n + 1
    BY <1>1
  <2> QED  BY <2>1, <2>2, <2>3, <1>1, <1>2, <1>3
<1>8. Layout(off2, t, c, used + cost, s)
  <2>1. off2 \in [1 .. Len(t) + 1 -> 0 .. s] /\ off2[1] = 0 /\ off2[Len(t) + 1] = used + cost
    <3>1. off2[1] = 0  BY <1>1, <1>5, <1>7 DEF Layout
    <3> QED  BY <1>1, <1>6, <1>7, <3>1
  <2>2. ASSUME NEW i \in 1 .. n + 1
        PROVE  /\ At(c, off2[i], s) \in HeaderPositions(s)
               /\ off2[i + 1] = off2[i] + PacketCost(At(c, off2[i], s), t[i].len, s)
               /\ off2[i] + t[i].len + HdrSize <= used + cost
    <3>1. CASE i = n + 1
      <4>1. off2[i] = used /\ t[i] = r /\ off2[i + 1] = used + cost
        BY <3>1, <1>1, <1>6, <1>7
      <4>2. used + r.len + HdrSize <= used + cost
        BY <1>1, <1>2, <1>3, HdrSizeAssumption
      <4>3. At(c, used, s) = p /\ used + PacketCost(p, r.len, s) = used + cost
        BY <1>4 DEF cost
      <4>4. At(c, off2[i], s) = p /\ t[i].len = r.len  BY <4>1, <4>3
      <4> HIDE DEF cost
      <4> QED  BY <4>1, <4>2, <4>3, <4>4, <1>2
    <3>2. CASE i \in 1 .. n
      <4>1. off2[i] = off[i] /\ off2[i + 1] = off[i + 1] /\ t[i] = q[i] /\ off[i] \in Nat
        <5>1. i \in 1 .. n + 1 /\ i + 1 \in 1 .. n + 1 /\ \A k \in 0 .. used : k \in Nat
          BY <3>2, <1>1, <1>2
        <5> QED  BY <3>2, <5>1, <1>1, <1>6, <1>7
      <4>2. /\ At(c, off[i], s) \in HeaderPositions(s)
            /\ off[i + 1] = off[i] + PacketCost(At(c, off[i], s), q[i].len, s)
            /\ off[i] + q[i].len + HdrSize <= used
        BY <3>2, <1>5 DEF Layout, n
      <4>3. off[i] + q[i].len + HdrSize <= used + cost
        <5>1. \A a \in Nat, l \in Nat : a + l + HdrSize <= used => a + l + HdrSize <= used + cost
          BY <1>2, <1>3, HdrSizeAssumption
        <5>2. q[i].len \in Nat  BY <3>2, <1>1
        <5> QED  BY <4>1, <4>2, <5>1, <5>2
      <4> QED  BY <4>1, <4>2, <4>3
    <3> QED  BY <3>1, <3>2, <1>1
  <2>3. ASSUME NEW i \in 1 .. n + 2, NEW j \in 1 .. n + 2, i <= j
        PROVE  off2[i] <= off2[j]
    <3>1. CASE j = n + 2
      <4>1. off2[i] <= used + cost
        <5>1. CASE i = n + 2  BY <5>1, <1>2, <1>3, <1>7
        <5>2. CASE i \in 1 .. n + 1
          <6>1. off2[i] \in 0 .. used  BY <5>2, <1>7
          <6> QED  BY <6>1, <1>2, <1>3
        <5> QED  BY <5>1, <5>2, <1>1
      <4> QED  BY <4>1, <3>1, <1>7
    <3>2. CASE j \in 1 .. n + 1
      <4>1. i \in 1 .. n + 1  BY <2>3, <3>2, <1>1
      <4>2. off[i] <= off[j]  BY <2>3, <3>2, <4>1, <1>5 DEF Layout, n
      <4> QED  BY <4>1, <4>2, <3>2, <1>7
    <3> QED  BY <3>1, <3>2, <1>1
  <2>4. Len(t) = n + 1 /\ Len(t) + 1 = n + 2  BY <1>1, <1>6
  <2> HIDE DEF off2
  <2> QED  BY <2>1, <2>2, <2>3, <2>4 DEF Layout
<1>9. Contents(m2, off2, t, c, s)
  <2> HIDE DEF off2
  <2> SUFFICES ASSUME NEW i \in 1 .. n + 1, NEW d \in 0 .. HdrSize + t[i].len - 1
               PROVE  m2[At(c, off2[i] + d, s)] = ByteOf(t[i], d)
    BY <1>6 DEF Contents
  <2>1. CASE i = n + 1
    <3>1. off2[i] = used /\ t[i] = r  BY <2>1, <1>1, <1>6, <1>7
    <3>2. d \in 0 .. HdrSize + r.len - 1 /\ d < HdrSize + r.len /\ d \in 0 .. s - 1 /\ used + d < s
          /\ d \in Nat /\ used \in Nat
      BY <3>1, <1>1, <1>2, HdrSizeAssumption
    <3>3. At(c, used + d, s) = At(p, d, s)
      BY <3>2, <1>2, <1>4, AtAt
    <3>4. Ahead(p, At(p, d, s), s) = d /\ At(p, d, s) \in 0 .. s - 1
      BY <3>2, <1>2, <1>4, AheadOfAt
    <3> QED  BY <3>1, <3>2, <3>3, <3>4 DEF Written
  <2>2. CASE i \in 1 .. n
    <3>1. off2[i] = off[i] /\ t[i] = q[i] /\ off[i] \in Nat /\ q[i].len \in Nat
      <4>1. i \in 1 .. n + 1 /\ \A k \in 0 .. used : k \in Nat  BY <2>2, <1>1, <1>2
      <4> QED  BY <2>2, <4>1, <1>1, <1>6, <1>7
    <3>2. off[i] + q[i].len + HdrSize <= used /\ m[At(c, off[i] + d, s)] = ByteOf(q[i], d)
      BY <2>2, <3>1, <1>5 DEF Layout, Contents, n
    <3> DEFINE x == off[i] + d
    <3>3. x \in 0 .. used - 1 /\ used \in 0 .. s - 1
      <4>1. d \in 0 .. HdrSize + q[i].len - 1  BY <3>1
      <4>2. \A a \in Nat, l \in Nat : \A e \in 0 .. HdrSize + l - 1 :
              a + l + HdrSize <= used => a + e \in 0 .. used - 1
        BY <1>2, HdrSizeAssumption
      <4>3. used \in 0 .. s - 1  BY <1>2
      <4> QED  BY <4>1, <4>2, <4>3, <3>1, <3>2
    <3> HIDE DEF x
    <3>4. Ahead(p, At(c, x, s), s) = s - used + x /\ At(c, x, s) \in 0 .. s - 1
      BY <3>3, <1>2, <1>4, UsedIsFarAhead
    <3>5. ~(s - used + x < HdrSize + r.len)
      <4> DEFINE l == r.len
      <4>1. used + l + HdrSize <= s /\ l \in Nat  BY <1>1
      <4> HIDE DEF l
      <4>2. ~(s - used + x < HdrSize + l)  BY <3>3, <4>1, <1>2, HdrSizeAssumption
      <4> QED  BY <4>2 DEF l
    <3>6. m2[At(c, x, s)] = m[At(c, x, s)]
      BY <3>4, <3>5 DEF Written
    <3> QED  BY <3>1, <3>2, <3>6 DEF x
  <2> QED  BY <2>1, <2>2, <1>1
<1>10. Ends(c, p2, used + cost, s)
  BY <1>2, <1>3, HdrSizeAssumption DEF Ends, HeaderPositions
<1>11. RingHolds(m2, t, c, p2, used + cost, s)
  BY <1>8, <1>9, <1>10 DEF RingHolds
<1>12. p2 \in Nat
  BY <1>2, <1>3 DEF HeaderPositions
<1> QED  BY <1>3, <1>11, <1>12 DEF t, p2, cost

(* What the first packet of the ring is, and where its bytes are.          *)
OldestAt(m, q, c, s) ==
  /\ q # << >> /\ Head(q) \in Packets
  /\ c \in HeaderPositions(s) /\ Head(q).len + HdrSize <= s
  /\ \A d \in 0 .. HdrSize + Head(q).len - 1 : m[At(c, d, s)] = ByteOf(Head(q), d)

\* The packet at C lies whole in the ring.
LEMMA OldestPacket ==
  ASSUME NEW m, NEW q \in Seq(Packets), NEW c, NEW p, NEW used, NEW s,
         RingHolds(m, q, c, p, used, s), used > 0
  PROVE  OldestAt(m, q, c, s)
<1>1. PICK off : Layout(off, q, c, used, s) /\ Contents(m, off, q, c, s)
  BY DEF RingHolds
<1>2. q # << >>
  BY <1>1 DEF Layout
<1>3. Head(q) \in Packets /\ Head(q) = q[1] /\ 1 \in 1 .. Len(q)
  BY <1>2, HeadTailProperties, LenProperties, EmptySeq
<1>4. q[1].len \in Nat  BY <1>3, PacketFields
<1>5. s \in Nat /\ used \in 0 .. s /\ off[1] = 0 /\ off[1] + q[1].len + HdrSize <= used
  BY <1>1, <1>3 DEF RingHolds, Ends, Layout
<1>6. q[1].len + HdrSize <= s /\ s >= HdrSize
  BY <1>4, <1>5, HdrSizeAssumption
<1>7. c \in HeaderPositions(s)
  BY <1>6 DEF RingHolds, Ends
<1>8. \A d \in 0 .. HdrSize + q[1].len - 1 : m[At(c, d, s)] = ByteOf(q[1], d)
  <2> TAKE d \in 0 .. HdrSize + q[1].len - 1
  <2>1. m[At(c, off[1] + d, s)] = ByteOf(q[1], d)
    BY <1>1, <1>3 DEF Contents
  <2>2. off[1] + d = d  BY <1>4, <1>5, HdrSizeAssumption
  <2> QED  BY <2>1, <2>2
<1> QED  BY <1>2, <1>3, <1>6, <1>7, <1>8 DEF OldestAt

(* It leaves; the others stay where they are.                              *)
LEMMA RingTail ==
  ASSUME NEW m, NEW q \in Seq(Packets), NEW c, NEW p, NEW used, NEW s,
         RingHolds(m, q, c, p, used, s), used > 0
  PROVE  /\ PacketCost(c, Head(q).len, s) \in Nat
         /\ NextPacket(c, Head(q).len, s) \in Nat
         /\ PacketCost(c, Head(q).len, s) <= used
         /\ RingHolds(m, Tail(q), NextPacket(c, Head(q).len, s), p,
                      used - PacketCost(c, Head(q).len, s), s)
<1> DEFINE n == Len(q)
           cost == PacketCost(c, Head(q).len, s)
           c2 == NextPacket(c, Head(q).len, s)
           t == Tail(q)
<1>1. PICK off : Layout(off, q, c, used, s) /\ Contents(m, off, q, c, s)
  BY DEF RingHolds
<1>2. q # << >> /\ c \in HeaderPositions(s) /\ Head(q).len + HdrSize <= s /\ Head(q) \in Packets
  BY OldestPacket DEF OldestAt
<1>3. /\ n \in Nat /\ n >= 1 /\ Head(q) = q[1] /\ 1 \in 1 .. n /\ 2 \in 1 .. n + 1
      /\ t \in Seq(Packets) /\ Len(t) = n - 1 /\ \A i \in 1 .. n - 1 : t[i] = q[i + 1]
  <2>1. n \in Nat /\ n >= 1  BY <1>2, EmptySeq, LenProperties
  <2>2. t \in Seq(Packets) /\ Len(t) = n - 1 /\ \A i \in 1 .. n - 1 : t[i] = q[i + 1]
    BY <1>2, HeadTailProperties
  <2>3. Head(q) = q[1]  BY <1>2, HeadTailProperties
  <2> QED  BY <2>1, <2>2, <2>3
<1>4. \A i \in 1 .. n : q[i].len \in Nat
  BY PacketFields, ElementOfSeq
<1>5. /\ s \in Nat /\ used \in 0 .. s /\ s >= HdrSize /\ p \in HeaderPositions(s)
      /\ p \in {c + used, c + used - s}
  BY <1>2, <1>3, <1>4, HdrSizeAssumption DEF RingHolds, Ends
<1>6. /\ cost \in Nat /\ c2 \in HeaderPositions(s) /\ c2 \in {c + cost, c + cost - s}
      /\ cost >= HdrSize
  <2> DEFINE l == Head(q).len
  <2>1. l \in Nat /\ l + HdrSize <= s  BY <1>2, <1>3, <1>4
  <2> HIDE DEF l
  <2>2. /\ PacketCost(c, l, s) \in l + HdrSize .. l + HdrSize + HdrSize
        /\ NextPacket(c, l, s) \in HeaderPositions(s)
        /\ NextPacket(c, l, s) \in {c + PacketCost(c, l, s), c + PacketCost(c, l, s) - s}
    BY <1>2, <1>5, <2>1, PacketBounds, NextIsCostAhead
  <2>3. \A k \in l + HdrSize .. l + HdrSize + HdrSize : k \in Nat /\ k >= HdrSize
    BY <2>1, HdrSizeAssumption
  <2> QED  BY <2>2, <2>3 DEF l
<1>7. off[1] = 0 /\ off[2] = cost /\ off[n + 1] = used
  <2>1. /\ off[1] = 0 /\ off[n + 1] = used
        /\ off[1 + 1] = off[1] + PacketCost(At(c, off[1], s), q[1].len, s)
    BY <1>1, <1>3 DEF Layout
  <2>2. At(c, off[1], s) = c
    BY <1>2, <1>5, <2>1, HdrSizeAssumption DEF At, HeaderPositions
  <2>3. off[1 + 1] = 0 + cost  BY <1>3, <2>1, <2>2
  <2> HIDE DEF cost
  <2> QED  BY <1>6, <2>1, <2>3
<1> HIDE DEF n, cost, c2, t
<1>8. \A i \in 2 .. n + 1 : off[i] \in cost .. used /\ off[i] \in Nat
  <2> TAKE i \in 2 .. n + 1
  <2>1. i \in 1 .. n + 1 /\ n + 1 \in 1 .. n + 1 /\ 2 <= i /\ i <= n + 1
    BY <1>3
  <2>2. off[2] <= off[i] /\ off[i] <= off[n + 1] /\ off[i] \in 0 .. s
    BY <1>1, <1>3, <2>1 DEF Layout, n
  <2> QED  BY <1>5, <1>6, <1>7, <2>2
<1>9. cost <= used /\ cost \in 0 .. s
  <2>1. off[2] \in cost .. used  BY <1>3, <1>8
  <2> QED  BY <2>1, <1>5, <1>6, <1>7
<1> DEFINE off2 == [i \in 1 .. n |-> off[i + 1] - cost]
<1>10. /\ off2 \in [1 .. n -> 0 .. s] /\ off2[1] = 0 /\ off2[n] = used - cost
       /\ \A i \in 1 .. n : off2[i] = off[i + 1] - cost
  <2>1. \A i \in 1 .. n : off[i + 1] - cost \in 0 .. s
    <3> TAKE i \in 1 .. n
    <3>1. i + 1 \in 2 .. n + 1  BY <1>3
    <3>2. off[i + 1] \in cost .. used  BY <3>1, <1>8
    <3> QED  BY <3>2, <1>5, <1>6
  <2>2. off2[1] = off[1 + 1] - cost /\ off2[n] = off[n + 1] - cost
    BY <1>3
  <2>3. off[1 + 1] = cost /\ cost - cost = 0
    BY <1>6, <1>7
  <2> QED  BY <2>1, <2>2, <2>3, <1>7
<1> HIDE DEF off2
<1>11. ASSUME NEW i \in 1 .. n - 1, NEW d \in Nat, off[i + 1] + d <= s
       PROVE  /\ At(c2, off2[i] + d, s) = At(c, off[i + 1] + d, s)
              /\ At(c2, off2[i], s) = At(c, off[i + 1], s)
  <2>1. i \in 1 .. n /\ i + 1 \in 2 .. n + 1  BY <1>3
  <2>2. off[i + 1] \in cost .. used /\ off2[i] = off[i + 1] - cost
    BY <2>1, <1>8, <1>10
  <2> DEFINE a == off[i + 1]
             x == off[i + 1] + d
  <2>3. a \in cost .. s /\ x \in cost .. s /\ x - cost = off2[i] + d /\ a - cost = off2[i]
    <3>1. \A k \in cost .. used : k + d <= s =>
            k \in cost .. s /\ k + d \in cost .. s /\ (k + d) - cost = (k - cost) + d
      BY <1>5, <1>6
    <3> QED  BY <2>2, <3>1, <1>11
  <2> HIDE DEF a, x
  <2>4. At(c2, x - cost, s) = At(c, x, s) /\ At(c2, a - cost, s) = At(c, a, s)
    BY <2>3, <1>2, <1>5, <1>6, <1>9, PositionKept
  <2> QED  BY <2>3, <2>4 DEF a, x
<1>12. ASSUME NEW i \in 1 .. n - 1
       PROVE  /\ i + 1 \in 1 .. n /\ i \in 1 .. n /\ t[i] = q[i + 1]
              /\ At(c, off[i + 1], s) \in HeaderPositions(s)
              /\ off[(i + 1) + 1] = off[i + 1] + PacketCost(At(c, off[i + 1], s), q[i + 1].len, s)
              /\ off[i + 1] + q[i + 1].len + HdrSize <= used
              /\ off[i + 1] \in Nat /\ q[i + 1].len \in Nat
  <2>1. i + 1 \in 1 .. n /\ i \in 1 .. n /\ i + 1 \in 2 .. n + 1 /\ t[i] = q[i + 1]
    BY <1>3
  <2>2. q[i + 1].len \in Nat /\ off[i + 1] \in Nat  BY <2>1, <1>4, <1>8
  <2> QED  BY <2>1, <2>2, <1>1 DEF Layout, n
<1>13. Layout(off2, t, c2, used - cost, s)
  <2>1. Len(t) + 1 = n /\ Len(t) = n - 1  BY <1>3
  <2>2. ASSUME NEW i \in 1 .. n - 1
        PROVE  /\ At(c2, off2[i], s) \in HeaderPositions(s)
               /\ off2[i + 1] = off2[i] + PacketCost(At(c2, off2[i], s), t[i].len, s)
               /\ off2[i] + t[i].len + HdrSize <= used - cost
    <3> DEFINE k == PacketCost(At(c, off[i + 1], s), q[i + 1].len, s)
    <3>1. off[i + 1] + 0 <= s /\ 0 \in Nat
      <4>1. i + 1 \in 2 .. n + 1  BY <1>3
      <4>2. off[i + 1] \in cost .. used  BY <4>1, <1>8
      <4> QED  BY <4>2, <1>5
    <3>2. At(c2, off2[i], s) = At(c, off[i + 1], s)  BY <3>1, <1>11
    <3>3. off2[i] = off[i + 1] - cost /\ off2[i + 1] = off[(i + 1) + 1] - cost
      <4>1. i + 1 \in 1 .. n /\ i \in 1 .. n  BY <1>12
      <4> QED  BY <4>1, <1>10
    <3>4. off[i + 1] \in Nat /\ q[i + 1].len \in Nat /\ off[(i + 1) + 1] = off[i + 1] + k
          /\ off[i + 1] + q[i + 1].len + HdrSize <= used /\ t[i] = q[i + 1]
      BY <1>12
    <3>5. off[(i + 1) + 1] \in Nat
      <4>1. (i + 1) + 1 \in 2 .. n + 1  BY <1>3
      <4> QED  BY <4>1, <1>8
    <3>6. k \in Int
      <4>1. \A z \in HeaderPositions(s), l \in Nat : PacketCost(z, l, s) \in Int
        BY <1>5, HdrSizeAssumption DEF PacketCost, EndOfPacket, AfterHeader, AfterData, Increment,
           InTail, HeaderPositions
      <4>2. At(c, off[i + 1], s) \in HeaderPositions(s) /\ q[i + 1].len \in Nat  BY <1>12
      <4> QED  BY <4>1, <4>2
    <3>7. PacketCost(At(c2, off2[i], s), t[i].len, s) = k
      BY <3>2, <3>4
    <3> HIDE DEF k
    <3>8. off2[i + 1] = off2[i] + k
      BY <3>3, <3>4, <3>6, <1>6
    <3>9. off2[i] + q[i + 1].len + HdrSize <= used - cost
      <4>1. \A a \in Nat, l \in Nat : a + l + HdrSize <= used => (a - cost) + l + HdrSize <= used - cost
        BY <1>5, <1>6, HdrSizeAssumption
      <4> QED  BY <4>1, <3>3, <3>4
    <3> QED  BY <3>2, <3>4, <3>7, <3>8, <3>9, <1>12
  <2>3. ASSUME NEW i \in 1 .. n, NEW j \in 1 .. n, i <= j
        PROVE  off2[i] <= off2[j]
    <3>1. i + 1 \in 1 .. n + 1 /\ j + 1 \in 1 .. n + 1 /\ i + 1 <= j + 1
          /\ i + 1 \in 2 .. n + 1 /\ j + 1 \in 2 .. n + 1
      BY <2>3, <1>3
    <3>2. off[i + 1] <= off[j + 1]  BY <3>1, <1>1 DEF Layout, n
    <3>3. off[i + 1] \in Nat /\ off[j + 1] \in Nat  BY <3>1, <1>8
    <3> QED  BY <3>2, <3>3, <1>6, <1>10
  <2> QED  BY <2>1, <2>2, <2>3, <1>10 DEF Layout
<1>14. Contents(m, off2, t, c2, s)
  <2> SUFFICES ASSUME NEW i \in 1 .. n - 1, NEW d \in 0 .. HdrSize + t[i].len - 1
               PROVE  m[At(c2, off2[i] + d, s)] = ByteOf(t[i], d)
    BY <1>3 DEF Contents
  <2>1. /\ i + 1 \in 1 .. n /\ t[i] = q[i + 1] /\ off[i + 1] + q[i + 1].len + HdrSize <= used
        /\ off[i + 1] \in Nat /\ q[i + 1].len \in Nat
    BY <1>12
  <2>2. d \in 0 .. HdrSize + q[i + 1].len - 1  BY <2>1
  <2>3. d \in Nat /\ off[i + 1] + d <= s
    <3>1. \A a \in Nat, l \in Nat : \A e \in 0 .. HdrSize + l - 1 :
            a + l + HdrSize <= used => e \in Nat /\ a + e <= s
      BY <1>5, HdrSizeAssumption
    <3> QED  BY <2>1, <2>2, <3>1
  <2>4. At(c2, off2[i] + d, s) = At(c, off[i + 1] + d, s)
    BY <2>3, <1>11
  <2>5. m[At(c, off[i + 1] + d, s)] = ByteOf(q[i + 1], d)
    BY <2>1, <2>2, <1>1 DEF Contents, n
  <2> QED  BY <2>1, <2>4, <2>5
<1>15. Ends(c2, p, used - cost, s)
  <2>1. p \in {c2 + (used - cost), c2 + (used - cost) - s}
    BY <1>2, <1>5, <1>6, <1>9, HdrSizeAssumption DEF HeaderPositions
  <2> QED  BY <2>1, <1>5, <1>6, <1>9 DEF Ends
<1>16. RingHolds(m, t, c2, p, used - cost, s)
  BY <1>13, <1>14, <1>15 DEF RingHolds
<1>17. c2 \in Nat  BY <1>5, <1>6 DEF HeaderPositions
<1> QED  BY <1>6, <1>9, <1>16, <1>17 DEF cost, c2, t

-----------------------------------------------------------------------------
(* The reader finds at C the packet that has been in the ring longest.     *)
LEMMA ReadsTheOldest ==
  ASSUME WanInv, Used > 0
  PROVE  /\ wanQueue # << >> /\ Head(wanQueue).len \in Nat
         /\ CapLen(wan.C) = Head(wanQueue).len /\ PacketAt(wan.C) = Head(wanQueue)
<1> DEFINE r == Head(wanQueue)
           c == wan.C
           s == wan.size
<1>1. /\ wanQueue # << >> /\ r \in Packets
      /\ c \in HeaderPositions(s) /\ r.len + HdrSize <= s
      /\ \A d \in 0 .. HdrSize + r.len - 1 : mem[At(c, d, s)] = ByteOf(r, d)
  <2>1. RingHolds(mem, wanQueue, wan.C, wan.P, Used, wan.size) /\ wanQueue \in Seq(Packets)
    BY DEF WanInv, WanTypeOK
  <2>2. OldestAt(mem, wanQueue, wan.C, wan.size)  BY <2>1, OldestPacket
  <2> QED  BY <2>2 DEF OldestAt
<1>2. r.len \in Nat /\ s \in Nat /\ r = [id |-> r.id, len |-> r.len]
  <2>1. r \in [id : 1 .. WanFrames, len : 1 .. Longest]  BY <1>1, PacketFields
  <2> QED  BY <1>1, <2>1, PacketFields DEF WanInv, WanTypeOK, WanType
<1> HIDE DEF r, c, s
<1>3. /\ c \in 0 .. s - 1 /\ At(c, 0, s) = c /\ 0 \in 0 .. HdrSize - 1
      /\ 0 \in 0 .. HdrSize + r.len - 1 /\ 0 < HdrSize
  BY <1>1, <1>2, HdrSizeAssumption DEF At, HeaderPositions
<1>4. mem[c] = Byte("header", r.id, r.len)
  BY <1>1, <1>3 DEF ByteOf
<1>5. \A j \in 0 .. HdrSize - 1 : mem[At(c, j, s)] = mem[c]
  <2> TAKE j \in 0 .. HdrSize - 1
  <2>1. j \in 0 .. HdrSize + r.len - 1 /\ j < HdrSize  BY <1>2, HdrSizeAssumption
  <2> QED  BY <1>1, <1>4, <2>1 DEF ByteOf
<1>6. \A j \in 0 .. r.len - 1 : mem[At(AfterHeader(c, s), j, s)] = Byte("data", r.id, j)
  <2> TAKE j \in 0 .. r.len - 1
  <2>1. /\ j \in Nat /\ HdrSize \in Nat /\ HdrSize + j < s /\ HdrSize + j \in 0 .. HdrSize + r.len - 1
        /\ ~(HdrSize + j < HdrSize) /\ (HdrSize + j) - HdrSize = j
    BY <1>1, <1>2, HdrSizeAssumption
  <2>2. AfterHeader(c, s) = At(c, HdrSize, s)  BY <1>1, <1>2, AfterHeaderIsAhead
  <2>3. At(At(c, HdrSize, s), j, s) = At(c, HdrSize + j, s)
    BY <1>2, <1>3, <2>1, AtAt
  <2>4. mem[At(c, HdrSize + j, s)] = ByteOf(r, HdrSize + j)
    BY <1>1, <2>1
  <2> QED  BY <2>1, <2>2, <2>3, <2>4 DEF ByteOf
<1>7. /\ mem[c].what = "header" /\ mem[c].id = r.id /\ mem[c].k = r.len
  BY <1>4 DEF Byte
<1>8. CapLen(c) = r.len  BY <1>7 DEF CapLen
<1>9. PacketAt(c) = [id |-> r.id, len |-> r.len]
  BY <1>5, <1>6, <1>7 DEF PacketAt, s
<1> QED  BY <1>1, <1>2, <1>8, <1>9 DEF r, c

-----------------------------------------------------------------------------
\* A step that leaves the ring and its packets alone.
RingQuiet ==
  /\ wan'.C = wan.C /\ wan'.P = wan.P /\ wan'.free = wan.free /\ wan'.size = wan.size
  /\ mem' = mem /\ wanQueue' = wanQueue /\ wanRead' = wanRead

RingOK == RingHolds(mem, wanQueue, wan.C, wan.P, Used, wan.size)

\* The ring does not notice such a step.
LEMMA QuietKeepsRing ==
  ASSUME RingOK, RingQuiet
  PROVE  RingOK' /\ Used' = Used
<1>1. Used' = Used  BY DEF RingQuiet, Used
<1> QED  BY <1>1 DEF RingQuiet, RingOK

\* What a step proves: the invariant, and a step of PacketFIFO.
Step == WanInv' /\ [Fifo!Next]_<<wanQueue, wanRead>>

\* To PacketFIFO such a step is a stutter.
LEMMA QuietStep ==
  ASSUME WanInv, RingQuiet, WanTypeOK', Woken'
  PROVE  Step
<1>1. RingOK'  BY QuietKeepsRing DEF WanInv, RingOK
<1> QED  BY <1>1 DEF Step, WanInv, RingQuiet, RingOK

\* The fields of the adapter.
LEMMA Numbers ==
  ASSUME WanInv
  PROVE  /\ wan \in WanType /\ wanQueue \in Seq(Packets)
         /\ wan.size \in Nat /\ wan.free \in Nat /\ wan.mtc \in Nat
         /\ wan.received + 1 \in Nat /\ wan.accepted + 1 \in Nat /\ wan.dropped + 1 \in Nat
         /\ wan.npackets \in Nat /\ wan.npackets + 1 \in Nat
         /\ Used = wan.size - wan.free
<1>1. wan \in WanType /\ wanQueue \in Seq(Packets)
  BY DEF WanInv, WanTypeOK
<1>2. \A w \in WanType : w.size \in Nat /\ w.free \in Nat /\ w.mtc \in Nat
  BY DEF WanType
<1>3. \A w \in WanType : w.received \in Nat /\ w.accepted \in Nat
  BY DEF WanType
<1>4. \A w \in WanType : w.dropped \in Nat /\ w.npackets \in Nat
  BY DEF WanType
<1> DEFINE a == wan.received
           b == wan.accepted
           c == wan.dropped
           d == wan.npackets
<1>5. a \in Nat /\ b \in Nat /\ c \in Nat /\ d \in Nat
  BY <1>1, <1>3, <1>4
<1> HIDE DEF a, b, c, d
<1>6. a + 1 \in Nat /\ b + 1 \in Nat /\ c + 1 \in Nat /\ d + 1 \in Nat
  BY <1>5
<1> QED  BY <1>1, <1>2, <1>5, <1>6 DEF Used, a, b, c, d

\* A frame arrives: only the counters and, in monitor mode, the event change.
LEMMA ReceiverCallbackKeeps == ASSUME WanInv, ReceiverCallback PROVE Step
<1>1. RingQuiet  BY DEF ReceiverCallback, RingQuiet, WanInv, WanTypeOK, WanType
<1>2. PICK len \in FrameLengths : \E result \in FilterResults(len) :
        /\ frame' = [pc |-> "stat", id |-> WanFrames + 1 - wanLeft.frames, len |-> len,
                     snap |-> IF result > len THEN len ELSE result]
        /\ wan' = [wan EXCEPT !.received = @ + 1,
                              !.event = @ \/ (wan.mode = "mon" /\ result = 1)]
  BY DEF ReceiverCallback
<1>3. PICK result \in FilterResults(len) :
        /\ frame' = [pc |-> "stat", id |-> WanFrames + 1 - wanLeft.frames, len |-> len,
                     snap |-> IF result > len THEN len ELSE result]
        /\ wan' = [wan EXCEPT !.received = @ + 1,
                              !.event = @ \/ (wan.mode = "mon" /\ result = 1)]
  BY <1>2
<1>4. len \in Nat /\ len <= Longest /\ Longest \in Nat  BY LongestFrame
<1>5. result \in Nat  BY <1>4 DEF FilterResults
<1>6. (IF result > len THEN len ELSE result) \in 0 .. Longest
  BY <1>4, <1>5
<1>7. WanFrames + 1 - wanLeft.frames \in 1 .. WanFrames /\ wanLeft.frames - 1 \in 0 .. WanFrames
  <2>1. wanLeft.frames \in 0 .. WanFrames  BY DEF WanInv, WanTypeOK
  <2>2. wanLeft.frames > 0  BY DEF ReceiverCallback
  <2> DEFINE f == wanLeft.frames
  <2> HIDE DEF f
  <2>3. f \in 0 .. WanFrames /\ f > 0  BY <2>1, <2>2 DEF f
  <2>4. WanFrames + 1 - f \in 1 .. WanFrames /\ f - 1 \in 0 .. WanFrames  BY <2>3, WanAssumption
  <2> QED  BY <2>4 DEF f
<1>8. wan' \in WanType
  <2>1. \A w \in WanType, n \in Nat, b \in BOOLEAN :
          [w EXCEPT !.received = n, !.event = b] \in WanType
    BY DEF WanType
  <2> DEFINE b == wan.event \/ (wan.mode = "mon" /\ result = 1)
  <2>2. wan \in WanType /\ wan.received + 1 \in Nat  BY Numbers
  <2>3. b \in BOOLEAN
    <3>1. \A w \in WanType : w.event \in BOOLEAN  BY DEF WanType
    <3> QED  BY <2>2, <3>1
  <2>4. wan' = [wan EXCEPT !.received = wan.received + 1, !.event = b]  BY <1>3
  <2> HIDE DEF b
  <2> QED  BY <2>1, <2>2, <2>3, <2>4
<1>9. WanTypeOK'
  <2>1. frame' \in [pc : {"idle", "stat", "capt"}, id : 0 .. WanFrames, len : Nat, snap : 0 .. Longest]
        /\ frame'.id \in 1 .. WanFrames
    BY <1>3, <1>4, <1>6, <1>7, WanAssumption
  <2>2. wanLeft' \in [frames : 0 .. WanFrames, calls : Nat]
    BY <1>7 DEF ReceiverCallback, WanInv, WanTypeOK
  <2> QED  BY <1>8, <2>1, <2>2 DEF WanInv, WanTypeOK, ReceiverCallback
<1>10. Woken'
  <2>1. wan'.event = (wan.event \/ (wan.mode = "mon" /\ result = 1)) /\ wan'.mtc = wan.mtc
    BY <1>3 DEF WanInv, WanTypeOK, WanType
  <2>2. Used' = Used  BY <1>1, QuietKeepsRing DEF WanInv, RingOK
  <2>3. missed' = missed /\ reader' = reader  BY DEF ReceiverCallback
  <2> QED  BY <2>1, <2>2, <2>3 DEF WanInv, Woken
<1> QED  BY <1>1, <1>9, <1>10, QuietStep

LEMMA CallbackCountsKeeps == ASSUME WanInv, CallbackCounts PROVE Step
<1>1. RingQuiet  BY DEF CallbackCounts, RingQuiet, WanInv, WanTypeOK, WanType
<1>2. WanTypeOK'
  <2>1. wan' \in WanType
    <3>1. \A w \in WanType, n \in Nat : [w EXCEPT !.npackets = n] \in WanType
      BY DEF WanType
    <3> DEFINE n == IF wan.mode = "stat" THEN wan.npackets + 1 ELSE wan.npackets
    <3>2. wan \in WanType /\ n \in Nat  BY Numbers
    <3>3. wan' = [wan EXCEPT !.npackets = n]  BY DEF CallbackCounts
    <3> HIDE DEF n
    <3> QED  BY <3>1, <3>2, <3>3
  <2> QED  BY <2>1 DEF CallbackCounts, WanInv, WanTypeOK
<1>3. Woken'
  <2>1. wan'.event = wan.event /\ wan'.mtc = wan.mtc
    BY DEF CallbackCounts, WanInv, WanTypeOK, WanType
  <2>2. Used' = Used  BY <1>1, QuietKeepsRing DEF WanInv, RingOK
  <2> QED  BY <2>1, <2>2 DEF WanInv, Woken, CallbackCounts
<1> QED  BY <1>1, <1>2, <1>3, QuietStep

(* A step that leaves wan alone keeps the ring; most of those that do not  *)
(* change neither it nor what Woken is about.                              *)
WakeQuiet ==
  /\ wan'.event = wan.event /\ wan'.mtc = wan.mtc /\ missed' = missed
  /\ reader.pc = "drain" => reader'.pc = "drain"

\* Nor does the reader.
LEMMA QuietKeepsWoken ==
  ASSUME WanInv, RingQuiet, WakeQuiet
  PROVE  Woken'
<1>1. Used' = Used  BY QuietKeepsRing DEF WanInv, RingOK
<1> QED  BY <1>1 DEF WanInv, Woken, WakeQuiet

LEMMA ReceivePacketKeeps == ASSUME WanInv, ReceivePacket PROVE Step
<1>1. RingQuiet /\ WakeQuiet  BY DEF ReceivePacket, RingQuiet, WakeQuiet
<1>2. WanTypeOK'
  <2>1. reader' \in [pc : {"idle", "wait", "lock", "drain", "report"}, buf : Nat, copied : Nat]
    BY WanAssumption DEF ReceivePacket
  <2>2. wanLeft' \in [frames : 0 .. WanFrames, calls : Nat]
    BY DEF ReceivePacket, WanInv, WanTypeOK
  <2> QED  BY <2>1, <2>2 DEF ReceivePacket, WanInv, WanTypeOK
<1> QED  BY <1>1, <1>2, QuietStep, QuietKeepsWoken

LEMMA WaitForReadEventKeeps == ASSUME WanInv, WaitForReadEvent PROVE Step
<1>1. RingQuiet /\ WakeQuiet  BY DEF WaitForReadEvent, RingQuiet, WakeQuiet
<1>2. WanTypeOK'  BY DEF WaitForReadEvent, WanInv, WanTypeOK
<1> QED  BY <1>1, <1>2, QuietStep, QuietKeepsWoken

LEMMA EnterReadKeeps == ASSUME WanInv, EnterRead PROVE Step
<1>1. CASE wan.mode = "capt" /\ wan' = ResetEvent /\ reader' = [reader EXCEPT !.pc = "drain"]
  <2>1. RingQuiet  BY <1>1 DEF EnterRead, ResetEvent, RingQuiet, WanInv, WanTypeOK, WanType
  <2>2. wan' \in WanType  BY <1>1 DEF ResetEvent, WanInv, WanTypeOK, WanType
  <2>3. reader'.pc = "drain"  BY <1>1 DEF WanInv, WanTypeOK
  <2>4. WanTypeOK'  BY <1>1, <2>2 DEF EnterRead, WanInv, WanTypeOK
  <2>5. Woken'  BY <2>3 DEF Woken
  <2> QED  BY <2>1, <2>4, <2>5, QuietStep
<1>2. CASE UNCHANGED wan /\ reader' = [reader EXCEPT !.pc = "report"]
  <2>1. RingQuiet /\ WakeQuiet  BY <1>2 DEF EnterRead, RingQuiet, WakeQuiet
  <2>2. WanTypeOK'  BY <1>2 DEF EnterRead, WanInv, WanTypeOK
  <2> QED  BY <2>1, <2>2, QuietStep, QuietKeepsWoken
<1> QED  BY <1>1, <1>2 DEF EnterRead

\* Used grows and shrinks with what is taken of the free part.
LEMMA UsedByFree ==
  ASSUME NEW size \in Nat, NEW free \in Nat, NEW cost \in Nat
  PROVE  /\ size - (free - cost) = (size - free) + cost
         /\ size - (free + cost) = (size - free) - cost
         /\ (size - free) + cost <= size => free - cost \in Nat
         /\ free + cost \in Nat
  OBVIOUS

(* The two copies of WanPacketAddPacketToRingBuffer write the packet.      *)
LEMMA StoredBytes ==
  ASSUME NEW s \in Nat, NEW p \in HeaderPositions(s), NEW r, r.len \in Nat, r.len + HdrSize <= s
  PROVE  Written(Stored(r.id, r.len, p, s), mem, r, p, s)
<1> SUFFICES ASSUME NEW x \in 0 .. s - 1
             PROVE  Stored(r.id, r.len, p, s)[x]
                      = IF Ahead(p, x, s) < HdrSize + r.len THEN ByteOf(r, Ahead(p, x, s)) ELSE mem[x]
  BY DEF Written
<1> DEFINE n == r.len
           a == Ahead(p, x, s)
           b == Ahead(AfterHeader(p, s), x, s)
<1>1. p \in 0 .. s - 1 /\ HdrSize \in 0 .. s /\ n \in Nat
  BY HdrSizeAssumption DEF HeaderPositions
<1>2. /\ a \in 0 .. s - 1
      /\ Ahead(At(p, HdrSize, s), x, s) = IF a >= HdrSize THEN a - HdrSize ELSE a - HdrSize + s
  BY <1>1, AheadAt
<1>3. AfterHeader(p, s) = At(p, HdrSize, s)  BY AfterHeaderIsAhead
<1>4. Stored(r.id, n, p, s)[x] = IF a < HdrSize THEN Byte("header", r.id, n)
                                 ELSE IF b < n THEN Byte("data", r.id, b) ELSE mem[x]
  BY DEF Stored
<1>5. b = IF a >= HdrSize THEN a - HdrSize ELSE a - HdrSize + s  BY <1>2, <1>3
<1> HIDE DEF n, a, b
<1>6. /\ ~(a < HdrSize) => b = a - HdrSize /\ (b < n <=> a < HdrSize + n)
      /\ a < HdrSize => a < HdrSize + n
  BY <1>1, <1>2, <1>5, HdrSizeAssumption
<1>7. Stored(r.id, n, p, s)[x] = IF a < HdrSize + n THEN ByteOf(r, a) ELSE mem[x]
  <2>1. CASE a < HdrSize  BY <1>4, <1>6, <2>1 DEF ByteOf, n
  <2>2. CASE ~(a < HdrSize)  BY <1>4, <1>6, <2>2 DEF ByteOf
  <2> QED  BY <2>1, <2>2
<1> QED  BY <1>7 DEF a, n

LEMMA AddPacketKeeps ==
  ASSUME WanInv, frame.pc = "capt", frame.snap > 0, AddPacketToRingBuffer(frame.id, frame.snap),
         frame' = FrameIdle, UNCHANGED <<reader, wanLeft, wanRead>>
  PROVE  Step
<1> DEFINE r == [id |-> frame.id, len |-> frame.snap]
           n == frame.snap
           cost == PacketCost(wan.P, n, wan.size)
           p2 == NextPacket(wan.P, n, wan.size)
           free == wan.free - cost
<1>1. r \in Packets /\ n \in Nat /\ r.len = n /\ r.id = frame.id
  <2>1. frame.id \in 1 .. WanFrames /\ n \in 1 .. Longest /\ n \in Nat
    BY LongestFrame DEF WanInv, WanTypeOK
  <2> QED  BY <2>1, PacketFields
<1>2. wan.size \in Nat /\ wan.free \in Nat /\ wan.mtc \in Nat /\ wan.accepted + 1 \in Nat
      /\ wan \in WanType /\ Used = wan.size - wan.free /\ wanQueue \in Seq(Packets)
  BY Numbers
<1>3. RingHolds(mem, wanQueue, wan.C, wan.P, Used, wan.size)
  BY DEF WanInv
<1>4. Used + r.len + HdrSize <= wan.size
  BY <1>1, <1>2, HdrSizeAssumption DEF AddPacketToRingBuffer, Fits
<1>5. /\ mem' = Stored(frame.id, n, wan.P, wan.size)
      /\ wan' = [wan EXCEPT !.P = p2, !.free = free, !.accepted = wan.accepted + 1,
                            !.event = wan.event \/ WakesReader(free)]
      /\ missed' = (missed /\ ~WakesReader(free))
      /\ wanQueue' = Append(wanQueue, r)
  BY DEF AddPacketToRingBuffer
<1>6. Written(mem', mem, r, wan.P, wan.size)
  <2>1. wan.P \in HeaderPositions(wan.size) /\ n + HdrSize <= wan.size
    <3>1. Ends(wan.C, wan.P, Used, wan.size)  BY <1>3 DEF RingHolds
    <3>2. n + HdrSize <= wan.size
      <4>1. n + HdrSize <= wan.free /\ Used \in Nat  BY <1>5, <3>1, <1>2 DEF Ends, Fits, AddPacketToRingBuffer
      <4> QED  BY <1>1, <1>2, <4>1, HdrSizeAssumption
    <3>3. wan.size >= HdrSize  BY <1>1, <1>2, <3>2, HdrSizeAssumption
    <3> QED  BY <3>1, <3>2, <3>3 DEF Ends
  <2> QED  BY <1>1, <1>2, <1>5, <2>1, StoredBytes
<1> HIDE DEF r, n, cost, p2
<1>7. /\ Used + cost <= wan.size /\ cost \in Nat /\ p2 \in Nat
      /\ RingHolds(mem', Append(wanQueue, r), wan.C, p2, Used + cost, wan.size)
  BY <1>1, <1>2, <1>3, <1>4, <1>6, RingAppend DEF cost, p2
<1>8. free \in Nat /\ wan.size - free = Used + cost
  BY <1>2, <1>7, UsedByFree
<1> DEFINE e == wan.event \/ WakesReader(free)
<1>9. e \in BOOLEAN  BY <1>2 DEF WanType, WakesReader
<1> HIDE DEF free, e
<1>10. /\ wan' \in WanType /\ wan'.P = p2 /\ wan'.free = free /\ wan'.event = e
       /\ wan'.C = wan.C /\ wan'.size = wan.size /\ wan'.mtc = wan.mtc
  <2>1. \A w \in WanType, a \in Nat, b \in Nat, k \in Nat, f \in BOOLEAN :
          [w EXCEPT !.P = a, !.free = b, !.accepted = k, !.event = f] \in WanType
    BY DEF WanType
  <2>2. wan' = [wan EXCEPT !.P = p2, !.free = free, !.accepted = wan.accepted + 1, !.event = e]
    BY <1>5 DEF e
  <2>3. wan' \in WanType  BY <1>2, <1>7, <1>8, <1>9, <2>1, <2>2
  <2> QED  BY <1>2, <2>2, <2>3 DEF WanType
<1>11. Used' = Used + cost  BY <1>8, <1>10 DEF Used
<1>12. RingOK'  BY <1>5, <1>7, <1>10, <1>11 DEF RingOK
<1>13. WanTypeOK'
  <2>1. frame' \in [pc : {"idle", "stat", "capt"}, id : 0 .. WanFrames, len : Nat, snap : 0 .. Longest]
        /\ frame'.pc = "idle"
    BY LongestFrame, WanAssumption DEF FrameIdle
  <2>2. wanQueue' \in Seq(Packets)  BY <1>1, <1>2, <1>5, AppendProperties
  <2>3. missed' \in BOOLEAN  BY <1>5
  <2> QED  BY <1>10, <2>1, <2>2, <2>3 DEF WanInv, WanTypeOK
<1>14. Woken'
  <2>1. CASE WakesReader(free)
    BY <1>10, <2>1 DEF Woken, e
  <2>2. CASE ~WakesReader(free)
    <3>1. ~(Used + cost >= wan.mtc)  BY <1>8, <2>2 DEF WakesReader
    <3>2. Used' < wan'.mtc  BY <1>2, <1>7, <1>10, <1>11, <3>1
    <3> QED  BY <3>2 DEF Woken
  <2> QED  BY <2>1, <2>2
<1>15. Fifo!Accept
  <2> DEFINE q == wanQueue
             v == wanQueue'
  <2>1. v = Append(q, r) /\ q \in Seq(Packets) /\ r \in Packets  BY <1>1, <1>2, <1>5
  <2> HIDE DEF q, v
  <2>2. v # << >> /\ v[Len(v)] = r
    <3>1. v \in Seq(Packets) /\ Len(v) = Len(q) + 1 /\ v[Len(q) + 1] = r /\ Len(q) \in Nat
      BY <2>1, AppendProperties
    <3> QED  BY <3>1
  <2> QED  BY <2>1, <2>2 DEF Fifo!Accept, q, v
<1> QED  BY <1>12, <1>13, <1>14, <1>15 DEF Step, WanInv, RingOK, Fifo!Next

LEMMA CallbackCapturesKeeps == ASSUME WanInv, CallbackCaptures PROVE Step
<1>1. CASE wan.mode = "capt" /\ frame.snap > 0 /\ AddPacketToRingBuffer(frame.id, frame.snap)
  BY <1>1, AddPacketKeeps DEF CallbackCaptures
<1> SUFFICES ASSUME \/ wan' = [wan EXCEPT !.dropped = @ + 1]
                    \/ UNCHANGED wan,
                    UNCHANGED <<mem, missed, wanQueue>>
             PROVE  Step
  BY <1>1 DEF CallbackCaptures
<1>2. /\ wan' \in WanType /\ wan'.C = wan.C /\ wan'.P = wan.P /\ wan'.free = wan.free
      /\ wan'.size = wan.size /\ wan'.event = wan.event /\ wan'.mtc = wan.mtc
  <2>1. \A w \in WanType, k \in Nat : [w EXCEPT !.dropped = k] \in WanType
    BY DEF WanType
  <2>2. \A w \in WanType, k \in Nat : /\ [w EXCEPT !.dropped = k].C = w.C
                                      /\ [w EXCEPT !.dropped = k].P = w.P
                                      /\ [w EXCEPT !.dropped = k].free = w.free
    BY DEF WanType
  <2>3. \A w \in WanType, k \in Nat : /\ [w EXCEPT !.dropped = k].size = w.size
                                      /\ [w EXCEPT !.dropped = k].event = w.event
                                      /\ [w EXCEPT !.dropped = k].mtc = w.mtc
    BY DEF WanType
  <2>4. wan \in WanType /\ wan.dropped + 1 \in Nat  BY Numbers
  <2>5. CASE UNCHANGED wan  BY <2>4, <2>5
  <2>6. CASE wan' = [wan EXCEPT !.dropped = wan.dropped + 1]
    BY <2>1, <2>2, <2>3, <2>4, <2>6
  <2> QED  BY <2>5, <2>6
<1>3. RingQuiet /\ WakeQuiet  BY <1>2 DEF RingQuiet, WakeQuiet, CallbackCaptures
<1>4. WanTypeOK'
  <2>1. frame' \in [pc : {"idle", "stat", "capt"}, id : 0 .. WanFrames, len : Nat, snap : 0 .. Longest]
        /\ frame'.pc = "idle"
    BY LongestFrame, WanAssumption DEF CallbackCaptures, FrameIdle
  <2> QED  BY <1>2, <2>1 DEF CallbackCaptures, WanInv, WanTypeOK
<1> QED  BY <1>3, <1>4, QuietStep, QuietKeepsWoken

\* Packet_WORDALIGN of a length is a length.
LEMMA AlignedIsNat == ASSUME NEW n \in Nat PROVE Aligned(n) \in Nat
<1>1. \A a, b \in Nat : b > 0 => (a \div b) * b \in Nat
  OBVIOUS
<1>2. n + Align - 1 \in Nat /\ Align \in Nat /\ Align > 0  BY WanAssumption
<1> QED  BY <1>1, <1>2 DEF Aligned

LEMMA RemovePacketKeeps == ASSUME WanInv, RemovePacket PROVE Step
<1> DEFINE n == CapLen(wan.C)
           cost == PacketCost(wan.C, n, wan.size)
           c2 == NextPacket(wan.C, n, wan.size)
           free == wan.free + cost
<1>1. wan.size \in Nat /\ wan.free \in Nat /\ wan \in WanType /\ Used = wan.size - wan.free
      /\ wanQueue \in Seq(Packets) /\ RingHolds(mem, wanQueue, wan.C, wan.P, Used, wan.size)
  BY Numbers DEF WanInv
<1>2. Used > 0
  BY <1>1 DEF RemovePacket, MorePackets
<1>3. /\ wanQueue # << >> /\ n \in Nat /\ n = Head(wanQueue).len /\ PacketAt(wan.C) = Head(wanQueue)
  BY <1>2, ReadsTheOldest
<1>4. /\ wan' = [wan EXCEPT !.C = c2, !.free = free]
      /\ reader' = [reader EXCEPT !.copied = reader.copied + HdrSize + Aligned(n)]
      /\ wanRead' = Append(wanRead, Head(wanQueue)) /\ wanQueue' = Tail(wanQueue)
      /\ UNCHANGED <<mem, cs, frame, wanLeft, missed>> /\ reader.pc = "drain"
  BY <1>3 DEF RemovePacket
<1> HIDE DEF n, cost, c2
<1>5. /\ cost \in Nat /\ c2 \in Nat /\ cost <= Used
      /\ RingHolds(mem, Tail(wanQueue), c2, wan.P, Used - cost, wan.size)
  BY <1>1, <1>2, <1>3, RingTail DEF cost, c2
<1>6. free \in Nat /\ wan.size - free = Used - cost
  BY <1>1, <1>5, UsedByFree
<1> HIDE DEF free
<1>7. wan' \in WanType /\ wan'.C = c2 /\ wan'.free = free /\ wan'.P = wan.P /\ wan'.size = wan.size
  <2>1. \A w \in WanType, a \in Nat, b \in Nat : [w EXCEPT !.C = a, !.free = b] \in WanType
    BY DEF WanType
  <2>2. wan' \in WanType  BY <1>1, <1>4, <1>5, <1>6, <2>1
  <2> QED  BY <1>1, <1>4, <2>2 DEF WanType
<1>8. RingOK'
  <2>1. Used' = Used - cost  BY <1>6, <1>7 DEF Used
  <2> QED  BY <1>4, <1>5, <1>7, <2>1 DEF RingOK
<1>9. WanTypeOK'
  <2>1. reader.copied + HdrSize + Aligned(n) \in Nat
    <3>1. reader.copied \in Nat  BY DEF WanInv, WanTypeOK
    <3>2. Aligned(n) \in Nat  BY <1>3, AlignedIsNat
    <3>3. \A a, b \in Nat : a + HdrSize + b \in Nat  BY HdrSizeAssumption
    <3> QED  BY <3>1, <3>2, <3>3
  <2>2. reader' \in [pc : {"idle", "wait", "lock", "drain", "report"}, buf : Nat, copied : Nat]
        /\ reader'.pc = "drain"
    BY <1>4, <2>1 DEF WanInv, WanTypeOK
  <2>3. wanQueue' \in Seq(Packets)  BY <1>1, <1>3, <1>4, HeadTailProperties
  <2> QED  BY <1>4, <1>7, <2>2, <2>3 DEF WanInv, WanTypeOK
<1>10. Woken'
  <2>1. reader'.pc = "drain"  BY <1>4 DEF WanInv, WanTypeOK
  <2> QED  BY <2>1 DEF Woken
<1>11. Fifo!Deliver  BY <1>3, <1>4 DEF Fifo!Deliver
<1> QED  BY <1>8, <1>9, <1>10, <1>11 DEF Step, WanInv, RingOK, Fifo!Next

LEMMA DrainEndsKeeps == ASSUME WanInv, DrainEnds PROVE Step
<1>1. RingQuiet  BY DEF DrainEnds, RingQuiet
<1>2. WanTypeOK'  BY DEF DrainEnds, WanInv, WanTypeOK
<1>3. Woken'
  <2>1. Used' = Used /\ missed' = (Used > 0)
    BY <1>1, QuietKeepsRing DEF WanInv, RingOK, DrainEnds
  <2>2. Used \in Nat  BY DEF WanInv, RingHolds, Ends
  <2>3. Used = 0 \/ Used > 0  BY <2>2
  <2>4. Used' = 0 \/ missed'  BY <2>1, <2>3
  <2> QED  BY <2>4 DEF Woken
<1> QED  BY <1>1, <1>2, <1>3, QuietStep

LEMMA ReportStatisticsKeeps == ASSUME WanInv, ReportStatistics PROVE Step
<1> DEFINE n == IF wan.mode = "stat" /\ reader.buf >= HdrSize + 2 THEN 0 ELSE wan.npackets
<1>1. wan' = [wan EXCEPT !.npackets = n] /\ n \in Nat /\ wan \in WanType
  BY Numbers DEF ReportStatistics
<1> HIDE DEF n
<1>2. wan' \in WanType  BY <1>1 DEF WanType
<1>3. RingQuiet /\ WakeQuiet
  BY <1>1 DEF ReportStatistics, RingQuiet, WakeQuiet, WanType
<1>4. WanTypeOK'
  BY <1>2 DEF ReportStatistics, ReaderIdle, WanInv, WanTypeOK
<1> QED  BY <1>3, <1>4, QuietStep, QuietKeepsWoken

\* One call less to come.
LEMMA OneCallLess ==
  ASSUME WanTypeOK, Control
  PROVE  wanLeft' \in [frames : 0 .. WanFrames, calls : Nat]
BY DEF WanTypeOK, Control

LEMMA SetModeKeeps == ASSUME WanInv, SetMode PROVE Step
<1>1. PICK m \in Modes : wan' = [wan EXCEPT !.mode = m]  BY DEF SetMode
<1>2. wan' \in WanType  BY <1>1 DEF WanInv, WanTypeOK, WanType
<1>3. RingQuiet /\ WakeQuiet
  BY <1>1 DEF SetMode, RingQuiet, WakeQuiet, WanInv, WanTypeOK, WanType
<1>4. WanTypeOK'  BY <1>2, OneCallLess DEF SetMode, WanInv, WanTypeOK
<1> QED  BY <1>3, <1>4, QuietStep, QuietKeepsWoken

LEMMA SetReadTimeoutKeeps == ASSUME WanInv, SetReadTimeout PROVE Step
<1>1. PICK to \in Timeouts : wan' = [wan EXCEPT !.timeout = to]  BY DEF SetReadTimeout
<1>2. wan' \in WanType  BY <1>1 DEF WanInv, WanTypeOK, WanType
<1>3. RingQuiet /\ WakeQuiet
  BY <1>1 DEF SetReadTimeout, RingQuiet, WakeQuiet, WanInv, WanTypeOK, WanType
<1>4. WanTypeOK'  BY <1>2, OneCallLess DEF SetReadTimeout, WanInv, WanTypeOK
<1> QED  BY <1>3, <1>4, QuietStep, QuietKeepsWoken

LEMMA SetMinToCopyKeeps == ASSUME WanInv, SetMinToCopy PROVE Step
<1>1. PICK n \in MinToCopies :
        wan' = [wan EXCEPT !.mtc = n] /\ missed' = (missed \/ (Used > 0 /\ Used >= n))
  BY DEF SetMinToCopy
<1>2. n \in Nat  BY WanAssumption
<1>3. wan' \in WanType /\ wan'.mtc = n /\ wan'.event = wan.event
  BY <1>1, <1>2 DEF WanInv, WanTypeOK, WanType
<1>4. RingQuiet
  BY <1>1 DEF SetMinToCopy, RingQuiet, WanInv, WanTypeOK, WanType
<1>5. WanTypeOK'  BY <1>1, <1>3, OneCallLess DEF SetMinToCopy, WanInv, WanTypeOK
<1>6. Woken'
  <2>1. Used' = Used  BY <1>4, QuietKeepsRing DEF WanInv, RingOK
  <2>2. Used \in Nat  BY DEF WanInv, RingHolds, Ends
  <2>3. Used = 0 \/ Used < n \/ (Used > 0 /\ Used >= n)  BY <1>2, <2>2
  <2>4. Used' = 0 \/ Used' < wan'.mtc \/ missed'  BY <1>1, <1>3, <2>1, <2>3
  <2> QED  BY <2>4 DEF Woken
<1> QED  BY <1>4, <1>5, <1>6, QuietStep

(* A control call that empties the ring is a reset of PacketFIFO.          *)
LEMMA EmptiedStep ==
  ASSUME WanInv, Control, Discards, wan' \in WanType,
         wan'.C = 0, wan'.P = 0, wan'.free = wan'.size
  PROVE  Step
<1>1. wanQueue' = << >> /\ wanRead' = << >> /\ missed' = FALSE /\ UNCHANGED <<cs, frame, reader>>
  BY DEF Discards
<1>2. wan'.size \in Nat  BY DEF WanType
<1>3. Used' = 0  BY <1>2 DEF Used
<1>4. RingHolds(mem', << >>, wan'.C, wan'.P, 0, wan'.size)
  <2> DEFINE c == wan'.C
             p == wan'.P
             s == wan'.size
             m == mem'
  <2>1. c = 0 /\ p = 0 /\ s \in Nat  BY <1>2
  <2> HIDE DEF c, p, s, m
  <2>2. RingHolds(m, << >>, c, p, 0, s)  BY <2>1, EmptyRing
  <2> QED  BY <2>2 DEF c, p, s, m
<1>5. RingOK'  BY <1>1, <1>3, <1>4 DEF RingOK
<1>6. WanTypeOK'
  <2>1. << >> \in Seq(Packets)  BY EmptySeq
  <2> QED  BY <1>1, <2>1, OneCallLess DEF WanInv, WanTypeOK
<1>7. Woken'  BY <1>3 DEF Woken
<1>8. Fifo!Reset  BY <1>1 DEF Fifo!Reset
<1> QED  BY <1>5, <1>6, <1>7, <1>8 DEF Step, WanInv, RingOK, Fifo!Next

LEMMA SetBpfFilterKeeps == ASSUME WanInv, SetBpfFilter PROVE Step
<1>1. PICK present \in BOOLEAN :
        wan' = [Emptied(wan) EXCEPT !.filter = present, !.accepted = 0, !.dropped = 0,
                                    !.received = 0, !.npackets = 0]
  BY DEF SetBpfFilter
<1>2. Emptied(wan) \in WanType /\ Emptied(wan).C = 0 /\ Emptied(wan).P = 0
      /\ Emptied(wan).free = wan.size /\ Emptied(wan).size = wan.size
  BY DEF Emptied, WanInv, WanTypeOK, WanType
<1>3. \A w \in WanType, b \in BOOLEAN :
        [w EXCEPT !.filter = b, !.accepted = 0, !.dropped = 0, !.received = 0, !.npackets = 0]
          \in WanType
  BY DEF WanType
<1>4. wan' \in WanType  BY <1>1, <1>2, <1>3
<1>5. wan'.C = 0 /\ wan'.P = 0 /\ wan'.free = wan'.size
  BY <1>1, <1>2 DEF WanType
<1> QED  BY <1>4, <1>5, EmptiedStep DEF SetBpfFilter

LEMMA SetBufferSizeKeeps == ASSUME WanInv, SetBufferSize PROVE Step
<1>1. PICK s \in RingSizes : wan' = Emptied([wan EXCEPT !.size = s])
  BY DEF SetBufferSize
<1>2. s \in Nat  BY WanAssumption
<1>3. wan' \in WanType /\ wan'.C = 0 /\ wan'.P = 0 /\ wan'.free = wan'.size
  BY <1>1, <1>2 DEF Emptied, WanInv, WanTypeOK, WanType
<1> QED  BY <1>3, EmptiedStep DEF SetBufferSize

-----------------------------------------------------------------------------
LEMMA WanStarts == WanStart => WanInv /\ Fifo!Init
<1> SUFFICES ASSUME WanStart  PROVE WanInv /\ Fifo!Init
  OBVIOUS
<1>1. /\ wan = WanPacketOpened /\ frame = FrameIdle /\ reader = ReaderIdle
      /\ wanQueue = << >> /\ wanRead = << >> /\ missed = FALSE
      /\ wanLeft \in [frames : 0 .. WanFrames, calls : Nat]
  BY DEF WanStart, WanInit
<1>2. wan \in WanType /\ wan.C = 0 /\ wan.P = 0 /\ wan.size = 0 /\ wan.free = 0
  BY <1>1 DEF WanPacketOpened, WanType, Modes, Timeouts
<1>3. Used = 0  BY <1>2 DEF Used
<1>4. WanTypeOK
  <2>1. << >> \in Seq(Packets)  BY EmptySeq
  <2>2. frame \in [pc : {"idle", "stat", "capt"}, id : 0 .. WanFrames, len : Nat, snap : 0 .. Longest]
        /\ frame.pc = "idle"
    BY <1>1, LongestFrame, WanAssumption DEF FrameIdle
  <2> QED  BY <1>1, <1>2, <2>1, <2>2 DEF WanTypeOK, ReaderIdle
<1>5. RingHolds(mem, wanQueue, wan.C, wan.P, Used, wan.size)
  <2> DEFINE c == wan.C
             p == wan.P
             s == wan.size
  <2>1. c = 0 /\ p = 0 /\ s \in Nat  BY <1>2
  <2> HIDE DEF c, p, s
  <2>2. RingHolds(mem, << >>, c, p, 0, s)  BY <2>1, EmptyRing
  <2> QED  BY <1>1, <1>3, <2>2 DEF c, p, s
<1>6. Woken  BY <1>3 DEF Woken
<1> QED  BY <1>1, <1>4, <1>5, <1>6 DEF WanInv, Fifo!Init

LEMMA WanSteps == ASSUME WanInv, [WanNext]_wanVars PROVE Step
<1>1. CASE UNCHANGED wanVars
  <2>1. RingQuiet /\ WakeQuiet  BY <1>1 DEF wanVars, RingQuiet, WakeQuiet
  <2>2. WanTypeOK'  BY <1>1 DEF wanVars, WanInv, WanTypeOK
  <2> QED  BY <2>1, <2>2, QuietStep, QuietKeepsWoken
<1> QED
  BY <1>1, ReceiverCallbackKeeps, CallbackCountsKeeps, CallbackCapturesKeeps, ReceivePacketKeeps,
     WaitForReadEventKeeps, EnterReadKeeps, RemovePacketKeeps, DrainEndsKeeps,
     ReportStatisticsKeeps, SetModeKeeps, SetBpfFilterKeeps, SetBufferSizeKeeps,
     SetMinToCopyKeeps, SetReadTimeoutKeeps
  DEF WanNext

(* WanPacketAddPacketToRingBuffer and WanPacketRemovePacketsFromRingBuffer *)
(* implement the safety part of PacketFIFO: each walks the ring with its   *)
(* own copy of the arithmetic, and what the one stores the other reads,    *)
(* whole, once and in order, until a control call empties the ring.        *)
THEOREM WanRingIsAFifo == WanSpec => WanFIFO
<1>1. WanInv /\ [WanNext]_wanVars => WanInv' /\ [Fifo!Next]_<<wanQueue, wanRead>>
  BY WanSteps DEF Step
<1> QED  BY <1>1, WanStarts, PTL DEF WanSpec, WanFIFO, Fifo!SafeSpec

(* The ResetEvent before the first packet is removed, and the SetEvent of  *)
(* WanPacketAddPacketToRingBuffer: a read with an infinite timeout waits   *)
(* only while less than MinToCopy bytes have arrived since the ring was    *)
(* emptied, if no buffer was too small and MinToCopy was not lowered.      *)
THEOREM WanReadersAreWoken == WanSpec => []WanReaderWoken
<1>1. WanInv => WanReaderWoken
  BY DEF WanInv, Woken, WanReaderWoken
<1>2. WanInv /\ [WanNext]_wanVars => WanInv'
  BY WanSteps DEF Step
<1> QED  BY <1>1, <1>2, WanStarts, PTL DEF WanSpec

-----------------------------------------------------------------------------
(* The driver of Windows 9x.                                               *)

HasFields(o) == {"life", "rcv"} \subseteq DOMAIN o /\ o.rcv \in Seq(VxCallArgs)

AppTyped(a) ==
  /\ {"at", "calls", "ioctls", "plan", "reads"} = DOMAIN a
  /\ a.calls \in Seq(VxCall) /\ a.ioctls \in Seq(VxCall) /\ a.reads \in Nat

VxTypes ==
  /\ vxd \in [extension : {"none", "ready", "freed"}, instances : Int, list : Seq(Programs),
              files : SUBSET Programs]
  /\ DOMAIN open9x = Programs /\ \A p \in Programs : HasFields(open9x[p])
  /\ DOMAIN app = Programs /\ \A p \in Programs : AppTyped(app[p])
  /\ timers \subseteq [of : Programs, nr : Nat] /\ IsFiniteSet(timers)

NoOpens(c) == \A k \in DOMAIN c : c[k].do # "open"
OpensOnlyFirst(c) == \A k \in DOMAIN c : k # 1 => c[k].do # "open"

(* Where a program is, for the life of its instance, and what an instance  *)
(* that is not open cannot have.                                           *)
Pending9x == InDriver \cup {"opening", "asking"}

Place(a, o) ==
  /\ OpensOnlyFirst(a.ioctls)
  /\ a.at \in Pending9x => a.ioctls # << >>
  /\ a.at \in InDriver => o.life = "open"
  /\ o.life = "opening" => a.at = "opening"
  /\ a.at = "ioctl" => o.life = "none" \/ NoOpens(a.ioctls)
  /\ o.life # "open" => o.rcv = << >>

HandleOf9x(p) ==
  /\ open9x[p].life # "none" => p \in vxd.files
  /\ app[p].at = "ioctl" => p \in vxd.files \/ NoOpens(app[p].ioctls)
  /\ open9x[p].life = "freed" => "unboundListed" \in exits9x

(* OpenList: the open instances, and those NDIS has had freed, each once.  *)
Opening9x == {p \in Programs : open9x[p].life = "opening"}
InList == {vxd.list[k] : k \in DOMAIN vxd.list}

OpenList ==
  /\ InList = {p \in Programs : open9x[p].life \in {"open", "freed"}}
  /\ \A j, k \in DOMAIN vxd.list : vxd.list[j] = vxd.list[k] => j = k
  /\ Len(vxd.list) + Cardinality(Opening9x) <= vxd.instances
  /\ vxd.extension # "ready" => vxd.list = << >> /\ Opening9x = {}

TimersOf(p) == {t \in timers : t.of = p}

ReadTimers(p) ==
  /\ \A t \in TimersOf(p) : t.nr <= app[p].reads /\ (app[p].at = "arm" => t.nr < app[p].reads)
  /\ "readsLost" \notin exits9x =>
       Len(open9x[p].rcv) <= Cardinality(TimersOf(p)) + (IF app[p].at = "arm" THEN 1 ELSE 0)
  /\ exits9x \cap {"unboundListed", "timerLeft"} = {} /\ TimersOf(p) # {} => open9x[p].life = "open"

VxInv ==
  /\ VxTypes
  /\ \A p \in Programs : Place(app[p], open9x[p]) /\ HandleOf9x(p) /\ ReadTimers(p)
  /\ OpenList


-----------------------------------------------------------------------------
(* Programs.                                                               *)

(* Without a request that opens, what is left of the requests has none.    *)
LEMMA TailHasNoOpens ==
  ASSUME NEW c \in Seq(VxCall), c # << >>, OpensOnlyFirst(c)
  PROVE  Tail(c) \in Seq(VxCall) /\ NoOpens(Tail(c)) /\ OpensOnlyFirst(Tail(c))
<1>1. Tail(c) \in Seq(VxCall) /\ Len(Tail(c)) = Len(c) - 1 /\ Len(c) \in Nat
  BY HeadTailProperties, LenProperties
<1>2. \A k \in DOMAIN Tail(c) : Tail(c)[k] = c[k + 1] /\ k + 1 \in DOMAIN c /\ k + 1 # 1
  BY <1>1
<1>3. NoOpens(Tail(c))
  BY <1>2 DEF NoOpens, OpensOnlyFirst
<1>4. QED
  BY <1>1, <1>3 DEF NoOpens, OpensOnlyFirst

(* The record of a program after a request that has succeeded or failed.   *)
LEMMA SucceedsRecord ==
  ASSUME NEW a, AppTyped(a), a.ioctls # << >>, OpensOnlyFirst(a.ioctls)
  PROVE  /\ AppTyped(Succeeds(a)) /\ NoOpens(Succeeds(a).ioctls) /\ OpensOnlyFirst(Succeeds(a).ioctls)
         /\ Succeeds(a).at \in {"main", "ioctl"} /\ Succeeds(a).reads = a.reads
<1>1. Tail(a.ioctls) \in Seq(VxCall) /\ NoOpens(Tail(a.ioctls)) /\ OpensOnlyFirst(Tail(a.ioctls))
  BY TailHasNoOpens DEF AppTyped
<1>2. QED
  BY <1>1 DEF AppTyped, Succeeds

LEMMA FailsRecord ==
  ASSUME NEW a, AppTyped(a)
  PROVE  /\ AppTyped(Fails(a)) /\ NoOpens(Fails(a).ioctls) /\ OpensOnlyFirst(Fails(a).ioctls)
         /\ Fails(a).at = "main" /\ Fails(a).reads = a.reads
  BY DEF AppTyped, Fails, NoOpens, OpensOnlyFirst

(* A request, and short sequences of them.                                 *)
LEMMA CallTyped ==
  ASSUME NEW do \in VxCallNames, NEW arg \in VxCallArgs
  PROVE  Call(do, arg) \in VxCall /\ Call(do, arg).do = do
  BY DEF Call, VxCall

LEMMA OneTwoThree ==
  ASSUME NEW x \in VxCall, NEW y \in VxCall, NEW z \in VxCall
  PROVE  /\ <<x>> \in Seq(VxCall) /\ (x.do # "open" => NoOpens(<<x>>)) /\ OpensOnlyFirst(<<x>>)
         /\ <<x, y>> \in Seq(VxCall) /\ (x.do # "open" /\ y.do # "open" => NoOpens(<<x, y>>))
         /\ Len(<<x, y>>) = 2 /\ Len(<<x, y, z>>) = 3
         /\ <<x, y, z>> \in Seq(VxCall)
         /\ y.do # "open" /\ z.do # "open" => OpensOnlyFirst(<<x, y, z>>)
  BY DEF NoOpens, OpensOnlyFirst

(* Only two calls open an instance, and with their first request.          *)
LEMMA RequestsOpenFirst ==
  ASSUME NEW call \in VxCall
  PROVE  /\ VxRequests(call) \in Seq(VxCall) /\ OpensOnlyFirst(VxRequests(call))
         /\ call.do \notin Openers9x => NoOpens(VxRequests(call))
<1>1. call.do \in VxCallNames /\ call.arg \in VxCallArgs
  BY DEF VxCall
<1> DEFINE First == Call("oid", "first")
           Query == Call("oid", "query")
           Set == Call("oid", "set")
           Opens9x == Call("open", call.arg)
           Zone == Call("timezone", 0)
           Event == Call("evname", 0)
           Closes9x == Call("close", 0)
<1>0. /\ First \in VxCall /\ Query \in VxCall /\ Set \in VxCall /\ Zone \in VxCall /\ Event \in VxCall
      /\ Closes9x \in VxCall /\ Opens9x \in VxCall
      /\ First.do = "oid" /\ Query.do = "oid" /\ Set.do = "oid" /\ Zone.do = "timezone"
      /\ Event.do = "evname" /\ Closes9x.do = "close"
  <2>0. /\ {"oid", "timezone", "evname", "close", "open"} \subseteq VxCallNames
        /\ {"first", "query", "set", 0} \subseteq VxCallArgs
    BY DEF VxCallNames, VxCallArgs, Quick, Openers9x
  <2>1. First \in VxCall /\ First.do = "oid"
    BY <2>0, CallTyped
  <2>2. Query \in VxCall /\ Query.do = "oid"
    BY <2>0, CallTyped
  <2>3. Set \in VxCall /\ Set.do = "oid"
    BY <2>0, CallTyped
  <2>4. Zone \in VxCall /\ Zone.do = "timezone"
    BY <2>0, CallTyped
  <2>5. Event \in VxCall /\ Event.do = "evname"
    BY <2>0, CallTyped
  <2>6. Closes9x \in VxCall /\ Closes9x.do = "close"
    BY <2>0, CallTyped
  <2>7. Opens9x \in VxCall
    BY <2>0, <1>1, CallTyped
  <2>8. QED
    BY <2>1, <2>2, <2>3, <2>4, <2>5, <2>6, <2>7
<1>a. /\ OpenRequests(call.arg) = <<Opens9x, Zone, Event>> /\ MaxLookaheadRequests = <<Query, Set>>
      /\ NetTypeRequests = <<First, Query>> /\ HwFilterRequests = <<Set>>
  BY DEF OpenRequests, MaxLookaheadRequests, NetTypeRequests, HwFilterRequests
<1>n. NamesRequests(call.arg) = (OpenRequests(call.arg) \o MaxLookaheadRequests) \o <<Query, Closes9x>>
  BY Zenon DEF NamesRequests
<1> HIDE DEF First, Query, Set, Opens9x, Zone, Event, Closes9x
<1>b. \A c : NoOpens(c) => OpensOnlyFirst(c)
  BY DEF NoOpens, OpensOnlyFirst
<1>2. /\ OpenRequests(call.arg) \in Seq(VxCall) /\ OpensOnlyFirst(OpenRequests(call.arg))
      /\ Len(OpenRequests(call.arg)) = 3
  <2>1. Len(<<Opens9x, Zone, Event>>) = 3 /\ <<Opens9x, Zone, Event>> \in Seq(VxCall)
        /\ OpensOnlyFirst(<<Opens9x, Zone, Event>>)
    <3>1. Zone.do # "open" /\ Event.do # "open"
      BY <1>0
    <3>2. QED
      BY <1>0, <3>1, OneTwoThree
  <2>2. QED
    BY <1>a, <2>1
<1>3. /\ MaxLookaheadRequests \in Seq(VxCall) /\ NoOpens(MaxLookaheadRequests)
      /\ <<Query, Closes9x>> \in Seq(VxCall) /\ NoOpens(<<Query, Closes9x>>)
      /\ NetTypeRequests \in Seq(VxCall) /\ NoOpens(NetTypeRequests)
      /\ HwFilterRequests \in Seq(VxCall) /\ NoOpens(HwFilterRequests)
  <2>1. /\ Query.do # "open" /\ Set.do # "open" /\ Closes9x.do # "open" /\ First.do # "open"
    BY <1>0
  <2>2. /\ <<Query, Set>> \in Seq(VxCall) /\ NoOpens(<<Query, Set>>)
    BY <1>0, <2>1, OneTwoThree
  <2>3. /\ <<Query, Closes9x>> \in Seq(VxCall) /\ NoOpens(<<Query, Closes9x>>)
    BY <1>0, <2>1, OneTwoThree
  <2>4. /\ <<First, Query>> \in Seq(VxCall) /\ NoOpens(<<First, Query>>)
    BY <1>0, <2>1, OneTwoThree
  <2>5. /\ <<Set>> \in Seq(VxCall) /\ NoOpens(<<Set>>)
    BY <1>0, <2>1, OneTwoThree
  <2>6. QED
    BY <1>a, <2>2, <2>3, <2>4, <2>5
<1>4. ASSUME NEW c \in Seq(VxCall), NEW d \in Seq(VxCall), OpensOnlyFirst(c), NoOpens(d), Len(c) \in Nat \ {0}
      PROVE  /\ c \o d \in Seq(VxCall) /\ OpensOnlyFirst(c \o d) /\ Len(c \o d) \in Nat \ {0}
  <2>1. c \o d \in Seq(VxCall) /\ Len(c \o d) = Len(c) + Len(d) /\ Len(d) \in Nat
    BY ConcatProperties, LenProperties
  <2>2. ASSUME NEW k \in DOMAIN (c \o d), k # 1
        PROVE  (c \o d)[k].do # "open"
    <3>1. k \in 1..(Len(c) + Len(d))
      BY <2>1, LenProperties
    <3>2. CASE k <= Len(c)
      <4>1. (c \o d)[k] = c[k] /\ k \in DOMAIN c
        BY <3>1, <3>2, <1>4, ConcatProperties, LenProperties
      <4>2. QED
        BY <4>1, <2>2, <1>4 DEF OpensOnlyFirst
    <3>3. CASE k > Len(c)
      <4>1. (c \o d)[k] = d[k - Len(c)] /\ k - Len(c) \in DOMAIN d
        BY <3>1, <3>3, <1>4, <2>1, ConcatProperties, LenProperties
      <4>2. QED
        BY <4>1, <1>4 DEF NoOpens
    <3>4. QED
      BY <3>1, <3>2, <3>3, <1>4
  <2>3. OpensOnlyFirst(c \o d)
    BY <2>2 DEF OpensOnlyFirst
  <2>4. QED
    BY <2>1, <2>3, <1>4
<1>4a. Len(OpenRequests(call.arg)) \in Nat \ {0}
  BY <1>2
<1>4b. /\ OpenRequests(call.arg) \o MaxLookaheadRequests \in Seq(VxCall)
       /\ OpensOnlyFirst(OpenRequests(call.arg) \o MaxLookaheadRequests)
       /\ Len(OpenRequests(call.arg) \o MaxLookaheadRequests) \in Nat \ {0}
  BY <1>2, <1>3, <1>4, <1>4a
<1>5. CASE call.do = "open"
  BY <1>5, <1>4b DEF VxRequests, Openers9x
<1>6. CASE call.do = "names"
  <2>1. NamesRequests(call.arg) \in Seq(VxCall) /\ OpensOnlyFirst(NamesRequests(call.arg))
    BY <1>n, <1>4b, <1>3, <1>4
  <2>4. QED
    BY <2>1, <1>6 DEF VxRequests, Openers9x
<1>7. CASE call.do = "nettype"
  BY <1>7, <1>3, <1>b DEF VxRequests
<1>8. CASE call.do = "hwfilter"
  BY <1>8, <1>3, <1>b DEF VxRequests
<1>9. CASE call.do \notin {"open", "names", "nettype", "hwfilter"}
  <2>1. VxRequests(call) = <<call>>
    BY <1>9 DEF VxRequests
  <2>2. call.do # "open"
    BY <1>9
  <2>3. QED
    BY <2>1, <2>2, OneTwoThree
<1>10. QED
  BY <1>5, <1>6, <1>7, <1>8, <1>9

-----------------------------------------------------------------------------
(* Steps that leave the lists of the driver as they are.                   *)

NextApp(a, b, o, mine) ==
  /\ AppTyped(b) /\ b.reads >= a.reads /\ OpensOnlyFirst(b.ioctls)
  /\ b.at = "ioctl" => NoOpens(b.ioctls) \/ (o.life = "none" /\ mine)
  /\ a.at # "arm" /\ b.at # "arm"
  /\ b.at \in Pending9x => b.ioctls # << >>
  /\ b.at \in InDriver => o.life = "open"
  /\ o.life # "opening"

AppGoesOn(p) ==
  \/ app' = app
  \/ /\ app' = [app EXCEPT ![p] = app'[p]]
     /\ NextApp(app[p], app'[p], open9x[p], p \in vxd.files)

SameInstance(q) ==
  HasFields(open9x'[q]) /\ open9x'[q].life = open9x[q].life /\ open9x'[q].rcv = open9x[q].rcv

Mild(p) ==
  /\ vxd' = vxd \/ vxd' = Counted
  /\ timers' = timers /\ exits9x \subseteq exits9x' /\ AppGoesOn(p)
  /\ DOMAIN open9x' = Programs /\ \A q \in Programs : SameInstance(q)

(* A timeout of p is over, or cancelled, and at most one read with it.     *)
ReadEnds(p, x) ==
  /\ vxd' = vxd /\ x.of = p
  /\ timers' = timers \ {x} /\ exits9x \subseteq exits9x' /\ AppGoesOn(p)
  /\ DOMAIN open9x' = Programs /\ \A q \in Programs \ {p} : SameInstance(q)
  /\ HasFields(open9x'[p]) /\ open9x'[p].life = open9x[p].life
  /\ open9x[p].life # "open" => open9x'[p].rcv = << >>
  /\ \/ open9x'[p].rcv = << >>
     \/ Len(open9x'[p].rcv) = Len(open9x[p].rcv) - 1
     \/ "readsLost" \in exits9x'

LEMMA AppsStayTyped ==
  ASSUME VxInv, NEW p \in Programs, AppGoesOn(p)
  PROVE  /\ DOMAIN app' = Programs /\ \A q \in Programs : AppTyped(app'[q])
         /\ \A q \in Programs : app'[q].reads >= app[q].reads
         /\ \A q \in Programs : app'[q].at = "arm" <=> app[q].at = "arm"
         /\ \A q \in Programs : open9x[q].life = "opening" => app'[q] = app[q]
         /\ \A q \in Programs :
              \/ app'[q] = app[q]
              \/ NextApp(app[q], app'[q], open9x[q], q \in vxd.files)
<1>1. DOMAIN app = Programs /\ \A q \in Programs : AppTyped(app[q])
  BY DEF VxInv, VxTypes
<1>2. CASE app' = app
  BY <1>1, <1>2 DEF AppTyped
<1>3. CASE /\ app' = [app EXCEPT ![p] = app'[p]]
           /\ NextApp(app[p], app'[p], open9x[p], p \in vxd.files)
  <2>1. DOMAIN app' = Programs /\ \A q \in Programs \ {p} : app'[q] = app[q]
    BY <1>1, <1>3
  <2>2. \A q \in Programs \ {p} : app[q].reads >= app[q].reads
    BY <1>1 DEF AppTyped
  <2>3. /\ AppTyped(app'[p]) /\ app'[p].reads >= app[p].reads /\ app[p].at # "arm"
        /\ app'[p].at # "arm" /\ open9x[p].life # "opening"
    BY <1>3 DEF NextApp
  <2>4. QED
    BY <1>1, <1>3, <2>1, <2>2, <2>3
<1>4. QED
  BY <1>2, <1>3 DEF AppGoesOn

(* The place of each program, when its instance keeps its life.            *)
LEMMA PlacesKept ==
  ASSUME VxInv, NEW p \in Programs, AppGoesOn(p), vxd'.files = vxd.files,
         exits9x \subseteq exits9x',
         \A q \in Programs : open9x'[q].life = open9x[q].life,
         \A q \in Programs : open9x[q].life # "open" => open9x'[q].rcv = << >>
  PROVE  \A q \in Programs : (Place(app[q], open9x[q]) /\ HandleOf9x(q))'
<1> SUFFICES ASSUME NEW q \in Programs
             PROVE  Place(app'[q], open9x'[q]) /\ HandleOf9x(q)'
  OBVIOUS
<1>1. Place(app[q], open9x[q]) /\ HandleOf9x(q)
  BY DEF VxInv
<1>2. \/ app'[q] = app[q]
      \/ NextApp(app[q], app'[q], open9x[q], q \in vxd.files)
  BY AppsStayTyped
<1>3. open9x'[q].life = open9x[q].life /\ (open9x[q].life # "open" => open9x'[q].rcv = << >>)
  OBVIOUS
<1>4. CASE app'[q] = app[q]
  BY <1>1, <1>3, <1>4 DEF Place, HandleOf9x
<1>5. CASE NextApp(app[q], app'[q], open9x[q], q \in vxd.files)
  <2>1. Place(app'[q], open9x'[q])
    BY <1>1, <1>3, <1>5 DEF Place, NextApp
  <2>2. HandleOf9x(q)'
    BY <1>1, <1>3, <1>5 DEF HandleOf9x, NextApp
  <2>3. QED
    BY <2>1, <2>2
<1>6. QED
  BY <1>2, <1>4, <1>5

LEMMA MildKeeps ==
  ASSUME VxInv, NEW p \in Programs, Mild(p)
  PROVE  VxInv'
<1>1. /\ vxd'.list = vxd.list /\ vxd'.files = vxd.files /\ vxd'.extension = vxd.extension
      /\ vxd'.instances >= vxd.instances
      /\ vxd' \in [extension : {"none", "ready", "freed"}, instances : Int, list : Seq(Programs),
                   files : SUBSET Programs]
  BY DEF VxInv, VxTypes, Mild, Counted
<1>2. VxTypes'
  <2>1. DOMAIN app' = Programs /\ \A q \in Programs : AppTyped(app'[q])
    BY AppsStayTyped DEF Mild
  <2>2. QED
    BY <1>1, <2>1 DEF VxInv, VxTypes, Mild, SameInstance
<1>3. \A q \in Programs : open9x'[q].life = open9x[q].life /\ open9x'[q].rcv = open9x[q].rcv
  BY DEF Mild, SameInstance
<1>4. \A q \in Programs : open9x[q].life # "open" => open9x[q].rcv = << >>
  BY DEF VxInv, Place
<1>5. \A q \in Programs : (Place(app[q], open9x[q]) /\ HandleOf9x(q))'
  BY <1>1, <1>3, <1>4, PlacesKept DEF Mild
<1>6. \A q \in Programs : ReadTimers(q)'
  <2> SUFFICES ASSUME NEW q \in Programs PROVE ReadTimers(q)'
    OBVIOUS
  <2>1. ReadTimers(q) /\ TimersOf(q)' = TimersOf(q)
    BY DEF VxInv, Mild, TimersOf
  <2>2. /\ app'[q].reads >= app[q].reads /\ (app'[q].at = "arm" <=> app[q].at = "arm")
        /\ app'[q].reads \in Nat /\ app[q].reads \in Nat
    BY AppsStayTyped DEF Mild, VxInv, VxTypes, AppTyped
  <2>3. \A t \in TimersOf(q) : t.nr \in Nat
    BY DEF TimersOf, VxInv, VxTypes
  <2>4. \A t \in TimersOf(q) : t.nr <= app'[q].reads /\ (app'[q].at = "arm" => t.nr < app'[q].reads)
    BY <2>1, <2>2, <2>3 DEF ReadTimers
  <2>5. exits9x \subseteq exits9x'
    BY DEF Mild
  <2>6. QED
    BY <2>1, <2>2, <2>4, <2>5, <1>3 DEF ReadTimers
<1>7. OpenList'
  <2>1. OpenList /\ vxd.instances \in Int /\ vxd'.instances \in Int
    BY <1>1 DEF VxInv, VxTypes
  <2>2. InList' = InList /\ Opening9x' = Opening9x
    BY <1>1, <1>3 DEF InList, Opening9x
  <2>3. {q \in Programs : open9x'[q].life \in {"open", "freed"}}
          = {q \in Programs : open9x[q].life \in {"open", "freed"}}
    BY <1>3
  <2>4. IsFiniteSet(Opening9x) /\ Cardinality(Opening9x) \in Nat /\ Len(vxd.list) \in Nat
    BY ProgramsAssumption, FS_Subset, FS_CardinalityType, LenProperties DEF Opening9x, VxInv, VxTypes
  <2>5. QED
    BY <1>1, <2>1, <2>2, <2>3, <2>4 DEF OpenList
<1>8. QED
  BY <1>2, <1>5, <1>6, <1>7 DEF VxInv

LEMMA ReadEndsKeeps ==
  ASSUME VxInv, NEW p \in Programs, NEW x, ReadEnds(p, x)
  PROVE  VxInv'
<1>1. vxd' = vxd /\ exits9x \subseteq exits9x' /\ AppGoesOn(p)
  BY DEF ReadEnds
<1>2. VxTypes'
  <2>1. DOMAIN app' = Programs /\ \A q \in Programs : AppTyped(app'[q])
    BY <1>1, AppsStayTyped
  <2>2. timers' \subseteq timers /\ IsFiniteSet(timers')
    BY FS_Subset DEF ReadEnds, VxInv, VxTypes
  <2>3. \A q \in Programs : HasFields(open9x'[q])
    BY DEF ReadEnds, SameInstance
  <2>4. QED
    BY <1>1, <2>1, <2>2, <2>3 DEF VxInv, VxTypes, ReadEnds
<1>3. \A q \in Programs : open9x'[q].life = open9x[q].life
  BY DEF ReadEnds, SameInstance
<1>4. \A q \in Programs : open9x[q].life # "open" => open9x'[q].rcv = << >>
  BY DEF VxInv, Place, ReadEnds, SameInstance
<1>5. \A q \in Programs : (Place(app[q], open9x[q]) /\ HandleOf9x(q))'
  BY <1>1, <1>3, <1>4, PlacesKept
<1>6. \A q \in Programs : ReadTimers(q)'
  <2> SUFFICES ASSUME NEW q \in Programs PROVE ReadTimers(q)'
    OBVIOUS
  <2>1. ReadTimers(q) /\ TimersOf(q)' = TimersOf(q) \ {x}
    BY DEF VxInv, ReadEnds, TimersOf
  <2>2. /\ app'[q].reads >= app[q].reads /\ (app'[q].at = "arm" <=> app[q].at = "arm")
        /\ app'[q].reads \in Nat /\ app[q].reads \in Nat
    BY <1>1, AppsStayTyped DEF VxInv, VxTypes, AppTyped
  <2>3. \A t \in TimersOf(q) : t.nr \in Nat
    BY DEF TimersOf, VxInv, VxTypes
  <2>4. \A t \in TimersOf(q) : t.nr <= app'[q].reads /\ (app'[q].at = "arm" => t.nr < app'[q].reads)
    BY <2>1, <2>2, <2>3 DEF ReadTimers
  <2>5. IsFiniteSet(TimersOf(q)) /\ Cardinality(TimersOf(q)) \in Nat
    BY FS_Subset, FS_CardinalityType DEF TimersOf, VxInv, VxTypes
  <2>6. /\ Cardinality(TimersOf(q) \ {x}) \in Nat
        /\ Cardinality(TimersOf(q) \ {x}) >= Cardinality(TimersOf(q)) - 1
        /\ q # p => TimersOf(q) \ {x} = TimersOf(q)
    <3>1. x \notin TimersOf(q) => TimersOf(q) \ {x} = TimersOf(q)
      OBVIOUS
    <3>2. q # p => x \notin TimersOf(q)
      BY DEF TimersOf, ReadEnds
    <3>3. IsFiniteSet(TimersOf(q) \ {x}) /\ Cardinality(TimersOf(q) \ {x}) \in Nat
      BY <2>5, FS_RemoveElement, FS_CardinalityType
    <3>4. Cardinality(TimersOf(q) \ {x}) = IF x \in TimersOf(q) THEN Cardinality(TimersOf(q)) - 1
                                           ELSE Cardinality(TimersOf(q))
      BY <2>5, FS_RemoveElement
    <3>5. QED
      BY <2>5, <3>1, <3>2, <3>3, <3>4
  <2>7. \/ "readsLost" \in exits9x'
        \/ Len(open9x'[q].rcv) = 0
        \/ Len(open9x'[q].rcv) = Len(open9x[q].rcv) - 1
        \/ q # p /\ open9x'[q].rcv = open9x[q].rcv
    BY DEF ReadEnds, SameInstance
  <2>8. Len(open9x'[q].rcv) \in Nat /\ Len(open9x[q].rcv) \in Nat
    BY <1>2, LenProperties DEF VxInv, VxTypes, HasFields
  <2>9. "readsLost" \notin exits9x' =>
          Len(open9x'[q].rcv) <= Cardinality(TimersOf(q) \ {x}) + (IF app'[q].at = "arm" THEN 1 ELSE 0)
    <3> DEFINE arm == IF app[q].at = "arm" THEN 1 ELSE 0
               n == Cardinality(TimersOf(q))
               m == Cardinality(TimersOf(q) \ {x})
               i == Len(open9x[q].rcv)
               j == Len(open9x'[q].rcv)
    <3>1. /\ (IF app'[q].at = "arm" THEN 1 ELSE 0) = arm /\ arm \in {0, 1}
          /\ i \in Nat /\ j \in Nat /\ n \in Nat /\ m \in Nat /\ m >= n - 1 /\ (q # p => m = n)
      BY <2>2, <2>5, <2>6, <2>8
    <3>2. SUFFICES ASSUME "readsLost" \notin exits9x' PROVE j <= m + arm
      BY <3>1
    <3>3. i <= n + arm
      BY <1>1, <2>1, <3>2 DEF ReadTimers
    <3>4. j = 0 \/ j = i - 1 \/ (q # p /\ j = i)
      BY <2>7, <3>2
    <3> HIDE DEF arm, n, m, i, j
    <3>5. QED
      BY <3>1, <3>3, <3>4
  <2>10. QED
    BY <1>1, <1>3, <2>1, <2>4, <2>9 DEF ReadTimers
<1>7. OpenList'
  <2>1. OpenList
    BY DEF VxInv
  <2>2. InList' = InList /\ Opening9x' = Opening9x
    BY <1>1, <1>3 DEF InList, Opening9x
  <2>3. {q \in Programs : open9x'[q].life \in {"open", "freed"}}
          = {q \in Programs : open9x[q].life \in {"open", "freed"}}
    BY <1>3
  <2>5. QED
    BY <1>1, <2>1, <2>2, <2>3 DEF OpenList
<1>8. QED
  BY <1>2, <1>5, <1>6, <1>7 DEF VxInv

-----------------------------------------------------------------------------
(* The steps that are mild.                                                *)

(* What is known of a program and its instance.                            *)
LEMMA Known ==
  ASSUME VxInv, NEW p \in Programs
  PROVE  /\ AppTyped(app[p]) /\ HasFields(open9x[p]) /\ Place(app[p], open9x[p])
         /\ DOMAIN app = Programs /\ DOMAIN open9x = Programs
         /\ \A q \in Programs : HasFields(open9x[q])
  BY DEF VxInv, VxTypes

LEMMA InstanceChanges ==
  ASSUME VxInv, NEW p \in Programs, NEW o, HasFields(o),
         o.life = open9x[p].life, o.rcv = open9x[p].rcv, open9x' = [open9x EXCEPT ![p] = o]
  PROVE  DOMAIN open9x' = Programs /\ \A q \in Programs : SameInstance(q)
  BY Known DEF SameInstance

LEMMA InstancesStay ==
  ASSUME VxInv, open9x' = open9x
  PROVE  DOMAIN open9x' = Programs /\ \A q \in Programs : SameInstance(q)
  BY DEF SameInstance, VxInv, VxTypes

(* A request of p that has succeeded, at an instance that is not opening.  *)
LEMMA SucceedsNext ==
  ASSUME VxInv, NEW p \in Programs, app[p].ioctls # << >>, app[p].at # "arm",
         open9x[p].life # "opening", app' = [app EXCEPT ![p] = Succeeds(@)]
  PROVE  AppGoesOn(p)
<1>1. AppTyped(app[p]) /\ OpensOnlyFirst(app[p].ioctls) /\ DOMAIN app = Programs
  BY Known DEF Place
<1>2. app'[p] = Succeeds(app[p]) /\ app' = [app EXCEPT ![p] = app'[p]]
  BY <1>1
<1>3. app[p].reads \in Nat
  BY <1>1 DEF AppTyped
<1>4. NextApp(app[p], Succeeds(app[p]), open9x[p], p \in vxd.files)
  BY <1>1, <1>3, SucceedsRecord DEF NextApp, InDriver, Pending9x
<1>5. QED
  BY <1>2, <1>4 DEF AppGoesOn

LEMMA FailsNext ==
  ASSUME VxInv, NEW p \in Programs, app[p].at # "arm",
         open9x[p].life # "opening", app' = [app EXCEPT ![p] = Fails(@)]
  PROVE  AppGoesOn(p)
<1>1. AppTyped(app[p]) /\ DOMAIN app = Programs
  BY Known
<1>2. app'[p] = Fails(app[p]) /\ app' = [app EXCEPT ![p] = app'[p]]
  BY <1>1
<1>3. app[p].reads \in Nat
  BY <1>1 DEF AppTyped
<1>4. NextApp(app[p], Fails(app[p]), open9x[p], p \in vxd.files)
  BY <1>1, <1>3, FailsRecord DEF NextApp, InDriver, Pending9x
<1>5. QED
  BY <1>2, <1>4 DEF AppGoesOn

(* A request that is not done yet: its requests stay.                      *)
LEMMA WaitsNext ==
  ASSUME VxInv, NEW p \in Programs, app[p].at # "arm", open9x[p].life # "opening",
         NEW b, AppTyped(b), b.ioctls = app[p].ioctls, b.reads = app[p].reads,
         b.at \notin {"arm", "ioctl"}, b.at \in Pending9x => app[p].ioctls # << >>,
         b.at \in InDriver => open9x[p].life = "open",
         app' = [app EXCEPT ![p] = b]
  PROVE  AppGoesOn(p)
<1>1. AppTyped(app[p]) /\ OpensOnlyFirst(app[p].ioctls) /\ DOMAIN app = Programs
  BY Known DEF Place
<1>2. app'[p] = b /\ app' = [app EXCEPT ![p] = app'[p]]
  BY <1>1
<1>3. app[p].reads \in Nat
  BY <1>1 DEF AppTyped
<1>4. NextApp(app[p], b, open9x[p], p \in vxd.files)
  BY <1>1, <1>3 DEF NextApp
<1>5. QED
  BY <1>2, <1>4 DEF AppGoesOn

LEMMA PlansNext ==
  ASSUME VxInv, NEW p \in Programs, NEW plan, app[p].at # "arm", app[p].ioctls # << >>, open9x[p].life = "open",
         app' = [Plans(p) EXCEPT ![p].plan = plan]
  PROVE  AppGoesOn(p)
<1>1. AppTyped(app[p]) /\ DOMAIN app = Programs
  BY Known
<1> DEFINE b == [app[p] EXCEPT !.at = "plan", !.plan = plan]
<1>2. app' = [app EXCEPT ![p] = b]
  BY <1>1 DEF Plans
<1>3. AppTyped(b) /\ b.ioctls = app[p].ioctls /\ b.reads = app[p].reads /\ b.at = "plan" /\ b.at \notin {"arm", "ioctl"}
  BY <1>1 DEF AppTyped
<1> HIDE DEF b
<1>4. QED
  BY <1>2, <1>3, WaitsNext

LEMMA AtNext ==
  ASSUME VxInv, NEW p \in Programs, NEW at, app[p].at # "arm", open9x[p].life # "opening",
         at \notin {"arm", "ioctl"}, at = "lost" \/ app[p].ioctls # << >>, at \in InDriver => open9x[p].life = "open",
         app' = [app EXCEPT ![p].at = at]
  PROVE  AppGoesOn(p)
<1>1. AppTyped(app[p]) /\ DOMAIN app = Programs
  BY Known
<1> DEFINE b == [app[p] EXCEPT !.at = at]
<1>2. app' = [app EXCEPT ![p] = b]
  BY <1>1
<1>3. AppTyped(b) /\ b.ioctls = app[p].ioctls /\ b.reads = app[p].reads /\ b.at = at
  BY <1>1 DEF AppTyped
<1>4. at \in Pending9x => app[p].ioctls # << >>
  BY DEF Pending9x, InDriver
<1> HIDE DEF b
<1>5. QED
  BY <1>2, <1>3, <1>4, WaitsNext

AppOnly(p) ==
  \/ ReadNothing(p) \/ WaitRead(p) \/ PacketSetBpf9x(p) \/ PacketSetBuff9x(p) \/ PacketClose(p)
  \/ ReadSome(p) \/ ReadWillWait(p) \/ NoRequestBlock(p) \/ OpenWithoutExtension(p)
  \/ ReadForgotten(p) \/ EnterCall(p)

LEMMA AppOnlyIsMild ==
  ASSUME VxInv, NEW p \in Programs, AppOnly(p)
  PROVE  Mild(p)
<1>1. AppTyped(app[p]) /\ Place(app[p], open9x[p]) /\ DOMAIN app = Programs /\ HandleOf9x(p)
  BY Known DEF VxInv
<1>2. vxd' = vxd /\ timers' = timers /\ exits9x \subseteq exits9x' /\ open9x' = open9x
  BY DEF AppOnly, ReadNothing, WaitRead, PacketSetBpf9x, PacketSetBuff9x, PacketClose, ReadSome,
         ReadWillWait, NoRequestBlock, OpenWithoutExtension, ReadForgotten, EnterCall, Exit9x
<1>3. AppGoesOn(p)
  <2>1. ASSUME NEW do, Calls9x(p, do)
        PROVE  app[p].at # "arm" /\ app[p].ioctls # << >> /\ open9x[p].life # "opening"
    BY <2>1, <1>1 DEF Calls9x, Place
  <2>2. CASE ReadNothing(p) \/ WaitRead(p)
    BY <2>1, <2>2, SucceedsNext DEF ReadNothing, WaitRead
  <2>3. CASE PacketSetBpf9x(p)
    BY <2>1, <2>3, PlansNext DEF PacketSetBpf9x
  <2>4. CASE PacketSetBuff9x(p)
    BY <2>1, <2>4, PlansNext DEF PacketSetBuff9x
  <2>5. CASE PacketClose(p)
    BY <2>1, <2>5, PlansNext DEF PacketClose
  <2>6. CASE ReadSome(p)
    BY <2>1, <2>6, PlansNext DEF ReadSome
  <2>7. CASE ReadWillWait(p)
    <3>1. /\ app' = [app EXCEPT ![p].at = "queue"] /\ app[p].ioctls # << >> /\ open9x[p].life = "open"
          /\ app[p].at # "arm" /\ open9x[p].life # "opening" /\ "queue" \notin {"arm", "ioctl"}
      BY <2>1, <2>7 DEF ReadWillWait
    <3>2. QED
      BY <3>1, AtNext
  <2>8. CASE NoRequestBlock(p)
    <3>1. app' = [app EXCEPT ![p] = Succeeds(@)] \/ app' = [app EXCEPT ![p] = Fails(@)]
      BY <2>8 DEF NoRequestBlock, AfterOid
    <3>2. app[p].at # "arm" /\ app[p].ioctls # << >> /\ open9x[p].life # "opening"
      BY <2>1, <2>8 DEF NoRequestBlock
    <3>3. QED
      BY <3>1, <3>2, SucceedsNext, FailsNext
  <2>9. CASE OpenWithoutExtension(p)
    <3>1. /\ app' = [app EXCEPT ![p].at = "lost"] /\ "lost" \notin InDriver
          /\ app[p].at # "arm" /\ open9x[p].life # "opening" /\ "lost" \notin {"arm", "ioctl"}
      BY <2>1, <2>9 DEF OpenWithoutExtension, InDriver
    <3>2. QED
      BY <3>1, AtNext
  <2>10. CASE ReadForgotten(p)
    <3>1. app[p].at = "queue" /\ open9x[p].life = "open"
      BY <1>1, <2>10 DEF ReadForgotten, Place, InDriver
    <3> DEFINE c == [Succeeds(app[p]) EXCEPT !.reads = app[p].reads + 1]
    <3>2. app'[p] = c /\ app' = [app EXCEPT ![p] = app'[p]]
      BY <1>1, <2>10 DEF ReadForgotten
    <3>3. app[p].ioctls # << >>
      BY <1>1, <3>1 DEF Place, Pending9x, InDriver
    <3>4. QED
      <4>1. /\ AppTyped(Succeeds(app[p])) /\ NoOpens(Succeeds(app[p]).ioctls)
            /\ OpensOnlyFirst(Succeeds(app[p]).ioctls)
            /\ Succeeds(app[p]).at \in {"main", "ioctl"} /\ Succeeds(app[p]).reads = app[p].reads
        BY <1>1, <3>3, SucceedsRecord DEF Place
      <4> DEFINE s == Succeeds(app[p])
      <4> HIDE DEF s
      <4>2. /\ AppTyped(s) /\ NoOpens(s.ioctls) /\ OpensOnlyFirst(s.ioctls)
            /\ s.at \in {"main", "ioctl"} /\ s.reads = app[p].reads /\ c = [s EXCEPT !.reads = app[p].reads + 1]
        BY <4>1 DEF s
      <4> HIDE DEF c
      <4>3. /\ AppTyped(c) /\ NoOpens(c.ioctls) /\ OpensOnlyFirst(c.ioctls)
            /\ c.at \in {"main", "ioctl"} /\ c.reads = app[p].reads + 1 /\ app[p].reads \in Nat
        BY <4>2 DEF AppTyped
      <4>4. NextApp(app[p], c, open9x[p], p \in vxd.files)
        BY <4>3, <3>1 DEF NextApp, InDriver, Pending9x
      <4>5. QED
        BY <4>4, <3>2 DEF AppGoesOn
  <2>11. CASE EnterCall(p)
    <3> DEFINE call == Head(app[p].calls)
               b == [app[p] EXCEPT !.at = "ioctl", !.calls = Tail(app[p].calls), !.ioctls = VxRequests(call)]
    <3>1. /\ app[p].at = "main" /\ app[p].calls # << >> /\ p \in vxd.files
          /\ call.do \in Openers9x => open9x[p].life = "none"
      BY <2>11 DEF EnterCall
    <3>2. app'[p] = b /\ app' = [app EXCEPT ![p] = app'[p]]
      BY <1>1, <2>11 DEF EnterCall
    <3>3. call \in VxCall /\ Tail(app[p].calls) \in Seq(VxCall)
      BY <1>1, <3>1, HeadTailProperties DEF AppTyped
    <3>4. /\ VxRequests(call) \in Seq(VxCall) /\ OpensOnlyFirst(VxRequests(call))
          /\ call.do \notin Openers9x => NoOpens(VxRequests(call))
      BY <3>3, RequestsOpenFirst
    <3> HIDE DEF call
    <3>5. /\ AppTyped(b) /\ b.reads = app[p].reads /\ b.at = "ioctl" /\ b.ioctls = VxRequests(call)
          /\ app[p].reads \in Nat
      BY <1>1, <3>3, <3>4 DEF AppTyped
    <3> HIDE DEF b
    <3>6. open9x[p].life # "opening"
      BY <1>1, <3>1 DEF Place
    <3>7. NextApp(app[p], b, open9x[p], p \in vxd.files)
      BY <3>1, <3>4, <3>5, <3>6 DEF NextApp, InDriver, Pending9x
    <3>8. QED
      BY <3>2, <3>7 DEF AppGoesOn
  <2>12. QED
    BY <2>2, <2>3, <2>4, <2>5, <2>6, <2>7, <2>8, <2>9, <2>10, <2>11 DEF AppOnly
<1>4. QED
  BY <1>2, <1>3, InstancesStay DEF Mild

(* Steps of NDIS and of short requests at an instance.                     *)
LEMMA QuickKeeps ==
  ASSUME NEW o, HasFields(o), NEW do, NEW arg
  PROVE  /\ HasFields(QuickDone(o, do, arg)) /\ QuickDone(o, do, arg).life = o.life
         /\ QuickDone(o, do, arg).rcv = o.rcv
<1>1. CASE do = "timeout"
  BY <1>1 DEF HasFields, QuickDone
<1>2. CASE do = "evname"
  BY <1>2 DEF HasFields, QuickDone
<1>3. CASE do = "statmode"
  BY <1>3 DEF HasFields, QuickDone
<1>4. CASE do = "captmode"
  BY <1>4 DEF HasFields, QuickDone
<1>5. CASE do \notin {"timeout", "evname", "statmode", "captmode"}
  BY <1>5 DEF HasFields, QuickDone
<1>6. QED
  BY <1>1, <1>2, <1>3, <1>4, <1>5

LEMMA OpKeeps ==
  ASSUME NEW o, HasFields(o), NEW op
  PROVE  HasFields(OpDone(o, op)) /\ OpDone(o, op).life = o.life /\ OpDone(o, op).rcv = o.rcv
<1> DEFINE do == op.op
<1>1. CASE do = "filter"
  BY <1>1 DEF HasFields, OpDone
<1>2. CASE do = "head" \/ do = "tail"
  BY <1>2 DEF HasFields, OpDone
<1>3. CASE do = "last"
  BY <1>3 DEF HasFields, OpDone
<1>4. CASE do = "counters"
  BY <1>4 DEF HasFields, OpDone
<1>5. CASE do = "buffer"
  BY <1>5 DEF HasFields, OpDone
<1>6. CASE do = "size"
  BY <1>6 DEF HasFields, OpDone
<1>7. CASE do = "move"
  BY <1>7 DEF HasFields, OpDone
<1>8. CASE do = "event" \/ do = "cancel"
  BY <1>8 DEF HasFields, OpDone
<1>9. CASE do \notin {"filter", "head", "tail", "last", "counters", "buffer", "size", "move", "event", "cancel"}
  BY <1>9 DEF HasFields, OpDone
<1>10. QED
  BY <1>1, <1>2, <1>3, <1>4, <1>5, <1>6, <1>7, <1>8, <1>9

AtInstance(p) ==
  \/ QuickCall(p) \/ PacketWrite(p) \/ PacketReset(p) \/ PacketRequest9x(p)
  \/ PacketRequestComplete(p) \/ PacketSendComplete(p) \/ PacketResetComplete(p)
  \/ OpenUnknown(p) \/ OpenRefused(p)

LEMMA AtInstanceIsMild ==
  ASSUME VxInv, NEW p \in Programs, AtInstance(p)
  PROVE  Mild(p)
<1>1. /\ AppTyped(app[p]) /\ Place(app[p], open9x[p]) /\ DOMAIN app = Programs
      /\ HasFields(open9x[p]) /\ DOMAIN open9x = Programs
  BY Known
<1>2. (vxd' = vxd \/ vxd' = Counted) /\ timers' = timers /\ exits9x' = exits9x
  BY DEF AtInstance, QuickCall, PacketWrite, PacketReset, PacketRequest9x, PacketRequestComplete,
         PacketSendComplete, PacketResetComplete, OpenUnknown, OpenRefused
<1>3. ASSUME NEW do, Calls9x(p, do)
      PROVE  app[p].at # "arm" /\ app[p].ioctls # << >> /\ open9x[p].life # "opening"
  BY <1>3, <1>1 DEF Calls9x, Place
<1>4. AppGoesOn(p)
  <2>1. CASE QuickCall(p)
    <3>1. PICK do \in Quick : Calls9x(p, do)
      BY <2>1 DEF QuickCall
    <3>2. QED
      BY <1>3, <2>1, <3>1, SucceedsNext DEF QuickCall
  <2>2. CASE PacketWrite(p) \/ PacketReset(p)
    BY <1>3, <2>2, SucceedsNext DEF PacketWrite, PacketReset
  <2>3. CASE PacketRequest9x(p)
    <3>1. /\ app' = [app EXCEPT ![p].at = "asking"] /\ "asking" \notin InDriver
          /\ app[p].at # "arm" /\ open9x[p].life # "opening" /\ "asking" \notin {"arm", "ioctl"}
          /\ app[p].ioctls # << >>
      BY <1>3, <2>3 DEF PacketRequest9x, InDriver
    <3>2. QED
      BY <3>1, AtNext
  <2>4. CASE PacketRequestComplete(p)
    <3>1. app' = [app EXCEPT ![p] = Succeeds(@)] \/ app' = [app EXCEPT ![p] = Fails(@)]
      BY <2>4 DEF PacketRequestComplete, AfterOid
    <3>2. app[p].at # "arm" /\ app[p].ioctls # << >> /\ open9x[p].life # "opening"
      BY <1>1, <2>4 DEF PacketRequestComplete, Place, Pending9x
    <3>3. QED
      BY <3>1, <3>2, SucceedsNext, FailsNext
  <2>5. CASE PacketSendComplete(p) \/ PacketResetComplete(p)
    BY <2>5 DEF PacketSendComplete, PacketResetComplete, AppGoesOn
  <2>6. CASE OpenUnknown(p) \/ OpenRefused(p)
    BY <1>3, <2>6, FailsNext DEF OpenUnknown, OpenRefused
  <2>7. QED
    BY <2>1, <2>2, <2>3, <2>4, <2>5, <2>6 DEF AtInstance
<1>5. DOMAIN open9x' = Programs /\ \A q \in Programs : SameInstance(q)
  <2>1. CASE QuickCall(p)
    <3>1. PICK do \in Quick : open9x' = [open9x EXCEPT ![p] = QuickDone(@, do, Arg9x(p))]
      BY <2>1 DEF QuickCall
    <3> DEFINE o == QuickDone(open9x[p], do, Arg9x(p))
    <3>2. HasFields(o) /\ o.life = open9x[p].life /\ o.rcv = open9x[p].rcv
      BY <1>1, QuickKeeps
    <3>3. open9x' = [open9x EXCEPT ![p] = o]
      BY <3>1
    <3> HIDE DEF o
    <3>4. QED
      BY <3>2, <3>3, InstanceChanges
  <2>2. CASE open9x' = open9x
    BY <2>2, InstancesStay
  <2>3. CASE PacketWrite(p) /\ open9x' # open9x
    <3> DEFINE o == [open9x[p] EXCEPT !.pool = @ - 1, !.sending = @ + 1]
    <3>1. open9x' = [open9x EXCEPT ![p] = o]
      BY <1>1, <2>3 DEF PacketWrite
    <3>2. HasFields(o) /\ o.life = open9x[p].life /\ o.rcv = open9x[p].rcv
      BY <1>1 DEF HasFields
    <3> HIDE DEF o
    <3>3. QED
      BY <3>1, <3>2, InstanceChanges
  <2>4. CASE PacketReset(p) /\ open9x' # open9x
    <3> DEFINE o == [open9x[p] EXCEPT !.requests = @ - 1, !.resets = @ + 1]
    <3>1. open9x' = [open9x EXCEPT ![p] = o]
      BY <1>1, <2>4 DEF PacketReset
    <3>2. HasFields(o) /\ o.life = open9x[p].life /\ o.rcv = open9x[p].rcv
      BY <1>1 DEF HasFields
    <3> HIDE DEF o
    <3>3. QED
      BY <3>1, <3>2, InstanceChanges
  <2>5. CASE PacketRequest9x(p)
    <3> DEFINE o == [open9x[p] EXCEPT !.requests = @ - 1]
    <3>1. open9x' = [open9x EXCEPT ![p] = o]
      BY <1>1, <2>5 DEF PacketRequest9x
    <3>2. HasFields(o) /\ o.life = open9x[p].life /\ o.rcv = open9x[p].rcv
      BY <1>1 DEF HasFields
    <3> HIDE DEF o
    <3>3. QED
      BY <3>1, <3>2, InstanceChanges
  <2>6. CASE PacketRequestComplete(p)
    <3> DEFINE o == [open9x[p] EXCEPT !.requests = @ + 1]
    <3>1. open9x' = [open9x EXCEPT ![p] = o]
      BY <1>1, <2>6 DEF PacketRequestComplete
    <3>2. HasFields(o) /\ o.life = open9x[p].life /\ o.rcv = open9x[p].rcv
      BY <1>1 DEF HasFields
    <3> HIDE DEF o
    <3>3. QED
      BY <3>1, <3>2, InstanceChanges
  <2>7. CASE PacketSendComplete(p)
    <3> DEFINE o == [open9x[p] EXCEPT !.pool = @ + 1, !.sending = @ - 1]
    <3>1. open9x' = [open9x EXCEPT ![p] = o]
      BY <1>1, <2>7 DEF PacketSendComplete
    <3>2. HasFields(o) /\ o.life = open9x[p].life /\ o.rcv = open9x[p].rcv
      BY <1>1 DEF HasFields
    <3> HIDE DEF o
    <3>3. QED
      BY <3>1, <3>2, InstanceChanges
  <2>8. CASE PacketResetComplete(p)
    <3> DEFINE o == [open9x[p] EXCEPT !.requests = @ + 1, !.resets = @ - 1]
    <3>1. open9x' = [open9x EXCEPT ![p] = o]
      BY <1>1, <2>8 DEF PacketResetComplete
    <3>2. HasFields(o) /\ o.life = open9x[p].life /\ o.rcv = open9x[p].rcv
      BY <1>1 DEF HasFields
    <3> HIDE DEF o
    <3>3. QED
      BY <3>1, <3>2, InstanceChanges
  <2>9. CASE OpenUnknown(p) \/ OpenRefused(p)
    BY <2>9, InstancesStay DEF OpenUnknown, OpenRefused
  <2>10. QED
    BY <2>1, <2>2, <2>3, <2>4, <2>5, <2>6, <2>7, <2>8, <2>9 DEF AtInstance
<1>6. QED
  BY <1>2, <1>4, <1>5 DEF Mild

LEMMA PlanStepGoesOn ==
  ASSUME VxInv, NEW p \in Programs, PlanStep(p)
  PROVE  AppGoesOn(p)
<1>1. AppTyped(app[p]) /\ Place(app[p], open9x[p]) /\ DOMAIN app = Programs
  BY Known
<1>2. app[p].at = "plan" /\ app[p].ioctls # << >> /\ open9x[p].life = "open"
  BY <1>1 DEF PlanStep, Place, Pending9x, InDriver
<1> DEFINE b == [app[p] EXCEPT !.plan = Tail(app[p].plan)]
<1>3. app' = [app EXCEPT ![p] = Succeeds(@)] \/ app' = [app EXCEPT ![p] = b]
  BY <1>1 DEF PlanStep
<1>4. AppTyped(b) /\ b.ioctls = app[p].ioctls /\ b.reads = app[p].reads /\ b.at = "plan"
  BY <1>1, <1>2 DEF AppTyped
<1> HIDE DEF b
<1>5. b.at \notin {"arm", "ioctl"} /\ app[p].at # "arm" /\ open9x[p].life # "opening"
  BY <1>2, <1>4
<1>6. QED
  BY <1>2, <1>3, <1>4, <1>5, SucceedsNext, WaitsNext

LEMMA PlanStepKeeps ==
  ASSUME VxInv, NEW p \in Programs, PlanStep(p)
  PROVE  VxInv'
<1>1. /\ HasFields(open9x[p]) /\ DOMAIN open9x = Programs /\ Place(app[p], open9x[p])
  BY Known
<1> DEFINE op == Head(app[p].plan)
           o == OpDone(open9x[p], op)
           x == [of |-> p, nr |-> open9x[p].timer]
<1>2. /\ vxd' = vxd /\ exits9x' = exits9x \cup OpExits(open9x[p], op)
      /\ open9x' = [open9x EXCEPT ![p] = o]
      /\ timers' = IF op.op = "cancel" THEN timers \ {x} ELSE timers
      /\ app[p].at = "plan"
  BY DEF PlanStep
<1>3. HasFields(o) /\ o.life = open9x[p].life /\ o.rcv = open9x[p].rcv
  BY <1>1, OpKeeps
<1>4. x.of = p /\ (op.op = "cancel" /\ open9x[p].rcv # << >> => "readsLost" \in exits9x')
  BY <1>2 DEF OpExits
<1>5. AppGoesOn(p)
  BY PlanStepGoesOn
<1> HIDE DEF o, x
<1>6. DOMAIN open9x' = Programs /\ \A q \in Programs : SameInstance(q)
  BY <1>2, <1>3, InstanceChanges
<1>7. CASE op.op # "cancel"
  <2>1. Mild(p)
    BY <1>2, <1>5, <1>6, <1>7 DEF Mild
  <2>2. QED
    BY <2>1, MildKeeps
<1>8. CASE op.op = "cancel"
  <2>1. open9x[p].life = "open"
    BY <1>1, <1>2 DEF Place, InDriver
  <2>2. /\ HasFields(open9x'[p]) /\ open9x'[p].life = open9x[p].life /\ open9x'[p].rcv = open9x[p].rcv
    BY <1>6 DEF SameInstance
  <2>3. open9x'[p].rcv = << >> \/ "readsLost" \in exits9x'
    BY <1>4, <1>8, <2>2
  <2>4. ReadEnds(p, x)
    BY <1>2, <1>4, <1>5, <1>6, <1>8, <2>1, <2>2, <2>3 DEF ReadEnds
  <2>5. QED
    BY <2>4, ReadEndsKeeps
<1>9. QED
  BY <1>7, <1>8

(* The first read that waits is answered.                                  *)
LEMMA AnsweredInstance ==
  ASSUME NEW o, HasFields(o), o.rcv # << >>
  PROVE  /\ HasFields(AnsweredBy(o)) /\ AnsweredBy(o).life = o.life
         /\ Len(AnsweredBy(o).rcv) = Len(o.rcv) - 1
<1>1. Tail(o.rcv) \in Seq(VxCallArgs) /\ Len(Tail(o.rcv)) = Len(o.rcv) - 1
  BY HeadTailProperties DEF HasFields
<1>2. QED
  BY <1>1 DEF AnsweredBy, HasFields

LEMMA AnswerKeeps ==
  ASSUME VxInv, NEW p \in Programs, NEW x, x.of = p, NEW o, HasFields(o),
         open9x[p].life = "open", o.life = open9x[p].life,
         o.rcv = << >> \/ Len(o.rcv) = Len(open9x[p].rcv) - 1,
         open9x' = [open9x EXCEPT ![p] = o], timers' = timers \ {x},
         exits9x \subseteq exits9x', vxd' = vxd, app' = app
  PROVE  VxInv'
<1>1. DOMAIN open9x = Programs /\ \A q \in Programs : HasFields(open9x[q])
  BY Known
<1>2. /\ DOMAIN open9x' = Programs /\ open9x'[p] = o
      /\ \A q \in Programs \ {p} : open9x'[q] = open9x[q]
  BY <1>1
<1>3. \A q \in Programs \ {p} : SameInstance(q)
  BY <1>1, <1>2 DEF SameInstance
<1>4. ReadEnds(p, x)
  BY <1>2, <1>3 DEF ReadEnds, AppGoesOn
<1>5. QED
  BY <1>4, ReadEndsKeeps

LEMMA TapKeeps ==
  ASSUME VxInv, NEW p \in Programs, Packet_tap(p)
  PROVE  VxInv'
<1>1. HasFields(open9x[p]) /\ DOMAIN open9x = Programs
  BY Known
<1> DEFINE o == open9x[p]
<1>2. open9x[p].life = "open" /\ vxd' = vxd /\ app' = app
  BY DEF Packet_tap
<1>3. ASSUME NEW oo, HasFields(oo), oo.life = o.life, oo.rcv = o.rcv,
             open9x' = [open9x EXCEPT ![p] = oo], timers' = timers, exits9x \subseteq exits9x'
      PROVE  VxInv'
  <2>1. DOMAIN open9x' = Programs /\ \A q \in Programs : SameInstance(q)
    BY <1>3, InstanceChanges
  <2>2. Mild(p)
    BY <1>2, <1>3, <2>1 DEF Mild, AppGoesOn
  <2>3. QED
    BY <2>2, MildKeeps
<1> DEFINE a == [o EXCEPT !.received = @ + 1]
           b == [o EXCEPT !.received = @ + 1, !.npackets = @ + 1]
           c == [o EXCEPT !.received = @ + 1, !.dropped = @ + 1]
<1>4. /\ HasFields(a) /\ a.life = o.life /\ a.rcv = o.rcv
      /\ HasFields(b) /\ b.life = o.life /\ b.rcv = o.rcv
      /\ HasFields(c) /\ c.life = o.life /\ c.rcv = o.rcv
  BY <1>1 DEF HasFields
<1>5. PICK size \in VxFrames : \E len \in FilterResults9x(open9x[p], size) :
        \/ /\ \E oo \in {a, b, c} : open9x' = [open9x EXCEPT ![p] = oo]
           /\ UNCHANGED <<timers, past, exits9x>>
        \/ o.rcv # << >> /\ TapAnswers(p, left9x.frames)
        \/ TapStores(p, left9x.frames, len) /\ UNCHANGED timers
  BY DEF Packet_tap
<1>6. PICK len \in FilterResults9x(open9x[p], size) :
        \/ /\ \E oo \in {a, b, c} : open9x' = [open9x EXCEPT ![p] = oo]
           /\ UNCHANGED <<timers, past, exits9x>>
        \/ o.rcv # << >> /\ TapAnswers(p, left9x.frames)
        \/ TapStores(p, left9x.frames, len) /\ UNCHANGED timers
  BY <1>5
<1>7. CASE /\ \E oo \in {a, b, c} : open9x' = [open9x EXCEPT ![p] = oo]
           /\ UNCHANGED <<timers, past, exits9x>>
  <2>1. PICK oo \in {a, b, c} : open9x' = [open9x EXCEPT ![p] = oo]
    BY <1>7
  <2> HIDE DEF a, b, c
  <2>2. HasFields(oo) /\ oo.life = o.life /\ oo.rcv = o.rcv
    BY <1>4
  <2>3. QED
    BY <1>3, <1>7, <2>1, <2>2
<1>8. CASE o.rcv # << >> /\ TapAnswers(p, left9x.frames)
  <2> DEFINE n == AnsweredBy(o)
             x == [of |-> p, nr |-> o.timer]
             oo == [n EXCEPT !.received = o.received + 1]
  <2>1. HasFields(n) /\ n.life = o.life /\ Len(n.rcv) = Len(o.rcv) - 1
    BY <1>1, <1>8, AnsweredInstance
  <2>2. open9x' = [open9x EXCEPT ![p] = oo] /\ timers' = timers \ {x} /\ exits9x \subseteq exits9x'
    BY <1>8 DEF TapAnswers
  <2>3. x.of = p
    OBVIOUS
  <2> HIDE DEF n, x
  <2>4. HasFields(oo) /\ oo.life = o.life /\ Len(oo.rcv) = Len(o.rcv) - 1
    BY <2>1 DEF HasFields
  <2> HIDE DEF oo
  <2>5. QED
    BY <1>2, <2>2, <2>3, <2>4, AnswerKeeps
<1>9. CASE TapStores(p, left9x.frames, len) /\ UNCHANGED timers
  <2> DEFINE tail == TailFor(o, len + VxHdr) + WordAlign(len + VxHdr)
             filled == Filled(o.mem, TailFor(o, len + VxHdr), left9x.frames, len)
             last == IF tail > o.head THEN tail ELSE o.last
             oo == [o EXCEPT !.mem = filled, !.tail = tail, !.last = last, !.event = TRUE, !.received = @ + 1]
  <2>1. open9x' = [open9x EXCEPT ![p] = oo] /\ exits9x \subseteq exits9x'
    BY <1>9 DEF TapStores
  <2> HIDE DEF tail, filled, last
  <2>2. HasFields(oo) /\ oo.life = o.life /\ oo.rcv = o.rcv
    BY <1>1 DEF HasFields
  <2> HIDE DEF oo
  <2>3. QED
    BY <1>3, <1>9, <2>1, <2>2
<1>10. QED
  BY <1>6, <1>7, <1>8, <1>9

LEMMA ReadTimeoutKeeps ==
  ASSUME VxInv, NEW t \in timers, ReadTimeout(t)
  PROVE  VxInv'
<1> DEFINE p == t.of
           o == open9x[p]
<1>1. p \in Programs
  BY DEF VxInv, VxTypes
<1>2. /\ HasFields(o) /\ DOMAIN open9x = Programs /\ Place(app[p], o)
      /\ \A q \in Programs : HasFields(open9x[q])
  BY <1>1, Known
<1>3. timers' = timers \ {t} /\ vxd' = vxd /\ app' = app /\ exits9x \subseteq exits9x'
  BY DEF ReadTimeout, Exit9x
<1>4. CASE o.life = "open" /\ o.rcv = << >>
  <2> DEFINE oo == [o EXCEPT !.timer = 0]
  <2>1. open9x' = [open9x EXCEPT ![p] = oo]
    BY <1>4 DEF ReadTimeout
  <2>2. HasFields(oo) /\ oo.life = o.life /\ oo.rcv = << >>
    BY <1>2, <1>4 DEF HasFields
  <2> HIDE DEF oo
  <2>3. QED
    BY <1>1, <1>3, <1>4, <2>1, <2>2, AnswerKeeps
<1>5. CASE o.life = "open" /\ o.rcv # << >>
  <2> DEFINE n == AnsweredBy(o)
             k == IF o.mode = "stat" THEN 0 ELSE n.npackets
             oo == [n EXCEPT !.npackets = k]
  <2>1. HasFields(n) /\ n.life = o.life /\ Len(n.rcv) = Len(o.rcv) - 1
    BY <1>2, <1>5, AnsweredInstance
  <2>2. open9x' = [open9x EXCEPT ![p] = oo]
    BY <1>5 DEF ReadTimeout
  <2> HIDE DEF n, k
  <2>3. HasFields(oo) /\ oo.life = o.life /\ Len(oo.rcv) = Len(o.rcv) - 1
    BY <2>1 DEF HasFields
  <2> HIDE DEF oo
  <2>4. QED
    BY <1>1, <1>3, <1>5, <2>2, <2>3, AnswerKeeps
<1>6. CASE o.life # "open"
  <2>1. open9x' = open9x /\ open9x[p].rcv = << >>
    BY <1>2, <1>6 DEF ReadTimeout, Place
  <2>2. ReadEnds(p, t)
    BY <1>1, <1>2, <1>3, <2>1 DEF ReadEnds, AppGoesOn, SameInstance
  <2>3. QED
    BY <1>1, <2>2, ReadEndsKeeps
<1>7. QED
  BY <1>4, <1>5, <1>6

-----------------------------------------------------------------------------
(* Steps that open, close, queue or arm.                                   *)

VxdTypes == [extension : {"none", "ready", "freed"}, instances : Int, list : Seq(Programs),
             files : SUBSET Programs]

InListOf(v) == {v.list[k] : k \in DOMAIN v.list}
With(life, o) == {q \in Programs : o[q].life = life}

ListFor(v, o) ==
  /\ InListOf(v) = With("open", o) \cup With("freed", o)
  /\ \A j, k \in DOMAIN v.list : v.list[j] = v.list[k] => j = k
  /\ Len(v.list) + Cardinality(With("opening", o)) <= v.instances
  /\ v.extension # "ready" => v.list = << >> /\ With("opening", o) = {}

LEMMA ListIs == OpenList <=> ListFor(vxd, open9x)
  BY DEF OpenList, ListFor, InList, InListOf, With, Opening9x

LEMMA ListWillBe == OpenList' <=> ListFor(vxd', open9x')
  BY DEF OpenList, ListFor, InList, InListOf, With, Opening9x

(* A life is the life of finitely many.                                    *)
LEMMA WithFinite ==
  ASSUME NEW life, NEW o
  PROVE  IsFiniteSet(With(life, o)) /\ Cardinality(With(life, o)) \in Nat
  BY ProgramsAssumption, FS_Subset, FS_CardinalityType DEF With

LEMMA Prepended ==
  ASSUME NEW l \in Seq(Programs), NEW p \in Programs,
         p \notin {l[k] : k \in DOMAIN l}, \A j, k \in DOMAIN l : l[j] = l[k] => j = k
  PROVE  LET m == <<p>> \o l
         IN /\ m \in Seq(Programs) /\ Len(m) = Len(l) + 1
            /\ {m[k] : k \in DOMAIN m} = {l[k] : k \in DOMAIN l} \cup {p}
            /\ \A j, k \in DOMAIN m : m[j] = m[k] => j = k
<1> DEFINE m == <<p>> \o l
<1>1. <<p>> \in Seq(Programs) /\ Len(<<p>>) = 1 /\ <<p>>[1] = p /\ Len(l) \in Nat
  BY LenProperties
<1>2. m \in Seq(Programs) /\ Len(m) = Len(l) + 1
  BY <1>1, ConcatProperties
<1>3. m[1] = p /\ \A k \in 2..(Len(l) + 1) : m[k] = l[k - 1]
  BY <1>1, ConcatProperties
<1> HIDE DEF m
<1>4. DOMAIN m = 1..(Len(l) + 1) /\ DOMAIN l = 1..Len(l)
  BY <1>2, LenProperties
<1>5. \A k \in DOMAIN m : k = 1 \/ (k - 1 \in DOMAIN l /\ m[k] = l[k - 1])
  BY <1>1, <1>3, <1>4
<1>6. \A k \in DOMAIN l : k + 1 \in DOMAIN m /\ m[k + 1] = l[k]
  BY <1>1, <1>3, <1>4
<1>7. 1 \in DOMAIN m
  BY <1>1, <1>4
<1>8. {m[k] : k \in DOMAIN m} = {l[k] : k \in DOMAIN l} \cup {p}
  BY <1>3, <1>5, <1>6, <1>7
<1>9. \A j, k \in DOMAIN m : m[j] = m[k] => j = k
  BY <1>3, <1>4, <1>5, <1>1
<1>10. QED
  BY <1>2, <1>8, <1>9 DEF m

LEMMA Removed ==
  ASSUME NEW l \in Seq(Programs), NEW p \in {l[k] : k \in DOMAIN l},
         \A j, k \in DOMAIN l : l[j] = l[k] => j = k
  PROVE  LET m == RemoveEntryList(l, p)
         IN /\ m \in Seq(Programs) /\ Len(m) = Len(l) - 1
            /\ {m[k] : k \in DOMAIN m} = {l[k] : k \in DOMAIN l} \ {p}
            /\ \A j, k \in DOMAIN m : m[j] = m[k] => j = k
<1> DEFINE i == CHOOSE k \in DOMAIN l : l[k] = p
           a == SubSeq(l, 1, i - 1)
           b == SubSeq(l, i + 1, Len(l))
           m == RemoveEntryList(l, p)
<1>1. i \in DOMAIN l /\ l[i] = p
  OBVIOUS
<1>2. m = a \o b
  BY DEF RemoveEntryList
<1> HIDE DEF i
<1>3. i \in 1..Len(l) /\ Len(l) \in Nat /\ DOMAIN l = 1..Len(l)
  BY <1>1, LenProperties
<1>4. /\ a \in Seq(Programs) /\ Len(a) = i - 1 /\ \A k \in 1..(i - 1) : a[k] = l[k]
      /\ b \in Seq(Programs) /\ Len(b) = Len(l) - i /\ \A k \in 1..(Len(l) - i) : b[k] = l[i + k]
  <2>1. \A k \in 1..(i - 1) : l[k] \in Programs
    BY <1>3, ElementOfSeq
  <2>2. \A k \in (i + 1)..Len(l) : l[k] \in Programs
    BY <1>3, ElementOfSeq
  <2>3. a \in Seq(Programs) /\ Len(a) = i - 1 /\ \A k \in 1..(i - 1) : a[k] = l[k]
    BY <1>3, <2>1, SubSeqProperties
  <2>4. b \in Seq(Programs) /\ Len(b) = Len(l) - i /\ \A k \in 1..(Len(l) - i) : b[k] = l[i + k]
    <3> DEFINE n == Len(l)
    <3>1. n \in Nat /\ i + 1 \in 1..(n + 1) /\ n \in i..n /\ n - (i + 1) + 1 = n - i
      BY <1>3
    <3>2. n \in ((i + 1) - 1)..n
      BY <1>3
    <3>3. /\ b \in Seq(Programs)
          /\ Len(b) = IF i + 1 <= n THEN n - (i + 1) + 1 ELSE 0
          /\ \A k \in 1..(n - (i + 1) + 1) : b[k] = l[(i + 1) + k - 1]
      BY <3>1, <3>2, SubSeqProperties
    <3>4. \A k \in 1..(n - i) : (i + 1) + k - 1 = i + k
      BY <1>3
    <3>5. Len(b) = n - i
      <4>1. i <= n /\ i \in Int /\ n \in Int
        BY <1>3
      <4> DEFINE c == Len(b)
      <4>2. c = IF i + 1 <= n THEN n - (i + 1) + 1 ELSE 0
        BY <3>3
      <4> HIDE DEF c, n
      <4>3. c = n - i
        BY <4>1, <4>2
      <4>4. QED
        BY <4>3 DEF c
    <3>6. QED
      BY <3>1, <3>3, <3>4, <3>5
  <2>5. QED
    BY <2>3, <2>4
<1> HIDE DEF a, b, m
<1>5. /\ m \in Seq(Programs) /\ Len(m) = Len(l) - 1
      /\ \A k \in 1..(i - 1) : m[k] = l[k]
      /\ \A k \in i..(Len(l) - 1) : m[k] = l[k + 1]
  <2>1. m \in Seq(Programs) /\ Len(m) = Len(a) + Len(b)
    BY <1>2, <1>4, ConcatProperties
  <2>2. \A k \in 1..(Len(a) + Len(b)) : m[k] = IF k <= Len(a) THEN a[k] ELSE b[k - Len(a)]
    BY <1>2, <1>4, ConcatProperties
  <2>3. Len(m) = Len(l) - 1
    BY <1>3, <1>4, <2>1
  <2>4. ASSUME NEW k \in 1..(i - 1) PROVE m[k] = l[k]
    <3>1. k \in 1..(Len(a) + Len(b)) /\ k <= Len(a)
      BY <1>3, <1>4
    <3>2. m[k] = a[k]
      BY <2>2, <3>1
    <3>3. QED
      BY <1>4, <3>2
  <2>5. ASSUME NEW k \in i..(Len(l) - 1) PROVE m[k] = l[k + 1]
    <3>1. k - (i - 1) \in 1..(Len(l) - i) /\ i + (k - (i - 1)) = k + 1 /\ ~(k <= i - 1)
          /\ k \in 1..(Len(a) + Len(b))
      BY <1>3, <1>4
    <3>2. m[k] = b[k - (i - 1)]
      BY <1>4, <2>2, <3>1
    <3>3. b[k - (i - 1)] = l[i + (k - (i - 1))]
      BY <1>4, <3>1
    <3>4. QED
      BY <3>1, <3>2, <3>3
  <2>6. QED
    BY <2>1, <2>3, <2>4, <2>5
<1>6. DOMAIN m = 1..(Len(l) - 1)
  BY <1>5, LenProperties
<1>7. \A k \in DOMAIN m : \E j \in DOMAIN l : m[k] = l[j] /\ j # i /\ (j = k \/ j = k + 1) /\ (j = k <=> k < i)
  <2> SUFFICES ASSUME NEW k \in DOMAIN m
               PROVE \E j \in DOMAIN l : m[k] = l[j] /\ j # i /\ (j = k \/ j = k + 1) /\ (j = k <=> k < i)
    OBVIOUS
  <2>1. CASE k < i
    <3>1. k \in 1..(i - 1) /\ k \in DOMAIN l /\ k # i
      BY <1>3, <1>6, <2>1
    <3>2. QED
      BY <1>5, <2>1, <3>1
  <2>2. CASE ~(k < i)
    <3>1. k \in i..(Len(l) - 1) /\ k + 1 \in DOMAIN l /\ k + 1 # i /\ k + 1 # k
      BY <1>3, <1>6, <2>2
    <3>2. QED
      BY <1>5, <2>2, <3>1
  <2>3. QED
    BY <2>1, <2>2
<1>8. \A j \in DOMAIN l : j # i => \E k \in DOMAIN m : m[k] = l[j]
  <2>1. SUFFICES ASSUME NEW j \in DOMAIN l, j # i PROVE \E k \in DOMAIN m : m[k] = l[j]
    OBVIOUS
  <2>2. CASE j < i
    BY <1>3, <1>5, <1>6, <2>1, <2>2
  <2>3. CASE j > i
    <3>1. j - 1 \in i..(Len(l) - 1) /\ j - 1 \in DOMAIN m /\ (j - 1) + 1 = j
      BY <1>3, <1>6, <2>1, <2>3
    <3>2. m[j - 1] = l[(j - 1) + 1]
      BY <1>5, <3>1
    <3>3. QED
      BY <3>1, <3>2
  <2>4. QED
    BY <1>3, <2>1, <2>2, <2>3
<1>9. {m[k] : k \in DOMAIN m} = {l[k] : k \in DOMAIN l} \ {p}
  <2>1. ASSUME NEW j \in DOMAIN l PROVE l[j] = p <=> j = i
    BY <1>1
  <2>2. \A k \in DOMAIN m : m[k] \in {l[j] : j \in DOMAIN l} \ {p}
    BY <1>7, <2>1
  <2>3. \A j \in DOMAIN l : l[j] # p => l[j] \in {m[k] : k \in DOMAIN m}
    BY <1>8, <2>1
  <2>4. QED
    BY <2>2, <2>3
<1>10. \A j, k \in DOMAIN m : m[j] = m[k] => j = k
  <2> SUFFICES ASSUME NEW j \in DOMAIN m, NEW k \in DOMAIN m, m[j] = m[k] PROVE j = k
    OBVIOUS
  <2>1. PICK x \in DOMAIN l : m[j] = l[x] /\ x # i /\ (x = j \/ x = j + 1) /\ (x = j <=> j < i)
    BY <1>7
  <2>2. PICK y \in DOMAIN l : m[k] = l[y] /\ y # i /\ (y = k \/ y = k + 1) /\ (y = k <=> k < i)
    BY <1>7
  <2>3. x = y
    BY <2>1, <2>2
  <2>4. QED
    BY <1>3, <1>6, <2>1, <2>2, <2>3
<1>11. QED
  BY <1>5, <1>9, <1>10 DEF m

(* With the last handle goes the VxD: nothing is left in its list.         *)
LEMMA WithoutFileList ==
  ASSUME NEW v \in VxdTypes, NEW o, NEW p \in Programs, ListFor(v, o),
         \A q \in Programs : o[q].life # "none" => q \in v.files \ {p}
  PROVE  WithoutFile(v, p) \in VxdTypes /\ ListFor(WithoutFile(v, p), o)
<1> DEFINE w == WithoutFile(v, p)
<1>1. w \in VxdTypes /\ w.list = v.list
  <2> DEFINE e == IF v.files = {p} THEN "none" ELSE v.extension
             n == IF v.files = {p} THEN 0 ELSE v.instances
             f == v.files \ {p}
  <2>1. w = [v EXCEPT !.files = f, !.extension = e, !.instances = n]
    BY DEF WithoutFile
  <2>2. e \in {"none", "ready", "freed"} /\ n \in Int /\ f \in SUBSET Programs
    BY DEF VxdTypes
  <2> HIDE DEF e, n, f, w
  <2>3. QED
    BY <2>1, <2>2 DEF VxdTypes
<1>2. CASE v.files # {p}
  <2>1. w.extension = v.extension /\ w.instances = v.instances
    BY <1>2 DEF WithoutFile, VxdTypes
  <2> HIDE DEF w
  <2>2. ListFor(w, o)
    BY <1>1, <2>1 DEF ListFor, InListOf
  <2>3. QED
    BY <1>1, <2>2 DEF w
<1>3. CASE v.files = {p}
  <2>1. w.extension = "none" /\ w.instances = 0
    BY <1>3 DEF WithoutFile, VxdTypes
  <2>2. \A q \in Programs : o[q].life = "none"
    BY <1>3
  <2>3. With("opening", o) = {} /\ With("open", o) = {} /\ With("freed", o) = {}
    BY <2>2 DEF With
  <2>4. v.list \in Seq(Programs) /\ InListOf(v) = {}
    BY <2>3 DEF ListFor, VxdTypes
  <2>5. Len(v.list) \in Nat /\ DOMAIN v.list = 1..Len(v.list)
    BY <2>4, LenProperties
  <2>6. DOMAIN v.list = {}
    BY <2>4 DEF InListOf
  <2>7. Len(v.list) = 0
    <3> DEFINE n == Len(v.list)
    <3>1. n \in Nat /\ 1..n = {}
      BY <2>5, <2>6
    <3> HIDE DEF n
    <3>2. n = 0
      BY <3>1
    <3>3. QED
      BY <3>2 DEF n
  <2>8. v.list = << >>
    BY <2>4, <2>7, EmptySeq
  <2>9. Cardinality({}) = 0
    BY FS_EmptySet
  <2> HIDE DEF w
  <2>10. ListFor(w, o)
    <3>1. w.list = << >> /\ InListOf(w) = {} /\ DOMAIN w.list = {} /\ Len(w.list) = 0
      BY <1>1, <2>4, <2>6, <2>7, <2>8 DEF InListOf
    <3>2. Cardinality(With("opening", o)) = 0
      BY <2>3, <2>9
    <3>3. Len(w.list) + Cardinality(With("opening", o)) <= w.instances
      BY <2>1, <3>1, <3>2
    <3>4. InListOf(w) = With("open", o) \cup With("freed", o)
      BY <2>3, <3>1
    <3>5. QED
      BY <2>3, <3>1, <3>3, <3>4 DEF ListFor
  <2>11. QED
    BY <1>1, <2>10 DEF w
<1>4. QED
  BY <1>2, <1>3

(* What a step of p leaves of the others.                                  *)
LEMMA OthersKept ==
  ASSUME VxInv, NEW p \in Programs,
         \A q \in Programs \ {p} : app'[q] = app[q] /\ open9x'[q] = open9x[q] /\ TimersOf(q)' = TimersOf(q),
         vxd.files \ {p} \subseteq vxd'.files, exits9x \subseteq exits9x'
  PROVE  \A q \in Programs \ {p} :
           Place(app'[q], open9x'[q]) /\ HandleOf9x(q)' /\ ReadTimers(q)'
<1> SUFFICES ASSUME NEW q \in Programs \ {p}
             PROVE  Place(app'[q], open9x'[q]) /\ HandleOf9x(q)' /\ ReadTimers(q)'
  OBVIOUS
<1>1. Place(app[q], open9x[q]) /\ HandleOf9x(q) /\ ReadTimers(q)
  BY DEF VxInv
<1>2. app'[q] = app[q] /\ open9x'[q] = open9x[q] /\ TimersOf(q)' = TimersOf(q)
  OBVIOUS
<1>3. HandleOf9x(q)'
  BY <1>1, <1>2 DEF HandleOf9x
<1>4. ReadTimers(q)'
  BY <1>1, <1>2 DEF ReadTimers
<1>5. QED
  BY <1>1, <1>2, <1>3, <1>4

(* Where p's instance and its record become o and a, all else is together. *)
OneChanges(p, a, o) ==
  /\ DOMAIN open9x' = Programs /\ open9x'[p] = o /\ HasFields(o)
  /\ DOMAIN app' = Programs /\ app'[p] = a /\ AppTyped(a)
  /\ \A q \in Programs \ {p} : app'[q] = app[q] /\ open9x'[q] = open9x[q]
  /\ vxd.files \ {p} \subseteq vxd'.files /\ vxd' \in VxdTypes
  /\ exits9x \subseteq exits9x'

LEMMA ChangeKeeps ==
  ASSUME VxInv, NEW p \in Programs, NEW a, NEW o, OneChanges(p, a, o), timers' = timers,
         Place(a, o), HandleOf9x(p)', ReadTimers(p)', ListFor(vxd', open9x')
  PROVE  VxInv'
<1>1. DOMAIN open9x = Programs /\ DOMAIN app = Programs
      /\ \A q \in Programs : HasFields(open9x[q]) /\ AppTyped(app[q])
  BY Known
<1>2. /\ DOMAIN open9x' = Programs /\ DOMAIN app' = Programs /\ app'[p] = a /\ open9x'[p] = o
      /\ \A q \in Programs \ {p} : app'[q] = app[q] /\ open9x'[q] = open9x[q]
  BY DEF OneChanges
<1>3. \A q \in Programs : HasFields(open9x'[q]) /\ AppTyped(app'[q])
  BY <1>1, <1>2 DEF OneChanges
<1>4. VxTypes'
  BY <1>2, <1>3 DEF VxInv, VxTypes, OneChanges, VxdTypes
<1>5. \A q \in Programs : TimersOf(q)' = TimersOf(q)
  BY DEF TimersOf
<1>6. \A q \in Programs \ {p} : Place(app'[q], open9x'[q]) /\ HandleOf9x(q)' /\ ReadTimers(q)'
  BY <1>2, <1>5, OthersKept DEF OneChanges
<1>7. Place(app'[p], open9x'[p])
  BY <1>2
<1>8. QED
  BY <1>4, <1>6, <1>7, ListWillBe DEF VxInv

(* An instance without reads has no use for timeouts.                      *)
LEMMA NoReadsTimed ==
  ASSUME VxInv, NEW p \in Programs, timers' = timers, exits9x \subseteq exits9x',
         app'[p].reads = app[p].reads, app'[p].at # "arm", open9x'[p].rcv = << >>,
         \/ open9x'[p].life = "open" \/ open9x[p].life # "open"
         \/ exits9x' \cap {"unboundListed", "timerLeft"} # {} \/ TimersOf(p) = {}
  PROVE  ReadTimers(p)'
<1>1. ReadTimers(p) /\ TimersOf(p)' = TimersOf(p) /\ app[p].reads \in Nat
  BY DEF VxInv, VxTypes, AppTyped, TimersOf
<1>2. \A t \in TimersOf(p) : t.nr <= app'[p].reads
  BY <1>1 DEF ReadTimers
<1>3. Cardinality(TimersOf(p)) \in Nat
  BY FS_Subset, FS_CardinalityType DEF TimersOf, VxInv, VxTypes
<1>4. Len(open9x'[p].rcv) = 0
  OBVIOUS
<1>5. Len(open9x'[p].rcv) <= Cardinality(TimersOf(p)) + (IF app'[p].at = "arm" THEN 1 ELSE 0)
  BY <1>3, <1>4
<1>6. exits9x' \cap {"unboundListed", "timerLeft"} = {} /\ TimersOf(p) # {} => open9x'[p].life = "open"
  BY <1>1 DEF ReadTimers
<1>7. QED
  BY <1>1, <1>2, <1>5, <1>6 DEF ReadTimers

(* The types of the driver's record.                                       *)
LEMMA VxdTyped ==
  ASSUME VxInv
  PROVE  vxd \in VxdTypes /\ vxd.instances \in Int /\ vxd.list \in Seq(Programs) /\ Len(vxd.list) \in Nat
<1>1. vxd \in VxdTypes
  BY DEF VxInv, VxTypes, VxdTypes
<1>2. QED
  BY <1>1, LenProperties DEF VxdTypes

LEMMA FreshInstances ==
  /\ HasFields(NoInstance) /\ NoInstance.life = "none" /\ NoInstance.rcv = << >>
  /\ HasFields(Opened9x) /\ Opened9x.life = "open" /\ Opened9x.rcv = << >>
  /\ \A life : LET o == [NoInstance EXCEPT !.life = life]
               IN HasFields(o) /\ o.life = life /\ o.rcv = << >>
<1>1. << >> \in Seq(VxCallArgs)
  OBVIOUS
<1>2. QED
  BY <1>1 DEF HasFields, NoInstance, Opened9x

(* CreateFile and CloseHandle without an instance.                         *)
LEMMA CreateFileKeeps ==
  ASSUME VxInv, NEW p \in Programs, CreateFile(p)
  PROVE  VxInv'
<1>1. UNCHANGED <<open9x, app, timers, exits9x>>
  BY DEF CreateFile
<1>2. /\ vxd' \in VxdTypes /\ vxd'.list = vxd.list /\ vxd'.instances = vxd.instances
      /\ vxd'.extension \in {"ready", vxd.extension} /\ vxd.files \subseteq vxd'.files
  <2> DEFINE e == IF vxd.files = {} THEN "ready" ELSE vxd.extension
  <2>1. vxd' = [vxd EXCEPT !.files = @ \cup {p}, !.extension = e]
    BY DEF CreateFile
  <2>2. e \in {"ready", vxd.extension} /\ vxd \in VxdTypes
    BY VxdTyped
  <2> HIDE DEF e
  <2>3. QED
    BY <2>1, <2>2 DEF VxdTypes
<1>3. OpenList'
  <2>1. ListFor(vxd, open9x)
    BY ListIs DEF VxInv
  <2>2. ListFor(vxd', open9x)
    BY <1>2, <2>1 DEF ListFor, InListOf
  <2>3. QED
    BY <1>1, <2>2, ListWillBe
<1>4. VxTypes'
  BY <1>1, <1>2 DEF VxInv, VxTypes, VxdTypes
<1>5. \A q \in Programs : Place(app'[q], open9x'[q]) /\ HandleOf9x(q)' /\ ReadTimers(q)'
  BY <1>1, <1>2 DEF VxInv, HandleOf9x, ReadTimers, TimersOf
<1>6. QED
  BY <1>3, <1>4, <1>5 DEF VxInv

LEMMA NoInstanceHereKeeps ==
  ASSUME VxInv, NEW p \in Programs, NoInstanceHere(p)
  PROVE  VxInv'
<1>1. /\ app[p].at = "ioctl" /\ open9x[p].life = "none" /\ open9x' = open9x /\ timers' = timers
      /\ exits9x' = exits9x /\ app' = [app EXCEPT ![p] = Fails(@)]
      /\ vxd' = vxd \/ vxd' = WithoutFile(vxd, p)
  BY DEF NoInstanceHere
<1>2. CASE vxd' = vxd
  <2>1. app[p].at # "arm" /\ open9x[p].life # "opening"
    BY <1>1
  <2>2. AppGoesOn(p)
    BY <1>1, <2>1, FailsNext
  <2>3. Mild(p)
    BY <1>1, <1>2, <2>2, InstancesStay DEF Mild
  <2>4. QED
    BY <2>3, MildKeeps
<1>3. CASE vxd' = WithoutFile(vxd, p)
  <2> DEFINE a == Fails(app[p])
             o == open9x[p]
  <2>1. AppTyped(app[p]) /\ HasFields(o) /\ Place(app[p], o) /\ DOMAIN app = Programs /\ DOMAIN open9x = Programs
    BY Known
  <2>2. AppTyped(a) /\ OpensOnlyFirst(a.ioctls) /\ a.at = "main" /\ a.reads = app[p].reads
    BY <2>1, FailsRecord
  <2>3. \A q \in Programs : open9x[q].life # "none" => q \in vxd.files \ {p}
    BY <1>1 DEF VxInv, HandleOf9x
  <2>4. vxd \in VxdTypes /\ ListFor(vxd, open9x)
    BY VxdTyped, ListIs DEF VxInv
  <2>5. vxd' \in VxdTypes /\ ListFor(vxd', open9x)
    BY <1>3, <2>3, <2>4, WithoutFileList
  <2>6. vxd'.files = vxd.files \ {p}
    BY <1>3, <2>4 DEF WithoutFile, VxdTypes
  <2>7. /\ DOMAIN app' = Programs /\ app'[p] = a /\ open9x'[p] = o /\ DOMAIN open9x' = Programs
        /\ \A q \in Programs \ {p} : app'[q] = app[q] /\ open9x'[q] = open9x[q]
    BY <1>1, <2>1
  <2> HIDE DEF a
  <2>8. OneChanges(p, a, o)
    BY <1>1, <2>1, <2>2, <2>5, <2>6, <2>7 DEF OneChanges
  <2>9. Place(a, o)
    BY <1>1, <2>1, <2>2 DEF Place, Pending9x, InDriver
  <2>10. HandleOf9x(p)'
    BY <1>1, <2>2, <2>7 DEF HandleOf9x
  <2>11. ReadTimers(p)'
    <3>1. open9x'[p].rcv = << >> /\ open9x[p].life # "open" /\ app'[p].at # "arm" /\ app'[p].reads = app[p].reads
      BY <1>1, <2>1, <2>2, <2>7 DEF Place
    <3>2. QED
      BY <1>1, <3>1, NoReadsTimed
  <2>12. QED
    BY <1>1, <2>5, <2>8, <2>9, <2>10, <2>11, ChangeKeeps
<1>4. QED
  BY <1>1, <1>2, <1>3

(* PacketOpen, in one step or two.                                         *)
LEMMA OpenAtOnceKeeps ==
  ASSUME VxInv, NEW p \in Programs, OpenAtOnce(p)
  PROVE  VxInv'
<1> DEFINE a == Succeeds(app[p])
           l == <<p>> \o vxd.list
<1>1. /\ app[p].at = "ioctl" /\ app[p].ioctls # << >> /\ Head(app[p].ioctls).do = "open"
      /\ timers' = timers /\ exits9x' = exits9x /\ vxd.extension = "ready"
      /\ vxd' = [Counted EXCEPT !.list = <<p>> \o Counted.list]
      /\ open9x' = [open9x EXCEPT ![p] = Opened9x] /\ app' = [app EXCEPT ![p] = a]
  BY DEF OpenAtOnce, Calls9x
<1>2. /\ AppTyped(app[p]) /\ Place(app[p], open9x[p]) /\ HandleOf9x(p)
      /\ DOMAIN app = Programs /\ DOMAIN open9x = Programs
  BY Known DEF VxInv
<1>3. ~NoOpens(app[p].ioctls)
  <2>1. Len(app[p].ioctls) \in Nat \ {0} /\ Head(app[p].ioctls) = app[p].ioctls[1]
        /\ DOMAIN app[p].ioctls = 1..Len(app[p].ioctls)
    BY <1>1, <1>2, EmptySeq, LenProperties DEF AppTyped
  <2>2. 1 \in DOMAIN app[p].ioctls
    BY <2>1
  <2>3. QED
    BY <1>1, <2>1, <2>2 DEF NoOpens
<1>4. open9x[p].life = "none" /\ p \in vxd.files
  BY <1>1, <1>2, <1>3 DEF Place, HandleOf9x
<1>5. /\ AppTyped(a) /\ NoOpens(a.ioctls) /\ OpensOnlyFirst(a.ioctls) /\ a.at \in {"main", "ioctl"}
      /\ a.reads = app[p].reads
  BY <1>1, <1>2, SucceedsRecord DEF Place
<1>6. /\ app'[p] = a /\ open9x'[p] = Opened9x /\ DOMAIN app' = Programs /\ DOMAIN open9x' = Programs
      /\ \A q \in Programs \ {p} : app'[q] = app[q] /\ open9x'[q] = open9x[q]
  BY <1>1, <1>2
<1> HIDE DEF a
<1>7. vxd \in VxdTypes /\ vxd.list \in Seq(Programs) /\ vxd.instances \in Int
      /\ Len(vxd.list) \in Nat /\ ListFor(vxd, open9x)
  BY VxdTyped, ListIs DEF VxInv
<1>8. p \notin InListOf(vxd)
  BY <1>4, <1>7 DEF ListFor, With
<1>9. /\ l \in Seq(Programs) /\ Len(l) = Len(vxd.list) + 1
      /\ {l[k] : k \in DOMAIN l} = InListOf(vxd) \cup {p}
      /\ \A j, k \in DOMAIN l : l[j] = l[k] => j = k
  BY <1>7, <1>8, Prepended DEF ListFor, InListOf
<1> HIDE DEF l
<1>10. /\ vxd' \in VxdTypes /\ vxd'.list = l /\ vxd'.instances = vxd.instances + 1
       /\ vxd'.extension = "ready" /\ vxd'.files = vxd.files
  <2> DEFINE n == vxd.instances + 1
  <2>1. n \in Int /\ Counted = [vxd EXCEPT !.instances = n]
    BY <1>7 DEF Counted
  <2> HIDE DEF n
  <2>2. Counted \in VxdTypes /\ Counted.list = vxd.list /\ Counted.instances = n
        /\ Counted.extension = vxd.extension /\ Counted.files = vxd.files
    BY <1>7, <2>1 DEF VxdTypes
  <2>3. vxd' = [Counted EXCEPT !.list = l]
    BY <1>1, <2>2 DEF l
  <2> DEFINE c == Counted
  <2> HIDE DEF c
  <2>4. /\ c \in VxdTypes /\ c.instances = n /\ vxd' = [c EXCEPT !.list = l]
        /\ c.extension = vxd.extension /\ c.files = vxd.files
    BY <2>2, <2>3 DEF c
  <2>5. /\ vxd' \in VxdTypes /\ vxd'.list = l /\ vxd'.instances = n
        /\ vxd'.extension = vxd.extension /\ vxd'.files = vxd.files
    BY <1>9, <2>4 DEF VxdTypes
  <2>6. QED
    BY <1>1, <2>5 DEF n
<1>11. ListFor(vxd', open9x')
  <2>1. /\ With("open", open9x') = With("open", open9x) \cup {p}
        /\ With("freed", open9x') = With("freed", open9x) /\ With("opening", open9x') = With("opening", open9x)
    BY <1>4, <1>6, FreshInstances DEF With
  <2>2. InListOf(vxd') = InListOf(vxd) \cup {p}
    <3>1. InListOf(vxd') = {l[k] : k \in DOMAIN l}
      BY <1>10 DEF InListOf
    <3>2. QED
      BY <1>9, <3>1
  <2>3. Cardinality(With("opening", open9x)) \in Nat
    BY WithFinite
  <2>4. Len(vxd'.list) + Cardinality(With("opening", open9x')) <= vxd'.instances
    BY <1>7, <1>9, <1>10, <2>1, <2>3 DEF ListFor
  <2>5. QED
    BY <1>7, <1>9, <1>10, <2>1, <2>2, <2>4 DEF ListFor
<1>12. OneChanges(p, a, Opened9x)
  BY <1>1, <1>5, <1>6, <1>10, FreshInstances DEF OneChanges
<1>13. Place(a, Opened9x)
  BY <1>5, FreshInstances DEF Place, Pending9x, InDriver
<1>14. HandleOf9x(p)'
  BY <1>4, <1>5, <1>6, <1>10, FreshInstances DEF HandleOf9x
<1>15. ReadTimers(p)'
  BY <1>1, <1>5, <1>6, FreshInstances, NoReadsTimed
<1>16. QED
  BY <1>1, <1>11, <1>12, <1>13, <1>14, <1>15, ChangeKeeps

LEMMA OpenLaterKeeps ==
  ASSUME VxInv, NEW p \in Programs, OpenLater(p)
  PROVE  VxInv'
<1> DEFINE a == [app[p] EXCEPT !.at = "opening"]
           o == [NoInstance EXCEPT !.life = "opening"]
<1>1. /\ app[p].at = "ioctl" /\ app[p].ioctls # << >> /\ Head(app[p].ioctls).do = "open"
      /\ timers' = timers /\ exits9x' = exits9x /\ vxd.extension = "ready"
      /\ vxd' = Counted
      /\ open9x' = [open9x EXCEPT ![p] = o] /\ app' = [app EXCEPT ![p].at = "opening"]
  BY DEF OpenLater, Calls9x
<1>2. /\ AppTyped(app[p]) /\ Place(app[p], open9x[p]) /\ HandleOf9x(p)
      /\ DOMAIN app = Programs /\ DOMAIN open9x = Programs
  BY Known DEF VxInv
<1>3. ~NoOpens(app[p].ioctls)
  <2>1. Len(app[p].ioctls) \in Nat \ {0} /\ Head(app[p].ioctls) = app[p].ioctls[1]
        /\ DOMAIN app[p].ioctls = 1..Len(app[p].ioctls)
    BY <1>1, <1>2, EmptySeq, LenProperties DEF AppTyped
  <2>2. 1 \in DOMAIN app[p].ioctls
    BY <2>1
  <2>3. QED
    BY <1>1, <2>1, <2>2 DEF NoOpens
<1>4. open9x[p].life = "none" /\ p \in vxd.files
  BY <1>1, <1>2, <1>3 DEF Place, HandleOf9x
<1>5. AppTyped(a) /\ a.ioctls = app[p].ioctls /\ a.at = "opening" /\ a.reads = app[p].reads
  BY <1>2 DEF AppTyped
<1>6. /\ app'[p] = a /\ open9x'[p] = o /\ DOMAIN app' = Programs /\ DOMAIN open9x' = Programs
      /\ \A q \in Programs \ {p} : app'[q] = app[q] /\ open9x'[q] = open9x[q]
  BY <1>1, <1>2
<1>7. HasFields(o) /\ o.life = "opening" /\ o.rcv = << >>
  BY FreshInstances
<1> HIDE DEF a, o
<1>8. vxd \in VxdTypes /\ vxd.list \in Seq(Programs) /\ vxd.instances \in Int
      /\ Len(vxd.list) \in Nat /\ ListFor(vxd, open9x)
  BY VxdTyped, ListIs DEF VxInv
<1>9. /\ vxd' \in VxdTypes /\ vxd'.list = vxd.list /\ vxd'.instances = vxd.instances + 1
      /\ vxd'.extension = "ready" /\ vxd'.files = vxd.files
  BY <1>1, <1>8 DEF Counted, VxdTypes
<1>10. ListFor(vxd', open9x')
  <2>1. /\ With("open", open9x') = With("open", open9x)
        /\ With("freed", open9x') = With("freed", open9x)
        /\ With("opening", open9x') = With("opening", open9x) \cup {p}
    BY <1>4, <1>6, <1>7 DEF With
  <2>2. InListOf(vxd') = InListOf(vxd)
    BY <1>9 DEF InListOf
  <2>3. /\ IsFiniteSet(With("opening", open9x)) /\ Cardinality(With("opening", open9x)) \in Nat
        /\ p \notin With("opening", open9x)
    BY <1>4, WithFinite DEF With
  <2>4. Cardinality(With("opening", open9x')) = Cardinality(With("opening", open9x)) + 1
    BY <2>1, <2>3, FS_AddElement
  <2>5. Len(vxd'.list) + Cardinality(With("opening", open9x')) <= vxd'.instances
    BY <1>8, <1>9, <2>3, <2>4 DEF ListFor
  <2>6. QED
    BY <1>8, <1>9, <2>1, <2>2, <2>5 DEF ListFor
<1>11. OneChanges(p, a, o)
  BY <1>1, <1>5, <1>6, <1>7, <1>9 DEF OneChanges
<1>12. Place(a, o)
  BY <1>1, <1>2, <1>5, <1>7 DEF Place, Pending9x, InDriver
<1>13. HandleOf9x(p)'
  BY <1>4, <1>5, <1>6, <1>7, <1>9 DEF HandleOf9x
<1>14. ReadTimers(p)'
  <2>1. app'[p].reads = app[p].reads /\ app'[p].at # "arm" /\ open9x'[p].rcv = << >> /\ open9x[p].life # "open"
    BY <1>4, <1>5, <1>6, <1>7
  <2>2. QED
    BY <1>1, <2>1, NoReadsTimed
<1>15. QED
  BY <1>1, <1>10, <1>11, <1>12, <1>13, <1>14, ChangeKeeps

LEMMA OpenCompleteKeeps ==
  ASSUME VxInv, NEW p \in Programs, PacketOpenAdapterComplete(p)
  PROVE  VxInv'
<1> DEFINE a == Succeeds(app[p])
           l == <<p>> \o vxd.list
<1>1. /\ open9x[p].life = "opening"
      /\ timers' = timers /\ exits9x' = exits9x
      /\ vxd' = [vxd EXCEPT !.list = l]
      /\ open9x' = [open9x EXCEPT ![p] = Opened9x] /\ app' = [app EXCEPT ![p] = a]
  BY DEF PacketOpenAdapterComplete
<1>2. /\ AppTyped(app[p]) /\ Place(app[p], open9x[p]) /\ HandleOf9x(p)
      /\ DOMAIN app = Programs /\ DOMAIN open9x = Programs
  BY Known DEF VxInv
<1>3. app[p].at = "opening" /\ app[p].ioctls # << >> /\ p \in vxd.files
  BY <1>1, <1>2 DEF Place, Pending9x, HandleOf9x
<1>5. /\ AppTyped(a) /\ NoOpens(a.ioctls) /\ OpensOnlyFirst(a.ioctls) /\ a.at \in {"main", "ioctl"}
      /\ a.reads = app[p].reads
  BY <1>2, <1>3, SucceedsRecord DEF Place
<1>6. /\ app'[p] = a /\ open9x'[p] = Opened9x /\ DOMAIN app' = Programs /\ DOMAIN open9x' = Programs
      /\ \A q \in Programs \ {p} : app'[q] = app[q] /\ open9x'[q] = open9x[q]
  BY <1>1, <1>2
<1> HIDE DEF a
<1>7. vxd \in VxdTypes /\ vxd.list \in Seq(Programs) /\ vxd.instances \in Int
      /\ Len(vxd.list) \in Nat /\ ListFor(vxd, open9x)
  BY VxdTyped, ListIs DEF VxInv
<1>8. p \notin InListOf(vxd)
  BY <1>1, <1>7 DEF ListFor, With
<1>9. /\ l \in Seq(Programs) /\ Len(l) = Len(vxd.list) + 1
      /\ {l[k] : k \in DOMAIN l} = InListOf(vxd) \cup {p}
      /\ \A j, k \in DOMAIN l : l[j] = l[k] => j = k
  BY <1>7, <1>8, Prepended DEF ListFor, InListOf
<1> HIDE DEF l
<1>10. /\ vxd' \in VxdTypes /\ vxd'.list = l /\ vxd'.instances = vxd.instances
       /\ vxd'.extension = vxd.extension /\ vxd'.files = vxd.files
  BY <1>1, <1>7, <1>9 DEF VxdTypes
<1>11. ListFor(vxd', open9x')
  <2>1. /\ With("open", open9x') = With("open", open9x) \cup {p}
        /\ With("freed", open9x') = With("freed", open9x)
        /\ With("opening", open9x') = With("opening", open9x) \ {p}
    BY <1>1, <1>6, FreshInstances DEF With
  <2>2. InListOf(vxd') = InListOf(vxd) \cup {p}
    <3>1. InListOf(vxd') = {l[k] : k \in DOMAIN l}
      BY <1>10 DEF InListOf
    <3>2. QED
      BY <1>9, <3>1
  <2>3. /\ IsFiniteSet(With("opening", open9x)) /\ Cardinality(With("opening", open9x)) \in Nat
        /\ p \in With("opening", open9x)
    BY <1>1, WithFinite DEF With
  <2>4. Cardinality(With("opening", open9x')) = Cardinality(With("opening", open9x)) - 1
    BY <2>1, <2>3, FS_RemoveElement
  <2>5. Len(vxd'.list) + Cardinality(With("opening", open9x')) <= vxd'.instances
    BY <1>7, <1>9, <1>10, <2>3, <2>4 DEF ListFor
  <2>6. vxd.extension = "ready"
    BY <1>7, <2>3 DEF ListFor
  <2>7. QED
    BY <1>7, <1>9, <1>10, <2>1, <2>2, <2>5, <2>6 DEF ListFor
<1>12. OneChanges(p, a, Opened9x)
  BY <1>1, <1>5, <1>6, <1>10, FreshInstances DEF OneChanges
<1>13. Place(a, Opened9x)
  BY <1>5, FreshInstances DEF Place, Pending9x, InDriver
<1>14. HandleOf9x(p)'
  BY <1>3, <1>5, <1>6, <1>10, FreshInstances DEF HandleOf9x
<1>15. ReadTimers(p)'
  BY <1>1, <1>5, <1>6, FreshInstances, NoReadsTimed
<1>16. QED
  BY <1>1, <1>11, <1>12, <1>13, <1>14, <1>15, ChangeKeeps

LEMMA OpenFailsKeeps ==
  ASSUME VxInv, NEW p \in Programs, OpenAdapterFails(p)
  PROVE  VxInv'
<1> DEFINE a == [app[p] EXCEPT !.at = "lost"]
<1>1. /\ open9x[p].life = "opening"
      /\ timers' = timers /\ exits9x \subseteq exits9x' /\ vxd' = vxd
      /\ open9x' = [open9x EXCEPT ![p] = NoInstance] /\ app' = [app EXCEPT ![p].at = "lost"]
  BY DEF OpenAdapterFails, Exit9x
<1>2. /\ AppTyped(app[p]) /\ Place(app[p], open9x[p]) /\ HandleOf9x(p)
      /\ DOMAIN app = Programs /\ DOMAIN open9x = Programs
  BY Known DEF VxInv
<1>3. AppTyped(a) /\ a.ioctls = app[p].ioctls /\ a.at = "lost" /\ a.reads = app[p].reads
  BY <1>2 DEF AppTyped
<1>4. /\ app'[p] = a /\ open9x'[p] = NoInstance /\ DOMAIN app' = Programs /\ DOMAIN open9x' = Programs
      /\ \A q \in Programs \ {p} : app'[q] = app[q] /\ open9x'[q] = open9x[q]
  BY <1>1, <1>2
<1> HIDE DEF a
<1>5. vxd \in VxdTypes /\ vxd.list \in Seq(Programs) /\ vxd.instances \in Int
      /\ Len(vxd.list) \in Nat /\ ListFor(vxd, open9x)
  BY VxdTyped, ListIs DEF VxInv
<1>6. ListFor(vxd', open9x')
  <2>1. /\ With("open", open9x') = With("open", open9x)
        /\ With("freed", open9x') = With("freed", open9x)
        /\ With("opening", open9x') = With("opening", open9x) \ {p}
    BY <1>1, <1>4, FreshInstances DEF With
  <2>2. InListOf(vxd') = InListOf(vxd)
    BY <1>1 DEF InListOf
  <2>3. /\ IsFiniteSet(With("opening", open9x)) /\ Cardinality(With("opening", open9x)) \in Nat
        /\ p \in With("opening", open9x)
    BY <1>1, WithFinite DEF With
  <2>4. Cardinality(With("opening", open9x')) = Cardinality(With("opening", open9x)) - 1
    BY <2>1, <2>3, FS_RemoveElement
  <2>5. Len(vxd'.list) + Cardinality(With("opening", open9x')) <= vxd'.instances
    BY <1>1, <1>5, <2>3, <2>4 DEF ListFor
  <2>6. QED
    BY <1>1, <1>5, <2>1, <2>2, <2>3, <2>5 DEF ListFor
<1>7. OneChanges(p, a, NoInstance)
  BY <1>1, <1>3, <1>4, <1>5, FreshInstances DEF OneChanges
<1>8. Place(a, NoInstance)
  BY <1>2, <1>3, FreshInstances DEF Place, Pending9x, InDriver
<1>9. HandleOf9x(p)'
  BY <1>3, <1>4, FreshInstances DEF HandleOf9x
<1>10. ReadTimers(p)'
  <2>1. app'[p].reads = app[p].reads /\ app'[p].at # "arm" /\ open9x'[p].rcv = << >> /\ open9x[p].life # "open"
    BY <1>1, <1>3, <1>4, FreshInstances
  <2>2. QED
    BY <1>1, <2>1, NoReadsTimed
<1>11. QED
  BY <1>1, <1>6, <1>7, <1>8, <1>9, <1>10, ChangeKeeps

(* PacketRead without a packet: the read is queued, its timeout set.       *)
LEMMA ReadQueueKeeps ==
  ASSUME VxInv, NEW p \in Programs, ReadQueue(p)
  PROVE  VxInv'
<1> DEFINE n == app[p].reads + 1
           r == Append(open9x[p].rcv, Arg9x(p))
           a == [app[p] EXCEPT !.at = "arm", !.reads = n]
           o == [open9x[p] EXCEPT !.rcv = r, !.pool = @ - 1]
<1>1. /\ app[p].at = "queue" /\ timers' = timers /\ exits9x' = exits9x /\ vxd' = vxd
      /\ open9x' = [open9x EXCEPT ![p].rcv = Append(@, Arg9x(p)), ![p].pool = @ - 1]
      /\ app' = [app EXCEPT ![p].at = "arm", ![p].reads = @ + 1]
  BY DEF ReadQueue
<1>2. /\ AppTyped(app[p]) /\ Place(app[p], open9x[p]) /\ HandleOf9x(p) /\ ReadTimers(p)
      /\ HasFields(open9x[p]) /\ DOMAIN app = Programs /\ DOMAIN open9x = Programs
  BY Known DEF VxInv
<1>3. open9x[p].life = "open" /\ app[p].ioctls # << >> /\ n \in Nat /\ app[p].reads \in Nat
  BY <1>1, <1>2 DEF Place, Pending9x, InDriver, AppTyped
<1>4. r \in Seq(VxCallArgs) /\ Len(r) = Len(open9x[p].rcv) + 1 /\ Len(open9x[p].rcv) \in Nat
  <2>1. Head(app[p].ioctls) \in VxCall
    BY <1>2, <1>3, HeadTailProperties DEF AppTyped
  <2>2. Arg9x(p) \in VxCallArgs
    BY <2>1 DEF Arg9x, VxCall
  <2>3. QED
    BY <1>2, <2>2, AppendProperties, LenProperties DEF HasFields
<1>5. app'[p] = a /\ DOMAIN app' = Programs /\ \A q \in Programs \ {p} : app'[q] = app[q]
  BY <1>1, <1>2
<1>6. open9x'[p] = o /\ DOMAIN open9x' = Programs /\ \A q \in Programs \ {p} : open9x'[q] = open9x[q]
  BY <1>1, <1>2
<1> HIDE DEF n, r
<1>7. AppTyped(a) /\ a.ioctls = app[p].ioctls /\ a.at = "arm" /\ a.reads = n
  BY <1>2, <1>3 DEF AppTyped
<1>8. HasFields(o) /\ o.life = "open" /\ o.rcv = r
  BY <1>2, <1>3, <1>4 DEF HasFields
<1> HIDE DEF a, o
<1>9. ListFor(vxd', open9x')
  <2>1. \A life : With(life, open9x') = With(life, open9x)
    BY <1>3, <1>6, <1>8 DEF With
  <2>2. ListFor(vxd, open9x)
    BY ListIs DEF VxInv
  <2>3. QED
    BY <1>1, <2>1, <2>2 DEF ListFor
<1>10. OneChanges(p, a, o)
  BY <1>1, <1>5, <1>6, <1>7, <1>8, VxdTyped DEF OneChanges
<1>11. Place(a, o)
  BY <1>2, <1>3, <1>7, <1>8 DEF Place
<1>12. HandleOf9x(p)'
  BY <1>1, <1>2, <1>3, <1>5, <1>6, <1>7, <1>8 DEF HandleOf9x
<1>13. ReadTimers(p)'
  <2>1. TimersOf(p)' = TimersOf(p) /\ \A t \in TimersOf(p) : t.nr \in Nat
    BY <1>1 DEF TimersOf, VxInv, VxTypes
  <2>2. \A t \in TimersOf(p) : t.nr < n
    BY <1>2, <1>3, <2>1 DEF ReadTimers, n
  <2>3. \A t \in TimersOf(p) : t.nr <= n
    BY <2>1, <2>2, <1>3
  <2>4. Cardinality(TimersOf(p)) \in Nat
    BY FS_Subset, FS_CardinalityType DEF TimersOf, VxInv, VxTypes
  <2>5. "readsLost" \notin exits9x => Len(open9x[p].rcv) <= Cardinality(TimersOf(p)) + 0
    BY <1>1, <1>2 DEF ReadTimers
  <2>6. "readsLost" \notin exits9x => Len(r) <= Cardinality(TimersOf(p)) + 1
    BY <1>4, <2>4, <2>5
  <2>7. QED
    BY <1>1, <1>5, <1>6, <1>7, <1>8, <2>1, <2>2, <2>3, <2>6 DEF ReadTimers
<1>14. QED
  BY <1>1, <1>9, <1>10, <1>11, <1>12, <1>13, ChangeKeeps

LEMMA ReadArmKeeps ==
  ASSUME VxInv, NEW p \in Programs, ReadArm(p)
  PROVE  VxInv'
<1> DEFINE a == Succeeds(app[p])
           o == [open9x[p] EXCEPT !.timer = app[p].reads]
           x == NewTimer(p)
<1>1. /\ app[p].at = "arm" /\ timers' = timers \cup {x} /\ exits9x' = exits9x /\ vxd' = vxd
      /\ open9x' = [open9x EXCEPT ![p].timer = app[p].reads]
      /\ app' = [app EXCEPT ![p] = a]
  BY DEF ReadArm
<1>2. /\ AppTyped(app[p]) /\ Place(app[p], open9x[p]) /\ HandleOf9x(p) /\ ReadTimers(p)
      /\ HasFields(open9x[p]) /\ DOMAIN app = Programs /\ DOMAIN open9x = Programs
      /\ \A q \in Programs : HasFields(open9x[q]) /\ AppTyped(app[q])
  BY Known DEF VxInv
<1>3. open9x[p].life = "open" /\ app[p].ioctls # << >> /\ app[p].reads \in Nat
  BY <1>1, <1>2 DEF Place, Pending9x, InDriver, AppTyped
<1>4. /\ AppTyped(a) /\ NoOpens(a.ioctls) /\ OpensOnlyFirst(a.ioctls) /\ a.at \in {"main", "ioctl"}
      /\ a.reads = app[p].reads
  BY <1>2, <1>3, SucceedsRecord DEF Place
<1>5. app'[p] = a /\ DOMAIN app' = Programs /\ \A q \in Programs \ {p} : app'[q] = app[q]
  BY <1>1, <1>2
<1>6. open9x'[p] = o /\ DOMAIN open9x' = Programs /\ \A q \in Programs \ {p} : open9x'[q] = open9x[q]
  BY <1>1, <1>2
<1>7. x \in [of : Programs, nr : Nat] /\ x.of = p /\ x.nr = app[p].reads
  BY <1>3 DEF NewTimer
<1>8. HasFields(o) /\ o.life = "open" /\ o.rcv = open9x[p].rcv
  BY <1>2, <1>3 DEF HasFields
<1> HIDE DEF a, o, x
<1>9. VxTypes'
  <2>1. timers' \subseteq [of : Programs, nr : Nat] /\ IsFiniteSet(timers')
    BY <1>1, <1>7, FS_AddElement DEF VxInv, VxTypes
  <2>2. \A q \in Programs : HasFields(open9x'[q]) /\ AppTyped(app'[q])
    BY <1>2, <1>4, <1>5, <1>6, <1>8
  <2>3. QED
    BY <1>1, <1>5, <1>6, <2>1, <2>2 DEF VxInv, VxTypes
<1>10. OpenList'
  <2>1. \A life : With(life, open9x') = With(life, open9x)
    BY <1>3, <1>6, <1>8 DEF With
  <2>2. ListFor(vxd, open9x)
    BY ListIs DEF VxInv
  <2>3. ListFor(vxd', open9x')
    BY <1>1, <2>1, <2>2 DEF ListFor
  <2>4. QED
    BY <2>3, ListWillBe
<1>11. \A q \in Programs \ {p} : TimersOf(q)' = TimersOf(q)
  BY <1>1, <1>7 DEF TimersOf
<1>12. \A q \in Programs \ {p} : Place(app'[q], open9x'[q]) /\ HandleOf9x(q)' /\ ReadTimers(q)'
  BY <1>1, <1>5, <1>6, <1>11, OthersKept
<1>13. Place(app'[p], open9x'[p])
  BY <1>4, <1>5, <1>6, <1>8 DEF Place, Pending9x, InDriver
<1>14. HandleOf9x(p)'
  BY <1>1, <1>2, <1>3, <1>4, <1>5, <1>6, <1>8 DEF HandleOf9x
<1>15. ReadTimers(p)'
  <2>1. TimersOf(p)' = TimersOf(p) \cup {x}
    BY <1>1, <1>7 DEF TimersOf
  <2>2. \A t \in TimersOf(p) : t.nr < app[p].reads /\ t.nr \in Nat
    BY <1>1, <1>2 DEF ReadTimers, TimersOf, VxInv, VxTypes
  <2>3. x \notin TimersOf(p)
    BY <1>3, <1>7, <2>2
  <2>4. IsFiniteSet(TimersOf(p)) /\ Cardinality(TimersOf(p)) \in Nat
    BY FS_Subset, FS_CardinalityType DEF TimersOf, VxInv, VxTypes
  <2>5. Cardinality(TimersOf(p) \cup {x}) = Cardinality(TimersOf(p)) + 1
    BY <2>3, <2>4, FS_AddElement
  <2>6. \A t \in TimersOf(p) \cup {x} : t.nr <= app[p].reads
    BY <1>3, <1>7, <2>2
  <2>7. "readsLost" \notin exits9x => Len(open9x[p].rcv) <= Cardinality(TimersOf(p)) + 1
    BY <1>1, <1>2 DEF ReadTimers
  <2>8. Len(open9x[p].rcv) \in Nat
    BY <1>2, LenProperties DEF HasFields
  <2>9. "readsLost" \notin exits9x =>
          Len(open9x[p].rcv) <= Cardinality(TimersOf(p) \cup {x}) + 0
    BY <2>4, <2>5, <2>7, <2>8
  <2>10. QED
    BY <1>1, <1>4, <1>5, <1>6, <1>8, <2>1, <2>6, <2>9 DEF ReadTimers
<1>16. QED
  BY <1>9, <1>10, <1>12, <1>13, <1>14, <1>15 DEF VxInv

(* NDIS removes the adapter.                                               *)
LEMMA UnbindKeeps9x ==
  ASSUME VxInv, NEW p \in Programs, PacketUnbindAdapter(p)
  PROVE  VxInv'
<1> DEFINE a == [app[p] EXCEPT !.at = "lost"]
           o == [NoInstance EXCEPT !.life = "freed"]
<1>1. /\ open9x[p].life = "open" /\ timers' = timers /\ exits9x' = exits9x \cup {"unboundListed"}
      /\ vxd' = vxd
      /\ open9x' = [open9x EXCEPT ![p] = o] /\ app' = [app EXCEPT ![p].at = "lost"]
      /\ app[p].at \notin InDriver
  BY DEF PacketUnbindAdapter, Exit9x
<1>2. /\ AppTyped(app[p]) /\ Place(app[p], open9x[p]) /\ HandleOf9x(p)
      /\ DOMAIN app = Programs /\ DOMAIN open9x = Programs
  BY Known DEF VxInv
<1>3. AppTyped(a) /\ a.ioctls = app[p].ioctls /\ a.at = "lost" /\ a.reads = app[p].reads
  BY <1>2 DEF AppTyped
<1>4. /\ app'[p] = a /\ open9x'[p] = o /\ DOMAIN app' = Programs /\ DOMAIN open9x' = Programs
      /\ \A q \in Programs \ {p} : app'[q] = app[q] /\ open9x'[q] = open9x[q]
  BY <1>1, <1>2
<1>5. HasFields(o) /\ o.life = "freed" /\ o.rcv = << >>
  BY FreshInstances
<1> HIDE DEF a, o
<1>6. vxd \in VxdTypes /\ ListFor(vxd, open9x)
  BY VxdTyped, ListIs DEF VxInv
<1>7. ListFor(vxd', open9x')
  <2>1. /\ With("open", open9x') \cup With("freed", open9x') = With("open", open9x) \cup With("freed", open9x)
        /\ With("opening", open9x') = With("opening", open9x)
    BY <1>1, <1>4, <1>5 DEF With
  <2>2. QED
    BY <1>1, <1>6, <2>1 DEF ListFor
<1>8. OneChanges(p, a, o)
  BY <1>1, <1>3, <1>4, <1>5, <1>6 DEF OneChanges
<1>9. Place(a, o)
  BY <1>2, <1>3, <1>5 DEF Place, Pending9x, InDriver
<1>10. HandleOf9x(p)'
  BY <1>1, <1>2, <1>3, <1>4, <1>5 DEF HandleOf9x
<1>11. ReadTimers(p)'
  <2>1. app'[p].reads = app[p].reads /\ app'[p].at # "arm" /\ open9x'[p].rcv = << >>
    BY <1>3, <1>4, <1>5
  <2>2. exits9x' \cap {"unboundListed", "timerLeft"} # {} /\ exits9x \subseteq exits9x'
    BY <1>1
  <2>3. QED
    BY <1>1, <2>1, <2>2, NoReadsTimed
<1>12. QED
  BY <1>1, <1>7, <1>8, <1>9, <1>10, <1>11, ChangeKeeps

(* The handle is closed: what PacketClose leaves of the lists.             *)
LEMMA CloseEndsKeeps ==
  ASSUME VxInv, NEW p \in Programs, CloseEnds(p)
  PROVE  VxInv'
<1> DEFINE a == Succeeds(app[p])
           l == RemoveEntryList(vxd.list, p)
           v == InstanceGone(p)
<1>1. /\ app[p].at = "plan" /\ timers' = timers /\ exits9x \subseteq exits9x'
      /\ vxd' = WithoutFile(v, p)
      /\ open9x' = [open9x EXCEPT ![p] = NoInstance] /\ app' = [app EXCEPT ![p] = a]
  BY DEF CloseEnds
<1>2. TimersOf(p) # {} => "timerLeft" \in exits9x'
  <2>1. (\E t \in timers : t.of = p) => "timerLeft" \in exits9x'
    BY DEF CloseEnds
  <2>2. QED
    BY <2>1 DEF TimersOf
<1>3. /\ AppTyped(app[p]) /\ Place(app[p], open9x[p]) /\ HandleOf9x(p)
      /\ DOMAIN app = Programs /\ DOMAIN open9x = Programs
  BY Known DEF VxInv
<1>4. open9x[p].life = "open" /\ app[p].ioctls # << >>
  BY <1>1, <1>3 DEF Place, Pending9x, InDriver
<1>5. /\ AppTyped(a) /\ NoOpens(a.ioctls) /\ OpensOnlyFirst(a.ioctls) /\ a.at \in {"main", "ioctl"}
      /\ a.reads = app[p].reads
  BY <1>3, <1>4, SucceedsRecord DEF Place
<1>6. /\ app'[p] = a /\ open9x'[p] = NoInstance /\ DOMAIN app' = Programs /\ DOMAIN open9x' = Programs
      /\ \A q \in Programs \ {p} : app'[q] = app[q] /\ open9x'[q] = open9x[q]
  BY <1>1, <1>3
<1> HIDE DEF a
<1>7. vxd \in VxdTypes /\ vxd.list \in Seq(Programs) /\ vxd.instances \in Int
      /\ Len(vxd.list) \in Nat /\ ListFor(vxd, open9x)
  BY VxdTyped, ListIs DEF VxInv
<1>8. p \in InListOf(vxd)
  BY <1>4, <1>7 DEF ListFor, With
<1>9. /\ l \in Seq(Programs) /\ Len(l) = Len(vxd.list) - 1
      /\ {l[k] : k \in DOMAIN l} = InListOf(vxd) \ {p}
      /\ \A j, k \in DOMAIN l : l[j] = l[k] => j = k
  BY <1>7, <1>8, Removed DEF ListFor, InListOf
<1>10. /\ (With("open", open9x') \cup With("freed", open9x')) = InListOf(vxd) \ {p}
       /\ With("opening", open9x') = With("opening", open9x)
  <2>1. /\ With("open", open9x') = With("open", open9x) \ {p}
        /\ With("freed", open9x') = With("freed", open9x) \ {p}
        /\ With("opening", open9x') = With("opening", open9x)
    BY <1>4, <1>6, FreshInstances DEF With
  <2>2. QED
    BY <1>7, <2>1 DEF ListFor
<1>11. IsFiniteSet(With("opening", open9x)) /\ Cardinality(With("opening", open9x)) \in Nat
  BY WithFinite
<1> DEFINE n == vxd.instances - 1
           left == [vxd EXCEPT !.instances = n, !.list = l]
<1>12. v = IF left.instances > 0 THEN left ELSE [left EXCEPT !.extension = "freed", !.list = << >>]
  BY DEF InstanceGone
<1> HIDE DEF l, v
<1>13. n \in Int /\ Len(l) \in Nat /\ Len(l) + Cardinality(With("opening", open9x)) <= n
  BY <1>7, <1>9, <1>11 DEF ListFor
<1> HIDE DEF n
<1>14. /\ left \in VxdTypes /\ left.list = l /\ left.instances = n
       /\ left.extension = vxd.extension /\ left.files = vxd.files
  BY <1>7, <1>9, <1>13 DEF VxdTypes
<1> HIDE DEF left
<1>15. v \in VxdTypes /\ ListFor(v, open9x') /\ v.files = vxd.files
  <2>1. CASE n > 0
    <3>1. v = left
      BY <1>12, <1>14, <2>1
    <3>2. InListOf(v) = {l[k] : k \in DOMAIN l}
      BY <1>14, <3>1 DEF InListOf
    <3>3. vxd.extension = "ready"
      BY <1>7, <1>8 DEF ListFor, InListOf
    <3>4. ListFor(v, open9x')
      BY <1>9, <1>10, <1>13, <1>14, <3>1, <3>2, <3>3 DEF ListFor
    <3>5. QED
      BY <1>14, <3>1, <3>4
  <2>2. CASE ~(n > 0)
    <3>1. v = [left EXCEPT !.extension = "freed", !.list = << >>]
      BY <1>12, <1>14, <2>2
    <3>2. << >> \in Seq(Programs)
      OBVIOUS
    <3>3. /\ v \in VxdTypes /\ v.list = << >> /\ v.instances = n /\ v.files = vxd.files
      BY <1>14, <3>1, <3>2 DEF VxdTypes
    <3>4. Len(l) = 0 /\ Cardinality(With("opening", open9x)) = 0 /\ n = 0
      BY <1>11, <1>13, <2>2
    <3>5. l = << >> /\ With("opening", open9x) = {}
      BY <1>9, <1>11, <3>4, EmptySeq, FS_EmptySet
    <3>6. InListOf(vxd) \ {p} = {}
      BY <1>9, <3>5
    <3>7. InListOf(v) = {} /\ DOMAIN v.list = {} /\ Len(v.list) = 0
      BY <3>3 DEF InListOf
    <3>8. Len(v.list) + Cardinality(With("opening", open9x')) <= v.instances
      BY <1>10, <3>3, <3>4, <3>7
    <3>9. ListFor(v, open9x')
      BY <1>10, <3>3, <3>5, <3>6, <3>7, <3>8 DEF ListFor
    <3>10. QED
      BY <3>3, <3>9
  <2>3. QED
    BY <2>1, <2>2
<1>16. \A q \in Programs : open9x'[q].life # "none" => q \in v.files \ {p}
  BY <1>6, <1>15, FreshInstances DEF VxInv, HandleOf9x
<1>17. vxd' \in VxdTypes /\ ListFor(vxd', open9x')
  BY <1>1, <1>15, <1>16, WithoutFileList
<1>18. vxd'.files = vxd.files \ {p}
  BY <1>1, <1>15 DEF WithoutFile, VxdTypes
<1>19. OneChanges(p, a, NoInstance)
  BY <1>1, <1>5, <1>6, <1>17, <1>18, FreshInstances DEF OneChanges
<1>20. Place(a, NoInstance)
  BY <1>5, FreshInstances DEF Place, Pending9x, InDriver
<1>21. HandleOf9x(p)'
  BY <1>5, <1>6, FreshInstances DEF HandleOf9x
<1>22. ReadTimers(p)'
  <2>1. app'[p].reads = app[p].reads /\ app'[p].at # "arm" /\ open9x'[p].rcv = << >>
    BY <1>5, <1>6, FreshInstances
  <2>2. exits9x' \cap {"unboundListed", "timerLeft"} # {} \/ TimersOf(p) = {}
    BY <1>2
  <2>3. QED
    BY <1>1, <2>1, <2>2, NoReadsTimed
<1>23. QED
  BY <1>1, <1>17, <1>19, <1>20, <1>21, <1>22, ChangeKeeps

-----------------------------------------------------------------------------
(* From the start, and with every step.                                    *)

LEMMA VxStartHasInv == VxStart => VxInv
<1> SUFFICES ASSUME VxStart
             PROVE  VxInv
  OBVIOUS
<1>1. PICK calls \in [Programs -> Seq(VxCall)] : app = [p \in Programs |-> AppAt("main", calls[p])]
  BY DEF VxStart
<1>2. /\ vxd = [extension |-> "none", instances |-> 0, list |-> << >>, files |-> {}]
      /\ open9x = [p \in Programs |-> NoInstance] /\ timers = {} /\ exits9x = {}
  BY DEF VxStart, VxInit
<1>3. << >> \in Seq(Programs) /\ Len(<< >>) = 0 /\ << >> \in Seq(VxCall) /\ DOMAIN << >> = {}
  OBVIOUS
<1>4. \A p \in Programs : /\ AppTyped(app[p]) /\ app[p].at = "main" /\ app[p].ioctls = << >>
  BY <1>1, <1>3 DEF AppTyped, AppAt
<1>5. \A p \in Programs : HasFields(open9x[p]) /\ open9x[p].life = "none" /\ open9x[p].rcv = << >>
  BY <1>2, FreshInstances
<1>6. VxTypes
  <2>1. vxd \in [extension : {"none", "ready", "freed"}, instances : Int, list : Seq(Programs),
                 files : SUBSET Programs]
    BY <1>2, <1>3
  <2>2. timers \subseteq [of : Programs, nr : Nat] /\ IsFiniteSet(timers)
    BY <1>2, FS_EmptySet
  <2>3. DOMAIN open9x = Programs /\ DOMAIN app = Programs
    BY <1>1, <1>2
  <2>4. QED
    BY <1>4, <1>5, <2>1, <2>2, <2>3 DEF VxTypes
<1>7. OpenList
  <2>1. With("open", open9x) = {} /\ With("freed", open9x) = {} /\ With("opening", open9x) = {}
    BY <1>5 DEF With
  <2>2. InListOf(vxd) = {} /\ DOMAIN vxd.list = {} /\ Len(vxd.list) = 0 /\ vxd.list = << >> /\ vxd.instances = 0
    BY <1>2, <1>3 DEF InListOf
  <2>3. Cardinality({}) = 0
    BY FS_EmptySet
  <2>4. Cardinality(With("opening", open9x)) = 0
    BY <2>1, <2>3
  <2>5. \A j, k \in DOMAIN vxd.list : vxd.list[j] = vxd.list[k] => j = k
    BY <2>2
  <2>6. Len(vxd.list) + Cardinality(With("opening", open9x)) <= vxd.instances
    BY <2>2, <2>4
  <2>7. ListFor(vxd, open9x)
    BY <2>1, <2>2, <2>5, <2>6 DEF ListFor
  <2>8. QED
    BY <2>7, ListIs
<1>8. ASSUME NEW p \in Programs
      PROVE  Place(app[p], open9x[p]) /\ HandleOf9x(p) /\ ReadTimers(p)
  <2>1. Place(app[p], open9x[p])
    BY <1>3, <1>4, <1>5 DEF Place, OpensOnlyFirst, Pending9x, InDriver
  <2>2. HandleOf9x(p)
    BY <1>4, <1>5 DEF HandleOf9x
  <2>3. TimersOf(p) = {} /\ Cardinality({}) = 0 /\ Len(open9x[p].rcv) = 0
    BY <1>2, <1>3, <1>5, FS_EmptySet DEF TimersOf
  <2>4. ReadTimers(p)
    BY <1>4, <2>3 DEF ReadTimers
  <2>5. QED
    BY <2>1, <2>2, <2>4
<1>9. QED
  BY <1>6, <1>7, <1>8 DEF VxInv

LEMMA VxNextKeepsInv == VxInv /\ [VxNext]_vx9xVars => VxInv'
<1> SUFFICES ASSUME VxInv, [VxNext]_vx9xVars
             PROVE  VxInv'
  OBVIOUS
<1>1. ASSUME NEW p \in Programs, AppOnly(p) \/ AtInstance(p)
      PROVE  VxInv'
  BY <1>1, AppOnlyIsMild, AtInstanceIsMild, MildKeeps
<1>2. ASSUME NEW p \in Programs, VxCallNext(p)
      PROVE  VxInv'
  <2>1. CASE CreateFile(p)
    BY <2>1, CreateFileKeeps
  <2>2. CASE NoInstanceHere(p)
    BY <2>2, NoInstanceHereKeeps
  <2>3. CASE OpenAtOnce(p)
    BY <2>3, OpenAtOnceKeeps
  <2>4. CASE OpenLater(p)
    BY <2>4, OpenLaterKeeps
  <2>5. CASE PlanStep(p)
    BY <2>5, PlanStepKeeps
  <2>6. CASE CloseEnds(p)
    BY <2>6, CloseEndsKeeps
  <2>7. CASE ReadQueue(p)
    BY <2>7, ReadQueueKeeps
  <2>8. CASE ReadArm(p)
    BY <2>8, ReadArmKeeps
  <2>9. CASE AppOnly(p) \/ AtInstance(p)
    BY <2>9, <1>1
  <2>10. QED
    BY <1>2, <2>1, <2>2, <2>3, <2>4, <2>5, <2>6, <2>7, <2>8, <2>9 DEF VxCallNext, AppOnly, AtInstance
<1>3. ASSUME NEW p \in Programs, VxNdisNext(p)
      PROVE  VxInv'
  <2>1. CASE PacketOpenAdapterComplete(p)
    BY <2>1, OpenCompleteKeeps
  <2>2. CASE OpenAdapterFails(p)
    BY <2>2, OpenFailsKeeps
  <2>3. CASE Packet_tap(p)
    BY <2>3, TapKeeps
  <2>4. CASE PacketUnbindAdapter(p)
    BY <2>4, UnbindKeeps9x
  <2>5. CASE AtInstance(p)
    BY <2>5, <1>1
  <2>6. QED
    BY <1>3, <2>1, <2>2, <2>3, <2>4, <2>5 DEF VxNdisNext, AtInstance
<1>4. CASE UNCHANGED vx9xVars
  <2>1. vxd' = vxd /\ open9x' = open9x /\ app' = app /\ timers' = timers /\ exits9x' = exits9x
    BY <1>4 DEF vx9xVars
  <2>2. VxTypes'
    BY <2>1 DEF VxInv, VxTypes
  <2>3. OpenList'
    BY <2>1 DEF VxInv, OpenList, InList, Opening9x
  <2>4. ASSUME NEW p \in Programs
        PROVE  Place(app'[p], open9x'[p]) /\ HandleOf9x(p)' /\ ReadTimers(p)'
    <3>1. Place(app[p], open9x[p]) /\ HandleOf9x(p) /\ ReadTimers(p)
      BY DEF VxInv
    <3>2. TimersOf(p)' = TimersOf(p)
      BY <2>1 DEF TimersOf
    <3>3. QED
      BY <2>1, <3>1, <3>2 DEF HandleOf9x, ReadTimers
  <2>5. QED
    BY <2>2, <2>3, <2>4 DEF VxInv
<1>5. CASE VxNext
  BY <1>2, <1>3, <1>5, ReadTimeoutKeeps DEF VxNext
<1>6. QED
  BY <1>4, <1>5

LEMMA VxInvEndsReads == VxInv => VxdReadsEnd
<1> SUFFICES ASSUME VxInv
             PROVE  VxdReadsEnd
  OBVIOUS
<1>1. ReadsTimed
  BY DEF VxInv, ReadTimers, TimersOf, ReadsTimed
<1>2. vxd.instances \in Int /\ vxd.list \in Seq(Programs) /\ Len(vxd.list) \in Nat
  BY VxdTyped
<1>3. ListFor(vxd, open9x)
  BY ListIs DEF VxInv
<1>4. Len(vxd.list) <= vxd.instances
  BY <1>2, <1>3, WithFinite DEF ListFor
<1>5. ASSUME NEW k \in DOMAIN vxd.list, "unboundListed" \notin exits9x
      PROVE  open9x[vxd.list[k]].life = "open"
  <2> DEFINE q == vxd.list[k]
  <2>1. q \in Programs /\ q \in InListOf(vxd)
    BY <1>2, <1>5, ElementOfSeq DEF InListOf
  <2>2. open9x[q].life \in {"open", "freed"}
    BY <1>3, <2>1 DEF ListFor, With
  <2>3. HandleOf9x(q)
    BY <2>1 DEF VxInv
  <2>4. QED
    BY <1>5, <2>2, <2>3 DEF HandleOf9x
<1>6. ASSUME NEW t \in timers, exits9x \cap {"unboundListed", "timerLeft"} = {}
      PROVE  open9x[t.of].life = "open"
  <2>1. t.of \in Programs /\ t \in TimersOf(t.of)
    BY DEF VxInv, VxTypes, TimersOf
  <2>2. ReadTimers(t.of)
    BY <2>1 DEF VxInv
  <2>3. QED
    BY <1>6, <2>1, <2>2 DEF ReadTimers
<1>7. vxd.extension # "ready" => vxd.list = << >>
  BY <1>3 DEF ListFor
<1>8. NothingFreedIsReached
  BY <1>4, <1>5, <1>6, <1>7 DEF NothingFreedIsReached
<1>9. QED
  BY <1>1, <1>8 DEF VxdReadsEnd

(* The VxD of Windows 9x: as long as no handle is closed with reads in     *)
(* RcvList, every read that waits has a timeout that will end it, however  *)
(* many wait with the one ReadTimeoutTimer; and OpenList, the timeouts and *)
(* the device extension never lead to an instance that PacketClose or NDIS *)
(* has freed, unless NDIS removed an adapter, or a handle was closed with  *)
(* a timeout it had forgotten.                                             *)
THEOREM ReadsOfTheVxdEnd == VxSpec => []VxdReadsEnd
<1>1. VxSpec => []VxInv
  BY VxStartHasInv, VxNextKeepsInv, PTL DEF VxSpec
<1>2. QED
  BY <1>1, VxInvEndsReads, PTL
=============================================================================
