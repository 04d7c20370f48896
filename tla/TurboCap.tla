------------------------------ MODULE TurboCap ------------------------------
(***************************************************************************)
(* The TurboCap capture cards of wpcap (pcap-tc.c).  Threads of one        *)
(* process have a pcap_t each; the first to need it loads TcApi.dll and    *)
(* fills the table of its functions, and any of them may break the loop of *)
(* another.  TcApi gives out instances and buffers of packets, and may     *)
(* refuse what it is asked for.                                            *)
(***************************************************************************)
EXTENDS Integers, Sequences

CONSTANTS
  TcThreads,
  TcPorts,   \* names of the ports TcApi lists
  TcUshort   \* 2^16: sizes are USHORTs

VARIABLES
  tcApi,   \* g_TcFunctions
  tcp,     \* the pcap_t of each thread, with what its port and its callback have seen,
           \* and what it has not given back
  tcTh,    \* what each thread executes
  tcLeft   \* packets, breaks and failures still to come

tcVars == <<tcApi, tcp, tcTh, tcLeft>>

NoPcap ==
  [name |-> "none", ppi |-> FALSE, instance |-> FALSE, held |-> FALSE, buffer |-> << >>,
   brk |-> FALSE, filter |-> FALSE,
   card |-> << >>, arrived |-> 0, seen |-> << >>, asked |-> FALSE, after |-> 0, sent |-> 0,
   kept |-> {}]

TcCall(do, arg) == [do |-> do, arg |-> arg]
TcAt(at, calls) == [at |-> at, calls |-> calls, n |-> 0]

TcInit ==
  /\ tcApi = [status |-> "UNLOADED", dll |-> FALSE, table |-> "empty"]
  /\ tcp = [t \in TcThreads |-> NoPcap]

TcFails == tcLeft.failures > 0 /\ tcLeft' = [tcLeft EXCEPT !.failures = @ - 1]

TcGoes(t, at) == tcTh' = [tcTh EXCEPT ![t].at = at]
TcReturns(t) == tcTh' = [tcTh EXCEPT ![t] = TcAt("main", Tail(@.calls))]
TcCalls(t, do) == tcTh[t].at = "main" /\ tcTh[t].calls # << >> /\ Head(tcTh[t].calls).do = do
TcArg(t) == Head(tcTh[t].calls).arg

-----------------------------------------------------------------------------
(* LoadTcFunctions: the one that finds UNLOADED loads; the others look     *)
(* again every 10 ms until it has published how that went.                 *)

TcNeeds == {"findall", "open"}

LoadEnter(t) ==
  /\ \E do \in TcNeeds : TcCalls(t, do)
  /\ \/ /\ tcApi.status = "UNLOADED"
        /\ tcApi' = [tcApi EXCEPT !.status = "LOADING"] /\ TcGoes(t, "dll")
     \/ tcApi.status # "UNLOADED" /\ TcGoes(t, "loadwait") /\ UNCHANGED tcApi
  /\ UNCHANGED <<tcp, tcLeft>>

LoadLibrarySafe(t) ==
  /\ tcTh[t].at = "dll"
  /\ \/ /\ tcApi' = [tcApi EXCEPT !.dll = TRUE] /\ TcGoes(t, "table") /\ UNCHANGED tcLeft
     \/ TcFails /\ TcGoes(t, "cannot") /\ UNCHANGED tcApi
  /\ UNCHANGED tcp

GetProcAddresses(t) ==
  /\ tcTh[t].at = "table"
  /\ \/ /\ tcApi' = [tcApi EXCEPT !.table = "complete"] /\ TcGoes(t, "publish") /\ UNCHANGED tcLeft
     \/ /\ TcFails /\ TcGoes(t, "cannot")
        /\ tcApi' = [tcApi EXCEPT !.table = "holes"]
  /\ UNCHANGED tcp

LoadPublishes(t) ==
  /\ tcTh[t].at = "publish"
  /\ tcApi' = [tcApi EXCEPT !.status = "LOADED"]
  /\ TcGoes(t, "loaded")
  /\ UNCHANGED <<tcp, tcLeft>>

LoadGivesUp(t) ==
  /\ tcTh[t].at = "cannot"
  /\ tcApi' = [tcApi EXCEPT !.status = "CANNOT_LOAD", !.dll = FALSE]
  /\ TcReturns(t)
  /\ UNCHANGED <<tcp, tcLeft>>

LoadWaits(t) ==
  /\ tcTh[t].at = "loadwait"
  /\ \/ tcApi.status = "LOADED" /\ TcGoes(t, "loaded")
     \/ tcApi.status = "CANNOT_LOAD" /\ TcReturns(t)
  /\ UNCHANGED <<tcApi, tcp, tcLeft>>

-----------------------------------------------------------------------------
(* What needs the table: the list of devices, and an open of the device if *)
(* it is a port of TcApi.                                                  *)

QueryPortListFails(t) ==
  /\ tcTh[t].at = "loaded"
  /\ TcFails /\ TcReturns(t)
  /\ UNCHANGED <<tcApi, tcp>>

TcFindAllDevs(t) ==
  /\ tcTh[t].at = "loaded" /\ TcArg(t) = "all"
  /\ TcReturns(t)
  /\ UNCHANGED <<tcApi, tcp, tcLeft>>

IsTcDevice(t) ==
  /\ tcTh[t].at = "loaded" /\ TcArg(t) # "all"
  /\ IF TcArg(t) \in TcPorts THEN TcGoes(t, "activate") ELSE TcReturns(t)
  /\ UNCHANGED <<tcApi, tcp, tcLeft>>

(* TcActivate: the memory for PPI packets, the instance, its features; on  *)
(* the way out of a failure to open the instance the memory stays.         *)
TcActivate(t) ==
  /\ tcTh[t].at = "activate"
  /\ tcp' = [tcp EXCEPT ![t] = [NoPcap EXCEPT !.name = TcArg(t), !.ppi = TRUE, !.instance = TRUE,
                                              !.kept = tcp[t].kept]]
  /\ TcReturns(t)
  /\ UNCHANGED <<tcApi, tcLeft>>

(* No memory, or a feature is refused (bad: TcCleanup).                    *)
ActivateFails(t) ==
  /\ tcTh[t].at = "activate" /\ TcFails
  /\ TcReturns(t)
  /\ UNCHANGED <<tcApi, tcp>>

InstanceOpenFails(t) ==
  /\ tcTh[t].at = "activate" /\ TcFails
  /\ tcp' = [tcp EXCEPT ![t].kept = @ \cup {"ppi"}]
  /\ TcReturns(t)
  /\ UNCHANGED tcApi

(* A call on a pcap_t that no activation made one of TurboCap.             *)
NotActivated(t) ==
  /\ tcTh[t].at = "main" /\ tcTh[t].calls # << >> /\ tcp[t].name = "none"
  /\ Head(tcTh[t].calls).do \notin TcNeeds
  /\ TcReturns(t)
  /\ UNCHANGED <<tcApi, tcp, tcLeft>>

TcCleanup(t) ==
  /\ TcCalls(t, "close") /\ tcp[t].name # "none"
  /\ tcp' = [tcp EXCEPT ![t] = [NoPcap EXCEPT !.kept = tcp[t].kept]]
  /\ TcReturns(t)
  /\ UNCHANGED <<tcApi, tcLeft>>

-----------------------------------------------------------------------------
(* Packets reach the port; pcap_breakloop sets a flag, from a callback or  *)
(* from another thread.                                                    *)

TcArrive(t) ==
  /\ tcp[t].instance /\ tcLeft.packets > 0
  /\ tcLeft' = [tcLeft EXCEPT !.packets = @ - 1]
  /\ tcp' = [tcp EXCEPT ![t].card = Append(@, tcp[t].arrived + 1), ![t].arrived = @ + 1]
  /\ UNCHANGED <<tcApi, tcTh>>

BreakAsked(p) == [p EXCEPT !.brk = TRUE, !.asked = TRUE]
BreakReported(p) == [p EXCEPT !.brk = FALSE, !.asked = FALSE, !.after = 0]

BreakLoop(t) ==
  /\ tcp[t].instance /\ tcLeft.breaks > 0
  /\ tcLeft' = [tcLeft EXCEPT !.breaks = @ - 1]
  /\ tcp' = [tcp EXCEPT ![t] = BreakAsked(@)]
  /\ UNCHANGED <<tcApi, tcTh>>

-----------------------------------------------------------------------------
(* TcRead.                                                                 *)

TcReadEnter(t) ==
  /\ TcCalls(t, "read") /\ tcp[t].instance
  /\ IF tcp[t].brk
     THEN tcp' = [tcp EXCEPT ![t] = BreakReported(@)] /\ TcReturns(t)
     ELSE TcGoes(t, IF tcp[t].held THEN "loop" ELSE "receive") /\ UNCHANGED tcp
  /\ UNCHANGED <<tcApi, tcLeft>>

(* TcInstanceReceivePackets does not wait: no packets, no buffer.          *)
TcReceive(t) ==
  /\ tcTh[t].at = "receive"
  /\ \E k \in 0..Len(tcp[t].card) :
       tcp' = [tcp EXCEPT ![t].held = k > 0, ![t].buffer = SubSeq(tcp[t].card, 1, k),
                          ![t].card = SubSeq(@, k + 1, Len(@))]
  /\ TcGoes(t, "loop")
  /\ UNCHANGED <<tcApi, tcLeft>>

(* A failure of TcInstanceReceivePackets or of a query: -1, and the buffer *)
(* stays.                                                                  *)
TcReadFails(t) ==
  /\ tcTh[t].at \in {"receive", "query"} /\ TcFails
  /\ TcReturns(t)
  /\ UNCHANGED <<tcApi, tcp>>

(* As TcLoop, with the flag cleared whatever the read returns.             *)
TcLoopForgets(t) ==
  /\ tcTh[t].at = "loop"
  /\ \/ /\ tcp[t].brk /\ TcReturns(t)
        /\ tcp' = [tcp EXCEPT ![t] = IF tcTh[t].n = 0 THEN BreakReported(@) ELSE [@ EXCEPT !.brk = FALSE]]
     \/ ~tcp[t].brk /\ ~tcp[t].held /\ TcReturns(t) /\ UNCHANGED tcp
     \/ ~tcp[t].brk /\ tcp[t].held /\ TcGoes(t, "query") /\ UNCHANGED tcp
  /\ UNCHANGED <<tcApi, tcLeft>>

(* The break is reported at once if no packet was processed, otherwise     *)
(* the flag stays for the next call.                                       *)
TcLoop(t) ==
  /\ tcTh[t].at = "loop"
  /\ \/ /\ tcp[t].brk /\ TcReturns(t)
        /\ tcp' = [tcp EXCEPT ![t] = IF tcTh[t].n = 0 THEN BreakReported(@) ELSE @]
     \/ ~tcp[t].brk /\ ~tcp[t].held /\ TcReturns(t) /\ UNCHANGED tcp
     \/ ~tcp[t].brk /\ tcp[t].held /\ TcGoes(t, "query") /\ UNCHANGED tcp
  /\ UNCHANGED <<tcApi, tcLeft>>

TcEndOfBuffer(t) ==
  /\ tcTh[t].at = "query" /\ tcp[t].buffer = << >>
  /\ tcp' = [tcp EXCEPT ![t].held = FALSE]
  /\ TcReturns(t)
  /\ UNCHANGED <<tcApi, tcLeft>>

TcTaken(p) == [p EXCEPT !.buffer = Tail(@), !.seen = Append(@, Head(p.buffer))]

TcFilteredOut(t) ==
  /\ tcTh[t].at = "query" /\ tcp[t].buffer # << >> /\ tcp[t].filter
  /\ tcp' = [tcp EXCEPT ![t] = TcTaken(@)]
  /\ TcGoes(t, "loop")
  /\ UNCHANGED <<tcApi, tcLeft>>

TcHanded(p) == [TcTaken(p) EXCEPT !.after = IF p.asked THEN @ + 1 ELSE @]

TcCallback(t) ==
  /\ tcTh[t].at = "query" /\ tcp[t].buffer # << >>
  /\ tcp' = [tcp EXCEPT ![t] = TcHanded(@)]
  /\ LET n == tcTh[t].n + 1
     IN IF n >= TcArg(t) /\ TcArg(t) > 0 THEN TcReturns(t)
        ELSE tcTh' = [tcTh EXCEPT ![t].at = "loop", ![t].n = n]
  /\ UNCHANGED <<tcApi, tcLeft>>

-----------------------------------------------------------------------------
(* The other operations of the pcap_t.                                     *)

TcSetFilter(t) ==
  /\ TcCalls(t, "setfilter") /\ tcp[t].instance
  /\ tcp' = [tcp EXCEPT ![t].filter = TRUE]
  /\ TcReturns(t)
  /\ UNCHANGED <<tcApi, tcLeft>>

(* Whatever TcApi answers, the handle it gave is not given back.           *)
TcStats(t) ==
  /\ TcCalls(t, "stats") /\ tcp[t].instance
  /\ \/ tcp' = [tcp EXCEPT ![t].kept = @ \cup {"statistics"}] /\ UNCHANGED tcLeft
     \/ TcFails /\ UNCHANGED tcp
  /\ TcReturns(t)
  /\ UNCHANGED tcApi

(* The size of the buffer is rounded up as a USHORT, and may come out too  *)
(* small; the packet is then refused by TcPacketsBufferCommitNextPacket.   *)
TcAligned(size) == (((size + 7) % TcUshort) \div 8) * 8

TcInject(t) ==
  /\ TcCalls(t, "inject") /\ tcp[t].instance
  /\ LET size == TcArg(t)
         Sent == size < TcUshort - 1 /\ TcAligned(size) >= size
     IN tcp' = [tcp EXCEPT ![t].sent = IF Sent THEN @ + 1 ELSE @]
  /\ TcReturns(t)
  /\ UNCHANGED <<tcApi, tcLeft>>

(* No mode but capture, no choice of datalink, buffer or blocking; a       *)
(* refusal of TcSetMinToCopy is not reported.                              *)
TcSetter(t) ==
  /\ TcCalls(t, "set") /\ tcp[t].instance
  /\ TcReturns(t)
  /\ UNCHANGED <<tcApi, tcp, tcLeft>>

-----------------------------------------------------------------------------

TcThreadNext(t) ==
  \/ LoadEnter(t) \/ LoadLibrarySafe(t) \/ GetProcAddresses(t) \/ LoadPublishes(t)
  \/ LoadGivesUp(t) \/ LoadWaits(t)
  \/ QueryPortListFails(t) \/ TcFindAllDevs(t) \/ IsTcDevice(t)
  \/ TcActivate(t) \/ ActivateFails(t) \/ InstanceOpenFails(t) \/ NotActivated(t) \/ TcCleanup(t)
  \/ TcReadEnter(t) \/ TcReceive(t) \/ TcReadFails(t) \/ TcLoop(t)
  \/ TcEndOfBuffer(t) \/ TcFilteredOut(t) \/ TcCallback(t)
  \/ TcSetFilter(t) \/ TcStats(t) \/ TcInject(t) \/ TcSetter(t)

TcNext == \E t \in TcThreads : TcThreadNext(t) \/ TcArrive(t) \/ BreakLoop(t)

(* Any program: each thread calls what it likes, as often as it likes.     *)
TcOperations ==
  [do : {"findall"}, arg : {"all"}] \cup [do : {"open"}, arg : STRING]
    \cup [do : {"read"}, arg : Int] \cup [do : {"inject"}, arg : Nat]
    \cup [do : {"close", "setfilter", "stats", "set"}, arg : {0}]

TcStart ==
  /\ TcInit
  /\ \E calls \in [TcThreads -> Seq(TcOperations)] : tcTh = [t \in TcThreads |-> TcAt("main", calls[t])]
  /\ tcLeft \in [packets : Nat, breaks : Nat, failures : Nat]

TcSpec == TcStart /\ [][TcNext]_tcVars

-----------------------------------------------------------------------------
(* Threads that load TcApi.dll at the same time never call through a table *)
(* with holes, and the library is there as long as they may.               *)
TableComplete ==
  \A t \in TcThreads :
    tcTh[t].at \in {"loaded", "activate", "receive", "query"} \/ tcp[t].instance =>
      tcApi.status = "LOADED" /\ tcApi.table = "complete" /\ tcApi.dll

(* A read that stops at its count, at a break or at an error leaves the    *)
(* rest of the buffer for the next one: packets are seen once, in order.   *)
NothingSkipped ==
  \A t \in TcThreads :
    tcp[t].seen \o tcp[t].buffer \o tcp[t].card = [k \in 1..tcp[t].arrived |-> k]

(* TcRead keeps the flag of pcap_breakloop when it returns packets, and    *)
(* clears it when it returns -2: at most the packet it was about to hand   *)
(* over is delivered between a break and its report.                       *)
BreaksSoon == \A t \in TcThreads : tcp[t].after <= 1

(* What TurboCap promises a program with several threads.                  *)
TcReads == TableComplete /\ NothingSkipped /\ BreaksSoon
=============================================================================
