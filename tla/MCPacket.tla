------------------------------ MODULE MCPacket ------------------------------
(***************************************************************************)
(* The parts that lie between the driver of NPFCapture and the wpcap of    *)
(* RPCAPSession, on small machines.  Each initial state starts one of them *)
(* and leaves the others without work: threads that call packet.dll while  *)
(* npf_mgm runs, a dial-up adapter, a program in the three filters, the    *)
(* counters of statistics mode, the clock of the driver, the driver of     *)
(* Windows 9x, threads that capture from TurboCap cards.                   *)
(***************************************************************************)
EXTENDS PacketDll, WanPacket, BPF, NPFStatistics, Packet9x, TurboCap

CONSTANTS t1, t2, p1, p2, c1, c2

DllPart == <<serviceVars, dllVars>>
vars == <<DllPart, wanVars, bpf, statVars, vx9xVars, tcVars>>

-----------------------------------------------------------------------------
(* Machines: an Ethernet card and a modem, a FireWire card, the cards of   *)
(* the three libraries, and an Ethernet card that is pulled out.           *)

Nothing == [class |-> << >>, tcp |-> << >>, iph |-> << >>, wan |-> FALSE, air |-> << >>,
            im |-> << >>, dag |-> << >>, dagfiles |-> {}, leaves |-> {}]

Card(name, fireWire) == <<[name |-> name, fireWire |-> fireWire]>>
Address(name, ppp) == [name |-> name, ppp |-> ppp]

Ethernet == [Nothing EXCEPT !.class = Card("eth", FALSE), !.tcp = <<"eth">>, !.wan = TRUE]
Modem == [Ethernet EXCEPT !.iph = <<Address("eth", FALSE), Address("ppp", TRUE)>>]
BoundToTcp == [Ethernet EXCEPT !.class = << >>, !.wan = FALSE, !.iph = <<Address("ppp", TRUE)>>]
FireWireCard == [Ethernet EXCEPT !.class = Card("fw", TRUE), !.iph = <<Address("fw", FALSE)>>]
Cards == [Ethernet EXCEPT !.air = <<"air0">>, !.im = <<"im0">>, !.dag = <<"dag0">>,
                          !.dagfiles = {"dagfile"}]
PulledOut == [Ethernet EXCEPT !.leaves = {"eth"}]

-----------------------------------------------------------------------------
(* What the two threads call, and what npf_mgm is told to do.              *)

Open(name) == Do("open", name)
Close == Do("close", "it")
AskIt == Do("ask", "it")
NetType == Do("nettype", "it")
NetInfo(name) == Do("netinfo", name)
GetNames == Do("names", "all")
StopDriver == Do("stopdriver", "svc")
Send(n) == Do("send", n)

Work(mach, service, first, second, commands) ==
  [mach |-> mach, svc |-> service, cmds |-> commands,
   calls |-> [t \in Threads |-> IF t = t1 THEN first ELSE second]]

SendWork == Work(PulledOut, Installed, <<Open("eth"), Send("two"), Close>>, << >>, << >>)
NoWork == Work(Nothing, NotThere, << >>, << >>, << >>)

DllWork ==
  { Work(Modem, Installed, <<NetInfo("ppp")>>, <<GetNames>>, << >>),
    Work(Modem, Installed, <<Open("eth"), AskIt, NetType, Close>>, <<Open("ppp"), AskIt, Close>>,
         << >>),
    Work(Modem, Installed, <<NetInfo("unplugged")>>,
         <<NetInfo(FakeWan)>>, << >>),
    Work(BoundToTcp, NotThere, <<Open("eth"), Close>>, << >>, <<"reinstall", "start">>),
    Work(FireWireCard, Installed, <<NetInfo("fw"), Open("fw"), Close>>, <<GetNames>>, << >>),
    Work(FireWireCard, Installed, <<NetInfo("unplugged")>>, << >>, << >>),
    Work(Cards, Installed, <<Open("dagfile"), AskIt, Close>>, <<Open("air0"), AskIt, Close>>, << >>),
    Work(Cards, Installed, <<Open("im0"), AskIt, Close>>, <<Open("dag0"), AskIt, Close>>, << >>),
    Work(Modem, Installed, <<Open("eth"), StopDriver, Close, Open("eth"), Close>>, << >>,
         <<"stop", "start", "auto", "delete">>),
    SendWork }

Starts(work) ==
  /\ machine = work.mach /\ svc = work.svc /\ drv = [linked |-> {}, files |-> 0]
  /\ mgm = [cmds |-> work.cmds, todo |-> << >>, at |-> "main"] /\ faults = 0
  /\ DllInit /\ th = [t \in Threads |-> Waiting(work.calls[t])]

-----------------------------------------------------------------------------
(* Packets of the filters: one whose bytes differ, and one too short for a *)
(* word, in one buffer, in the other, and cut so that every load straddles.*)
FilterWork == {Filtering(<<1, 2, 3, 0, 2>>, h) : h \in {0, 2, 3, 5}} \cup {Filtering(<<3, 1, 2>>, 2)}

Left(packets, calls, power) == [packets |-> packets, calls |-> calls, power |-> power]

WanWork(frames, calls) == WanInit /\ wanLeft = [frames |-> frames, calls |-> calls]

(* Two programs on Windows 9x: reads of a ring on which frames arrive,     *)
(* reads that wait, with and without a timeout, statistics mode, the       *)
(* requests of the DLL, and the end of a handle under another one.         *)
VxLeft(frames, refusals, removals) == [frames |-> frames, refusals |-> refusals, removals |-> removals]
VxWork(first, second, left) == [first |-> first, second |-> second, left |-> left]

VxOpen == Call("open", "card")
VxClose == Call("close", 0)
Read(n) == Call("read", n)
Wait == Call("wait", 0)

VxWorks ==
  { VxWork(<<VxOpen, Call("setbuff", dim), Read(n), Wait, Read(20), Wait, VxClose>>, << >>,
           VxLeft(4, 0, 0)) : dim \in VxRings, n \in {4, 20} }
  \cup
  { VxWork(<<VxOpen, Call("setbuff", 12), Call("setbpf", 0), Read(4), Call("setbpf", 0),
             Call("setbuff", 8), Read(20)>>, << >>, VxLeft(2, 0, 0)),
    VxWork(<<VxOpen, Call("timeout", "finite"), Read(20), Read(20), Read(20), Call("write", 0),
             Read(20), Wait, VxClose>>, << >>, VxLeft(1, 0, 0)),
    VxWork(<<VxOpen, Call("timeout", "immediate"), Read(20), Call("statmode", 0), Read(20),
             Call("timeout", "finite"), Read(20), Call("captmode", 0), VxClose>>, << >>,
           VxLeft(1, 0, 0)),
    VxWork(<<VxOpen, Call("hwfilter", 0), Call("reset", 0), Call("reset", 0), Call("nettype", 0), VxClose>>,
           <<Call("names", "card"), Call("open", "unknown"), VxClose>>, VxLeft(0, 1, 0)),
    VxWork(<<VxOpen, Call("setbuff", 8), VxClose>>, <<VxOpen, Read(4), VxClose>>, VxLeft(0, 1, 1)) }

VxStarts(work) ==
  /\ VxInit /\ left9x = work.left
  /\ app = [p \in Programs |-> AppAt("main", IF p = p1 THEN work.first ELSE work.second)]

VxNoWork == VxWork(<< >>, << >>, VxLeft(0, 0, 0))

(* Two threads with TurboCap cards.                                        *)
TcWork(first, second, packets, breaks, failures) ==
  [first |-> first, second |-> second,
   left |-> [packets |-> packets, breaks |-> breaks, failures |-> failures]]

TcOpen == TcCall("open", "tc0")
TcRead(n) == TcCall("read", n)
TcClose == TcCall("close", 0)

TcWorks ==
  { TcWork(<<TcOpen, TcRead(2), TcRead(0), TcCall("setfilter", 0), TcRead(1), TcRead(0), TcClose>>,
           << >>, 4, 1, 1),
    TcWork(<<TcCall("findall", "all"), TcOpen, TcRead(0), TcClose>>,
           <<TcOpen, TcRead(1), TcClose, TcOpen, TcClose>>, 1, 0, 1),
    TcWork(<<TcCall("open", "eth"), TcClose, TcOpen, TcCall("inject", 12), TcCall("inject", 14),
             TcCall("inject", 15), TcCall("stats", 0), TcCall("set", 0), TcClose>>,
           <<TcCall("findall", "all"), TcOpen>>, 0, 0, 1) }

TcStarts(work) ==
  /\ TcInit /\ tcLeft = work.left
  /\ tcTh = [t \in TcThreads |-> TcAt("main", IF t = c1 THEN work.first ELSE work.second)]

TcNoWork == TcWork(<< >>, << >>, 0, 0, 0)

MCInit ==
  \/ /\ \E work \in DllWork : Starts(work)
     /\ WanWork(0, 0) /\ bpf = NoFiltering /\ statLeft = Left(0, 0, 0)
     /\ StatInit /\ ClockInit("qst", "gone") /\ VxStarts(VxNoWork) /\ TcStarts(TcNoWork)
  \/ /\ WanWork(WanFrames, WanCalls - 1) \/ WanWork(WanFrames - 1, WanCalls)
     /\ Starts(NoWork) /\ bpf = NoFiltering /\ statLeft = Left(0, 0, 0)
     /\ StatInit /\ ClockInit("qst", "gone") /\ VxStarts(VxNoWork) /\ TcStarts(TcNoWork)
  \/ /\ bpf \in FilterWork
     /\ Starts(NoWork) /\ WanWork(0, 0) /\ statLeft = Left(0, 0, 0)
     /\ StatInit /\ ClockInit("qst", "gone") /\ VxStarts(VxNoWork) /\ TcStarts(TcNoWork)
  \/ /\ StatInit /\ statLeft = Left(StatPackets, StatCalls, 0)
     /\ Starts(NoWork) /\ WanWork(0, 0) /\ bpf = NoFiltering /\ ClockInit("qst", "gone")
     /\ VxStarts(VxNoWork) /\ TcStarts(TcNoWork)
  \/ /\ \E mode \in TimestampModes : ClockInit(mode, "closed")
     /\ statLeft = Left(0, 0, PowerChanges)
     /\ Starts(NoWork) /\ WanWork(0, 0) /\ bpf = NoFiltering /\ StatInit /\ VxStarts(VxNoWork) /\ TcStarts(TcNoWork)
  \/ /\ \E work \in VxWorks : VxStarts(work)
     /\ Starts(NoWork) /\ WanWork(0, 0) /\ bpf = NoFiltering /\ statLeft = Left(0, 0, 0)
     /\ StatInit /\ ClockInit("qst", "gone") /\ TcStarts(TcNoWork)
  \/ /\ \E work \in TcWorks : TcStarts(work)
     /\ Starts(NoWork) /\ WanWork(0, 0) /\ bpf = NoFiltering /\ statLeft = Left(0, 0, 0)
     /\ StatInit /\ ClockInit("qst", "gone") /\ VxStarts(VxNoWork)

MCNext ==
  \/ DllNext /\ UNCHANGED <<wanVars, bpf, statVars, vx9xVars, tcVars>>
  \/ WanNext /\ UNCHANGED <<DllPart, bpf, statVars, vx9xVars, tcVars>>
  \/ BPFStep /\ UNCHANGED <<DllPart, wanVars, statVars, vx9xVars, tcVars>>
  \/ StatNext /\ UNCHANGED <<DllPart, wanVars, bpf, vx9xVars, tcVars>>
  \/ ClockNext /\ UNCHANGED <<DllPart, wanVars, bpf, vx9xVars, tcVars>>
  \/ VxNext /\ UNCHANGED <<DllPart, wanVars, bpf, statVars, tcVars>>
  \/ TcNext /\ UNCHANGED <<DllPart, wanVars, bpf, statVars, vx9xVars>>

(* Threads are scheduled; npf_mgm need not be given a command, nor a frame *)
(* arrive.                                                                 *)
Busy(t) == th[t].call # Idle \/ th[t].calls # << >>
Fairness == \A t \in Threads : WF_DllPart(Busy(t) /\ ThreadNext(t))

FairSpec == MCInit /\ [][MCNext]_vars /\ Fairness

(* The application that sends, alone.                                      *)
SendInit ==
  /\ Starts(SendWork)
  /\ WanWork(0, 0) /\ bpf = NoFiltering /\ statLeft = Left(0, 0, 0)
  /\ StatInit /\ ClockInit("qst", "gone") /\ VxStarts(VxNoWork) /\ TcStarts(TcNoWork)

SendSpec == SendInit /\ [][DllNext /\ UNCHANGED <<wanVars, bpf, statVars, vx9xVars, tcVars>>]_vars /\ Fairness

(* "The amount of bytes actually sent. If the return value is smaller than *)
(* the Size parameter, an error occurred" (Packet32.c, PacketSendPackets): *)
(* it returns, whatever becomes of the adapter.                            *)
SendPacketsReturns ==
  \A t \in Threads : th[t].call.do = "send" ~> th[t].call.do # "send"
=============================================================================
