---------------------------- MODULE RPCAPSession ----------------------------
(***************************************************************************)
(* A client and a daemon of the remote capture over a network that may     *)
(* break: RPCAPClient and RPCAPDaemon on the connections of RPCAPStream.   *)
(***************************************************************************)
EXTENDS RPCAPClient, RPCAPDaemon

vars == <<streamVars, mode, clientVars, daemonVars>>

Init ==
    /\ mode \in Modes
    /\ ctl = NoConnection
    /\ data = NoData
    /\ exits = {}
    /\ ClientInit
    /\ DaemonInit

Break == (BreakControl \/ BreakData) /\ Fault /\ UNCHANGED <<clientVars, conf, dm, th>>

\* connect finds a listening socket as long as the service has not been stopped
Connects == ctl'.d = "backlog" /\ ctl.d # "backlog"

ClientStep ==
    /\ Calls \/ Answers \/ Reads \/ LoseDatagram
    /\ Connects => conf.status # "stopped"
    /\ UNCHANGED daemonVars
DaemonStep == (Service \/ Loop \/ Thread) /\ UNCHANGED clientVars

Next == ClientStep \/ DaemonStep \/ Break

Spec == Init /\ [][Next]_vars

\* Threads that can run do; the calls of the application, the failures and the
\* administrator are under no obligation.
FairSpec ==
    /\ Spec
    /\ WF_vars(Answers /\ UNCHANGED daemonVars)
    /\ WF_vars((AcceptControl \/ ConnectActive) /\ UNCHANGED clientVars)
    /\ WF_vars(Loop /\ UNCHANGED clientVars)
    /\ WF_vars(Thread /\ UNCHANGED clientVars)

TypeOK == StreamTypeOK /\ ClientTypeOK /\ DaemonTypeOK

----------------------------------------------------------------------------
None(names) == exits \cap names = {}

Headers(s) == Cardinality({i \in 1..Len(s) : s[i].t # "body"})

ReplyTo == [findall |-> "FINDALLIF_REPLY", open |-> "OPEN_REPLY", samp |-> "SETSAMPLING_REPLY",
            start |-> "STARTCAP_REPLY", norpcap |-> "UPDATEFILTER_REPLY", upd |-> "UPDATEFILTER_REPLY",
            stats |-> "STATS_REPLY", endcap |-> "ENDCAP_REPLY", auth_findall |-> "AUTH_REPLY",
            auth_open |-> "AUTH_REPLY", auth_host |-> "AUTH_REPLY"]

(* The reply a call waits for is the one to its own request: requests and   *)
(* replies never get out of step (pcap-remote.c takes whatever comes next   *)
(* for the reply) unless the data thread or a late failure of               *)
(* daemon_startcapture has sent an error that answers nothing.              *)
ReplyAnswersRequest ==
    /\ None({"threadError", "lateError", "requestNotRead", "lengthTooShort"})
    /\ ctl.d2c # <<>> /\ ctl.c = "open" /\ ctl.d = "open" /\ ctl.up
    => /\ Headers(ctl.d2c) = 1 /\ ctl.c2d = <<>>
       /\ cl.pc \in DOMAIN ReplyTo
       /\ Head(ctl.d2c).t \in {ReplyTo[cl.pc], "ERROR"}

(* The daemon reads headers where headers are: every exit of a handler of   *)
(* daemon.c leaves the stream at the next message, but the two that answer  *)
(* before they have read the request and the one that believes the length   *)
(* of a request whose filter was made up.                                   *)
DaemonInFrame ==
    /\ None({"requestNotRead", "lengthTooShort"})
    /\ ctl.d = "open" /\ dm.pc \in {"auth", "loop"}
    => AtBoundary(ctl.c2d)

(* Over TCP the application gets the packets of the capture in order and    *)
(* without a gap; only the last may be torn, by the break of the connection.*)
DeliveredInOrder ==
    ~mode.udp => \A i \in 1..Len(got) :
        got[i].n = i /\ (got[i].k = "whole" \/ i = Len(got))

(* pcap_read_nocb_remote: whatever datagrams are lost or come late, TotCapt *)
(* less TotNetDrops is the number of packets given to the application, in   *)
(* the width of the counters.                                               *)
NetDropsAccountForGaps ==
    cl.fp = "started" => (cl.TotCapt + W - cl.TotNetDrops) % W = Len(got) % W

(* The data thread runs inside the capture whose pcap_t it uses, the one of *)
(* the loop, and the capture samples as asked: it ends before pcap_close,   *)
(* unless it is cancelled before it can be or its capture is forgotten.     *)
ThreadInsideCapture ==
    None({"captureForgotten"}) /\ th \in {"new", "run", "closing"} =>
        /\ dm.fp /\ dm.handle /\ dm.rd /\ dm.pc \in {"loop", "lost"}
        /\ mode.samp => dm.use = "asked"

(* sock_init and sock_cleanup: Winsock stays initialised as long as a       *)
(* pcap_t, an active host or a call in progress uses it, unless the         *)
(* application has closed a host that it had not accepted.                  *)
SocketsInitialised ==
    /\ None({"unknownHost"})
    /\ cl.fp # "none" \/ cl.host \/ cl.pc # "idle"
    => cl.sockcount > 0

----------------------------------------------------------------------------
(* A call waits for a daemon that may have gone, timed out or been stopped: *)
(* it returns all the same, unless nobody serves its connection, the list   *)
(* of interfaces was too long for an answer, or a stream lost its frame.    *)
CallsReturn ==
    cl.pc \notin {"idle", "accept"} ~>
        \/ cl.pc = "idle"
        \/ ~None({"noServiceThread", "listTooLong", "requestNotRead", "lengthTooShort",
                  "discardTwice", "packetTooLarge"})

(* The service loop ends when its client has gone (daemon.c: end), with the *)
(* capture, unless it waits in accept for a data connection nobody opens.   *)
LoopEndsWithClient ==
    dm.pc # "none" /\ DaemonEof ~> dm.pc \in {"none", "accept", "lost"}
=============================================================================
