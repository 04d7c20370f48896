---------------------------- MODULE RPCAPClient ----------------------------
(***************************************************************************)
(* The client of the remote capture (wpcap/libpcap/pcap-remote.c and       *)
(* pcap-new.c): one application thread calls the API, one pcap_t at a      *)
(* time.  A call that has sent a request waits for its reply; pc says for  *)
(* which, call which entry point was entered.                              *)
(***************************************************************************)
EXTENDS RPCAPStream

CONSTANTS
    MaxCalls,      \* calls the application makes
    W              \* the counters are modulo W

ASSUME CountersAssumption == W \in Nat \ {0}

VARIABLES
    cl,            \* the calling thread, its pcap_t and the process' globals
    got            \* history: the packets given to the application, in order

clientVars == <<cl, got>>

ClientInit ==
    /\ cl = [pc |-> "idle",
             fp |-> "none",        \* the pcap_t: none, open, started or failed
             own |-> FALSE,        \* rmt_sockctrl names an open socket of ours
             filter |-> FALSE,
             TotCapt |-> 0, TotNetDrops |-> 0,
             host |-> FALSE,       \* activeHosts has the host
             sockcount |-> 0,
             calls |-> 0]
    /\ got = <<>>

\* The call returns; use is what it has added to sockcount by then.
Return(c, use) == cl' = [c EXCEPT !.pc = "idle", !.sockcount = @ + use]

Enter == cl.pc = "idle" /\ cl.calls < MaxCalls
Entered == [cl EXCEPT !.calls = @ + 1]

----------------------------------------------------------------------------
(* Requests and their replies. *)

Send(t) == ctl' = ToDaemon(ctl, Plain(t))

\* A reply is at the head of the stream, with all that its header announces.
Answer == Head(ctl.d2c)
Answered == ctl.d2c # <<>> /\ Holds(ctl.d2c, 1 + Answer.n)

\* sock_recv fails: the stream has ended before the reply, or within it.
NoAnswer == ClientEof /\ ~Answered

\* The reply to t is taken whole; or a message that is not it, by rpcap_checkmsg.
GoodAnswer(t) == Answered /\ Answer.t = t
Unread == After(ctl.d2c, 1 + Answer.n)
OtherAnswer(t) == Answered /\ Answer.t # t

\* pcap_opensource_remote, pcap_startcapture_remote and rpcap_stats_remote
\* discard a second time what rpcap_checkmsg has discarded already.
DiscardsTwice == Answer.t # "ERROR" /\ Answer.plen > 0

CloseControl(c) == [c EXCEPT !.c = "closed", !.d2c = <<>>]
Hangup == IF cl.host THEN ctl ELSE CloseControl(ctl)

\* sock_open to the daemon's port: one connection at a time.
Idle(c) == c.c \in {"none", "closed"} /\ c.d \in {"none", "closed", "held"}

----------------------------------------------------------------------------
(* pcap_findalldevs_ex and pcap_open on a remote source.  In active mode   *)
(* they use the connection the daemon has opened.                          *)

\* rpcap_remoteact_getsock
KnownHost == cl.host

Begin(pc, auth, t) ==
    /\ Enter
    /\ IF KnownHost
       THEN /\ Send(t)
            /\ cl' = [Entered EXCEPT !.pc = pc, !.sockcount = @ + 1]
       ELSE /\ ~mode.active /\ Idle(ctl)
            /\ ctl' = [NoConnection EXCEPT !.c = "open", !.d = "backlog",
                                           !.c2d = Plain("AUTH_REQ")]
            /\ cl' = [Entered EXCEPT !.pc = auth, !.sockcount = @ + 1]
    /\ UNCHANGED <<data, exits, mode, got>>

FindAll == Begin("findall", "auth_findall", "FINDALLIF_REQ")
Open    == cl.fp = "none" /\ Begin("open", "auth_open", "OPEN_REQ")

\* connect fails; only pcap_findalldevs_ex gives sock_init back
ConnectFails ==
    /\ Enter /\ ~KnownHost
    /\ \E use \in {0, 1} : Return(Entered, use)
    /\ UNCHANGED <<streamVars, mode, got>>

Authenticating == {"auth_findall", "auth_open"}
RequestAfter(pc) == IF pc = "auth_findall" THEN <<"findall", "FINDALLIF_REQ">> ELSE <<"open", "OPEN_REQ">>

\* rpcap_sendauth and what follows it: sock_init is not given back on failure
Authenticated ==
    /\ cl.pc \in Authenticating
    /\ GoodAnswer("AUTH_REPLY")
    /\ cl' = [cl EXCEPT !.pc = RequestAfter(cl.pc)[1]]
    /\ ctl' = ToDaemon([ctl EXCEPT !.d2c = Unread], Plain(RequestAfter(cl.pc)[2]))
    /\ UNCHANGED <<data, exits, mode, got>>

NotAuthenticated ==
    /\ cl.pc \in Authenticating
    /\ NoAnswer \/ OtherAnswer("AUTH_REPLY")
    /\ ctl' = CloseControl(ctl)
    /\ Return(cl, 0)
    /\ UNCHANGED <<data, exits, mode, got>>

\* The list is read piece by piece and a failure of sock_recv within it is not
\* seen: the call succeeds.
FoundAll ==
    /\ cl.pc = "findall"
    /\ \/ GoodAnswer("FINDALLIF_REPLY")
       \/ NoAnswer /\ ctl.d2c # <<>>
    /\ ctl' = IF Answered THEN [Hangup EXCEPT !.d2c = IF cl.host THEN Unread ELSE <<>>]
              ELSE [Hangup EXCEPT !.d2c = <<>>]
    /\ exits' = IF Answered THEN exits ELSE exits \cup {"tornReply"}
    /\ Return(cl, -1)
    /\ UNCHANGED <<data, mode, got>>

FindAllFails ==
    /\ cl.pc = "findall"
    /\ \/ NoAnswer /\ ctl.d2c = <<>> /\ Return(cl, -1) /\ ctl' = Hangup
       \/ /\ OtherAnswer("FINDALLIF_REPLY")
          /\ Return(cl, 0)
          /\ ctl' = [Hangup EXCEPT !.d2c = IF cl.host THEN Unread ELSE <<>>]
    /\ UNCHANGED <<data, exits, mode, got>>

\* mutant: sock_cleanup on the way out
OpenedCleanup ==
    /\ cl.pc = "open"
    /\ GoodAnswer("OPEN_REPLY")
    /\ ctl' = [ctl EXCEPT !.d2c = Unread]
    /\ Return([cl EXCEPT !.fp = "open", !.own = TRUE], -1)
    /\ got' = <<>>
    /\ UNCHANGED <<data, exits, mode>>

Opened ==
    /\ cl.pc = "open"
    /\ GoodAnswer("OPEN_REPLY")
    /\ ctl' = [ctl EXCEPT !.d2c = Unread]
    /\ Return([cl EXCEPT !.fp = "open", !.own = TRUE, !.TotCapt = 0, !.TotNetDrops = 0], 0)
    /\ got' = <<>>
    /\ UNCHANGED <<data, exits, mode>>

\* error: the connection goes, in passive mode; sock_init is not given back
OpenFails ==
    /\ cl.pc = "open"
    /\ NoAnswer \/ OtherAnswer("OPEN_REPLY")
    /\ IF Answered /\ DiscardsTwice
       THEN /\ cl' = [cl EXCEPT !.pc = "lost"]
            /\ exits' = exits \cup {"discardTwice"}
            /\ ctl' = [ctl EXCEPT !.d2c = Unread]
       ELSE /\ Return(cl, 0)
            /\ ctl' = [Hangup EXCEPT !.d2c = IF Answered /\ cl.host THEN Unread ELSE <<>>]
            /\ UNCHANGED exits
    /\ UNCHANGED <<data, mode, got>>

----------------------------------------------------------------------------
(* pcap_startcapture_remote: entered by pcap_next_ex, pcap_dispatch and    *)
(* pcap_loop as long as rmt_capstarted is not set.                         *)

Udp     == mode.udp          \* PCAP_OPENFLAG_DATATX_UDP
NoRpcap == mode.norpcap      \* PCAP_OPENFLAG_NOCAPTURE_RPCAP

NoOwn == IF cl.own THEN {} ELSE {"staleHandle"}

\* pcap_pack_bpffilter: the filter that was set, or the one made up for its
\* absence, which the length in the header does not count.
StartRequest(c) == Message("STARTCAP_REQ", IF c.filter THEN 3 ELSE 2, 3)

SendStart(c, m) ==
    /\ ctl' = ToDaemon(m, StartRequest(c))
    /\ data' = IF c.host \/ Udp THEN [NoData EXCEPT !.c = IF Udp THEN "open" ELSE "listen"]
               ELSE NoData
    /\ cl' = [c EXCEPT !.pc = "start"]

Start ==
    /\ Enter /\ cl.fp \in {"open", "failed"}
    /\ IF cl.own
       THEN /\ IF mode.samp
               THEN /\ Send("SETSAMPLING_REQ")
                    /\ cl' = [Entered EXCEPT !.pc = "samp"]
                    /\ UNCHANGED data
               ELSE SendStart(Entered, ctl)
            /\ UNCHANGED exits
       ELSE \* the socket is gone: getpeername or send fails, and it is closed again
            /\ exits' = exits \cup NoOwn
            /\ Return(Entered, 0)
            /\ UNCHANGED <<ctl, data>>
    /\ UNCHANGED <<mode, got>>

SamplingSet ==
    /\ cl.pc = "samp"
    /\ GoodAnswer("SETSAMPLING_REPLY")
    /\ SendStart(cl, [ctl EXCEPT !.d2c = Unread])
    /\ UNCHANGED <<exits, mode, got>>

\* nothing is closed
SamplingFails ==
    /\ cl.pc = "samp"
    /\ NoAnswer \/ OtherAnswer("SETSAMPLING_REPLY")
    /\ ctl' = [ctl EXCEPT !.d2c = IF Answered THEN Unread ELSE <<>>]
    /\ Return(cl, 0)
    /\ UNCHANGED <<data, exits, mode, got>>

\* error: the data socket goes, and in passive mode the control socket, whose
\* handle stays in the pcap_t.
CloseData(d) == IF d.c = "none" THEN d ELSE [d EXCEPT !.c = "closed", !.q = <<>>]

StartFails(m, d) ==
    /\ ctl' = IF cl.host THEN m ELSE CloseControl(m)
    /\ data' = CloseData(d)
    /\ Return([cl EXCEPT !.fp = IF cl.host THEN "open" ELSE "failed", !.own = cl.host], 0)

\* The data connection is opened, or accepted from the daemon.
Connected(d) ==
    IF Udp THEN d ELSE [d EXCEPT !.c = "open"]

StartReplied ==
    /\ cl.pc = "start"
    /\ GoodAnswer("STARTCAP_REPLY")
    /\ LET m == [ctl EXCEPT !.d2c = Unread] IN
       \/ \* the daemon is there: Started, or the last step of PCAP_OPENFLAG_NOCAPTURE_RPCAP
          /\ Udp \/ data.d \in {"listen", "open"} \/ cl.host
          /\ data' = Connected(data)
          /\ IF NoRpcap
             THEN /\ ctl' = ToDaemon(m, Plain("UPDATEFILTER_REQ"))
                  /\ cl' = [cl EXCEPT !.pc = "norpcap"]
             ELSE /\ ctl' = m
                  /\ Return([cl EXCEPT !.fp = "started"], 0)
       \/ \* connect fails, or malloc or pcap_compile once connected
          \E d \in {data, Connected(data)} : StartFails(m, d)
    /\ UNCHANGED <<exits, mode, got>>

StartRefused ==
    /\ cl.pc = "start"
    /\ NoAnswer \/ OtherAnswer("STARTCAP_REPLY")
    /\ IF Answered /\ DiscardsTwice
       THEN /\ cl' = [cl EXCEPT !.pc = "lost"]
            /\ exits' = exits \cup {"discardTwice"}
            /\ ctl' = [ctl EXCEPT !.d2c = Unread]
            /\ UNCHANGED data
       ELSE /\ StartFails([ctl EXCEPT !.d2c = IF Answered THEN Unread ELSE <<>>], data)
            /\ UNCHANGED exits
    /\ UNCHANGED <<mode, got>>

FilterReplied ==
    /\ cl.pc \in {"norpcap", "upd"}
    /\ LET m == [ctl EXCEPT !.d2c = IF Answered THEN Unread ELSE <<>>] IN
       \/ /\ GoodAnswer("UPDATEFILTER_REPLY")
          /\ ctl' = m
          /\ Return([cl EXCEPT !.fp = "started"], 0)
          /\ UNCHANGED data
       \/ /\ NoAnswer \/ OtherAnswer("UPDATEFILTER_REPLY")
          /\ IF cl.pc = "norpcap" THEN StartFails(m, data)
             ELSE ctl' = m /\ Return(cl, 0) /\ UNCHANGED data
    /\ UNCHANGED <<exits, mode, got>>

----------------------------------------------------------------------------
(* Reading, filters and statistics. *)

\* A request of the pcap_t; on a socket that is gone it fails.
Ask(pc, t) ==
    /\ IF cl.own
       THEN /\ Send(t)
            /\ cl' = [Entered EXCEPT !.pc = pc]
       ELSE /\ Return(Entered, 0)
            /\ UNCHANGED ctl
    /\ exits' = exits \cup NoOwn

\* pcap_setfilter_remote: kept until the capture starts, then sent.
SetFilter ==
    /\ Enter /\ cl.fp # "none"
    /\ IF cl.fp # "started"
       THEN /\ ~cl.filter
            /\ Return([Entered EXCEPT !.filter = TRUE], 0)
            /\ UNCHANGED <<ctl, exits>>
       ELSE Ask("upd", "UPDATEFILTER_REQ")
    /\ UNCHANGED <<data, mode, got>>

Stats ==
    /\ Enter /\ cl.fp = "started"
    /\ Ask("stats", "STATS_REQ")
    /\ UNCHANGED <<data, mode, got>>

StatsReplied ==
    /\ cl.pc = "stats"
    /\ GoodAnswer("STATS_REPLY") \/ NoAnswer \/ OtherAnswer("STATS_REPLY")
    /\ ctl' = [ctl EXCEPT !.d2c = IF Answered THEN Unread ELSE <<>>]
    /\ IF OtherAnswer("STATS_REPLY") /\ DiscardsTwice
       THEN /\ cl' = [cl EXCEPT !.pc = "lost"]
            /\ exits' = exits \cup {"discardTwice"}
       ELSE Return(cl, 0) /\ UNCHANGED exits
    /\ UNCHANGED <<data, mode, got>>

Remove(q, i) == SubSeq(q, 1, i - 1) \o SubSeq(q, i + 1, Len(q))

\* pcap_read_nocb_remote, TCP: the failure of the second sock_recv is not seen
\* and a torn packet is given to the application; one that is too large for
\* the buffer is left in the stream, where it is taken for a header.
ReadTcp ==
    /\ cl.pc = "idle" /\ cl.fp = "started" /\ ~Udp
    /\ data.c = "open" /\ data.q # <<>>
    /\ LET p == Head(data.q) IN
       CASE p.k \in {"whole", "torn"} ->
              /\ got' = Append(got, p)
              /\ data' = [data EXCEPT !.q = Tail(@)]
              /\ cl' = [cl EXCEPT !.TotCapt = (@ + 1) % W]
              /\ exits' = IF p.k = "torn" THEN exits \cup {"tornPacket"} ELSE exits
         [] p.k = "big" ->
              /\ data' = [data EXCEPT !.q[1].k = "rest"]
              /\ exits' = exits \cup {"packetTooLarge"}
              /\ UNCHANGED <<cl, got>>
         [] p.k = "rest" ->
              /\ cl' = [cl EXCEPT !.pc = "lost"]
              /\ UNCHANGED <<data, exits, mode, got>>
    /\ UNCHANGED <<ctl, mode>>

\* mutant: TotCapt keeps counting what was received
ReadUdpCount ==
    /\ cl.pc = "idle" /\ cl.fp = "started" /\ Udp
    /\ \E i \in 1..Len(data.q) :
         LET seen == (cl.TotCapt + 1) % W IN
         /\ data' = [data EXCEPT !.q = Remove(@, i)]
         /\ got' = Append(got, data.q[i])
         /\ cl' = [cl EXCEPT !.TotNetDrops = (@ + (data.q[i].n + W - seen)) % W, !.TotCapt = seen]
    /\ UNCHANGED <<ctl, exits, mode>>

\* UDP: any datagram may be lost or come before another.
ReadUdp ==
    /\ cl.pc = "idle" /\ cl.fp = "started" /\ Udp
    /\ \E i \in 1..Len(data.q) :
         LET npkt == data.q[i].n
             seen == (cl.TotCapt + 1) % W IN
         /\ data' = [data EXCEPT !.q = Remove(@, i)]
         /\ got' = Append(got, data.q[i])
         /\ cl' = [cl EXCEPT !.TotNetDrops = (@ + (npkt + W - seen)) % W, !.TotCapt = npkt % W]
    /\ UNCHANGED <<ctl, exits, mode>>

LoseDatagram ==
    /\ Udp
    /\ \E i \in 1..Len(data.q) : data' = [data EXCEPT !.q = Remove(@, i)]
    /\ UNCHANGED <<ctl, exits, mode, cl, got>>

----------------------------------------------------------------------------
(* pcap_cleanup_remote, and the active hosts.                              *)

\* In active mode the connection stays and whatever comes is taken for the reply.
Close ==
    /\ Enter /\ cl.fp # "none"
    /\ IF cl.host /\ cl.own
       THEN /\ Ask("endcap", "ENDCAP_REQ")
            /\ UNCHANGED data
       ELSE /\ exits' = exits \cup NoOwn
            /\ ctl' = IF cl.own THEN CloseControl(ToDaemon(ctl, Plain("CLOSE"))) ELSE ctl
            /\ data' = CloseData(data)
            /\ Return([Entered EXCEPT !.fp = "none", !.own = FALSE], -1)
    /\ UNCHANGED <<mode, got>>

EndCapReplied ==
    /\ cl.pc = "endcap"
    /\ NoAnswer \/ Answered
    /\ ctl' = [ctl EXCEPT !.d2c = IF Answered THEN Unread ELSE <<>>]
    /\ data' = CloseData(data)
    /\ Return([cl EXCEPT !.fp = "none", !.own = FALSE], -1)
    /\ UNCHANGED <<exits, mode, got>>

\* pcap_remoteact_accept
Accept ==
    /\ Enter /\ ~cl.host
    /\ mode.active /\ Idle(ctl)
    /\ ctl' = [NoConnection EXCEPT !.c = "listen"]
    /\ cl' = [Entered EXCEPT !.pc = "accept", !.sockcount = @ + 1]
    /\ UNCHANGED <<data, exits, mode, got>>

AcceptHost ==
    /\ cl.pc = "accept"
    /\ \/ /\ ctl.c = "open"
          /\ Send("AUTH_REQ")
          /\ cl' = [cl EXCEPT !.pc = "auth_host"]
       \/ \* pcap_remoteact_cleanup closes the listening socket
          /\ ctl.c = "listen"
          /\ ctl' = NoConnection
          /\ Return(cl, -1)
    /\ UNCHANGED <<data, exits, mode, got>>

HostAccepted ==
    /\ cl.pc = "auth_host"
    /\ \/ /\ GoodAnswer("AUTH_REPLY")
          /\ ctl' = [ctl EXCEPT !.d2c = Unread]
          /\ Return([cl EXCEPT !.host = TRUE], 0)
       \/ /\ NoAnswer \/ OtherAnswer("AUTH_REPLY")
          /\ ctl' = CloseControl(ToDaemon(ctl, Plain("ERROR")))
          /\ Return(cl, 0)
    /\ UNCHANGED <<data, exits, mode, got>>

\* pcap_remoteact_close, under an open pcap_t too; of a host that is not known
\* it gives back a sock_init that was never made.
CloseHost ==
    /\ Enter
    /\ IF cl.host
       THEN /\ ctl' = CloseControl(ToDaemon(ctl, Plain("CLOSE")))
            /\ UNCHANGED exits
       ELSE /\ UNCHANGED ctl
            /\ exits' = exits \cup {"unknownHost"}
    /\ Return([Entered EXCEPT !.host = FALSE, !.own = IF cl.host THEN FALSE ELSE @], -1)
    /\ UNCHANGED <<data, mode, got>>

Calls == FindAll \/ Open \/ ConnectFails \/ Start \/ SetFilter \/ Stats \/ Close \/ Accept \/ CloseHost
Answers ==
    \/ Authenticated \/ NotAuthenticated \/ FoundAll \/ FindAllFails \/ Opened \/ OpenFails
    \/ SamplingSet \/ SamplingFails \/ StartReplied \/ StartRefused \/ FilterReplied
    \/ StatsReplied \/ EndCapReplied \/ AcceptHost \/ HostAccepted
Reads == ReadTcp \/ ReadUdp

ClientTypeOK ==
    /\ cl.pc \in {"idle", "auth_findall", "auth_open", "auth_host", "findall", "open", "samp", "start",
                  "norpcap", "upd", "stats", "endcap", "accept", "lost"}
    /\ cl.fp \in {"none", "open", "started", "failed"}
    /\ cl.TotCapt \in 0..W - 1 /\ cl.TotNetDrops \in 0..W - 1
    /\ cl.sockcount \in Int /\ cl.calls \in 0..MaxCalls
=============================================================================
