---------------------------- MODULE RPCAPDaemon ----------------------------
(***************************************************************************)
(* rpcapd (wpcap/libpcap/rpcapd): main_passive accepts control connections *)
(* and main_active opens them; daemon_serviceloop serves one connection;   *)
(* daemon_thrdatamain, the data thread, sends the packets of the capture.  *)
(* One control connection is followed at a time.                           *)
(***************************************************************************)
EXTENDS RPCAPStream

CONSTANTS
    MaxPackets,    \* packets a capture sees
    MaxFaults      \* failures and administrative events of a behaviour

VARIABLES
    conf,     \* rpcapd.ini as fileconf_read left it, and the service status
    dm,       \* daemon_serviceloop: its place, fp, threaddata, samp_param
    th,       \* the data thread
    faults

daemonVars == <<conf, dm, th, faults>>

ServeOpen == mode.active \/ mode.udp     \* serveropen_dp

NoLoop == [pc |-> "none", fp |-> FALSE, rd |-> FALSE, sent |-> 0, samp |-> "unset", use |-> "none",
           handle |-> FALSE, null |-> TRUE, close |-> FALSE]

DaemonInit ==
    /\ conf = [allowed |-> TRUE, null |-> TRUE, status |-> "running"]
    /\ dm = NoLoop
    /\ th = "none"
    /\ faults = 0

\* Something fails that may fail: memory, a thread, a socket, libpcap.
Fault == faults < MaxFaults /\ faults' = faults + 1
NoFault == UNCHANGED faults

----------------------------------------------------------------------------
(* The service: rpcapd.c and win32-svc.c.                                  *)

\* main_passive: a host that the list does not name is told so and dropped.
AcceptControl ==
    /\ ~mode.active
    /\ dm.pc = "none" /\ ctl.d = "backlog"
    /\ conf.status # "stopped"
    /\ \/ /\ ~conf.allowed
          /\ ctl' = [SendError([ctl EXCEPT !.d = "open"]) EXCEPT !.d = "closed"]
          /\ UNCHANGED <<dm, exits, faults>>
       \/ /\ conf.allowed
          /\ ctl' = [ctl EXCEPT !.d = "open"]
          /\ dm' = [NoLoop EXCEPT !.pc = "auth", !.null = conf.null]
          /\ UNCHANGED <<exits, faults>>
       \/ \* neither malloc nor pthread_create failing closes the socket
          /\ conf.allowed
          /\ Fault
          /\ ctl' = [ctl EXCEPT !.d = "open"]
          /\ exits' = exits \cup {"noServiceThread"}
          /\ UNCHANGED dm
    /\ UNCHANGED <<data, mode, conf, th>>

\* main_active: connects, again and again, until a client closes the session.
ConnectActive ==
    /\ mode.active /\ ~dm.close
    /\ dm.pc = "none" /\ ctl.c = "listen"
    /\ conf.status # "stopped"
    /\ ctl' = [NoConnection EXCEPT !.c = "open", !.d = "open"]
    /\ dm' = [NoLoop EXCEPT !.pc = "auth", !.null = conf.null]
    /\ UNCHANGED <<data, exits, mode, conf, th, faults>>

\* svc_control_handler: SERVICE_CONTROL_PAUSE has no effect but the status,
\* SERVICE_CONTROL_CONTINUE reads the configuration again.
Pause ==
    /\ conf.status = "running"
    /\ Fault
    /\ conf' = [conf EXCEPT !.status = "paused"]
    /\ UNCHANGED <<streamVars, mode, dm, th>>

ReadConfiguration ==
    /\ conf.status = "paused"
    /\ \E a \in BOOLEAN, n \in BOOLEAN :
           conf' = [allowed |-> a, null |-> n, status |-> "running"]
    /\ UNCHANGED <<streamVars, mode, dm, th, faults>>

\* SERVICE_CONTROL_STOP: the process ends, and with it every thread and socket.
Stop ==
    /\ conf.status # "stopped"
    /\ Fault
    /\ conf' = [conf EXCEPT !.status = "stopped"]
    /\ ctl' = IF ctl.d = "none" THEN ctl ELSE [ctl EXCEPT !.d = "closed"]
    /\ data' = IF data.d = "none" THEN data ELSE [data EXCEPT !.d = "closed"]
    /\ dm' = [NoLoop EXCEPT !.close = TRUE]
    /\ th' = "none"
    /\ UNCHANGED <<exits, mode>>

----------------------------------------------------------------------------
(* The end of a capture and the end of the loop.                           *)

\* pthread_cancel on the data thread.  It takes effect at once when the thread
\* has set PTHREAD_CANCEL_ASYNCHRONOUS, and between closesocket and the reset
\* of rmt_sockdata too; before that the thread goes on until it sets it.
Cancelled == CASE th = "new"   -> "doomed"
               [] th \in {"run", "closing"} -> "none"
               [] OTHER        -> th

CancelExit == CASE th = "new"     -> {"cancelledEarly"}
                [] th = "closing" -> {"closedTwice"}
                [] OTHER          -> {}

\* mutant: the data thread is left running
EndCaptureOnly ==
    /\ data' = IF dm.rd THEN [data EXCEPT !.d = "closed"] ELSE data
    /\ UNCHANGED <<th, exits>>

\* pthread_cancel, sock_close of rmt_sockdata, pcap_close.
EndCapture ==
    /\ th' = Cancelled
    /\ exits' = exits \cup CancelExit
    /\ data' = IF dm.rd THEN [data EXCEPT !.d = "closed"] ELSE data

\* end: the capture goes, and the socket in passive mode; in active mode
\* nobody closes the socket.
EndLoop(c, asked) ==
    /\ IF dm.fp THEN EndCapture ELSE UNCHANGED <<th, exits, data>>
    /\ ctl' = IF mode.active THEN [c EXCEPT !.d = "held"] ELSE [c EXCEPT !.d = "closed"]
    /\ dm' = [NoLoop EXCEPT !.close = asked]
    /\ UNCHANGED <<mode, conf>>

----------------------------------------------------------------------------
(* daemon_serviceloop. *)

Waiting(pc) == dm.pc = pc /\ ctl.d = "open"

\* The message at the head of the stream, when all of it has arrived.
Request == Head(ctl.c2d)
Arrived == ctl.c2d # <<>> /\ Holds(ctl.c2d, 1 + Request.n)
Rest    == After(ctl.c2d, 1 + Request.n)
Took(s) == [ctl EXCEPT !.c2d = s]

\* select: RPCAP_TIMEOUT_INIT, or RPCAP_TIMEOUT_RUNTIME while nothing is captured
TimeOut ==
    /\ ~mode.active
    /\ \/ Waiting("auth")
       \/ Waiting("loop") /\ ~(dm.fp /\ dm.rd)
    /\ ctl.c2d = <<>> /\ ~DaemonEof
    /\ Fault
    /\ EndLoop(SendError(ctl), FALSE)

\* mutant: the end of the stream is not an error
ConnectionBroken ==
    /\ Waiting("auth") \/ Waiting("loop")
    /\ ~ctl.up /\ ~Arrived
    /\ NoFault
    /\ EndLoop([ctl EXCEPT !.c2d = <<>>], FALSE)

\* sock_recv fails: the other end has gone
ConnectionLost ==
    /\ Waiting("auth") \/ Waiting("loop")
    /\ DaemonEof /\ ~Arrived
    /\ NoFault
    /\ EndLoop([ctl EXCEPT !.c2d = <<>>], FALSE)

\* daemon_checkauth
Authenticate ==
    /\ Waiting("auth") /\ Arrived
    /\ Request.t = "AUTH_REQ"
    /\ \/ /\ dm.null
          /\ ctl' = ToClient(Took(Rest), Plain("AUTH_REPLY"))
          /\ dm' = [dm EXCEPT !.pc = "loop"]
       \/ /\ ~dm.null
          /\ ctl' = SendError(Took(Rest))      \* RPCAP_SUSPEND_WRONGAUTH, auth_again
          /\ UNCHANGED dm
    /\ UNCHANGED <<data, exits, mode, conf, th, faults>>

AuthGivenUp ==
    /\ Waiting("auth") /\ Arrived
    /\ Request.t \in {"CLOSE", "ERROR"}
    /\ NoFault
    /\ EndLoop(Took(Rest), FALSE)

\* A payload taken for a header: what the loop does from here depends on the
\* bytes of the payload, and the model stops following it.
OutOfFrame ==
    /\ Waiting("loop")
    /\ ~AtBoundary(ctl.c2d)
    /\ dm' = [dm EXCEPT !.pc = "lost"]
    /\ UNCHANGED <<streamVars, mode, conf, th, faults>>

LoopTakes(t) == Waiting("loop") /\ Arrived /\ Request.t = t

\* mutant: no return after the error
FindAllDevsTwice ==
    /\ LoopTakes("FINDALLIF_REQ")
    /\ \/ NoFault /\ ctl' = ToClient(Took(Rest), Plain("FINDALLIF_REPLY"))
       \/ Fault /\ ctl' = ToClient(SendError(Took(Rest)), Plain("FINDALLIF_REPLY"))
    /\ UNCHANGED <<data, exits, mode, conf, dm, th>>

FindAllDevs ==
    /\ LoopTakes("FINDALLIF_REQ")
    /\ \/ /\ NoFault
          /\ ctl' = ToClient(Took(Rest), Plain("FINDALLIF_REPLY")) /\ UNCHANGED exits
       \/ /\ Fault
          /\ ctl' = SendError(Took(Rest)) /\ UNCHANGED exits
       \/ \* the list does not fit in RPCAP_NETBUF_SIZE: no answer at all
          /\ Fault
          /\ ctl' = Took(Rest) /\ exits' = exits \cup {"listTooLong"}
    /\ UNCHANGED <<data, mode, conf, dm, th>>

OpenSource ==
    /\ LoopTakes("OPEN_REQ")
    /\ \/ NoFault /\ ctl' = ToClient(Took(Rest), Plain("OPEN_REPLY"))
       \/ Fault /\ ctl' = SendError(Took(Rest))
    /\ UNCHANGED <<data, exits, mode, conf, dm, th>>

SetSampling ==
    /\ LoopTakes("SETSAMPLING_REQ")
    /\ ctl' = ToClient(Took(Rest), Plain("SETSAMPLING_REPLY"))
    /\ dm' = [dm EXCEPT !.samp = "asked"]
    /\ UNCHANGED <<data, exits, mode, conf, th, faults>>

----------------------------------------------------------------------------
(* daemon_startcapture: a capture that is still there is forgotten.        *)

\* The port of the request is the one that the client has open now.
PortIsOpen == \A i \in 1..Len(Rest) : Rest[i].t # "STARTCAP_REQ"

Forgotten == IF dm.fp THEN {"captureForgotten"} ELSE {}

\* pcap_open fails: the rest of the request, its filter, is not read.
StartNoSource ==
    /\ LoopTakes("STARTCAP_REQ")
    /\ Fault
    /\ ctl' = SendError(Took(After(ctl.c2d, 2)))
    /\ dm' = [dm EXCEPT !.fp = FALSE, !.rd = FALSE]
    /\ exits' = exits \cup {"requestNotRead"} \cup Forgotten
    /\ UNCHANGED <<data, mode, conf, th>>

\* error: threaddata may still name the thread of an earlier capture.  What is
\* discarded is the length announced, not the length sent.
StartError(c, used) ==
    /\ ctl' = SendError(c)
    /\ th' = IF dm.handle THEN Cancelled ELSE th
    /\ dm' = [dm EXCEPT !.pc = "loop", !.fp = FALSE, !.rd = FALSE]
    /\ exits' = exits \cup used \cup Forgotten

StartNoConnection ==
    /\ LoopTakes("STARTCAP_REQ")
    /\ \/ Fault
       \/ /\ ServeOpen /\ ~mode.udp /\ ~(data.c = "listen" /\ PortIsOpen)
          /\ NoFault
    /\ StartError(Took(After(ctl.c2d, 1 + Request.plen)),
                  IF Request.plen < Request.n THEN {"lengthTooShort"} ELSE {})
    /\ UNCHANGED <<data, mode, conf>>

\* mutant: the filter is not discarded
StartNoFilterUnread ==
    /\ LoopTakes("STARTCAP_REQ")
    /\ Fault
    /\ StartError(Took(After(ctl.c2d, 3)), {})
    /\ UNCHANGED <<data, mode, conf>>

StartNoFilter ==
    /\ LoopTakes("STARTCAP_REQ")
    /\ ServeOpen /\ ~mode.udp => data.c = "listen" /\ PortIsOpen
    /\ Fault
    /\ StartError(Took(Rest), {})
    /\ data' = IF ServeOpen /\ PortIsOpen THEN [data EXCEPT !.d = "closed"] ELSE data
    /\ UNCHANGED <<mode, conf>>

\* The data thread is created; or not, and a second answer is sent.
StartThread(c, d, reached) ==
    \/ /\ NoFault
       /\ ctl' = c
       /\ data' = IF reached THEN [d EXCEPT !.d = "open"] ELSE d
       /\ th' = "new"
       /\ dm' = [dm EXCEPT !.pc = "loop", !.fp = TRUE, !.rd = TRUE, !.handle = TRUE,
                           !.sent = 0, !.use = dm.samp]
       /\ exits' = exits \cup Forgotten
    \/ /\ Fault
       /\ StartError(c, {"lateError"})
       /\ data' = IF reached THEN [d EXCEPT !.d = "closed"] ELSE d

StartServeOpen ==
    /\ LoopTakes("STARTCAP_REQ")
    /\ ServeOpen
    /\ mode.udp \/ (data.c = "listen" /\ PortIsOpen)
    /\ StartThread(ToClient(Took(Rest), Plain("STARTCAP_REPLY")), data, PortIsOpen)
    /\ UNCHANGED <<mode, conf>>

\* The client is told the port and connects to it; accept waits without limit.
StartListen ==
    /\ LoopTakes("STARTCAP_REQ")
    /\ ~ServeOpen
    /\ ctl' = ToClient(Took(Rest), Plain("STARTCAP_REPLY"))
    /\ data' = [NoData EXCEPT !.d = "listen"]
    /\ dm' = [dm EXCEPT !.pc = "accept"]
    /\ UNCHANGED <<exits, mode, conf, th, faults>>

AcceptData ==
    /\ dm.pc = "accept" /\ data.d = "listen"
    /\ data.c \in {"open", "closed"}
    /\ StartThread(ctl, data, TRUE)
    /\ UNCHANGED <<mode, conf>>

----------------------------------------------------------------------------
(* The other requests. *)

\* daemon_updatefilter; without a capture the filter is not read.
UpdateFilter ==
    /\ LoopTakes("UPDATEFILTER_REQ")
    /\ \/ /\ dm.fp
          /\ NoFault
          /\ ctl' = ToClient(Took(Rest), Plain("UPDATEFILTER_REPLY"))
          /\ UNCHANGED exits
       \/ /\ dm.fp
          /\ Fault
          /\ ctl' = SendError(Took(Rest)) /\ UNCHANGED exits
       \/ /\ ~dm.fp
          /\ NoFault
          /\ ctl' = SendError(Took(After(ctl.c2d, 1)))
          /\ exits' = exits \cup {"requestNotRead"}
    /\ UNCHANGED <<data, mode, conf, dm, th>>

\* mutant: a failure is not reported
GetStatsSilent ==
    /\ LoopTakes("STATS_REQ")
    /\ \/ NoFault /\ ctl' = ToClient(Took(Rest), Plain("STATS_REPLY"))
       \/ dm.fp /\ Fault /\ ctl' = Took(Rest)
    /\ UNCHANGED <<data, exits, mode, conf, dm, th>>

\* daemon_getstats, and daemon_getstatsnopcap after the end of a capture
GetStats ==
    /\ LoopTakes("STATS_REQ")
    /\ \/ NoFault /\ ctl' = ToClient(Took(Rest), Plain("STATS_REPLY"))
       \/ dm.fp /\ Fault /\ ctl' = SendError(Took(Rest))
    /\ UNCHANGED <<data, exits, mode, conf, dm, th>>

\* daemon_endcapture; threaddata keeps its value in the loop
EndCap ==
    /\ LoopTakes("ENDCAP_REQ")
    /\ IF dm.fp
       THEN /\ EndCapture
            /\ ctl' = ToClient(Took(Rest), Plain("ENDCAP_REPLY"))
            /\ dm' = [dm EXCEPT !.fp = FALSE, !.rd = FALSE]
       ELSE /\ ctl' = SendError(Took(Rest))
            /\ UNCHANGED <<data, exits, dm, th>>
    /\ UNCHANGED <<mode, conf, faults>>

CloseSession ==
    /\ LoopTakes("CLOSE")
    /\ NoFault
    /\ EndLoop(Took(Rest), TRUE)

Serve ==
    \/ FindAllDevs \/ OpenSource \/ SetSampling
    \/ StartNoSource \/ StartNoConnection \/ StartNoFilter \/ StartServeOpen \/ StartListen
    \/ AcceptData
    \/ UpdateFilter \/ GetStats \/ EndCap \/ CloseSession

----------------------------------------------------------------------------
(* daemon_thrdatamain. *)

\* asynchronous cancellation is on from here
ThreadReady ==
    /\ th \in {"new", "doomed"}
    /\ th' = IF th = "new" THEN "run" ELSE "none"
    /\ UNCHANGED <<streamVars, mode, conf, dm, faults>>

\* closesocket(rmt_sockdata); its reset follows in ThreadEnd.
CloseThreadData == IF data.d = "open" THEN [data EXCEPT !.d = "closed"] ELSE data

DataGone == ~data.up \/ data.d # "open" \/ data.c = "closed"

\* mutant: a packet is counted that is not sent
SendPacketOrNot ==
    /\ th = "run"
    /\ dm.sent < MaxPackets /\ ~DataGone
    /\ NoFault
    /\ dm' = [dm EXCEPT !.sent = @ + 1]
    /\ data' \in {data, [data EXCEPT !.q = Append(@, [n |-> dm.sent + 1, k |-> "whole"])]}
    /\ UNCHANGED <<ctl, exits, mode, conf, th>>

SendPacket ==
    /\ th = "run"
    /\ \/ /\ dm.sent < MaxPackets
          /\ ~DataGone \/ mode.udp
          /\ dm' = [dm EXCEPT !.sent = @ + 1]
          /\ \E k \in {"whole", "big"} :
                 /\ IF k = "big" THEN ~mode.udp /\ Fault ELSE NoFault
                 /\ data' = IF DataGone THEN data
                            ELSE [data EXCEPT !.q = Append(@, [n |-> dm.sent + 1, k |-> k])]
          /\ UNCHANGED th
       \/ /\ DataGone /\ ~mode.udp
          /\ NoFault
          /\ th' = "closing"
          /\ data' = CloseThreadData
          /\ UNCHANGED dm
    /\ UNCHANGED <<ctl, exits, mode, conf>>

\* pcap_next_ex fails: an error that answers no request
ReadFails ==
    /\ th = "run"
    /\ Fault
    /\ ctl' = SendError(ctl)
    /\ exits' = exits \cup {"threadError"}
    /\ th' = "closing"
    /\ data' = CloseThreadData
    /\ UNCHANGED <<mode, conf, dm>>

ThreadEnd ==
    /\ th = "closing"
    /\ th' = "none"
    /\ dm' = [dm EXCEPT !.rd = FALSE]
    /\ UNCHANGED <<streamVars, mode, conf, faults>>

Thread == ThreadReady \/ SendPacket \/ ReadFails \/ ThreadEnd
Service == AcceptControl \/ ConnectActive \/ Pause \/ ReadConfiguration \/ Stop
Loop == TimeOut \/ ConnectionLost \/ Authenticate \/ AuthGivenUp \/ OutOfFrame \/ Serve

DaemonTypeOK ==
    /\ conf.status \in {"running", "paused", "stopped"}
    /\ dm \in [pc : {"none", "auth", "loop", "accept", "lost"}, fp : BOOLEAN, rd : BOOLEAN,
               sent : 0..MaxPackets, samp : {"unset", "asked"}, use : {"none", "unset", "asked"},
               handle : BOOLEAN, null : BOOLEAN, close : BOOLEAN]
    /\ th \in {"none", "new", "run", "closing", "doomed"}
    /\ faults \in 0..MaxFaults
=============================================================================
