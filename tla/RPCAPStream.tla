---------------------------- MODULE RPCAPStream ----------------------------
(***************************************************************************)
(* The connections of the RPCAP protocol (wpcap/libpcap/sockutils.c and    *)
(* the message helpers of pcap-remote.c).  A control connection carries    *)
(* requests from the client to the daemon and replies back; a data         *)
(* connection carries packets from the daemon to the client.               *)
(*                                                                         *)
(* A TCP stream is a sequence of units: a header unit, followed by the     *)
(* units of its payload.  plen is the length the header announces, n the   *)
(* number of payload units its sender really put behind it (a filter       *)
(* carries its own count, rpcap_filter.nitems, which its reader follows    *)
(* instead of plen).  A reader that is not at a message boundary takes a   *)
(* payload unit for a header.                                              *)
(***************************************************************************)
EXTENDS Integers, Sequences, FiniteSets

CONSTANT
    Modes    \* the captures considered: active mode, PCAP_OPENFLAG_DATATX_UDP,
             \* PCAP_OPENFLAG_NOCAPTURE_RPCAP, sampling asked for

ASSUME ModesAssumption ==
    Modes \subseteq [active : BOOLEAN, udp : BOOLEAN, norpcap : BOOLEAN, samp : BOOLEAN]

VARIABLES
    mode,    \* one of Modes, chosen once
    ctl,     \* the control connection
    data,    \* the data connection
    exits    \* history: the ways out of the protocol that have been taken

streamVars == <<ctl, data, exits>>

Requests == {"AUTH_REQ", "FINDALLIF_REQ", "OPEN_REQ", "SETSAMPLING_REQ",
             "STARTCAP_REQ", "UPDATEFILTER_REQ", "STATS_REQ", "ENDCAP_REQ", "CLOSE"}

Replies == {"AUTH_REPLY", "FINDALLIF_REPLY", "OPEN_REPLY", "SETSAMPLING_REPLY",
            "STARTCAP_REPLY", "UPDATEFILTER_REPLY", "STATS_REPLY", "ENDCAP_REPLY", "ERROR"}

\* The payload of each message, in units: one for each structure it holds.
PayloadOf == [t \in Requests \cup Replies |->
    CASE t \in {"AUTH_REQ", "OPEN_REQ", "SETSAMPLING_REQ", "OPEN_REPLY",
                "STARTCAP_REPLY", "STATS_REPLY", "ERROR"} -> 1
      [] t \in {"UPDATEFILTER_REQ", "FINDALLIF_REPLY"}    -> 2
      [] t = "STARTCAP_REQ"                               -> 3
      [] OTHER                                            -> 0]

Body == [t |-> "body", plen |-> 0, n |-> 0]

\* rpcap_createhdr and the sock_bufferize calls that put the payload behind it.
Message(t, plen, n) ==
    <<[t |-> t, plen |-> plen, n |-> n]>> \o [i \in 1..n |-> Body]

Plain(t) == Message(t, PayloadOf[t], PayloadOf[t])

AtBoundary(s) == s = <<>> \/ Head(s).t # "body"

\* sock_recv and sock_discard of n units: what is left of the stream.
After(s, n) == SubSeq(s, n + 1, Len(s))

\* sock_recv blocks until the units are there or the stream has ended.
Holds(s, n) == Len(s) >= n

----------------------------------------------------------------------------
(* The two ends of a connection. *)

\* backlog: connected by the other end, not yet accepted by this one; held: open,
\* but nobody uses it any more
Ends == {"none", "listen", "backlog", "open", "closed", "held"}

NoConnection == [c2d |-> <<>>, d2c |-> <<>>, c |-> "none", d |-> "none", up |-> TRUE]
NoData       == [q |-> <<>>, c |-> "none", d |-> "none", up |-> TRUE]

\* recv returns 0 or an error, and sock_recv -1, once the other end is closed
\* or the connection is broken and what had arrived has been read.
ClientEof == ~ctl.up \/ ctl.d = "closed"
DaemonEof == ~ctl.up \/ ctl.c = "closed"

\* sock_send: on a connection that is gone the message vanishes (the failure
\* shows at the next sock_recv, which every caller makes).
ToDaemon(c, m) == IF c.up /\ c.d \in {"backlog", "open"} /\ c.c = "open" THEN [c EXCEPT !.c2d = @ \o m] ELSE c
ToClient(c, m) == IF c.up /\ c.c = "open" /\ c.d = "open" THEN [c EXCEPT !.d2c = @ \o m] ELSE c

\* rpcap_senderror
SendError(c) == ToClient(c, Plain("ERROR"))

(***************************************************************************)
(* rpcap_checkmsg: the type of the message at the head of s and what the   *)
(* stream is afterwards.  An error message is read whole, a message that   *)
(* is not allowed is discarded whole, an expected one keeps its payload.   *)
(***************************************************************************)
CheckMsg(s, allowed) ==
    LET h == Head(s) IN
    IF h.t = "ERROR" THEN [ret |-> "ERROR", rest |-> After(s, 1 + h.plen)]
    ELSE IF h.t \in allowed THEN [ret |-> h.t, rest |-> After(s, 1)]
    ELSE [ret |-> "wrong", rest |-> After(s, 1 + h.plen)]

----------------------------------------------------------------------------
(* The network: either connection may break; the units that had not been   *)
(* read are lost from some point on.                                       *)

Cut(s) == {SubSeq(s, 1, k) : k \in 0..Len(s)}

BreakControl ==
    /\ ctl.up
    /\ ctl.c = "open"
    /\ \E s \in Cut(ctl.c2d), r \in Cut(ctl.d2c) :
           ctl' = [ctl EXCEPT !.up = FALSE, !.c2d = s, !.d2c = r]
    /\ UNCHANGED <<data, exits, mode>>

\* The data connection breaks, in the middle of a packet or between two.
BreakData ==
    /\ data.up
    /\ data.c = "open" /\ data.d = "open"
    /\ \E s \in Cut(data.q) :
          \E torn \in {s} \cup (IF s = <<>> THEN {} ELSE {[s EXCEPT ![Len(s)].k = "torn"]}) :
              data' = [data EXCEPT !.up = FALSE, !.q = torn]
    /\ UNCHANGED <<ctl, exits, mode>>

StreamTypeOK ==
    /\ ctl.c2d \in Seq([t : Requests \cup {"ERROR", "body"}, plen : 0..3, n : 0..3])
    /\ ctl.d2c \in Seq([t : Replies \cup {"body"}, plen : 0..3, n : 0..3])
    /\ ctl.c \in Ends /\ ctl.d \in Ends /\ ctl.up \in BOOLEAN
    /\ data.q \in Seq([n : Nat, k : {"whole", "torn", "big", "rest"}])
    /\ data.c \in Ends /\ data.d \in Ends /\ data.up \in BOOLEAN
=============================================================================
