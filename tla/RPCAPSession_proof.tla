------------------------- MODULE RPCAPSession_proof -------------------------
(***************************************************************************)
(* Proofs about a client and a daemon of the remote capture, for any       *)
(* number of calls, packets and faults and any width of the counters.      *)
(***************************************************************************)
EXTENDS RPCAPSession, FiniteSetTheorems, SequenceTheorems, TLAPS

CallPlaces ==
    {"idle", "auth_findall", "auth_open", "auth_host", "findall", "open", "samp", "start",
     "norpcap", "upd", "stats", "endcap", "accept", "lost"}

\* the states of the pcap_t
Captures == {"none", "open", "started", "failed"}

ClientType ==
    [pc : CallPlaces, fp : Captures, own : BOOLEAN,
     filter : BOOLEAN, TotCapt : 0..W - 1, TotNetDrops : 0..W - 1, host : BOOLEAN,
     sockcount : Int, calls : Nat]

Unit == [t : Requests \cup Replies \cup {"body"}, plen : Nat, n : Nat]

ControlType == [c2d : Seq(Unit), d2c : Seq(Unit), c : Ends, d : Ends, up : BOOLEAN]

Packet == [n : Nat, k : {"whole", "torn", "big", "rest"}]

DataType == [q : Seq(Packet), c : Ends, d : Ends, up : BOOLEAN]

LoopPlaces == {"none", "auth", "loop", "accept", "lost"}

LoopType ==
    [pc : LoopPlaces, fp : BOOLEAN, rd : BOOLEAN, sent : Nat,
     samp : {"unset", "asked"}, use : {"none", "unset", "asked"}, handle : BOOLEAN,
     null : BOOLEAN, close : BOOLEAN]

ThreadPlaces == {"none", "new", "run", "closing", "doomed"}

LoopTyped == dm \in LoopType /\ th \in ThreadPlaces /\ conf.null \in BOOLEAN

ModeTyped == mode \in [active : BOOLEAN, udp : BOOLEAN, norpcap : BOOLEAN, samp : BOOLEAN]

----------------------------------------------------------------------------
(* Remainders: of a number in a window of W, and of two congruent numbers.  *)
LEMMA Remainder ==
    ASSUME NEW a \in Int
    PROVE  a % W \in 0..W - 1
BY CountersAssumption

LEMMA Quotient ==
    ASSUME NEW a \in Int
    PROVE  \E k \in Int : a = (k * W) + (a % W)
<1>1. a = W * (a \div W) + (a % W) /\ a \div W \in Int
    BY CountersAssumption
<1>2. a = ((a \div W) * W) + (a % W)
    BY <1>1, CountersAssumption
<1> QED
    BY <1>1, <1>2

LEMMA SmallRemainder ==
    ASSUME NEW a \in 0..W - 1
    PROVE  a % W = a
BY CountersAssumption

LEMMA OneRemainder ==
    ASSUME NEW a \in Int, NEW k \in Int, NEW r \in 0..W - 1, a = (k * W) + r
    PROVE  a % W = r
BY CountersAssumption

\* what the client has been told is missing, counted in the width of the counters
Accounted(capt, drops, count) == (capt + W - drops) % W = count % W

LEMMA Congruent ==
    ASSUME NEW a \in Int, NEW b \in Int
    PROVE  a % W = b % W <=> \E k \in Int : a = (k * W) + b
<1>1. PICK i \in Int : a = (i * W) + (a % W)
    BY Quotient
<1>2. PICK j \in Int : b = (j * W) + (b % W)
    BY Quotient
<1>3. ASSUME a % W = b % W PROVE \E k \in Int : a = (k * W) + b
  <2>1. a = ((i - j) * W) + b /\ i - j \in Int
    BY <1>1, <1>2, <1>3, CountersAssumption
  <2> QED
    BY <2>1
<1>4. ASSUME NEW k \in Int, a = (k * W) + b PROVE a % W = b % W
  <2>1. a = ((k + j) * W) + (b % W) /\ k + j \in Int
    BY <1>2, <1>4, CountersAssumption
  <2>2. b % W \in 0..W - 1
    BY Remainder
  <2> QED
    BY <2>1, <2>2, OneRemainder
<1> QED
    BY <1>3, <1>4

LEMMA Shifted ==
    ASSUME NEW a \in Int, NEW b \in Int, NEW k \in Int, a = (k * W) + b
    PROVE  a % W = b % W
BY Congruent

LEMMA CountedTcp ==
    ASSUME NEW capt \in 0..W - 1, NEW drops \in 0..W - 1, NEW count \in Nat,
           Accounted(capt, drops, count)
    PROVE  Accounted((capt + 1) % W, drops, count + 1)
<1> DEFINE next == (capt + 1) % W
<1>0. capt + W - drops \in Int /\ count \in Int /\ W \in Int
    BY CountersAssumption
<1>1. PICK k \in Int : capt + W - drops = (k * W) + count
    BY <1>0, Congruent DEF Accounted
<1>2. PICK i \in Int : capt + 1 = (i * W) + next
    BY Quotient
<1>3. next \in 0..W - 1
    BY Remainder
<1> HIDE DEF next
<1>4. next + W - drops = ((k - i) * W) + (count + 1) /\ k - i \in Int
    BY <1>1, <1>2, <1>3, CountersAssumption
<1>5. (next + W - drops) % W = (count + 1) % W
  <2> DEFINE x == next + W - drops
             y == count + 1
             z == k - i
  <2>1. x \in Int /\ y \in Int /\ z \in Int /\ x = (z * W) + y
    BY <1>3, <1>4, CountersAssumption
  <2> HIDE DEF x, y, z
  <2>2. x % W = y % W
    BY <2>1, Shifted
  <2> QED
    BY <2>2 DEF x, y
<1> QED
    BY <1>5 DEF Accounted, next

LEMMA CountedUdp ==
    ASSUME NEW capt \in 0..W - 1, NEW drops \in 0..W - 1, NEW count \in Nat,
           NEW npkt \in Nat, Accounted(capt, drops, count)
    PROVE  Accounted(npkt % W, (drops + (npkt + W - ((capt + 1) % W))) % W, count + 1)
<1> DEFINE seen == (capt + 1) % W
           last == npkt % W
           gap == (drops + (npkt + W - seen)) % W
<1>0. capt + W - drops \in Int /\ count \in Int /\ W \in Int
    BY CountersAssumption
<1>1. PICK k \in Int : capt + W - drops = (k * W) + count
    BY <1>0, Congruent DEF Accounted
<1>2. seen \in 0..W - 1 /\ last \in 0..W - 1
    BY Remainder
<1>3. PICK i \in Int : capt + 1 = (i * W) + seen
    BY Quotient
<1>4. PICK j \in Int : npkt = (j * W) + last
    BY Quotient
<1>5. gap \in 0..W - 1 /\ drops + (npkt + W - seen) \in Int
    BY <1>2, Remainder, CountersAssumption
<1>6. PICK m \in Int : drops + (npkt + W - seen) = (m * W) + gap
    BY <1>5, Quotient
<1> HIDE DEF seen, last, gap
<1>7. last + W - gap = ((((m - i) + k) - j) - 1) * W + (count + 1) /\ (((m - i) + k) - j) - 1 \in Int
    BY <1>1, <1>2, <1>3, <1>4, <1>5, <1>6, CountersAssumption
<1>8. (last + W - gap) % W = (count + 1) % W
  <2> DEFINE x == last + W - gap
             y == count + 1
             z == (((m - i) + k) - j) - 1
  <2>1. x \in Int /\ y \in Int /\ z \in Int /\ x = (z * W) + y
    BY <1>2, <1>5, <1>7, CountersAssumption
  <2> HIDE DEF x, y, z
  <2>2. x % W = y % W
    BY <2>1, Shifted
  <2> QED
    BY <2>2 DEF x, y
<1> QED
    BY <1>8 DEF Accounted, seen, last, gap

----------------------------------------------------------------------------
(* The operators on connections.                                            *)
LEMMA MessageTyped ==
    ASSUME NEW t \in Requests \cup Replies, NEW plen \in Nat, NEW n \in Nat
    PROVE  Message(t, plen, n) \in Seq(Unit)
<1> DEFINE body == [i \in 1..n |-> Body]
           header == [t |-> t, plen |-> plen, n |-> n]
<1>1. Body \in Unit /\ header \in Unit
    BY DEF Body, Unit
<1>2. body \in Seq(Unit) /\ <<header>> \in Seq(Unit)
    BY <1>1
<1> HIDE DEF body, header
<1>3. <<header>> \o body \in Seq(Unit)
    BY <1>2, ConcatProperties
<1> QED
    BY <1>3 DEF Message, body, header

LEMMA PayloadTyped == \A t \in Requests \cup Replies : PayloadOf[t] \in Nat
BY DEF PayloadOf, Requests, Replies

LEMMA PlainTyped == \A t \in Requests \cup Replies : Plain(t) \in Seq(Unit)
BY MessageTyped, PayloadTyped DEF Plain

LEMMA AfterTyped ==
    ASSUME NEW S, NEW s \in Seq(S), NEW n \in Nat
    PROVE  /\ After(s, n) \in Seq(S)
           /\ Len(After(s, n)) = IF n <= Len(s) THEN Len(s) - n ELSE 0
           /\ \A i \in 1..Len(s) - n : After(s, n)[i] = s[n + i]
<1>1. Len(s) \in Nat /\ \A i \in (n + 1)..Len(s) : s[i] \in S
    BY LenProperties, ElementOfSeq
<1>2. /\ After(s, n) \in Seq(S)
      /\ Len(After(s, n)) = IF n + 1 <= Len(s) THEN Len(s) - (n + 1) + 1 ELSE 0
      /\ \A i \in 1..Len(s) - (n + 1) + 1 : After(s, n)[i] = s[(n + 1) + i - 1]
    BY <1>1, SubSeqProperties DEF After
<1> QED
    BY <1>1, <1>2

----------------------------------------------------------------------------
(* A call that returns, and one that is entered.                            *)
At(c, pc, k) == [c EXCEPT !.pc = pc, !.sockcount = k]

LEMMA FieldsMove ==
    ASSUME NEW c \in ClientType, NEW pc \in CallPlaces, NEW k \in Int
    PROVE  /\ At(c, pc, k) \in ClientType
           /\ At(c, pc, k).pc = pc /\ At(c, pc, k).sockcount = k
           /\ At(c, pc, k).fp = c.fp /\ At(c, pc, k).own = c.own /\ At(c, pc, k).host = c.host
           /\ At(c, pc, k).TotCapt = c.TotCapt /\ At(c, pc, k).TotNetDrops = c.TotNetDrops
BY DEF ClientType, At

LEMMA ReturnMoves ==
    ASSUME NEW c \in ClientType, NEW use \in Int, Return(c, use)
    PROVE  /\ cl' \in ClientType
           /\ cl'.pc = "idle" /\ cl'.sockcount = c.sockcount + use
           /\ cl'.fp = c.fp /\ cl'.own = c.own /\ cl'.host = c.host
           /\ cl'.TotCapt = c.TotCapt /\ cl'.TotNetDrops = c.TotNetDrops
<1>1. c.sockcount \in Int
    BY DEF ClientType
<1>2. c.sockcount + use \in Int /\ "idle" \in CallPlaces
    BY <1>1 DEF CallPlaces
<1>3. cl' = At(c, "idle", c.sockcount + use)
    BY DEF Return, At
<1> QED
    BY <1>2, <1>3, FieldsMove

LEMMA EnteredMoves ==
    ASSUME cl \in ClientType, NEW pc \in CallPlaces, NEW use \in Int
    PROVE  /\ Entered \in ClientType
           /\ Entered.pc = cl.pc /\ Entered.sockcount = cl.sockcount
           /\ Entered.fp = cl.fp /\ Entered.own = cl.own /\ Entered.host = cl.host
           /\ Entered.TotCapt = cl.TotCapt /\ Entered.TotNetDrops = cl.TotNetDrops
BY DEF Entered, ClientType

\* cl' is c, at another place and with use more calls of sock_init
GoesTo(c, pc, use) ==
    /\ cl' \in ClientType
    /\ cl'.pc = pc /\ cl'.sockcount = c.sockcount + use
    /\ cl'.fp = c.fp /\ cl'.own = c.own /\ cl'.host = c.host
    /\ cl'.TotCapt = c.TotCapt /\ cl'.TotNetDrops = c.TotNetDrops

LEMMA ReturnGoes ==
    ASSUME NEW c \in ClientType, NEW use \in Int, Return(c, use)
    PROVE  GoesTo(c, "idle", use)
BY ReturnMoves DEF GoesTo

LEMMA PlaceGoes ==
    ASSUME NEW c \in ClientType, NEW pc \in CallPlaces, cl' = [c EXCEPT !.pc = pc]
    PROVE  GoesTo(c, pc, 0)
BY DEF ClientType, GoesTo

LEMMA InitGoes ==
    ASSUME NEW c \in ClientType, NEW pc \in CallPlaces,
           cl' = [c EXCEPT !.pc = pc, !.sockcount = @ + 1]
    PROVE  GoesTo(c, pc, 1)
<1>1. c.sockcount \in Int
    BY DEF ClientType
<1>2. c.sockcount + 1 \in Int
    BY <1>1
<1>3. cl' = At(c, pc, c.sockcount + 1)
    BY DEF At
<1> QED
    BY <1>2, <1>3, FieldsMove DEF GoesTo

\* the pcap_t of c, and whether rmt_sockctrl is ours
Handle(c, fp, own) == [c EXCEPT !.fp = fp, !.own = own]

LEMMA HandleTyped ==
    ASSUME NEW c \in ClientType, NEW own \in BOOLEAN,
           NEW fp \in Captures
    PROVE  /\ Handle(c, fp, own) \in ClientType
           /\ Handle(c, fp, own).fp = fp /\ Handle(c, fp, own).own = own
           /\ Handle(c, fp, own).pc = c.pc /\ Handle(c, fp, own).host = c.host
           /\ Handle(c, fp, own).sockcount = c.sockcount
           /\ Handle(c, fp, own).TotCapt = c.TotCapt
           /\ Handle(c, fp, own).TotNetDrops = c.TotNetDrops
BY DEF ClientType, Captures, Handle

\* activeHosts of c, and whether rmt_sockctrl is ours
Host(c, host, own) == [c EXCEPT !.host = host, !.own = own]

LEMMA HostTyped ==
    ASSUME NEW c \in ClientType, NEW own \in BOOLEAN, NEW host \in BOOLEAN
    PROVE  /\ Host(c, host, own) \in ClientType
           /\ Host(c, host, own).host = host /\ Host(c, host, own).own = own
           /\ Host(c, host, own).pc = c.pc /\ Host(c, host, own).fp = c.fp
           /\ Host(c, host, own).sockcount = c.sockcount
           /\ Host(c, host, own).TotCapt = c.TotCapt
           /\ Host(c, host, own).TotNetDrops = c.TotNetDrops
BY DEF ClientType, Host

\* the counters of c
Counts(c, capt, drops) == [c EXCEPT !.TotCapt = capt, !.TotNetDrops = drops]

LEMMA CountsTyped ==
    ASSUME NEW c \in ClientType, NEW capt \in 0..W - 1, NEW drops \in 0..W - 1
    PROVE  /\ Counts(c, capt, drops) \in ClientType
           /\ Counts(c, capt, drops).TotCapt = capt /\ Counts(c, capt, drops).TotNetDrops = drops
           /\ Counts(c, capt, drops).pc = c.pc /\ Counts(c, capt, drops).fp = c.fp
           /\ Counts(c, capt, drops).sockcount = c.sockcount
           /\ Counts(c, capt, drops).own = c.own /\ Counts(c, capt, drops).host = c.host
BY DEF ClientType, Counts

----------------------------------------------------------------------------
(* The client's part of the inductive invariant: who uses Winsock, where a  *)
(* call may be with its pcap_t, and what the counters say.                  *)
Opening == {"auth_findall", "auth_open", "auth_host", "accept", "findall", "open"}

One(b) == IF b THEN 1 ELSE 0

Users(c) == One(c.fp # "none") + One(c.host) + One(c.pc \in Opening)

Initialised(c) == c.sockcount >= Users(c) /\ (c.pc = "lost" => c.sockcount > 0)

PlaceOK(c) ==
    /\ c.pc \in {"samp", "start", "norpcap"} => c.fp \in {"open", "failed"}
    /\ c.pc \in {"upd", "stats"} => c.fp = "started"
    /\ c.pc = "endcap" => c.fp # "none"
    /\ c.pc \in {"auth_open", "open"} => c.fp = "none"

CountOK(c, count) == c.fp # "none" => Accounted(c.TotCapt, c.TotNetDrops, count)

ClientInv ==
    /\ cl \in ClientType
    /\ got \in Seq(Packet)
    /\ None({"unknownHost"}) => Initialised(cl)
    /\ PlaceOK(cl)
    /\ CountOK(cl, Len(got))

LEMMA ExitsStay ==
    ASSUME NEW names, None(names)', exits \subseteq exits'
    PROVE  None(names)
BY DEF None

LEMMA UsersInt ==
    ASSUME NEW c
    PROVE  Users(c) \in Int
<1>1. \A b \in {TRUE, FALSE} : One(b) \in Int
    BY DEF One
<1> QED
    BY DEF Users, One

\* A step that keeps the pcap_t, or closes it, and the counters.
LEMMA GoingKeeps ==
    ASSUME ClientInv, NEW c \in ClientType, NEW pc, NEW use \in Int, GoesTo(c, pc, use),
           c.sockcount = cl.sockcount, c.TotCapt = cl.TotCapt, c.TotNetDrops = cl.TotNetDrops,
           c.fp # "none" => cl.fp # "none",
           PlaceOK(cl'), got' = got, exits \subseteq exits',
           None({"unknownHost"})' => Users(cl') <= Users(cl) + use,
           pc = "lost" => Users(cl) + use > 0
    PROVE  ClientInv'
<1>1. CountOK(cl', Len(got'))
    BY DEF ClientInv, GoesTo, CountOK
<1>2. ASSUME None({"unknownHost"})' PROVE Initialised(cl')
  <2>1. Initialised(cl)
    BY <1>2, ExitsStay DEF ClientInv
  <2>2. cl'.sockcount = cl.sockcount + use /\ cl'.pc = pc /\ cl.sockcount \in Int
    BY DEF GoesTo, ClientInv, ClientType
  <2>3. Users(cl) \in Int /\ Users(cl') \in Int /\ Users(cl') <= Users(cl) + use
    BY <1>2, UsersInt
  <2>4. cl'.sockcount >= Users(cl')
    BY <2>1, <2>2, <2>3 DEF Initialised
  <2>5. pc = "lost" => cl'.sockcount > 0
    BY <2>1, <2>2, <2>3 DEF Initialised
  <2> QED
    BY <2>2, <2>4, <2>5 DEF Initialised
<1> QED
    BY <1>1, <1>2 DEF ClientInv, GoesTo

LEMMA EnteredIdle ==
    ASSUME ClientInv, Enter
    PROVE  /\ Entered \in ClientType
           /\ Entered.pc = "idle" /\ cl.pc = "idle" /\ Entered.sockcount = cl.sockcount
           /\ Entered.fp = cl.fp /\ Entered.own = cl.own /\ Entered.host = cl.host
           /\ Entered.TotCapt = cl.TotCapt /\ Entered.TotNetDrops = cl.TotNetDrops
BY EnteredMoves DEF ClientInv, Enter, CallPlaces

LEMMA BeginGoes ==
    ASSUME ClientInv, NEW pc \in {"findall", "open"}, NEW auth \in {"auth_findall", "auth_open"},
           NEW t, Begin(pc, auth, t), auth = "auth_open" => pc = "open",
           pc = "open" \/ auth = "auth_open" => cl.fp = "none"
    PROVE  ClientInv'
<1>1. Enter /\ exits' = exits /\ got' = got
    BY DEF Begin
<1>2. PICK p \in {pc, auth} : cl' = [Entered EXCEPT !.pc = p, !.sockcount = @ + 1]
    BY DEF Begin
<1>3. p \in CallPlaces /\ p \in Opening /\ p \in {"findall", "open", "auth_findall", "auth_open"}
    BY DEF CallPlaces, Opening
<1>4. GoesTo(Entered, p, 1)
    BY <1>1, <1>2, <1>3, EnteredIdle, InitGoes
<1>5. PlaceOK(cl')
    BY <1>1, <1>3, <1>4, EnteredIdle DEF GoesTo, PlaceOK
<1>6. Users(cl') <= Users(cl) + 1
    BY <1>1, <1>4, EnteredIdle DEF GoesTo, Users, One
<1> QED
    BY <1>1, <1>3, <1>4, <1>5, <1>6, EnteredIdle, GoingKeeps

\* The call returns and keeps its pcap_t and its host.
LEMMA ReturningKeeps ==
    ASSUME ClientInv, NEW c \in {cl, Entered}, NEW use \in Int, Return(c, use), Enter \/ c = cl,
           got' = got, exits \subseteq exits',
           One(cl.pc \in Opening) + use >= 0
    PROVE  ClientInv'
<1>1. /\ c \in ClientType /\ c.sockcount = cl.sockcount /\ c.fp = cl.fp /\ c.host = cl.host
      /\ c.TotCapt = cl.TotCapt /\ c.TotNetDrops = cl.TotNetDrops
    BY EnteredIdle DEF ClientInv
<1>2. GoesTo(c, "idle", use)
    BY <1>1, ReturnGoes
<1>3. PlaceOK(cl')
    BY <1>2 DEF GoesTo, PlaceOK
<1>4. Users(cl') <= Users(cl) + use
    BY <1>1, <1>2 DEF GoesTo, Users, One, Opening
<1> QED
    BY <1>1, <1>2, <1>3, <1>4, GoingKeeps

\* The call goes on to a place where it still has what it used.
LEMMA PlaceKeeps ==
    ASSUME ClientInv, NEW c \in {cl, Entered}, NEW pc \in CallPlaces, cl' = [c EXCEPT !.pc = pc],
           Enter \/ c = cl, got' = got, exits \subseteq exits', PlaceOK(cl'),
           pc \in Opening => cl.pc \in Opening,
           pc = "lost" => cl.fp # "none" \/ cl.pc \in Opening
    PROVE  ClientInv'
<1>1. /\ c \in ClientType /\ c.sockcount = cl.sockcount /\ c.fp = cl.fp /\ c.host = cl.host
      /\ c.TotCapt = cl.TotCapt /\ c.TotNetDrops = cl.TotNetDrops
    BY EnteredIdle DEF ClientInv
<1>2. GoesTo(c, pc, 0)
    BY <1>1, PlaceGoes
<1>3. Users(cl') <= Users(cl) + 0
    BY <1>1, <1>2 DEF GoesTo, Users, One
<1>4. pc = "lost" => Users(cl) + 0 > 0
    BY DEF Users, One
<1> QED
    BY <1>1, <1>2, <1>3, <1>4, GoingKeeps

\* One place after another, with the same pcap_t.
LEMMA PlaceAt ==
    ASSUME ClientInv, NEW c \in {cl, Entered}, NEW pc \in CallPlaces, cl' = [c EXCEPT !.pc = pc],
           Enter \/ c = cl
    PROVE  cl'.pc = pc /\ cl'.fp = cl.fp
<1>1. c \in ClientType /\ c.fp = cl.fp
    BY EnteredIdle DEF ClientInv
<1> QED
    BY <1>1, PlaceGoes DEF GoesTo

LEMMA ConnectFailsKeeps == ASSUME ClientInv, ConnectFails PROVE ClientInv'
<1>1. PICK use \in {0, 1} : Return(Entered, use) /\ Enter /\ got' = got /\ exits' = exits
    BY DEF ConnectFails, streamVars
<1> QED
    BY <1>1, ReturningKeeps DEF One

LEMMA AuthenticatedKeeps == ASSUME ClientInv, Authenticated PROVE ClientInv'
<1> DEFINE pc == RequestAfter(cl.pc)[1]
<1>1. /\ cl' = [cl EXCEPT !.pc = pc] /\ got' = got /\ exits' = exits
      /\ cl.pc \in Authenticating
    BY DEF Authenticated
<1>2. pc = IF cl.pc = "auth_findall" THEN "findall" ELSE "open"
    BY DEF RequestAfter
<1>3. pc \in CallPlaces /\ pc \in Opening /\ cl.pc \in Opening /\ pc # "lost"
    BY <1>1, <1>2 DEF CallPlaces, Opening, Authenticating
<1> HIDE DEF pc
<1>4. PlaceOK(cl')
    BY <1>1, <1>2, <1>3, PlaceAt DEF PlaceOK, ClientInv, Authenticating
<1> QED
    BY <1>1, <1>3, <1>4, PlaceKeeps

LEMMA NotAuthenticatedKeeps == ASSUME ClientInv, NotAuthenticated PROVE ClientInv'
BY ReturningKeeps DEF NotAuthenticated, One

LEMMA FoundAllKeeps == ASSUME ClientInv, FoundAll PROVE ClientInv'
<1>1. Return(cl, -1) /\ got' = got /\ exits \subseteq exits' /\ cl.pc = "findall"
    BY DEF FoundAll
<1> QED
    BY <1>1, ReturningKeeps DEF One, Opening

LEMMA FindAllFailsKeeps == ASSUME ClientInv, FindAllFails PROVE ClientInv'
<1>1. PICK use \in {0, -1} : Return(cl, use) /\ got' = got /\ exits = exits' /\ cl.pc = "findall"
    BY DEF FindAllFails
<1> QED
    BY <1>1, ReturningKeeps DEF One, Opening

LEMMA OpenFailsKeeps == ASSUME ClientInv, OpenFails PROVE ClientInv'
<1>1. got' = got /\ exits \subseteq exits' /\ cl.pc = "open"
    BY DEF OpenFails
<1>2. CASE Return(cl, 0)
    BY <1>1, <1>2, ReturningKeeps DEF One, Opening
<1>3. CASE cl' = [cl EXCEPT !.pc = "lost"]
  <2>1. "lost" \in CallPlaces /\ "lost" \notin Opening /\ cl.pc \in Opening
    BY <1>1 DEF CallPlaces, Opening
  <2>2. PlaceOK(cl')
    BY <1>3, <2>1, PlaceAt DEF PlaceOK
  <2> QED
    BY <1>1, <1>3, <2>1, <2>2, PlaceKeeps
<1> QED
    BY <1>2, <1>3 DEF OpenFails

\* The call returns with its pcap_t changed, or closed.
LEMMA HandleKeeps ==
    ASSUME ClientInv, NEW c \in {cl, Entered}, Enter \/ c = cl,
           NEW fp \in Captures, NEW own \in BOOLEAN,
           NEW use \in Int, Return(Handle(c, fp, own), use),
           got' = got, exits \subseteq exits',
           fp # "none" => cl.fp # "none",
           One(fp # "none") + One(cl.host) <= Users(cl) + use
    PROVE  ClientInv'
<1>1. /\ c \in ClientType /\ c.sockcount = cl.sockcount /\ c.host = cl.host
      /\ c.TotCapt = cl.TotCapt /\ c.TotNetDrops = cl.TotNetDrops
    BY EnteredIdle DEF ClientInv
<1> DEFINE e == Handle(c, fp, own)
<1>0. /\ e \in ClientType /\ e.sockcount = c.sockcount /\ e.host = c.host /\ e.fp = fp
      /\ e.TotCapt = c.TotCapt /\ e.TotNetDrops = c.TotNetDrops
  <2>1. c \in ClientType
    BY <1>1
  <2> QED
    BY <2>1 DEF ClientType, Captures, Handle
<1>2. /\ e \in ClientType /\ e.sockcount = cl.sockcount /\ e.host = cl.host /\ e.fp = fp
      /\ e.TotCapt = cl.TotCapt /\ e.TotNetDrops = cl.TotNetDrops
    BY <1>0, <1>1
<1>3. Return(e, use)
    OBVIOUS
<1> HIDE DEF e
<1>4. GoesTo(e, "idle", use)
    BY <1>2, <1>3, ReturnGoes
<1>5. PlaceOK(cl')
    BY <1>4 DEF GoesTo, PlaceOK
<1>6. Users(cl') = One(fp # "none") + One(cl.host)
    BY <1>2, <1>4 DEF GoesTo, Users, One, Opening
<1> QED
    BY <1>2, <1>4, <1>5, <1>6, GoingKeeps

LEMMA AccountedAtFirst == Accounted(0, 0, 0)
BY CountersAssumption DEF Accounted

LEMMA OpenedKeeps == ASSUME ClientInv, Opened PROVE ClientInv'
<1>1. cl.pc = "open" /\ cl.fp = "none" /\ got' = <<>> /\ exits' = exits /\ cl \in ClientType
    BY DEF Opened, ClientInv, PlaceOK
<1> DEFINE h == Handle(cl, "open", TRUE)
           e == Counts(h, 0, 0)
<1>0. "open" \in Captures /\ TRUE \in BOOLEAN
    BY DEF Captures
<1>2. h \in ClientType /\ h.fp = "open" /\ h.host = cl.host /\ h.sockcount = cl.sockcount
    BY <1>0, <1>1, HandleTyped
<1>3. 0 \in 0..W - 1
    BY CountersAssumption
<1>4. Return(e, 0)
    BY DEF Opened, Counts, Handle
<1> HIDE DEF h
<1>5. /\ e \in ClientType /\ e.sockcount = cl.sockcount /\ e.host = cl.host /\ e.fp = "open"
      /\ e.TotCapt = 0 /\ e.TotNetDrops = 0
    BY <1>2, <1>3, CountsTyped
<1> HIDE DEF e
<1>6. GoesTo(e, "idle", 0)
    BY <1>4, <1>5, ReturnGoes
<1>7. PlaceOK(cl')
    BY <1>6 DEF GoesTo, PlaceOK
<1>8. CountOK(cl', Len(got'))
    BY <1>1, <1>5, <1>6, AccountedAtFirst DEF CountOK, GoesTo
<1>9. ASSUME None({"unknownHost"})' PROVE Initialised(cl')
  <2>1. Initialised(cl)
    BY <1>1, <1>9, ExitsStay DEF ClientInv
  <2>2. cl'.sockcount = cl.sockcount /\ cl'.pc = "idle" /\ cl.sockcount \in Int
    BY <1>1, <1>5, <1>6 DEF GoesTo, ClientType
  <2>3. Users(cl') = Users(cl)
    BY <1>1, <1>5, <1>6 DEF GoesTo, Users, One, Opening
  <2> QED
    BY <2>1, <2>2, <2>3 DEF Initialised
<1> QED
    BY <1>1, <1>6, <1>7, <1>8, <1>9 DEF ClientInv, GoesTo

LEMMA SendStartKeeps ==
    ASSUME ClientInv, NEW c \in {cl, Entered}, NEW m, SendStart(c, m), Enter \/ c = cl,
           cl.fp \in {"open", "failed"}, got' = got, exits \subseteq exits'
    PROVE  ClientInv'
<1>1. cl' = [c EXCEPT !.pc = "start"]
    BY DEF SendStart
<1>2. "start" \in CallPlaces /\ "start" \notin Opening
    BY DEF CallPlaces, Opening
<1>3. PlaceOK(cl')
    BY <1>1, <1>2, PlaceAt DEF PlaceOK
<1> QED
    BY <1>1, <1>2, <1>3, PlaceKeeps

LEMMA StartKeeps == ASSUME ClientInv, Start PROVE ClientInv'
<1>1. Enter /\ cl.fp \in {"open", "failed"} /\ got' = got /\ exits \subseteq exits'
    BY DEF Start
<1>2. CASE cl' = [Entered EXCEPT !.pc = "samp"]
  <2>1. "samp" \in CallPlaces /\ "samp" \notin Opening
    BY DEF CallPlaces, Opening
  <2>2. PlaceOK(cl')
    BY <1>1, <1>2, <2>1, PlaceAt DEF PlaceOK
  <2> QED
    BY <1>1, <1>2, <2>1, <2>2, PlaceKeeps
<1>3. CASE SendStart(Entered, ctl)
    BY <1>1, <1>3, SendStartKeeps
<1>4. CASE Return(Entered, 0)
    BY <1>1, <1>4, ReturningKeeps DEF One
<1> QED
    BY <1>2, <1>3, <1>4 DEF Start

LEMMA SamplingSetKeeps == ASSUME ClientInv, SamplingSet PROVE ClientInv'
<1>1. cl.fp \in {"open", "failed"} /\ got' = got /\ exits' = exits
    BY DEF SamplingSet, ClientInv, PlaceOK
<1>2. SendStart(cl, [ctl EXCEPT !.d2c = Unread])
    BY DEF SamplingSet
<1> QED
    BY <1>1, <1>2, SendStartKeeps

LEMMA SamplingFailsKeeps == ASSUME ClientInv, SamplingFails PROVE ClientInv'
BY ReturningKeeps DEF SamplingFails, One

LEMMA StartFailsKeeps ==
    ASSUME ClientInv, NEW m, NEW d, StartFails(m, d), cl.fp \in {"open", "failed"},
           got' = got, exits' = exits
    PROVE  ClientInv'
<1> DEFINE fp == IF cl.host THEN "open" ELSE "failed"
           own == cl.host
<1>1. Return(Handle(cl, fp, own), 0) /\ fp \in {"open", "failed"} /\ fp \in Captures /\ own \in BOOLEAN
    BY DEF StartFails, Handle, ClientInv, ClientType, Captures
<1> HIDE DEF fp, own
<1>2. One(fp # "none") + One(cl.host) <= Users(cl) + 0
    BY <1>1 DEF Users, One
<1> QED
    BY <1>1, <1>2, HandleKeeps

\* The capture has started.
LEMMA StartedKeeps ==
    ASSUME ClientInv, Return([cl EXCEPT !.fp = "started"], 0), cl.fp # "none",
           got' = got, exits' = exits
    PROVE  ClientInv'
<1>1. cl.own \in BOOLEAN /\ cl \in ClientType /\ "started" \in Captures
    BY DEF ClientInv, ClientType, Captures
<1>2. [cl EXCEPT !.fp = "started"] = Handle(cl, "started", cl.own)
    BY <1>1 DEF ClientType, Handle
<1>3. One("started" # "none") + One(cl.host) <= Users(cl) + 0
    BY DEF Users, One
<1> QED
    BY <1>1, <1>2, <1>3, HandleKeeps

LEMMA StartRepliedKeeps == ASSUME ClientInv, StartReplied PROVE ClientInv'
<1>1. cl.fp \in {"open", "failed"} /\ got' = got /\ exits' = exits /\ cl.pc = "start"
    BY DEF StartReplied, ClientInv, PlaceOK
<1>2. CASE cl' = [cl EXCEPT !.pc = "norpcap"]
  <2>1. "norpcap" \in CallPlaces /\ "norpcap" \notin Opening
    BY DEF CallPlaces, Opening
  <2>2. PlaceOK(cl')
    BY <1>1, <1>2, <2>1, PlaceAt DEF PlaceOK
  <2> QED
    BY <1>1, <1>2, <2>1, <2>2, PlaceKeeps
<1>3. CASE Return([cl EXCEPT !.fp = "started"], 0)
    BY <1>1, <1>3, StartedKeeps
<1>4. ASSUME NEW m, NEW d, StartFails(m, d) PROVE ClientInv'
    BY <1>1, <1>4, StartFailsKeeps
<1> QED
    BY <1>2, <1>3, <1>4 DEF StartReplied

LEMMA StartRefusedKeeps == ASSUME ClientInv, StartRefused PROVE ClientInv'
<1>1. cl.fp \in {"open", "failed"} /\ got' = got /\ exits \subseteq exits' /\ cl.pc = "start"
    BY DEF StartRefused, ClientInv, PlaceOK
<1>2. CASE cl' = [cl EXCEPT !.pc = "lost"]
  <2>1. "lost" \in CallPlaces /\ "lost" \notin Opening
    BY DEF CallPlaces, Opening
  <2>2. PlaceOK(cl')
    BY <1>2, <2>1, PlaceAt DEF PlaceOK
  <2> QED
    BY <1>1, <1>2, <2>1, <2>2, PlaceKeeps
<1>3. ASSUME NEW m, StartFails(m, data), exits' = exits PROVE ClientInv'
    BY <1>1, <1>3, StartFailsKeeps
<1> QED
    BY <1>2, <1>3 DEF StartRefused

LEMMA FilterRepliedKeeps == ASSUME ClientInv, FilterReplied PROVE ClientInv'
<1>1. /\ got' = got /\ exits' = exits /\ cl.pc \in {"norpcap", "upd"}
      /\ cl.pc = "norpcap" => cl.fp \in {"open", "failed"}
      /\ cl.fp # "none"
    BY DEF FilterReplied, ClientInv, PlaceOK
<1>2. CASE Return([cl EXCEPT !.fp = "started"], 0)
    BY <1>1, <1>2, StartedKeeps
<1>3. ASSUME NEW m, StartFails(m, data), cl.pc = "norpcap" PROVE ClientInv'
    BY <1>1, <1>3, StartFailsKeeps
<1>4. CASE Return(cl, 0)
    BY <1>1, <1>4, ReturningKeeps DEF One
<1> QED
    BY <1>2, <1>3, <1>4 DEF FilterReplied

\* A request of the pcap_t is sent, or fails.
LEMMA AskKeeps ==
    ASSUME ClientInv, NEW pc \in {"upd", "stats", "endcap"}, NEW t, Ask(pc, t), Enter, got' = got,
           cl.fp # "none", pc # "endcap" => cl.fp = "started"
    PROVE  ClientInv'
<1>1. exits \subseteq exits'
    BY DEF Ask
<1>2. CASE cl' = [Entered EXCEPT !.pc = pc]
  <2>1. pc \in CallPlaces /\ pc \notin Opening /\ pc # "lost"
    BY DEF CallPlaces, Opening
  <2>2. PlaceOK(cl')
    BY <1>2, <2>1, PlaceAt DEF PlaceOK
  <2> QED
    BY <1>1, <1>2, <2>1, <2>2, PlaceKeeps
<1>3. CASE Return(Entered, 0)
    BY <1>1, <1>3, ReturningKeeps DEF One
<1> QED
    BY <1>2, <1>3 DEF Ask

\* The filter that was set.
Filtered(c) == [c EXCEPT !.filter = TRUE]

LEMMA FilteredTyped ==
    ASSUME NEW c \in ClientType
    PROVE  /\ Filtered(c) \in ClientType
           /\ Filtered(c).fp = c.fp /\ Filtered(c).own = c.own
           /\ Filtered(c).pc = c.pc /\ Filtered(c).host = c.host
           /\ Filtered(c).sockcount = c.sockcount
           /\ Filtered(c).TotCapt = c.TotCapt /\ Filtered(c).TotNetDrops = c.TotNetDrops
BY DEF ClientType, Filtered

LEMMA SetFilterKeeps == ASSUME ClientInv, SetFilter PROVE ClientInv'
<1>1. Enter /\ cl.fp # "none" /\ got' = got
    BY DEF SetFilter
<1>2. CASE cl.fp = "started" /\ Ask("upd", "UPDATEFILTER_REQ")
    BY <1>1, <1>2, AskKeeps
<1>3. CASE Return([Entered EXCEPT !.filter = TRUE], 0) /\ exits' = exits
  <2> DEFINE c == Filtered(Entered)
  <2>1. /\ c \in ClientType /\ c.sockcount = cl.sockcount /\ c.fp = cl.fp /\ c.host = cl.host
        /\ c.TotCapt = cl.TotCapt /\ c.TotNetDrops = cl.TotNetDrops
    BY <1>1, EnteredIdle, FilteredTyped
  <2>2. Return(c, 0)
    BY <1>3 DEF Filtered
  <2> HIDE DEF c
  <2>3. GoesTo(c, "idle", 0)
    BY <2>1, <2>2, ReturnGoes
  <2>4. PlaceOK(cl')
    BY <2>3 DEF GoesTo, PlaceOK
  <2>5. Users(cl') <= Users(cl) + 0
    BY <2>1, <2>3 DEF GoesTo, Users, One, Opening
  <2> QED
    BY <1>1, <1>3, <2>1, <2>3, <2>4, <2>5, GoingKeeps
<1> QED
    BY <1>2, <1>3 DEF SetFilter

LEMMA StatsKeeps == ASSUME ClientInv, Stats PROVE ClientInv'
BY AskKeeps DEF Stats

LEMMA StatsRepliedKeeps == ASSUME ClientInv, StatsReplied PROVE ClientInv'
<1>1. cl.fp = "started" /\ got' = got /\ exits \subseteq exits' /\ cl.pc = "stats"
    BY DEF StatsReplied, ClientInv, PlaceOK
<1>2. CASE cl' = [cl EXCEPT !.pc = "lost"]
  <2>1. "lost" \in CallPlaces /\ "lost" \notin Opening
    BY DEF CallPlaces, Opening
  <2>2. PlaceOK(cl')
    BY <1>2, <2>1, PlaceAt DEF PlaceOK
  <2> QED
    BY <1>1, <1>2, <2>1, <2>2, PlaceKeeps
<1>3. CASE Return(cl, 0)
    BY <1>1, <1>3, ReturningKeeps DEF One
<1> QED
    BY <1>2, <1>3 DEF StatsReplied

\* The pcap_t is closed, and Winsock given back.
LEMMA ClosedKeeps ==
    ASSUME ClientInv, NEW c \in {cl, Entered}, Enter \/ c = cl, cl.fp # "none",
           Return([c EXCEPT !.fp = "none", !.own = FALSE], -1),
           got' = got, exits \subseteq exits'
    PROVE  ClientInv'
<1> DEFINE fp == "none"
           own == FALSE
           use == -1
<1>1. /\ Return(Handle(c, fp, own), use)
      /\ fp = "none" /\ fp \in Captures /\ own \in BOOLEAN /\ use \in Int /\ use = -1
    BY DEF Handle, Captures
<1> HIDE DEF fp, own, use
<1>2. One(fp # "none") + One(cl.host) <= Users(cl) + use
    BY <1>1 DEF Users, One
<1> QED
    BY <1>1, <1>2, HandleKeeps

LEMMA CloseKeeps == ASSUME ClientInv, Close PROVE ClientInv'
<1>1. Enter /\ cl.fp # "none" /\ got' = got
    BY DEF Close
<1>2. CASE Ask("endcap", "ENDCAP_REQ")
    BY <1>1, <1>2, AskKeeps
<1>3. CASE /\ exits' = exits \cup NoOwn
           /\ Return([Entered EXCEPT !.fp = "none", !.own = FALSE], -1)
    BY <1>1, <1>3, ClosedKeeps
<1> QED
    BY <1>2, <1>3 DEF Close

LEMMA EndCapRepliedKeeps == ASSUME ClientInv, EndCapReplied PROVE ClientInv'
<1>1. /\ cl.fp # "none" /\ got' = got /\ exits' = exits
      /\ Return([cl EXCEPT !.fp = "none", !.own = FALSE], -1)
    BY DEF EndCapReplied, ClientInv, PlaceOK
<1> QED
    BY <1>1, ClosedKeeps

LEMMA AcceptKeeps == ASSUME ClientInv, Accept PROVE ClientInv'
<1>1. /\ Enter /\ got' = got /\ exits' = exits
      /\ cl' = [Entered EXCEPT !.pc = "accept", !.sockcount = @ + 1]
    BY DEF Accept
<1>2. "accept" \in CallPlaces
    BY DEF CallPlaces
<1>3. GoesTo(Entered, "accept", 1)
    BY <1>1, <1>2, EnteredIdle, InitGoes
<1>4. PlaceOK(cl')
    BY <1>3 DEF GoesTo, PlaceOK
<1>5. Users(cl') <= Users(cl) + 1
    BY <1>1, <1>3, EnteredIdle DEF GoesTo, Users, One
<1> QED
    BY <1>1, <1>3, <1>4, <1>5, EnteredIdle, GoingKeeps

LEMMA AcceptHostKeeps == ASSUME ClientInv, AcceptHost PROVE ClientInv'
<1>1. cl.pc = "accept" /\ got' = got /\ exits' = exits
    BY DEF AcceptHost
<1>2. CASE cl' = [cl EXCEPT !.pc = "auth_host"]
  <2>1. "auth_host" \in CallPlaces /\ cl.pc \in Opening
    BY <1>1 DEF CallPlaces, Opening
  <2>2. PlaceOK(cl')
    BY <1>2, <2>1, PlaceAt DEF PlaceOK
  <2> QED
    BY <1>1, <1>2, <2>1, <2>2, PlaceKeeps
<1>3. CASE Return(cl, -1)
    BY <1>1, <1>3, ReturningKeeps DEF One, Opening
<1> QED
    BY <1>2, <1>3 DEF AcceptHost

\* The call returns with the host known, or forgotten.
LEMMA HostKeeps ==
    ASSUME ClientInv, NEW c \in {cl, Entered}, Enter \/ c = cl,
           NEW host \in BOOLEAN, NEW own \in BOOLEAN,
           NEW use \in Int, Return(Host(c, host, own), use),
           got' = got, exits \subseteq exits',
           None({"unknownHost"})' => One(cl.fp # "none") + One(host) <= Users(cl) + use
    PROVE  ClientInv'
<1>1. /\ c \in ClientType /\ c.sockcount = cl.sockcount /\ c.fp = cl.fp
      /\ c.TotCapt = cl.TotCapt /\ c.TotNetDrops = cl.TotNetDrops
    BY EnteredIdle DEF ClientInv
<1> DEFINE e == Host(c, host, own)
<1>2. /\ e \in ClientType /\ e.sockcount = c.sockcount /\ e.host = host /\ e.fp = c.fp
      /\ e.TotCapt = c.TotCapt /\ e.TotNetDrops = c.TotNetDrops
    BY <1>1 DEF ClientType, Host
<1>3. Return(e, use)
    OBVIOUS
<1> HIDE DEF e
<1>4. GoesTo(e, "idle", use)
    BY <1>2, <1>3, ReturnGoes
<1>5. PlaceOK(cl')
    BY <1>4 DEF GoesTo, PlaceOK
<1>6. Users(cl') = One(cl.fp # "none") + One(host)
    BY <1>1, <1>2, <1>4 DEF GoesTo, Users, One, Opening
<1> QED
    BY <1>1, <1>2, <1>4, <1>5, <1>6, GoingKeeps

LEMMA HostAcceptedKeeps == ASSUME ClientInv, HostAccepted PROVE ClientInv'
<1>1. cl.pc = "auth_host" /\ got' = got /\ exits' = exits
    BY DEF HostAccepted
<1>2. CASE Return(cl, 0)
    BY <1>1, <1>2, ReturningKeeps DEF One
<1>3. CASE Return([cl EXCEPT !.host = TRUE], 0)
  <2> DEFINE host == TRUE
             own == cl.own
             use == 0
  <2>1. /\ host = TRUE /\ host \in BOOLEAN /\ own \in BOOLEAN /\ use \in Int /\ use = 0
        /\ exits \subseteq exits'
    BY <1>1 DEF ClientInv, ClientType
  <2>2. Return(Host(cl, host, own), use)
    BY <1>3 DEF Host, ClientInv, ClientType
  <2> HIDE DEF host, own, use
  <2>3. One(cl.fp # "none") + One(host) <= Users(cl) + use
    BY <1>1, <2>1 DEF Users, One, Opening
  <2> QED
    BY <1>1, <2>1, <2>2, <2>3, HostKeeps
<1> QED
    BY <1>2, <1>3 DEF HostAccepted

LEMMA CloseHostKeeps == ASSUME ClientInv, CloseHost PROVE ClientInv'
<1> DEFINE host == FALSE
           own == IF cl.host THEN FALSE ELSE cl.own
           use == -1
<1>1. Enter /\ got' = got /\ exits \subseteq exits' /\ (~cl.host => "unknownHost" \in exits')
    BY DEF CloseHost
<1>0. Entered.own = cl.own /\ cl.own \in BOOLEAN
    BY <1>1, EnteredIdle DEF ClientInv, ClientType
<1>2. host = FALSE /\ host \in BOOLEAN /\ use \in Int /\ use = -1
    OBVIOUS
<1>8. own \in BOOLEAN
    BY <1>0, Zenon
<1>5. own = IF cl.host THEN FALSE ELSE Entered.own
    BY <1>0
<1>6. Return([Entered EXCEPT !.host = FALSE, !.own = IF cl.host THEN FALSE ELSE @], -1)
    BY DEF CloseHost
<1>7. Return(Host(Entered, host, own), use)
    BY <1>0, <1>6, Zenon DEF Host
<1> HIDE DEF host, own, use
<1>3. None({"unknownHost"})' => cl.host
    BY <1>1 DEF None
<1>4. cl.host => One(cl.fp # "none") + One(host) <= Users(cl) + use
    BY <1>2 DEF Users, One
<1> QED
    BY <1>1, <1>2, <1>7, <1>8, <1>3, <1>4, HostKeeps

\* A packet is given to the application and counted.
LEMMA CountingKeeps ==
    ASSUME ClientInv, NEW p \in Packet, NEW capt \in 0..W - 1, NEW drops \in 0..W - 1,
           got' = Append(got, p), exits \subseteq exits',
           cl' = Counts(cl, capt, drops),
           Accounted(cl.TotCapt, cl.TotNetDrops, Len(got)) => Accounted(capt, drops, Len(got) + 1)
    PROVE  ClientInv'
<1>1. /\ cl' \in ClientType /\ cl'.TotCapt = capt /\ cl'.TotNetDrops = drops
      /\ cl'.pc = cl.pc /\ cl'.fp = cl.fp /\ cl'.host = cl.host /\ cl'.sockcount = cl.sockcount
    BY CountsTyped DEF ClientInv
<1>2. got' \in Seq(Packet) /\ Len(got') = Len(got) + 1
    BY AppendProperties DEF ClientInv
<1>3. CountOK(cl', Len(got'))
    BY <1>1, <1>2 DEF ClientInv, CountOK
<1>4. PlaceOK(cl')
    BY <1>1 DEF ClientInv, PlaceOK
<1>5. ASSUME None({"unknownHost"})' PROVE Initialised(cl')
  <2>1. Initialised(cl)
    BY <1>5, ExitsStay DEF ClientInv
  <2>2. Users(cl') = Users(cl)
    BY <1>1 DEF Users
  <2> QED
    BY <1>1, <2>1, <2>2 DEF Initialised
<1> QED
    BY <1>1, <1>2, <1>3, <1>4, <1>5 DEF ClientInv

LEMMA UnchangedKeeps ==
    ASSUME ClientInv, cl' = cl, got' = got, exits \subseteq exits'
    PROVE  ClientInv'
<1>1. None({"unknownHost"})' => Initialised(cl)
    BY ExitsStay DEF ClientInv
<1> QED
    BY <1>1 DEF ClientInv

LEMMA Drawn ==
    ASSUME cl \in ClientType, got \in Seq(Packet)
    PROVE  /\ cl.TotCapt \in 0..W - 1 /\ cl.TotNetDrops \in 0..W - 1
           /\ Len(got) \in Nat /\ (cl.TotCapt + 1) % W \in 0..W - 1
<1>1. cl.TotCapt \in 0..W - 1 /\ cl.TotNetDrops \in 0..W - 1 /\ Len(got) \in Nat
    BY LenProperties DEF ClientType
<1>2. cl.TotCapt + 1 \in Int
    BY <1>1, CountersAssumption
<1> QED
    BY <1>1, <1>2, Remainder

LEMMA ReadTcpKeeps == ASSUME ClientInv, data.q \in Seq(Packet), ReadTcp PROVE ClientInv'
<1> DEFINE p == Head(data.q)
<1>1. p \in Packet /\ data.q # <<>> /\ cl.fp = "started"
    BY HeadTailProperties DEF ReadTcp
<1>2. CASE p.k \in {"whole", "torn"}
  <2> DEFINE capt == (cl.TotCapt + 1) % W
  <2>1. /\ got' = Append(got, p) /\ exits \subseteq exits'
        /\ cl' = [cl EXCEPT !.TotCapt = capt]
    BY <1>2 DEF ReadTcp
  <2>2. cl.TotCapt \in 0..W - 1 /\ cl.TotNetDrops \in 0..W - 1 /\ capt \in 0..W - 1 /\ Len(got) \in Nat
    BY Drawn DEF ClientInv
  <2>3. Accounted(cl.TotCapt, cl.TotNetDrops, Len(got)) => Accounted(capt, cl.TotNetDrops, Len(got) + 1)
    BY <2>2, CountedTcp
  <2> HIDE DEF capt
  <2>4. cl' = Counts(cl, capt, cl.TotNetDrops)
    BY <2>1, <2>2 DEF Counts, ClientInv, ClientType
  <2> QED
    BY <1>1, <2>1, <2>2, <2>3, <2>4, CountingKeeps
<1>3. CASE p.k = "big"
  <2>1. cl' = cl /\ got' = got /\ exits \subseteq exits'
    BY <1>3 DEF ReadTcp
  <2> QED
    BY <2>1, UnchangedKeeps
<1>4. CASE p.k = "rest"
  <2>1. cl' = [cl EXCEPT !.pc = "lost"] /\ got' = got /\ exits \subseteq exits'
    BY <1>4 DEF ReadTcp
  <2>2. "lost" \in CallPlaces /\ "lost" \notin Opening
    BY DEF CallPlaces, Opening
  <2>3. PlaceOK(cl')
    BY <2>1, <2>2, PlaceAt DEF PlaceOK
  <2> QED
    BY <1>1, <2>1, <2>2, <2>3, PlaceKeeps
<1>5. p.k \in {"whole", "torn", "big", "rest"}
    BY <1>1 DEF Packet
<1> QED
    BY <1>2, <1>3, <1>4, <1>5

LEMMA ReadUdpKeeps == ASSUME ClientInv, data.q \in Seq(Packet), ReadUdp PROVE ClientInv'
<1>1. PICK i \in 1..Len(data.q) :
         /\ got' = Append(got, data.q[i])
         /\ cl' = [cl EXCEPT !.TotNetDrops = (@ + (data.q[i].n + W - ((cl.TotCapt + 1) % W))) % W,
                             !.TotCapt = data.q[i].n % W]
    BY DEF ReadUdp
<1> DEFINE p == data.q[i]
           seen == (cl.TotCapt + 1) % W
           capt == p.n % W
           sum == cl.TotNetDrops + (p.n + W - seen)
           drops == sum % W
<1>2. exits' = exits
    BY DEF ReadUdp
<1>0. p \in Packet
    BY ElementOfSeq
<1>3. p \in Packet /\ p.n \in Nat
    BY <1>0 DEF Packet
<1>4. /\ cl.TotCapt \in 0..W - 1 /\ cl.TotNetDrops \in 0..W - 1 /\ Len(got) \in Nat
      /\ seen \in 0..W - 1
    BY Drawn DEF ClientInv
<1>5. sum \in Int /\ p.n \in Int
    BY <1>3, <1>4, CountersAssumption, SMTT(30)
<1>6. capt \in 0..W - 1 /\ drops \in 0..W - 1
  <2> HIDE DEF sum, p
  <2> QED
    BY <1>5, Remainder
<1>7. Accounted(cl.TotCapt, cl.TotNetDrops, Len(got)) => Accounted(capt, drops, Len(got) + 1)
    BY <1>3, <1>4, CountedUdp
<1>8. cl' = [cl EXCEPT !.TotNetDrops = drops, !.TotCapt = capt] /\ got' = Append(got, p)
    BY <1>1
<1> HIDE DEF p, seen, capt, drops
<1>9. cl' = Counts(cl, capt, drops)
    BY <1>6, <1>8 DEF Counts, ClientInv, ClientType
<1> QED
    BY <1>2, <1>3, <1>6, <1>7, <1>8, <1>9, CountingKeeps

LEMMA ClientStepKeeps ==
    ASSUME ClientInv, data.q \in Seq(Packet), ClientStep
    PROVE  ClientInv'
<1>1. CASE FindAll
  <2>1. Begin("findall", "auth_findall", "FINDALLIF_REQ")
    BY <1>1 DEF FindAll
  <2> QED
    BY <2>1, BeginGoes
<1>2. CASE Open
  <2>1. cl.fp = "none" /\ Begin("open", "auth_open", "OPEN_REQ")
    BY <1>2 DEF Open
  <2> QED
    BY <2>1, BeginGoes
<1>3. CASE LoseDatagram
    BY <1>3, UnchangedKeeps DEF LoseDatagram
<1>4. CASE Calls \/ Reads
    BY <1>1, <1>2, <1>4, ConnectFailsKeeps, StartKeeps, SetFilterKeeps, StatsKeeps, CloseKeeps,
       AcceptKeeps, CloseHostKeeps, ReadTcpKeeps, ReadUdpKeeps DEF Calls, Reads
<1>5. CASE Answers
    BY <1>5, AuthenticatedKeeps, NotAuthenticatedKeeps, FoundAllKeeps, FindAllFailsKeeps,
       OpenedKeeps, OpenFailsKeeps, SamplingSetKeeps, SamplingFailsKeeps, StartRepliedKeeps,
       StartRefusedKeeps, FilterRepliedKeeps, StatsRepliedKeeps, EndCapRepliedKeeps,
       AcceptHostKeeps, HostAcceptedKeeps DEF Answers
<1> QED
    BY <1>3, <1>4, <1>5 DEF ClientStep

----------------------------------------------------------------------------
(* The types of the connections, the loop and the data thread.              *)
LEMMA EmptyTyped == <<>> \in Seq(Unit) /\ <<>> \in Seq(Packet)
OBVIOUS

LEMMA ControlFields ==
    ASSUME NEW c \in ControlType
    PROVE  /\ \A s \in Seq(Unit) : [c EXCEPT !.c2d = s] \in ControlType
           /\ \A s \in Seq(Unit) : [c EXCEPT !.d2c = s] \in ControlType
           /\ \A e \in Ends : [c EXCEPT !.c = e] \in ControlType
           /\ \A e \in Ends : [c EXCEPT !.d = e] \in ControlType
BY DEF ControlType

LEMMA ToDaemonTyped ==
    ASSUME NEW c \in ControlType, NEW m \in Seq(Unit)
    PROVE  ToDaemon(c, m) \in ControlType
<1>1. c.c2d \o m \in Seq(Unit)
    BY ConcatProperties DEF ControlType
<1> QED
    BY <1>1, ControlFields DEF ToDaemon

LEMMA ToClientTyped ==
    ASSUME NEW c \in ControlType, NEW m \in Seq(Unit)
    PROVE  ToClient(c, m) \in ControlType
<1>1. c.d2c \o m \in Seq(Unit)
    BY ConcatProperties DEF ControlType
<1> QED
    BY <1>1, ControlFields DEF ToClient

LEMMA PlainsTyped ==
    /\ \A t \in {"AUTH_REQ", "FINDALLIF_REQ", "OPEN_REQ", "SETSAMPLING_REQ", "STARTCAP_REQ",
                 "UPDATEFILTER_REQ", "STATS_REQ", "ENDCAP_REQ", "CLOSE"} : Plain(t) \in Seq(Unit)
    /\ \A t \in {"AUTH_REPLY", "FINDALLIF_REPLY", "OPEN_REPLY", "SETSAMPLING_REPLY",
                 "STARTCAP_REPLY", "UPDATEFILTER_REPLY", "STATS_REPLY", "ENDCAP_REPLY", "ERROR"} :
                 Plain(t) \in Seq(Unit)
BY PlainTyped DEF Requests, Replies

LEMMA SendErrorTyped ==
    ASSUME NEW c \in ControlType
    PROVE  SendError(c) \in ControlType
BY PlainsTyped, ToClientTyped DEF SendError

LEMMA CloseControlTyped ==
    ASSUME NEW c \in ControlType
    PROVE  CloseControl(c) \in ControlType
BY EmptyTyped DEF CloseControl, ControlType, Ends

LEMMA HangupTyped == ASSUME ctl \in ControlType PROVE Hangup \in ControlType
BY CloseControlTyped DEF Hangup

LEMMA UnreadTyped ==
    ASSUME ctl \in ControlType, Answered
    PROVE  Unread \in Seq(Unit)
<1>1. ctl.d2c \in Seq(Unit) /\ ctl.d2c # <<>>
    BY DEF ControlType, Answered
<1>2. Answer \in Unit
    BY <1>1, HeadTailProperties DEF Answer
<1>3. 1 + Answer.n \in Nat
    BY <1>2 DEF Unit
<1> QED
    BY <1>1, <1>3, AfterTyped DEF Unread

LEMMA AnsweredTyped ==
    ASSUME ctl \in ControlType
    PROVE  /\ Answered => [ctl EXCEPT !.d2c = Unread] \in ControlType
           /\ [ctl EXCEPT !.d2c = IF Answered THEN Unread ELSE <<>>] \in ControlType
           /\ [Hangup EXCEPT !.d2c = IF cl.host THEN Unread ELSE <<>>] \in ControlType \/ ~Answered
           /\ [Hangup EXCEPT !.d2c = IF Answered /\ cl.host THEN Unread ELSE <<>>] \in ControlType
           /\ [Hangup EXCEPT !.d2c = <<>>] \in ControlType
BY UnreadTyped, HangupTyped, ControlFields, EmptyTyped

LEMMA RequestTyped ==
    ASSUME ctl \in ControlType, ctl.c2d # <<>>
    PROVE  /\ Request \in Unit
           /\ Request.n \in Nat /\ Request.plen \in Nat
           /\ \A k \in Nat : After(ctl.c2d, k) \in Seq(Unit) /\ Took(After(ctl.c2d, k)) \in ControlType
           /\ Rest \in Seq(Unit) /\ Took(Rest) \in ControlType
           /\ Took(After(ctl.c2d, 1 + Request.plen)) \in ControlType
<1>1. ctl.c2d \in Seq(Unit)
    BY DEF ControlType
<1>2. Request \in Unit
    BY <1>1, HeadTailProperties DEF Request
<1>3. Request.n \in Nat /\ Request.plen \in Nat
    BY <1>2 DEF Unit
<1>4. \A k \in Nat : After(ctl.c2d, k) \in Seq(Unit)
    BY <1>1, AfterTyped
<1>5. \A k \in Nat : Took(After(ctl.c2d, k)) \in ControlType
    BY <1>4, ControlFields DEF Took
<1>6. 1 + Request.n \in Nat /\ 1 + Request.plen \in Nat
    BY <1>3
<1> QED
    BY <1>2, <1>3, <1>4, <1>5, <1>6 DEF Rest

LEMMA DataFields ==
    ASSUME NEW d \in DataType
    PROVE  /\ \A s \in Seq(Packet) : [d EXCEPT !.q = s] \in DataType
           /\ \A e \in Ends : [d EXCEPT !.c = e] \in DataType
           /\ \A e \in Ends : [d EXCEPT !.d = e] \in DataType
           /\ \A s \in Seq(Packet), e \in Ends : [d EXCEPT !.c = e, !.q = s] \in DataType
BY DEF DataType

LEMMA NoConnectionTyped ==
    /\ NoConnection \in ControlType /\ NoData \in DataType
    /\ \A e \in Ends, f \in Ends, s \in Seq(Unit) :
         /\ [NoConnection EXCEPT !.c = e] \in ControlType
         /\ [NoConnection EXCEPT !.c = e, !.d = f] \in ControlType
         /\ [NoConnection EXCEPT !.c = e, !.d = f, !.c2d = s] \in ControlType
    /\ \A e \in Ends : [NoData EXCEPT !.c = e] \in DataType /\ [NoData EXCEPT !.d = e] \in DataType
<1>1. "none" \in Ends
    BY DEF Ends
<1> QED
    BY <1>1, EmptyTyped DEF NoConnection, NoData, ControlType, DataType

WiresTyped == ctl \in ControlType /\ data \in DataType

LEMMA EndsNamed ==
    /\ "none" \in Ends /\ "listen" \in Ends /\ "backlog" \in Ends /\ "open" \in Ends
    /\ "closed" \in Ends /\ "held" \in Ends
BY DEF Ends

LEMMA CloseDataTyped == ASSUME NEW d \in DataType PROVE CloseData(d) \in DataType
BY EndsNamed, EmptyTyped, DataFields DEF CloseData

LEMMA ConnectedTyped == ASSUME NEW d \in DataType PROVE Connected(d) \in DataType
BY EndsNamed, DataFields DEF Connected

LEMMA StartRequestTyped == ASSUME NEW c PROVE StartRequest(c) \in Seq(Unit)
<1>1. "STARTCAP_REQ" \in Requests \cup Replies
    BY DEF Requests
<1>2. StartRequest(c) = Message("STARTCAP_REQ", 3, 3) \/ StartRequest(c) = Message("STARTCAP_REQ", 2, 3)
    BY DEF StartRequest
<1> QED
    BY <1>1, <1>2, MessageTyped

LEMMA SendStartTyped ==
    ASSUME NEW c, NEW m \in ControlType, SendStart(c, m)
    PROVE  WiresTyped'
<1>1. ctl' \in ControlType
    BY ToDaemonTyped, StartRequestTyped DEF SendStart
<1>2. data' \in {NoData, [NoData EXCEPT !.c = "open"], [NoData EXCEPT !.c = "listen"]}
    BY DEF SendStart
<1>3. data' \in DataType
    BY <1>2, NoConnectionTyped, EndsNamed
<1> QED
    BY <1>1, <1>3 DEF WiresTyped

LEMMA StartFailsTyped ==
    ASSUME NEW m \in ControlType, NEW d \in DataType, StartFails(m, d)
    PROVE  WiresTyped'
BY CloseControlTyped, CloseDataTyped DEF StartFails, WiresTyped

LEMMA SendTyped ==
    ASSUME ctl \in ControlType, NEW t, Plain(t) \in Seq(Unit), Send(t)
    PROVE  ctl' \in ControlType
BY ToDaemonTyped DEF Send

LEMMA BeginTyped ==
    ASSUME WiresTyped, NEW pc, NEW auth, NEW t, Plain(t) \in Seq(Unit), Begin(pc, auth, t)
    PROVE  WiresTyped'
<1>1. CASE Send(t)
    BY <1>1, SendTyped DEF Begin, WiresTyped
<1>2. CASE ctl' = [NoConnection EXCEPT !.c = "open", !.d = "backlog", !.c2d = Plain("AUTH_REQ")]
    BY <1>2, PlainsTyped, NoConnectionTyped, EndsNamed DEF Begin, WiresTyped
<1> QED
    BY <1>1, <1>2 DEF Begin

LEMMA AskTyped ==
    ASSUME ctl \in ControlType, NEW pc, NEW t, Plain(t) \in Seq(Unit), Ask(pc, t)
    PROVE  ctl' \in ControlType
BY SendTyped DEF Ask

LEMMA CallsTyped == ASSUME WiresTyped, Calls PROVE WiresTyped'
<1>0. ctl \in ControlType /\ data \in DataType
    BY DEF WiresTyped
<1>1. CASE FindAll
    BY <1>1, PlainsTyped, BeginTyped DEF FindAll
<1>2. CASE Open
    BY <1>2, PlainsTyped, BeginTyped DEF Open
<1>3. CASE ConnectFails
    BY <1>0, <1>3 DEF ConnectFails, WiresTyped, streamVars
<1>4. CASE Start
  <2>1. CASE SendStart(Entered, ctl)
    BY <1>0, <2>1, SendStartTyped
  <2>2. CASE Send("SETSAMPLING_REQ") /\ data' = data
    BY <1>0, <2>2, SendTyped, PlainsTyped DEF WiresTyped
  <2>3. CASE ctl' = ctl /\ data' = data
    BY <1>0, <2>3 DEF WiresTyped
  <2> QED
    BY <1>4, <2>1, <2>2, <2>3 DEF Start
<1>5. CASE SetFilter
  <2>1. CASE Ask("upd", "UPDATEFILTER_REQ")
    BY <1>0, <1>5, <2>1, AskTyped, PlainsTyped DEF WiresTyped, SetFilter
  <2>2. CASE ctl' = ctl
    BY <1>0, <1>5, <2>2 DEF WiresTyped, SetFilter
  <2> QED
    BY <1>5, <2>1, <2>2 DEF SetFilter
<1>6. CASE Stats
    BY <1>0, <1>6, AskTyped, PlainsTyped DEF WiresTyped, Stats
<1>7. CASE Close
  <2>1. CASE Ask("endcap", "ENDCAP_REQ") /\ data' = data
    BY <1>0, <2>1, AskTyped, PlainsTyped DEF WiresTyped
  <2>2. CASE /\ ctl' = (IF cl.own THEN CloseControl(ToDaemon(ctl, Plain("CLOSE"))) ELSE ctl)
             /\ data' = CloseData(data)
    BY <1>0, <2>2, CloseControlTyped, ToDaemonTyped, PlainsTyped, CloseDataTyped DEF WiresTyped
  <2> QED
    BY <1>7, <2>1, <2>2 DEF Close
<1>8. CASE Accept
  <2>1. ctl' = [NoConnection EXCEPT !.c = "listen"] /\ data' = data
    BY <1>8 DEF Accept
  <2>2. [NoConnection EXCEPT !.c = "listen"] \in ControlType
    BY NoConnectionTyped, ControlFields, EndsNamed
  <2> QED
    BY <1>0, <2>1, <2>2 DEF WiresTyped
<1>9. CASE CloseHost
    BY <1>0, <1>9, CloseControlTyped, ToDaemonTyped, PlainsTyped DEF WiresTyped, CloseHost
<1> QED
    BY <1>1, <1>2, <1>3, <1>4, <1>5, <1>6, <1>7, <1>8, <1>9 DEF Calls

LEMMA AnswersTyped == ASSUME WiresTyped, Answers PROVE WiresTyped'
<1>0. ctl \in ControlType /\ data \in DataType
    BY DEF WiresTyped
<1>a. /\ Answered => [ctl EXCEPT !.d2c = Unread] \in ControlType
      /\ [ctl EXCEPT !.d2c = IF Answered THEN Unread ELSE <<>>] \in ControlType
      /\ Answered => [Hangup EXCEPT !.d2c = IF cl.host THEN Unread ELSE <<>>] \in ControlType
      /\ [Hangup EXCEPT !.d2c = IF Answered /\ cl.host THEN Unread ELSE <<>>] \in ControlType
      /\ [Hangup EXCEPT !.d2c = <<>>] \in ControlType
    BY <1>0, AnsweredTyped
<1>b. \A t : (GoodAnswer(t) => Answered) /\ (OtherAnswer(t) => Answered)
    BY DEF GoodAnswer, OtherAnswer
<1>1. CASE Authenticated
  <2>1. Plain(RequestAfter(cl.pc)[2]) \in Seq(Unit)
    BY PlainsTyped DEF RequestAfter
  <2>2. ctl' = ToDaemon([ctl EXCEPT !.d2c = Unread], Plain(RequestAfter(cl.pc)[2])) /\ data' = data
    BY <1>1 DEF Authenticated
  <2>3. [ctl EXCEPT !.d2c = Unread] \in ControlType
    BY <1>1, <1>a, <1>b DEF Authenticated
  <2> QED
    BY <1>0, <2>1, <2>2, <2>3, ToDaemonTyped DEF WiresTyped
<1>2. CASE NotAuthenticated
    BY <1>0, <1>2, CloseControlTyped DEF NotAuthenticated, WiresTyped
<1>3. CASE FoundAll
    BY <1>0, <1>3, <1>a, <1>b DEF FoundAll, WiresTyped
<1>4. CASE FindAllFails
    BY <1>0, <1>4, <1>a, <1>b, HangupTyped DEF FindAllFails, WiresTyped
<1>5. CASE Opened
    BY <1>0, <1>5, <1>a, <1>b DEF Opened, WiresTyped
<1>6. CASE OpenFails
    BY <1>0, <1>6, <1>a, <1>b DEF OpenFails, WiresTyped
<1>7. CASE SamplingSet
    BY <1>0, <1>7, <1>a, <1>b, SendStartTyped DEF SamplingSet
<1>8. CASE SamplingFails
    BY <1>0, <1>8, <1>a, <1>b DEF SamplingFails, WiresTyped
<1>9. CASE StartReplied
  <2> DEFINE m == [ctl EXCEPT !.d2c = Unread]
  <2>1. m \in ControlType
    BY <1>9, <1>a, <1>b DEF StartReplied
  <2>2. \/ data' = Connected(data) /\ ctl' \in {m, ToDaemon(m, Plain("UPDATEFILTER_REQ"))}
        \/ \E d \in {data, Connected(data)} : StartFails(m, d)
    BY <1>9 DEF StartReplied
  <2> HIDE DEF m
  <2>3. Connected(data) \in DataType /\ ToDaemon(m, Plain("UPDATEFILTER_REQ")) \in ControlType
    BY <1>0, <2>1, ConnectedTyped, ToDaemonTyped, PlainsTyped
  <2> QED
    BY <1>0, <2>1, <2>2, <2>3, StartFailsTyped DEF WiresTyped
<1>10. CASE StartRefused
  <2> DEFINE m == [ctl EXCEPT !.d2c = IF Answered THEN Unread ELSE <<>>]
  <2>1. m \in ControlType
    BY <1>a
  <2>2. StartFails(m, data) \/ (data' = data /\ Answered /\ ctl' = [ctl EXCEPT !.d2c = Unread])
    BY <1>10 DEF StartRefused
  <2> HIDE DEF m
  <2> QED
    BY <1>0, <1>a, <2>1, <2>2, StartFailsTyped DEF WiresTyped
<1>11. CASE FilterReplied
  <2> DEFINE m == [ctl EXCEPT !.d2c = IF Answered THEN Unread ELSE <<>>]
  <2>1. m \in ControlType
    BY <1>a
  <2>2. StartFails(m, data) \/ (data' = data /\ ctl' = m)
    BY <1>11 DEF FilterReplied
  <2> HIDE DEF m
  <2> QED
    BY <1>0, <2>1, <2>2, StartFailsTyped DEF WiresTyped
<1>12. CASE StatsReplied
    BY <1>0, <1>12, <1>a DEF StatsReplied, WiresTyped
<1>13. CASE EndCapReplied
    BY <1>0, <1>13, <1>a, CloseDataTyped DEF EndCapReplied, WiresTyped
<1>14. CASE AcceptHost
  <2>1. CASE Send("AUTH_REQ")
    BY <1>0, <1>14, <2>1, SendTyped, PlainsTyped DEF AcceptHost, WiresTyped
  <2>2. CASE ctl' = NoConnection
    BY <1>0, <1>14, <2>2, NoConnectionTyped DEF AcceptHost, WiresTyped
  <2> QED
    BY <1>14, <2>1, <2>2 DEF AcceptHost
<1>15. CASE HostAccepted
    BY <1>0, <1>15, <1>a, <1>b, CloseControlTyped, ToDaemonTyped, PlainsTyped
    DEF HostAccepted, WiresTyped
<1> QED
    BY <1>1, <1>2, <1>3, <1>4, <1>5, <1>6, <1>7, <1>8, <1>9, <1>10, <1>11, <1>12, <1>13, <1>14,
       <1>15 DEF Answers

LEMMA RemoveTyped ==
    ASSUME NEW q \in Seq(Packet), NEW i \in 1..Len(q)
    PROVE  /\ Remove(q, i) \in Seq(Packet)
           /\ Len(Remove(q, i)) = Len(q) - 1
<1> DEFINE a == SubSeq(q, 1, i - 1)
           b == SubSeq(q, i + 1, Len(q))
<1>1. a \in Seq(Packet) /\ Len(a) = i - 1
  <2>1. Len(q) \in Nat /\ \A j \in 1..(i - 1) : q[j] \in Packet
    BY LenProperties, ElementOfSeq
  <2> QED
    BY <2>1, SubSeqProperties
<1>2. b \in Seq(Packet) /\ Len(b) = Len(q) - i
  <2>1. Len(q) \in Nat /\ \A j \in (i + 1)..Len(q) : q[j] \in Packet
    BY LenProperties, ElementOfSeq
  <2> QED
    BY <2>1, SubSeqProperties
<1>3. Len(q) \in Nat
    BY LenProperties
<1>4. Remove(q, i) = a \o b
    BY DEF Remove
<1> HIDE DEF a, b
<1>5. a \o b \in Seq(Packet) /\ Len(a \o b) = Len(a) + Len(b)
    BY <1>1, <1>2, ConcatProperties
<1>6. Len(a) + Len(b) = Len(q) - 1
    BY <1>1, <1>2, <1>3
<1> QED
    BY <1>4, <1>5, <1>6

LEMMA ReadsTyped == ASSUME WiresTyped, Reads \/ LoseDatagram PROVE WiresTyped'
<1>0. ctl \in ControlType /\ data \in DataType /\ data.q \in Seq(Packet)
    BY DEF WiresTyped, DataType
<1>1. ctl' = ctl
    BY DEF Reads, ReadTcp, ReadUdp, LoseDatagram
<1>2. CASE ReadTcp
  <2>1. data.q # <<>>
    BY <1>2 DEF ReadTcp
  <2>2. data' = data \/ data' = [data EXCEPT !.q = Tail(@)] \/ data' = [data EXCEPT !.q[1].k = "rest"]
    <3>1. Head(data.q) \in Packet
      BY <1>0, <2>1, HeadTailProperties
    <3>2. Head(data.q).k \in {"whole", "torn"} \/ Head(data.q).k = "big" \/ Head(data.q).k = "rest"
      BY <3>1 DEF Packet
    <3>3. CASE Head(data.q).k \in {"whole", "torn"}
      BY <1>2, <3>3 DEF ReadTcp
    <3>4. CASE Head(data.q).k = "big"
      BY <1>2, <3>4 DEF ReadTcp
    <3>5. CASE Head(data.q).k = "rest"
      BY <1>2, <3>5 DEF ReadTcp
    <3> QED
      BY <3>2, <3>3, <3>4, <3>5
  <2>3. Tail(data.q) \in Seq(Packet) /\ 1 \in 1..Len(data.q) /\ data.q[1] \in Packet
    BY <1>0, <2>1, HeadTailProperties, EmptySeq, LenProperties, ElementOfSeq
  <2>4. [data.q[1] EXCEPT !.k = "rest"] \in Packet
    BY <2>3 DEF Packet
  <2>5. [data.q EXCEPT ![1] = [data.q[1] EXCEPT !.k = "rest"]] \in Seq(Packet)
    BY <1>0, <2>3, <2>4, ExceptSeq
  <2>6. [data EXCEPT !.q[1].k = "rest"]
            = [data EXCEPT !.q = [data.q EXCEPT ![1] = [data.q[1] EXCEPT !.k = "rest"]]]
    BY <1>0, <2>3 DEF DataType, Packet
  <2>7. data' \in DataType
    BY <1>0, <2>2, <2>3, <2>5, <2>6, DataFields
  <2> QED
    BY <1>0, <1>1, <2>7 DEF WiresTyped
<1>3. CASE ReadUdp \/ LoseDatagram
  <2>1. PICK i \in 1..Len(data.q) : data' = [data EXCEPT !.q = Remove(@, i)]
    BY <1>3 DEF ReadUdp, LoseDatagram
  <2>2. Remove(data.q, i) \in Seq(Packet)
    BY <1>0, RemoveTyped
  <2>3. data' \in DataType
    BY <1>0, <2>1, <2>2, DataFields
  <2> QED
    BY <1>0, <1>1, <2>3 DEF WiresTyped
<1> QED
    BY <1>2, <1>3 DEF Reads

LEMMA CutTyped == ASSUME NEW S, NEW s \in Seq(S), NEW r \in Cut(s) PROVE r \in Seq(S)
<1>1. PICK k \in 0..Len(s) : r = SubSeq(s, 1, k)
    BY DEF Cut
<1>2. Len(s) \in Nat /\ \A j \in 1..k : s[j] \in S
    BY LenProperties, ElementOfSeq
<1> QED
    BY <1>1, <1>2, SubSeqProperties

LEMMA BreakTyped == ASSUME WiresTyped, Break PROVE WiresTyped'
<1>0. /\ ctl \in ControlType /\ data \in DataType /\ data.q \in Seq(Packet)
      /\ ctl.c2d \in Seq(Unit) /\ ctl.d2c \in Seq(Unit)
    BY DEF WiresTyped, DataType, ControlType
<1>1. CASE BreakControl
  <2>1. PICK s \in Cut(ctl.c2d), r \in Cut(ctl.d2c) :
            ctl' = [ctl EXCEPT !.up = FALSE, !.c2d = s, !.d2c = r]
    BY <1>1 DEF BreakControl
  <2>2. s \in Seq(Unit) /\ r \in Seq(Unit)
    BY <1>0, CutTyped
  <2>3. ctl' \in ControlType
    BY <1>0, <2>1, <2>2 DEF ControlType
  <2> QED
    BY <1>0, <1>1, <2>3 DEF WiresTyped, BreakControl
<1>2. CASE BreakData
  <2>1. PICK s \in Cut(data.q) : \E torn \in {s} \cup (IF s = <<>> THEN {} ELSE {[s EXCEPT ![Len(s)].k = "torn"]}) :
              data' = [data EXCEPT !.up = FALSE, !.q = torn]
    BY <1>2 DEF BreakData
  <2>2. PICK torn \in {s} \cup (IF s = <<>> THEN {} ELSE {[s EXCEPT ![Len(s)].k = "torn"]}) :
              data' = [data EXCEPT !.up = FALSE, !.q = torn]
    BY <2>1
  <2>3. s \in Seq(Packet)
    BY <1>0, CutTyped
  <2>4. ASSUME s # <<>> PROVE [s EXCEPT ![Len(s)].k = "torn"] \in Seq(Packet)
    <3>1. Len(s) \in 1..Len(s) /\ s[Len(s)] \in Packet
      BY <2>3, <2>4, EmptySeq, LenProperties, ElementOfSeq
    <3>2. [s[Len(s)] EXCEPT !.k = "torn"] \in Packet
      BY <3>1 DEF Packet
    <3> QED
      BY <2>3, <3>1, <3>2, ExceptSeq
  <2>5. torn \in Seq(Packet)
    BY <2>2, <2>3, <2>4
  <2>6. data' \in DataType
    BY <1>0, <2>2, <2>5 DEF DataType
  <2> QED
    BY <1>0, <1>2, <2>6 DEF WiresTyped, BreakData
<1> QED
    BY <1>1, <1>2 DEF Break

LEMMA NoLoopTyped ==
    /\ NoLoop \in LoopType
    /\ \A asked \in BOOLEAN : [NoLoop EXCEPT !.close = asked] \in LoopType
    /\ \A null \in BOOLEAN : [NoLoop EXCEPT !.pc = "auth", !.null = null] \in LoopType
BY DEF NoLoop, LoopType, LoopPlaces

LEMMA CancelledTyped == ASSUME th \in ThreadPlaces PROVE Cancelled \in ThreadPlaces
BY DEF Cancelled, ThreadPlaces

LEMMA EndLoopTyped ==
    ASSUME WiresTyped, LoopTyped, NEW c \in ControlType, NEW asked \in BOOLEAN, EndLoop(c, asked)
    PROVE  WiresTyped' /\ LoopTyped' /\ exits \subseteq exits'
<1>1. ctl' \in ControlType
    BY ControlFields, EndsNamed DEF EndLoop
<1>2. data' = data \/ data' = [data EXCEPT !.d = "closed"]
    BY DEF EndLoop, EndCapture
<1>3. data' \in DataType
    BY <1>2, DataFields, EndsNamed DEF WiresTyped
<1>4. dm' \in LoopType
    BY NoLoopTyped DEF EndLoop
<1>5. th' \in ThreadPlaces /\ exits \subseteq exits'
    BY CancelledTyped DEF EndLoop, EndCapture, LoopTyped
<1>6. conf' = conf
    BY DEF EndLoop
<1> QED
    BY <1>1, <1>3, <1>4, <1>5, <1>6 DEF WiresTyped, LoopTyped

LEMMA StartErrorTyped ==
    ASSUME WiresTyped, LoopTyped, NEW c \in ControlType, NEW used, StartError(c, used), conf' = conf,
           data' \in DataType
    PROVE  WiresTyped' /\ LoopTyped' /\ exits \subseteq exits'
<1>1. ctl' \in ControlType
    BY SendErrorTyped DEF StartError
<1>2. dm' = [dm EXCEPT !.pc = "loop", !.fp = FALSE, !.rd = FALSE]
    BY DEF StartError
<1>3. dm' \in LoopType
    BY <1>2 DEF LoopTyped, LoopType, LoopPlaces
<1>4. th' \in ThreadPlaces /\ exits \subseteq exits'
    BY CancelledTyped DEF StartError, LoopTyped
<1> QED
    BY <1>1, <1>3, <1>4 DEF WiresTyped, LoopTyped

LEMMA StartThreadTyped ==
    ASSUME WiresTyped, LoopTyped, NEW c \in ControlType, NEW reached, StartThread(c, data, reached),
           conf' = conf
    PROVE  WiresTyped' /\ LoopTyped' /\ exits \subseteq exits'
<1>1. data' \in {data, [data EXCEPT !.d = "open"], [data EXCEPT !.d = "closed"]}
    BY DEF StartThread
<1>2. data' \in DataType
    BY <1>1, DataFields, EndsNamed DEF WiresTyped
<1>3. CASE \E used : StartError(c, used)
    BY <1>2, <1>3, StartErrorTyped
<1>4. CASE /\ ctl' = c /\ th' = "new" /\ exits' = exits \cup Forgotten
           /\ dm' = [dm EXCEPT !.pc = "loop", !.fp = TRUE, !.rd = TRUE, !.handle = TRUE,
                           !.sent = 0, !.use = dm.samp]
  <2>1. dm' \in LoopType
    BY <1>4 DEF LoopTyped, LoopType, LoopPlaces
  <2> QED
    BY <1>2, <1>4, <2>1 DEF WiresTyped, LoopTyped, ThreadPlaces
<1> QED
    BY <1>3, <1>4 DEF StartThread

LEMMA ServiceTyped ==
    ASSUME WiresTyped, LoopTyped, Service
    PROVE  WiresTyped' /\ LoopTyped' /\ exits \subseteq exits'
<1>0. ctl \in ControlType /\ data \in DataType /\ dm \in LoopType
    BY DEF WiresTyped, LoopTyped
<1>1. CASE AcceptControl
  <2> DEFINE m == [ctl EXCEPT !.d = "open"]
             e == SendError(m)
  <2>1. m \in ControlType /\ e \in ControlType
    BY <1>0, ControlFields, EndsNamed, SendErrorTyped
  <2>2. ctl' \in {[e EXCEPT !.d = "closed"], m} /\ data' = data /\ th' = th /\ conf' = conf
        /\ exits \subseteq exits'
    BY <1>1 DEF AcceptControl
  <2> HIDE DEF e, m
  <2>3. ctl' \in ControlType
    BY <2>1, <2>2, ControlFields, EndsNamed
  <2>4. dm' = dm \/ dm' = [NoLoop EXCEPT !.pc = "auth", !.null = conf.null]
    BY <1>1 DEF AcceptControl
  <2>5. dm' \in LoopType
    BY <1>0, <2>4, NoLoopTyped DEF LoopTyped
  <2> QED
    BY <1>0, <2>2, <2>3, <2>5 DEF WiresTyped, LoopTyped
<1>2. CASE ConnectActive
  <2>1. /\ ctl' = [NoConnection EXCEPT !.c = "open", !.d = "open"] /\ data' = data /\ th' = th
        /\ conf' = conf /\ exits' = exits /\ dm' = [NoLoop EXCEPT !.pc = "auth", !.null = conf.null]
    BY <1>2 DEF ConnectActive
  <2>2. ctl' \in ControlType
    BY <2>1, EmptyTyped, EndsNamed DEF NoConnection, ControlType
  <2>3. dm' \in LoopType
    BY <2>1, NoLoopTyped DEF LoopTyped
  <2> QED
    BY <1>0, <2>1, <2>2, <2>3 DEF WiresTyped, LoopTyped
<1>3. CASE Pause
  <2>1. /\ UNCHANGED <<ctl, data, exits, dm, th>>
        /\ conf' = [conf EXCEPT !.status = "paused"]
    BY <1>3 DEF Pause, streamVars
  <2>2. conf'.null = conf.null
    BY <2>1
  <2> QED
    BY <2>1, <2>2 DEF WiresTyped, LoopTyped
<1>4. CASE ReadConfiguration
  <2>1. /\ UNCHANGED <<ctl, data, exits, dm, th>>
        /\ \E a \in BOOLEAN, n \in BOOLEAN : conf' = [allowed |-> a, null |-> n, status |-> "running"]
    BY <1>4 DEF ReadConfiguration, streamVars
  <2>2. conf'.null \in BOOLEAN
    BY <2>1
  <2> QED
    BY <2>1, <2>2 DEF WiresTyped, LoopTyped
<1>5. CASE Stop
  <2>1. /\ ctl' \in {ctl, [ctl EXCEPT !.d = "closed"]} /\ data' \in {data, [data EXCEPT !.d = "closed"]}
        /\ dm' = [NoLoop EXCEPT !.close = TRUE] /\ th' = "none" /\ exits' = exits
        /\ conf' = [conf EXCEPT !.status = "stopped"]
    BY <1>5 DEF Stop
  <2>2. ctl' \in ControlType /\ data' \in DataType
    BY <1>0, <2>1, ControlFields, DataFields, EndsNamed
  <2>3. conf'.null = conf.null
    BY <2>1
  <2>4. dm' \in LoopType
    BY <2>1, NoLoopTyped
  <2> QED
    BY <2>1, <2>2, <2>3, <2>4 DEF WiresTyped, LoopTyped, ThreadPlaces
<1> QED
    BY <1>1, <1>2, <1>3, <1>4, <1>5 DEF Service

LEMMA ServeTyped ==
    ASSUME WiresTyped, LoopTyped, Serve
    PROVE  WiresTyped' /\ LoopTyped' /\ exits \subseteq exits'
<1>0. ctl \in ControlType /\ data \in DataType /\ dm \in LoopType
    BY DEF WiresTyped, LoopTyped
<1>r. ASSUME ctl.c2d # <<>>
      PROVE  /\ Took(Rest) \in ControlType
             /\ \A k \in Nat : Took(After(ctl.c2d, k)) \in ControlType
             /\ Took(After(ctl.c2d, 1 + Request.plen)) \in ControlType
    BY <1>0, <1>r, RequestTyped
<1>t. \A t : LoopTakes(t) => ctl.c2d # <<>>
    BY DEF LoopTakes, Arrived
<1>c. \A c \in ControlType :
         /\ SendError(c) \in ControlType
         /\ ToClient(c, Plain("FINDALLIF_REPLY")) \in ControlType
         /\ ToClient(c, Plain("OPEN_REPLY")) \in ControlType
         /\ ToClient(c, Plain("SETSAMPLING_REPLY")) \in ControlType
         /\ ToClient(c, Plain("STARTCAP_REPLY")) \in ControlType
         /\ ToClient(c, Plain("UPDATEFILTER_REPLY")) \in ControlType
         /\ ToClient(c, Plain("STATS_REPLY")) \in ControlType
         /\ ToClient(c, Plain("ENDCAP_REPLY")) \in ControlType
    BY PlainsTyped, SendErrorTyped, ToClientTyped
<1>1. CASE FindAllDevs
    BY <1>0, <1>1, <1>r, <1>t, <1>c DEF FindAllDevs, WiresTyped, LoopTyped
<1>2. CASE OpenSource
    BY <1>0, <1>2, <1>r, <1>t, <1>c DEF OpenSource, WiresTyped, LoopTyped
<1>3. CASE SetSampling
  <2>1. dm' \in LoopType
    BY <1>0, <1>3 DEF SetSampling, LoopType
  <2> QED
    BY <1>0, <1>3, <1>r, <1>t, <1>c, <2>1 DEF SetSampling, WiresTyped, LoopTyped
<1>4. CASE StartNoSource
  <2>1. dm' = [dm EXCEPT !.fp = FALSE, !.rd = FALSE] /\ ctl' = SendError(Took(After(ctl.c2d, 2)))
        /\ UNCHANGED <<data, conf, th>> /\ exits \subseteq exits' /\ ctl.c2d # <<>>
    BY <1>4, <1>t DEF StartNoSource
  <2>2. dm' \in LoopType
    BY <1>0, <2>1 DEF LoopType
  <2> QED
    BY <1>0, <1>r, <1>c, <2>1, <2>2 DEF WiresTyped, LoopTyped
<1>5. CASE StartNoConnection
  <2> DEFINE c == Took(After(ctl.c2d, 1 + Request.plen))
  <2>1. \E used : StartError(c, used)
    BY <1>5 DEF StartNoConnection
  <2>2. data' = data /\ conf' = conf /\ c \in ControlType
    BY <1>5, <1>r, <1>t DEF StartNoConnection
  <2> HIDE DEF c
  <2> QED
    BY <1>0, <2>1, <2>2, StartErrorTyped
<1>6. CASE StartNoFilter
  <2>1. StartError(Took(Rest), {}) /\ conf' = conf /\ data' \in {data, [data EXCEPT !.d = "closed"]}
        /\ Took(Rest) \in ControlType
    BY <1>6, <1>r, <1>t DEF StartNoFilter
  <2>2. data' \in DataType
    BY <1>0, <2>1, DataFields, EndsNamed
  <2> QED
    BY <2>1, <2>2, StartErrorTyped
<1>7. CASE StartServeOpen
  <2> DEFINE c == ToClient(Took(Rest), Plain("STARTCAP_REPLY"))
  <2>1. StartThread(c, data, PortIsOpen) /\ conf' = conf /\ c \in ControlType
    BY <1>7, <1>r, <1>t, <1>c DEF StartServeOpen
  <2> HIDE DEF c
  <2> QED
    BY <2>1, StartThreadTyped
<1>8. CASE StartListen
  <2>1. /\ ctl' = ToClient(Took(Rest), Plain("STARTCAP_REPLY")) /\ ctl.c2d # <<>>
        /\ data' = [NoData EXCEPT !.d = "listen"] /\ dm' = [dm EXCEPT !.pc = "accept"]
        /\ UNCHANGED <<exits, conf, th>>
    BY <1>8, <1>t DEF StartListen
  <2>2. dm' \in LoopType
    BY <1>0, <2>1 DEF LoopType, LoopPlaces
  <2>3. data' \in DataType
    BY <2>1, EmptyTyped, EndsNamed DEF NoData, DataType
  <2> QED
    BY <1>r, <1>c, <2>1, <2>2, <2>3 DEF WiresTyped, LoopTyped
<1>9. CASE AcceptData
    BY <1>0, <1>9, StartThreadTyped DEF AcceptData
<1>10. CASE UpdateFilter
    BY <1>0, <1>10, <1>r, <1>t, <1>c DEF UpdateFilter, WiresTyped, LoopTyped
<1>11. CASE GetStats
    BY <1>0, <1>11, <1>r, <1>t, <1>c DEF GetStats, WiresTyped, LoopTyped
<1>12. CASE EndCap
  <2>1. /\ ctl' \in {SendError(Took(Rest)), ToClient(Took(Rest), Plain("ENDCAP_REPLY"))}
        /\ ctl.c2d # <<>> /\ conf' = conf
        /\ dm' \in {dm, [dm EXCEPT !.fp = FALSE, !.rd = FALSE]}
        /\ data' \in {data, [data EXCEPT !.d = "closed"]} /\ th' \in {th, Cancelled}
        /\ exits \subseteq exits'
    BY <1>12, <1>t DEF EndCap, EndCapture
  <2>2. dm' \in LoopType
    BY <1>0, <2>1 DEF LoopType
  <2>3. data' \in DataType
    BY <1>0, <2>1, DataFields, EndsNamed
  <2>4. th' \in ThreadPlaces
    BY <2>1, CancelledTyped DEF LoopTyped
  <2> QED
    BY <1>r, <1>c, <2>1, <2>2, <2>3, <2>4 DEF WiresTyped, LoopTyped
<1>13. CASE CloseSession
  <2>1. EndLoop(Took(Rest), TRUE) /\ Took(Rest) \in ControlType
    BY <1>13, <1>r, <1>t DEF CloseSession
  <2> QED
    BY <2>1, EndLoopTyped
<1> QED
    BY <1>1, <1>2, <1>3, <1>4, <1>5, <1>6, <1>7, <1>8, <1>9, <1>10, <1>11, <1>12, <1>13 DEF Serve

LEMMA LoopStepTyped ==
    ASSUME WiresTyped, LoopTyped, Loop
    PROVE  WiresTyped' /\ LoopTyped' /\ exits \subseteq exits'
<1>0. ctl \in ControlType /\ data \in DataType /\ dm \in LoopType
    BY DEF WiresTyped, LoopTyped
<1>r. ctl.c2d # <<>> => Took(Rest) \in ControlType
    BY <1>0, RequestTyped
<1>1. CASE TimeOut
  <2>1. EndLoop(SendError(ctl), FALSE) /\ SendError(ctl) \in ControlType
    BY <1>0, <1>1, SendErrorTyped DEF TimeOut
  <2> QED
    BY <2>1, EndLoopTyped
<1>2. CASE ConnectionLost
  <2>1. EndLoop([ctl EXCEPT !.c2d = <<>>], FALSE) /\ [ctl EXCEPT !.c2d = <<>>] \in ControlType
    BY <1>0, <1>2, ControlFields, EmptyTyped DEF ConnectionLost
  <2> QED
    BY <2>1, EndLoopTyped
<1>3. CASE Authenticate
  <2>1. /\ ctl' \in {SendError(Took(Rest)), ToClient(Took(Rest), Plain("AUTH_REPLY"))}
        /\ ctl.c2d # <<>> /\ UNCHANGED <<data, exits, conf, th>>
        /\ dm' \in {dm, [dm EXCEPT !.pc = "loop"]}
    BY <1>3 DEF Authenticate, Arrived
  <2>2. ctl' \in ControlType
    BY <1>r, <2>1, SendErrorTyped, ToClientTyped, PlainsTyped, ZenonT(60)
  <2>3. dm' \in LoopType
    BY <1>0, <2>1 DEF LoopType, LoopPlaces
  <2> QED
    BY <2>1, <2>2, <2>3 DEF WiresTyped, LoopTyped
<1>4. CASE AuthGivenUp
  <2>1. EndLoop(Took(Rest), FALSE) /\ Took(Rest) \in ControlType
    BY <1>4, <1>r DEF AuthGivenUp, Arrived
  <2> QED
    BY <2>1, EndLoopTyped
<1>5. CASE OutOfFrame
  <2>1. dm' = [dm EXCEPT !.pc = "lost"] /\ UNCHANGED <<ctl, data, exits, conf, th>>
    BY <1>5 DEF OutOfFrame, streamVars
  <2>2. dm' \in LoopType
    BY <1>0, <2>1 DEF LoopType, LoopPlaces
  <2> QED
    BY <2>1, <2>2 DEF WiresTyped, LoopTyped
<1> QED
    BY <1>1, <1>2, <1>3, <1>4, <1>5, ServeTyped DEF Loop

LEMMA ThreadTyped ==
    ASSUME WiresTyped, LoopTyped, Thread
    PROVE  WiresTyped' /\ LoopTyped' /\ exits \subseteq exits'
<1>0. ctl \in ControlType /\ data \in DataType /\ dm \in LoopType
    BY DEF WiresTyped, LoopTyped
<1>d. CloseThreadData \in DataType
    BY <1>0, DataFields, EndsNamed DEF CloseThreadData
<1>1. CASE ThreadReady
    BY <1>1 DEF ThreadReady, WiresTyped, LoopTyped, ThreadPlaces, streamVars
<1>2. CASE SendPacket
  <2>1. CASE th' = "closing" /\ data' = CloseThreadData /\ dm' = dm
    BY <1>0, <1>2, <1>d, <2>1 DEF SendPacket, WiresTyped, LoopTyped, ThreadPlaces
  <2>2. CASE /\ dm' = [dm EXCEPT !.sent = @ + 1] /\ th' = th
             /\ \E k \in {"whole", "big"} :
                 data' = IF DataGone THEN data
                            ELSE [data EXCEPT !.q = Append(@, [n |-> dm.sent + 1, k |-> k])]
    <3>1. PICK k \in {"whole", "big"} :
                 data' = IF DataGone THEN data
                            ELSE [data EXCEPT !.q = Append(@, [n |-> dm.sent + 1, k |-> k])]
      BY <2>2
    <3>2. dm.sent \in Nat /\ dm.sent + 1 \in Nat
      BY <1>0 DEF LoopType
    <3>3. dm' \in LoopType
      BY <1>0, <2>2, <3>2 DEF LoopType
    <3>4. [n |-> dm.sent + 1, k |-> k] \in Packet
      BY <3>2 DEF Packet
    <3>5. Append(data.q, [n |-> dm.sent + 1, k |-> k]) \in Seq(Packet)
      BY <1>0, <3>4, AppendProperties DEF DataType
    <3>6. data' \in DataType
      BY <1>0, <3>1, <3>5, DataFields
    <3> QED
      BY <1>0, <1>2, <2>2, <3>3, <3>6 DEF SendPacket, WiresTyped, LoopTyped
  <2> QED
    BY <1>2, <2>1, <2>2 DEF SendPacket
<1>3. CASE ReadFails
    BY <1>0, <1>3, <1>d, SendErrorTyped DEF ReadFails, WiresTyped, LoopTyped, ThreadPlaces
<1>4. CASE ThreadEnd
  <2>1. dm' \in LoopType
    BY <1>0, <1>4 DEF ThreadEnd, LoopType
  <2> QED
    BY <1>4, <2>1 DEF ThreadEnd, WiresTyped, LoopTyped, ThreadPlaces, streamVars
<1> QED
    BY <1>1, <1>2, <1>3, <1>4 DEF Thread

LEMMA ClientStepTyped ==
    ASSUME WiresTyped, LoopTyped, ClientStep
    PROVE  WiresTyped' /\ LoopTyped'
<1>1. conf' = conf /\ dm' = dm /\ th' = th
    BY DEF ClientStep, daemonVars
<1> QED
    BY <1>1, CallsTyped, AnswersTyped, ReadsTyped DEF ClientStep, LoopTyped

----------------------------------------------------------------------------
(* The inductive invariant, for types and for the client.                   *)
SessionInv == WiresTyped /\ LoopTyped /\ ModeTyped /\ ClientInv

LEMMA ModeStays == ClientStep \/ DaemonStep => mode' = mode
<1>1. ASSUME ClientStep PROVE mode' = mode
    BY <1>1 DEF ClientStep, Calls, Answers, Reads, FindAll, Open, Begin, ConnectFails, Start,
       SetFilter, Stats, Close, Accept, CloseHost, Authenticated, NotAuthenticated, FoundAll,
       FindAllFails, Opened, OpenFails, SamplingSet, SamplingFails, StartReplied, StartRefused,
       FilterReplied, StatsReplied, EndCapReplied, AcceptHost, HostAccepted, ReadTcp, ReadUdp,
       LoseDatagram
<1>2. ASSUME DaemonStep PROVE mode' = mode
    BY <1>2 DEF DaemonStep, Service, Loop, Serve, Thread, AcceptControl, ConnectActive, Pause,
       ReadConfiguration, Stop, TimeOut, ConnectionLost, Authenticate, AuthGivenUp, OutOfFrame,
       EndLoop, FindAllDevs, OpenSource, SetSampling, StartNoSource, StartNoConnection,
       StartNoFilter, StartServeOpen, StartListen, AcceptData, UpdateFilter, GetStats, EndCap,
       CloseSession, ThreadReady, SendPacket, ReadFails, ThreadEnd
<1> QED
    BY <1>1, <1>2

LEMMA InitSession == Init => SessionInv
<1> SUFFICES ASSUME Init PROVE SessionInv
    OBVIOUS
<1>1. WiresTyped
    BY NoConnectionTyped DEF Init, WiresTyped
<1>2. LoopTyped
    BY NoLoopTyped DEF Init, DaemonInit, LoopTyped, ThreadPlaces
<1>3. ModeTyped
    BY ModesAssumption DEF Init, ModeTyped
<1>4. cl \in ClientType /\ got \in Seq(Packet)
    BY CountersAssumption DEF Init, ClientInit, ClientType, Captures, CallPlaces
<1>5. cl.pc = "idle" /\ cl.fp = "none" /\ cl.host = FALSE /\ cl.sockcount = 0
    BY DEF Init, ClientInit
<1>6. Initialised(cl) /\ PlaceOK(cl) /\ CountOK(cl, Len(got))
    BY <1>5 DEF Initialised, Users, One, Opening, PlaceOK, CountOK
<1> QED
    BY <1>1, <1>2, <1>3, <1>4, <1>6 DEF SessionInv, ClientInv

LEMMA NextSession == SessionInv /\ [Next]_vars => SessionInv'
<1> SUFFICES ASSUME SessionInv, [Next]_vars PROVE SessionInv'
    OBVIOUS
<1>0. WiresTyped /\ LoopTyped /\ ModeTyped /\ ClientInv /\ data.q \in Seq(Packet)
    BY DEF SessionInv, WiresTyped, DataType
<1>1. CASE ClientStep
  <2>1. mode' = mode
    BY <1>1, ModeStays
  <2> QED
    BY <1>0, <1>1, <2>1, ClientStepTyped, ClientStepKeeps DEF SessionInv, ModeTyped
<1>2. CASE DaemonStep
  <2>1. mode' = mode
    BY <1>2, ModeStays
  <2>2. WiresTyped' /\ LoopTyped' /\ exits \subseteq exits'
    BY <1>0, <1>2, ServiceTyped, LoopStepTyped, ThreadTyped DEF DaemonStep
  <2>3. cl' = cl /\ got' = got
    BY <1>2 DEF DaemonStep, clientVars
  <2> QED
    BY <1>0, <2>1, <2>2, <2>3, UnchangedKeeps DEF SessionInv, ModeTyped
<1>3. CASE Break
  <2>1. /\ cl' = cl /\ got' = got /\ exits' = exits /\ mode' = mode
        /\ conf' = conf /\ dm' = dm /\ th' = th
    BY <1>3 DEF Break, BreakControl, BreakData, clientVars
  <2> QED
    BY <1>0, <1>3, <2>1, BreakTyped, UnchangedKeeps DEF SessionInv, ModeTyped, LoopTyped
<1>4. CASE UNCHANGED vars
    BY <1>0, <1>4, UnchangedKeeps
    DEF vars, streamVars, clientVars, daemonVars, SessionInv, WiresTyped, LoopTyped, ModeTyped
<1> QED
    BY <1>1, <1>2, <1>3, <1>4 DEF Next

LEMMA SessionInvariant == Spec => []SessionInv
BY InitSession, NextSession, PTL DEF Spec

(* pcap_read_nocb_remote (pcap-remote.c): whatever datagrams are lost or    *)
(* come late and however often the counters wrap, TotCapt less TotNetDrops  *)
(* is the number of packets given to the application.                       *)
THEOREM DropsAccountForGaps == Spec => []NetDropsAccountForGaps
<1>1. SessionInv => NetDropsAccountForGaps
    BY DEF SessionInv, ClientInv, CountOK, Accounted, NetDropsAccountForGaps
<1> QED
    BY <1>1, SessionInvariant, PTL

(* sock_init and sock_cleanup (sockutils.c): on every path of the client    *)
(* Winsock stays initialised as long as a pcap_t, an active host or a call  *)
(* in progress uses it.                                                     *)
THEOREM SocketsStayInitialised == Spec => []SocketsInitialised
<1>1. SessionInv => SocketsInitialised
  <2> SUFFICES ASSUME SessionInv, None({"unknownHost"}),
                      cl.fp # "none" \/ cl.host \/ cl.pc # "idle"
               PROVE  cl.sockcount > 0
    BY DEF SocketsInitialised
  <2>1. Initialised(cl) /\ PlaceOK(cl) /\ cl \in ClientType
    BY DEF SessionInv, ClientInv
  <2>2. Users(cl) > 0 \/ cl.pc = "lost"
    BY <2>1 DEF ClientType, CallPlaces, PlaceOK, Users, One, Opening
  <2>3. cl.sockcount \in Int /\ Users(cl) \in Int
    BY <2>1, UsersInt DEF ClientType
  <2> QED
    BY <2>1, <2>2, <2>3 DEF Initialised
<1> QED
    BY <1>1, SessionInvariant, PTL

----------------------------------------------------------------------------
(* Frames: a header is followed by its payload, which another header        *)
(* follows.                                                                 *)
LEMMA MessageShape ==
    ASSUME NEW t \in Requests \cup Replies, NEW plen \in Nat, NEW n \in Nat
    PROVE  /\ Message(t, plen, n) \in Seq(Unit)
           /\ Len(Message(t, plen, n)) = n + 1
           /\ Message(t, plen, n)[1] = [t |-> t, plen |-> plen, n |-> n]
           /\ \A i \in 2..n + 1 : Message(t, plen, n)[i] = Body
<1> DEFINE body == [i \in 1..n |-> Body]
           header == [t |-> t, plen |-> plen, n |-> n]
<1>1. Body \in Unit /\ header \in Unit
    BY DEF Body, Unit
<1>2. body \in Seq(Unit) /\ Len(body) = n /\ \A i \in 1..n : body[i] = Body
    BY <1>1
<1>3. <<header>> \in Seq(Unit) /\ Len(<<header>>) = 1 /\ <<header>>[1] = header
    BY <1>1
<1>4. Message(t, plen, n) = <<header>> \o body
    BY DEF Message
<1> HIDE DEF body, header
<1>5. /\ <<header>> \o body \in Seq(Unit)
      /\ Len(<<header>> \o body) = 1 + n
      /\ \A i \in 1..1 + n : (<<header>> \o body)[i] = IF i <= 1 THEN <<header>>[i] ELSE body[i - 1]
    BY <1>2, <1>3, ConcatProperties
<1>6. (<<header>> \o body)[1] = header
    BY <1>3, <1>5
<1>7. ASSUME NEW i \in 2..n + 1 PROVE (<<header>> \o body)[i] = Body
    BY <1>2, <1>5
<1> QED
    BY <1>4, <1>5, <1>6, <1>7 DEF header

\* the unit at i is a header, and what follows it is framed by it
HeaderAt(s, i) ==
    /\ \A j \in 1..s[i].n : i + j <= Len(s) => s[i + j].t = "body"
    /\ i + s[i].n < Len(s) => s[i + s[i].n + 1].t # "body"

Framed(s) ==
    \A i \in 1..Len(s) :
        /\ s[i].plen <= s[i].n
        /\ s[i].t = "body" => s[i].n = 0
        /\ s[i].t # "body" => HeaderAt(s, i)

Complete(s) == \A i \in 1..Len(s) : i + s[i].n <= Len(s)

LEMMA UnitsTyped ==
    ASSUME NEW s \in Seq(Unit)
    PROVE  /\ Len(s) \in Nat
           /\ \A i \in 1..Len(s) : s[i] \in Unit /\ s[i].n \in Nat /\ s[i].plen \in Nat
<1>1. Len(s) \in Nat /\ \A i \in 1..Len(s) : s[i] \in Unit
    BY LenProperties, ElementOfSeq
<1>2. \A u \in Unit : u.n \in Nat /\ u.plen \in Nat
    BY DEF Unit
<1> QED
    BY <1>1, <1>2

LEMMA MessageFramed ==
    ASSUME NEW t \in Requests \cup Replies, NEW n \in Nat, NEW plen \in 0..n
    PROVE  LET m == Message(t, plen, n) IN
           m \in Seq(Unit) /\ Framed(m) /\ Complete(m) /\ m # <<>> /\ m[1].t # "body"
<1> DEFINE m == Message(t, plen, n)
<1>1. /\ m \in Seq(Unit) /\ Len(m) = n + 1
      /\ m[1] = [t |-> t, plen |-> plen, n |-> n]
      /\ \A i \in 2..n + 1 : m[i] = Body
    BY MessageShape
<1>2. t # "body"
    BY DEF Requests, Replies
<1> HIDE DEF m
<1>3. m[1].t = t /\ m[1].plen = plen /\ m[1].n = n
    BY <1>1
<1>4. \A i \in 2..n + 1 : m[i].t = "body" /\ m[i].n = 0 /\ m[i].plen = 0
    BY <1>1 DEF Body
<1>5. HeaderAt(m, 1)
    BY <1>1, <1>3, <1>4 DEF HeaderAt
<1>6. Framed(m)
    BY <1>1, <1>2, <1>3, <1>4, <1>5 DEF Framed
<1>7. Complete(m)
    BY <1>1, <1>3, <1>4 DEF Complete
<1>8. m # <<>>
    BY <1>1
<1> QED
    BY <1>1, <1>2, <1>3, <1>6, <1>7, <1>8 DEF m

LEMMA SuffixFramed ==
    ASSUME NEW s \in Seq(Unit), NEW k \in Nat, Framed(s)
    PROVE  Framed(After(s, k)) /\ (Complete(s) => Complete(After(s, k)))
<1> DEFINE r == After(s, k)
<1>1. /\ r \in Seq(Unit) /\ Len(r) = IF k <= Len(s) THEN Len(s) - k ELSE 0
      /\ \A i \in 1..Len(s) - k : r[i] = s[k + i]
    BY AfterTyped
<1>2. Len(s) \in Nat
    BY UnitsTyped
<1> HIDE DEF r
<1>3. \A i \in 1..Len(r) : k + i \in 1..Len(s) /\ r[i] = s[k + i] /\ Len(s) = Len(r) + k
    BY <1>1, <1>2
<1>4. ASSUME NEW i \in 1..Len(r)
      PROVE  /\ r[i].plen <= r[i].n
             /\ r[i].t = "body" => r[i].n = 0
             /\ r[i].t # "body" => HeaderAt(r, i)
             /\ Complete(s) => i + r[i].n <= Len(r)
  <2>1. k + i \in 1..Len(s) /\ r[i] = s[k + i] /\ Len(s) = Len(r) + k /\ r[i].n \in Nat
        /\ Len(r) \in Nat /\ i \in Nat
    BY <1>1, <1>3, UnitsTyped
  <2>2. r[i].plen <= r[i].n /\ (r[i].t = "body" => r[i].n = 0)
    BY <2>1 DEF Framed
  <2>3. ASSUME r[i].t # "body" PROVE HeaderAt(r, i)
    <3>1. HeaderAt(s, k + i)
      BY <2>1, <2>3 DEF Framed
    <3>2. ASSUME NEW j \in 1..r[i].n, i + j <= Len(r) PROVE r[i + j].t = "body"
      <4>1. i + j \in 1..Len(r) /\ k + (i + j) = (k + i) + j /\ (k + i) + j <= Len(s) /\ j \in 1..s[k + i].n
        BY <2>1, <3>2
      <4>2. r[i + j] = s[(k + i) + j]
        BY <1>3, <4>1
      <4> QED
        BY <3>1, <4>1, <4>2 DEF HeaderAt
    <3>3. ASSUME i + r[i].n < Len(r) PROVE r[i + r[i].n + 1].t # "body"
      <4>1. /\ i + r[i].n + 1 \in 1..Len(r) /\ k + (i + r[i].n + 1) = (k + i) + s[k + i].n + 1
            /\ (k + i) + s[k + i].n < Len(s)
        BY <2>1, <3>3, SMTT(30)
      <4>2. r[i + r[i].n + 1] = s[(k + i) + s[k + i].n + 1]
        BY <1>3, <4>1
      <4> QED
        BY <3>1, <4>1, <4>2 DEF HeaderAt
    <3> QED
      BY <3>2, <3>3 DEF HeaderAt
  <2>4. ASSUME Complete(s) PROVE i + r[i].n <= Len(r)
    <3>1. (k + i) + s[k + i].n <= Len(s)
      BY <2>1, <2>4 DEF Complete
    <3> QED
      BY <2>1, <3>1
  <2> QED
    BY <2>2, <2>3, <2>4
<1> QED
    BY <1>4 DEF Framed, Complete, r

LEMMA PrefixFramed ==
    ASSUME NEW s \in Seq(Unit), Framed(s), NEW r \in Cut(s)
    PROVE  Framed(r) /\ r \in Seq(Unit) /\ (AtBoundary(s) => AtBoundary(r))
<1>1. PICK k \in 0..Len(s) : r = SubSeq(s, 1, k)
    BY DEF Cut
<1>2. Len(s) \in Nat /\ \A j \in 1..k : s[j] \in Unit
    BY UnitsTyped
<1>3. r \in Seq(Unit) /\ Len(r) = k /\ \A i \in 1..k : r[i] = s[i]
    BY <1>1, <1>2, SubSeqProperties
<1>4. ASSUME NEW i \in 1..k
      PROVE  /\ r[i].plen <= r[i].n
             /\ r[i].t = "body" => r[i].n = 0
             /\ r[i].t # "body" => HeaderAt(r, i)
  <2>1. i \in 1..Len(s) /\ r[i] = s[i] /\ r[i].n \in Nat
    BY <1>2, <1>3, UnitsTyped
  <2>2. ASSUME r[i].t # "body" PROVE HeaderAt(r, i)
    <3>1. HeaderAt(s, i)
      BY <2>1, <2>2 DEF Framed
    <3>2. ASSUME NEW j \in 1..r[i].n, i + j <= k PROVE r[i + j].t = "body"
      <4>1. i + j \in 1..k /\ i + j <= Len(s) /\ j \in 1..s[i].n
        BY <1>2, <2>1, <3>2
      <4> QED
        BY <1>3, <3>1, <4>1 DEF HeaderAt
    <3>3. ASSUME i + r[i].n < k PROVE r[i + r[i].n + 1].t # "body"
      <4>1. i + r[i].n + 1 \in 1..k /\ i + s[i].n < Len(s)
        BY <1>2, <2>1, <3>3
      <4> QED
        BY <1>3, <2>1, <3>1, <4>1 DEF HeaderAt
    <3> QED
      BY <1>3, <3>2, <3>3 DEF HeaderAt
  <2> QED
    BY <2>1, <2>2 DEF Framed
<1>5. ASSUME AtBoundary(s) PROVE AtBoundary(r)
  <2>1. CASE k = 0
    BY <1>3, <2>1, EmptySeq DEF AtBoundary
  <2>2. CASE k > 0
    <3>1. 1 \in 1..k /\ r # <<>> /\ s # <<>>
      BY <1>2, <1>3, <2>2, EmptySeq
    <3>2. Head(r) = r[1] /\ Head(s) = s[1] /\ r[1] = s[1]
      BY <1>3, <3>1, HeadTailProperties
    <3> QED
      BY <1>5, <3>1, <3>2 DEF AtBoundary
  <2> QED
    BY <1>2, <2>1, <2>2
<1> QED
    BY <1>3, <1>4, <1>5 DEF Framed

\* A message may be put behind what is complete.
LEMMA MessageFollows ==
    ASSUME NEW s \in Seq(Unit), Framed(s), Complete(s),
           NEW m \in Seq(Unit), Framed(m), Complete(m), m # <<>>, m[1].t # "body"
    PROVE  /\ s \o m \in Seq(Unit) /\ Framed(s \o m) /\ Complete(s \o m)
           /\ AtBoundary(s) => AtBoundary(s \o m)
<1> DEFINE r == s \o m
<1>1. /\ r \in Seq(Unit) /\ Len(r) = Len(s) + Len(m)
      /\ \A i \in 1..Len(s) + Len(m) : r[i] = IF i <= Len(s) THEN s[i] ELSE m[i - Len(s)]
    BY ConcatProperties
<1>2. Len(s) \in Nat /\ Len(m) \in Nat /\ Len(m) > 0
    BY UnitsTyped, EmptySeq
<1> HIDE DEF r
<1>3. \A i \in 1..Len(s) : r[i] = s[i] /\ i \in 1..Len(r)
    BY <1>1, <1>2
<1>4. \A i \in 1..Len(m) : r[Len(s) + i] = m[i] /\ Len(s) + i \in 1..Len(r)
    BY <1>1, <1>2
<1>5. ASSUME NEW i \in 1..Len(s)
      PROVE  /\ r[i].plen <= r[i].n
             /\ r[i].t = "body" => r[i].n = 0
             /\ r[i].t # "body" => HeaderAt(r, i)
             /\ i + r[i].n <= Len(r)
  <2>1. r[i] = s[i] /\ r[i].n \in Nat /\ i + s[i].n <= Len(s)
    BY <1>3, UnitsTyped DEF Complete
  <2>2. r[i].plen <= r[i].n /\ (r[i].t = "body" => r[i].n = 0)
    BY <2>1 DEF Framed
  <2>3. ASSUME r[i].t # "body" PROVE HeaderAt(r, i)
    <3>1. HeaderAt(s, i)
      BY <2>1, <2>3 DEF Framed
    <3>2. ASSUME NEW j \in 1..r[i].n PROVE r[i + j].t = "body"
      <4>1. i + j \in 1..Len(s) /\ i + j <= Len(s) /\ j \in 1..s[i].n
        BY <1>2, <2>1
      <4> QED
        BY <1>3, <3>1, <4>1 DEF HeaderAt
    <3>3. r[i + r[i].n + 1].t # "body"
      <4>1. CASE i + s[i].n < Len(s)
        <5>1. i + s[i].n + 1 \in 1..Len(s)
          BY <1>2, <2>1, <4>1
        <5> QED
          BY <1>3, <2>1, <3>1, <4>1, <5>1 DEF HeaderAt
      <4>2. CASE i + s[i].n = Len(s)
        <5>1. i + r[i].n + 1 = Len(s) + 1 /\ 1 \in 1..Len(m)
          BY <1>2, <2>1, <4>2
        <5> QED
          BY <1>4, <5>1
      <4> QED
        BY <1>2, <2>1, <4>1, <4>2
    <3> QED
      BY <3>2, <3>3 DEF HeaderAt
  <2>4. i + r[i].n <= Len(r)
    BY <1>1, <1>2, <2>1
  <2> QED
    BY <2>2, <2>3, <2>4
<1>6. ASSUME NEW k \in 1..Len(m)
      PROVE  LET i == Len(s) + k IN
             /\ r[i].plen <= r[i].n
             /\ r[i].t = "body" => r[i].n = 0
             /\ r[i].t # "body" => HeaderAt(r, i)
             /\ i + r[i].n <= Len(r)
  <2> DEFINE i == Len(s) + k
  <2>1. r[i] = m[k] /\ r[i].n \in Nat /\ k + m[k].n <= Len(m) /\ i = Len(s) + k
    BY <1>4, UnitsTyped DEF Complete
  <2> HIDE DEF i
  <2>2. r[i].plen <= r[i].n /\ (r[i].t = "body" => r[i].n = 0)
    BY <2>1 DEF Framed
  <2>3. ASSUME r[i].t # "body" PROVE HeaderAt(r, i)
    <3>1. HeaderAt(m, k)
      BY <2>1, <2>3 DEF Framed
    <3>2. ASSUME NEW j \in 1..r[i].n PROVE r[i + j].t = "body"
      <4>1. k + j \in 1..Len(m) /\ k + j <= Len(m) /\ j \in 1..m[k].n /\ i + j = Len(s) + (k + j)
        BY <1>2, <2>1
      <4>2. r[i + j] = m[k + j]
        BY <1>4, <4>1
      <4> QED
        BY <3>1, <4>1, <4>2 DEF HeaderAt
    <3>3. ASSUME i + r[i].n < Len(r) PROVE r[i + r[i].n + 1].t # "body"
      <4>1. /\ k + m[k].n < Len(m) /\ k + m[k].n + 1 \in 1..Len(m)
            /\ i + r[i].n + 1 = Len(s) + (k + m[k].n + 1)
        BY <1>1, <1>2, <2>1, <3>3
      <4>2. r[i + r[i].n + 1] = m[k + m[k].n + 1]
        BY <1>4, <4>1
      <4> QED
        BY <3>1, <4>1, <4>2 DEF HeaderAt
    <3> QED
      BY <3>2, <3>3 DEF HeaderAt
  <2>4. i + r[i].n <= Len(r)
    BY <1>1, <1>2, <2>1
  <2> QED
    BY <2>2, <2>3, <2>4 DEF i
<1>7. \A i \in 1..Len(r) : i \in 1..Len(s) \/ \E k \in 1..Len(m) : i = Len(s) + k
  <2>1. ASSUME NEW i \in 1..Len(r), i \notin 1..Len(s) PROVE \E k \in 1..Len(m) : i = Len(s) + k
    <3>1. i - Len(s) \in 1..Len(m) /\ i = Len(s) + (i - Len(s))
      BY <1>1, <1>2, <2>1
    <3> QED
      BY <3>1
  <2> QED
    BY <2>1
<1>8. Framed(r) /\ Complete(r)
  <2>1. ASSUME NEW i \in 1..Len(r)
        PROVE  /\ r[i].plen <= r[i].n
               /\ r[i].t = "body" => r[i].n = 0
               /\ r[i].t # "body" => HeaderAt(r, i)
               /\ i + r[i].n <= Len(r)
    BY <1>5, <1>6, <1>7, Zenon
  <2> QED
    BY <2>1 DEF Framed, Complete
<1>9. ASSUME AtBoundary(s) PROVE AtBoundary(r)
  <2>1. r # <<>> /\ Head(r) = r[1]
    BY <1>1, <1>2, EmptySeq, HeadTailProperties
  <2>2. CASE s = <<>>
    <3>1. Len(s) = 0 /\ 1 \in 1..Len(m)
      BY <1>2, <2>2
    <3>2. r[1] = m[1]
      BY <1>4, <3>1
    <3> QED
      BY <2>1, <3>2 DEF AtBoundary
  <2>3. CASE s # <<>>
    <3>1. 1 \in 1..Len(s) /\ Head(s) = s[1]
      BY <1>2, <2>3, EmptySeq, HeadTailProperties
    <3>2. r[1] = s[1]
      BY <1>3, <3>1
    <3> QED
      BY <1>9, <2>1, <2>3, <3>1, <3>2 DEF AtBoundary
  <2> QED
    BY <2>2, <2>3
<1> QED
    BY <1>1, <1>8, <1>9 DEF r

----------------------------------------------------------------------------
(* The daemon in frame: the inductive invariant is that the stream is       *)
(* framed, that it is complete as long as the connection is up, and that    *)
(* the daemon stands at a boundary unless it has left a request unread.     *)
FrameExits == {"requestNotRead", "lengthTooShort"}

InFrame(c) == c.d \in {"backlog", "open"} => AtBoundary(c.c2d)

Fine(c, taken) ==
    /\ c \in ControlType
    /\ Framed(c.c2d)
    /\ c.up => Complete(c.c2d)
    /\ taken \cap FrameExits = {} => InFrame(c)

\* a whole message
Fit(m) == m \in Seq(Unit) /\ Framed(m) /\ Complete(m) /\ m # <<>> /\ m[1].t # "body"

LEMMA FineLater ==
    ASSUME NEW c, NEW taken, NEW later, taken \subseteq later, Fine(c, taken)
    PROVE  Fine(c, later)
<1>1. later \cap FrameExits = {} => taken \cap FrameExits = {}
    OBVIOUS
<1> QED
    BY <1>1 DEF Fine

LEMMA PlainsFit ==
    /\ \A t \in {"AUTH_REQ", "FINDALLIF_REQ", "OPEN_REQ", "SETSAMPLING_REQ", "STARTCAP_REQ",
                 "UPDATEFILTER_REQ", "STATS_REQ", "ENDCAP_REQ", "CLOSE", "ERROR"} : Fit(Plain(t))
    /\ \A c : Fit(StartRequest(c))
<1>1. ASSUME NEW t \in Requests \cup Replies PROVE Fit(Plain(t))
  <2>1. PayloadOf[t] \in Nat
    BY PayloadTyped
  <2>2. PayloadOf[t] \in 0..PayloadOf[t]
    BY <2>1
  <2> QED
    BY <2>1, <2>2, MessageFramed DEF Plain, Fit
<1>2. Fit(Message("STARTCAP_REQ", 2, 3)) /\ Fit(Message("STARTCAP_REQ", 3, 3))
  <2>1. "STARTCAP_REQ" \in Requests \cup Replies /\ 3 \in Nat /\ 2 \in 0..3 /\ 3 \in 0..3
    BY DEF Requests
  <2> QED
    BY <2>1, MessageFramed DEF Fit
<1> QED
    BY <1>1, <1>2 DEF Requests, Replies, StartRequest

LEMMA EmptyFramed == Framed(<<>>) /\ Complete(<<>>) /\ AtBoundary(<<>>)
BY EmptySeq DEF Framed, Complete, AtBoundary

LEMMA FineFields ==
    ASSUME NEW c, NEW taken, Fine(c, taken)
    PROVE  /\ \A s \in Seq(Unit) : Fine([c EXCEPT !.d2c = s], taken)
           /\ \A e \in Ends : Fine([c EXCEPT !.c = e], taken)
           /\ \A e \in Ends : e \notin {"backlog", "open"} \/ c.d = "backlog" => Fine([c EXCEPT !.d = e], taken)
           /\ Fine([c EXCEPT !.c2d = <<>>], taken)
<1>0. c \in ControlType
    BY DEF Fine
<1>1. ASSUME NEW s \in Seq(Unit) PROVE Fine([c EXCEPT !.d2c = s], taken)
  <2> DEFINE e == [c EXCEPT !.d2c = s]
  <2>1. e \in ControlType /\ e.c2d = c.c2d /\ e.up = c.up /\ e.d = c.d
    BY <1>0 DEF ControlType
  <2> QED
    BY <2>1 DEF Fine, InFrame
<1>2. ASSUME NEW x \in Ends PROVE Fine([c EXCEPT !.c = x], taken)
  <2> DEFINE e == [c EXCEPT !.c = x]
  <2>1. e \in ControlType /\ e.c2d = c.c2d /\ e.up = c.up /\ e.d = c.d
    BY <1>0 DEF ControlType
  <2> QED
    BY <2>1 DEF Fine, InFrame
<1>3. ASSUME NEW x \in Ends, x \notin {"backlog", "open"} \/ c.d = "backlog"
      PROVE  Fine([c EXCEPT !.d = x], taken)
  <2> DEFINE e == [c EXCEPT !.d = x]
  <2>1. e \in ControlType /\ e.c2d = c.c2d /\ e.up = c.up /\ e.d = x
    BY <1>0 DEF ControlType
  <2> QED
    BY <1>3, <2>1 DEF Fine, InFrame
<1>4. Fine([c EXCEPT !.c2d = <<>>], taken)
  <2> DEFINE e == [c EXCEPT !.c2d = <<>>]
  <2>1. e \in ControlType /\ e.c2d = <<>>
    BY <1>0, EmptyTyped DEF ControlType
  <2> QED
    BY <2>1, EmptyFramed DEF Fine, InFrame
<1> QED
    BY <1>1, <1>2, <1>3, <1>4

LEMMA ToDaemonFine ==
    ASSUME NEW c, NEW taken, Fine(c, taken), NEW m, Fit(m)
    PROVE  Fine(ToDaemon(c, m), taken)
<1>1. CASE c.up /\ c.d \in {"backlog", "open"} /\ c.c = "open"
  <2> DEFINE s == c.c2d \o m
             e == [c EXCEPT !.c2d = s]
  <2>1. c.c2d \in Seq(Unit) /\ Framed(c.c2d) /\ Complete(c.c2d)
    BY <1>1 DEF Fine, ControlType
  <2>2. s \in Seq(Unit) /\ Framed(s) /\ Complete(s) /\ (AtBoundary(c.c2d) => AtBoundary(s))
    BY <2>1, MessageFollows DEF Fit
  <2> HIDE DEF s
  <2>3. e \in ControlType /\ e.c2d = s /\ e.up = c.up /\ e.d = c.d
    BY <2>2 DEF Fine, ControlType
  <2>4. Fine(e, taken)
    BY <2>2, <2>3 DEF Fine, InFrame
  <2> QED
    BY <1>1, <2>4 DEF ToDaemon, s
<1> QED
    BY <1>1 DEF ToDaemon

LEMMA ToClientFine ==
    ASSUME NEW c, NEW taken, Fine(c, taken), NEW m \in Seq(Unit)
    PROVE  Fine(ToClient(c, m), taken)
<1>1. c.d2c \o m \in Seq(Unit)
    BY ConcatProperties DEF Fine, ControlType
<1> QED
    BY <1>1, FineFields DEF ToClient

LEMMA SendErrorFine ==
    ASSUME NEW c, NEW taken, Fine(c, taken)
    PROVE  Fine(SendError(c), taken)
BY PlainsTyped, ToClientFine DEF SendError

LEMMA CloseControlFine ==
    ASSUME NEW c, NEW taken, Fine(c, taken)
    PROVE  Fine(CloseControl(c), taken)
<1> DEFINE e == [c EXCEPT !.c = "closed"]
<1>1. Fine(e, taken)
    BY FineFields, EndsNamed
<1>2. Fine([e EXCEPT !.d2c = <<>>], taken)
    BY <1>1, FineFields, EmptyTyped
<1>3. CloseControl(c) = [e EXCEPT !.d2c = <<>>]
    BY DEF CloseControl, Fine, ControlType
<1> QED
    BY <1>2, <1>3

\* A new connection, and what the daemon takes from the one it has.
LEMMA NewFine ==
    ASSUME NEW c \in ControlType, NEW taken, c.c2d = <<>> \/ Fit(c.c2d)
    PROVE  Fine(c, taken)
<1>1. CASE Fit(c.c2d)
  <2>1. AtBoundary(c.c2d)
    BY <1>1, HeadTailProperties DEF Fit, AtBoundary
  <2> QED
    BY <1>1, <2>1 DEF Fine, InFrame, Fit
<1>2. CASE c.c2d = <<>>
    BY <1>2, EmptyFramed DEF Fine, InFrame
<1> QED
    BY <1>1, <1>2

LEMMA TookFine ==
    ASSUME Fine(ctl, exits), Arrived, ctl.d = "open"
    PROVE  /\ Fine(Took(Rest), exits)
           /\ Request.plen = Request.n => Fine(Took(After(ctl.c2d, 1 + Request.plen)), exits)
           /\ Fine(Took(After(ctl.c2d, 1 + Request.plen)), exits \cup {"lengthTooShort"})
           /\ Request.plen = Request.n \/ Request.plen < Request.n
           /\ \A k \in Nat : Fine(Took(After(ctl.c2d, k)), exits \cup {"requestNotRead"})
<1>1. /\ ctl.c2d \in Seq(Unit) /\ Framed(ctl.c2d) /\ (ctl.up => Complete(ctl.c2d))
      /\ ctl.c2d # <<>> /\ ctl \in ControlType
    BY DEF Fine, ControlType, Arrived
<1>2. /\ Request = ctl.c2d[1] /\ 1 \in 1..Len(ctl.c2d) /\ Request.n \in Nat /\ Request.plen \in Nat
      /\ Len(ctl.c2d) \in Nat
    BY <1>1, HeadTailProperties, EmptySeq, UnitsTyped DEF Request
<1>3. ASSUME NEW k \in Nat
      PROVE  LET e == Took(After(ctl.c2d, k)) IN
             /\ e \in ControlType /\ e.c2d = After(ctl.c2d, k) /\ e.up = ctl.up
             /\ Framed(e.c2d) /\ (e.up => Complete(e.c2d))
  <2> DEFINE r == After(ctl.c2d, k)
  <2>1. r \in Seq(Unit) /\ Framed(r) /\ (Complete(ctl.c2d) => Complete(r))
    BY <1>1, SuffixFramed, AfterTyped
  <2> HIDE DEF r
  <2>2. Took(r) \in ControlType /\ Took(r).c2d = r /\ Took(r).up = ctl.up
    BY <1>1, <2>1 DEF Took, ControlType
  <2> QED
    BY <1>1, <2>1, <2>2 DEF r
<1>4. ASSUME AtBoundary(ctl.c2d) PROVE AtBoundary(After(ctl.c2d, 1 + Request.n))
  <2> DEFINE n == Request.n
             r == After(ctl.c2d, 1 + n)
  <2>1. 1 + n \in Nat
    BY <1>2
  <2>2. /\ r \in Seq(Unit) /\ Len(r) = IF 1 + n <= Len(ctl.c2d) THEN Len(ctl.c2d) - (1 + n) ELSE 0
        /\ \A i \in 1..Len(ctl.c2d) - (1 + n) : r[i] = ctl.c2d[(1 + n) + i]
    BY <1>1, <2>1, AfterTyped
  <2>3. Request.t # "body"
    BY <1>1, <1>4 DEF AtBoundary, Request
  <2>4. 1 + n < Len(ctl.c2d) => ctl.c2d[1 + n + 1].t # "body"
    BY <1>1, <1>2, <2>3 DEF Framed, HeaderAt
  <2>5. n \in Nat
    BY <1>2
  <2> HIDE DEF n, r
  <2>6. ASSUME Len(r) = 0 PROVE AtBoundary(r)
    BY <2>2, <2>6, EmptySeq DEF AtBoundary
  <2>7. ASSUME Len(r) # 0 PROVE AtBoundary(r)
    <3>1. 1 + n < Len(ctl.c2d) /\ 1 \in 1..Len(ctl.c2d) - (1 + n)
      BY <1>2, <2>2, <2>5, <2>7
    <3>2. r[1] = ctl.c2d[(1 + n) + 1] /\ r # <<>>
      BY <2>2, <2>7, <3>1, EmptySeq
    <3>3. Head(r) = r[1]
      BY <2>2, <3>2, HeadTailProperties
    <3> QED
      BY <2>4, <3>1, <3>2, <3>3 DEF AtBoundary
  <2> QED
    BY <2>6, <2>7 DEF r, n
<1>5. 1 + Request.n \in Nat /\ 1 + Request.plen \in Nat
    BY <1>2
<1>6. exits \cap FrameExits = {} => AtBoundary(ctl.c2d)
    BY DEF Fine, InFrame
<1>7. Fine(Took(Rest), exits)
    BY <1>3, <1>4, <1>5, <1>6 DEF Fine, InFrame, Rest
<1>8. Request.plen <= Request.n
    BY <1>1, <1>2 DEF Framed
<1>9. \A k \in Nat : Fine(Took(After(ctl.c2d, k)), exits \cup {"requestNotRead"})
    BY <1>3 DEF Fine, FrameExits
<1>10. Fine(Took(After(ctl.c2d, 1 + Request.plen)), exits \cup {"lengthTooShort"})
    BY <1>3, <1>5 DEF Fine, FrameExits
<1>11. Request.plen = Request.n \/ Request.plen < Request.n
    BY <1>2, <1>8
<1> QED
    BY <1>7, <1>9, <1>10, <1>11 DEF Rest

LEMMA ClientExits == ASSUME WiresTyped, ClientStep PROVE exits \subseteq exits'
<1>1. CASE FindAll \/ Open \/ ConnectFails
    BY <1>1 DEF FindAll, Open, Begin, ConnectFails, streamVars
<1>2. CASE Start \/ SetFilter \/ Stats \/ Close \/ Accept \/ CloseHost
    BY <1>2 DEF Start, SetFilter, Stats, Ask, Close, Accept, CloseHost
<1>3. CASE Authenticated \/ NotAuthenticated \/ FoundAll \/ FindAllFails \/ Opened \/ OpenFails
    BY <1>3 DEF Authenticated, NotAuthenticated, FoundAll, FindAllFails, Opened, OpenFails
<1>4. CASE SamplingSet \/ SamplingFails \/ StartReplied \/ StartRefused \/ FilterReplied
    BY <1>4 DEF SamplingSet, SamplingFails, StartReplied, StartRefused, FilterReplied
<1>5. CASE StatsReplied \/ EndCapReplied \/ AcceptHost \/ HostAccepted
    BY <1>5 DEF StatsReplied, EndCapReplied, AcceptHost, HostAccepted
<1>6. CASE ReadUdp \/ LoseDatagram
    BY <1>6 DEF ReadUdp, LoseDatagram
<1>7. CASE ReadTcp
  <2>1. CASE Head(data.q).k \in {"whole", "torn"}
    BY <1>7, <2>1 DEF ReadTcp
  <2>2. CASE Head(data.q).k = "big"
    BY <1>7, <2>2 DEF ReadTcp
  <2>3. CASE Head(data.q).k = "rest"
    BY <1>7, <2>3 DEF ReadTcp
  <2>4. Head(data.q) \in Packet
    BY <1>7, HeadTailProperties DEF ReadTcp, WiresTyped, DataType
  <2> QED
    BY <2>1, <2>2, <2>3, <2>4 DEF Packet
<1> QED
    BY <1>1, <1>2, <1>3, <1>4, <1>5, <1>6, <1>7 DEF ClientStep, Calls, Answers, Reads

\* What the client does to the control connection when it takes an answer.
LEMMA AnsweredFine ==
    ASSUME NEW taken, Fine(ctl, taken)
    PROVE  /\ Answered => Fine([ctl EXCEPT !.d2c = Unread], taken)
           /\ Fine([ctl EXCEPT !.d2c = IF Answered THEN Unread ELSE <<>>], taken)
           /\ Answered => Fine([Hangup EXCEPT !.d2c = IF cl.host THEN Unread ELSE <<>>], taken)
           /\ Fine([Hangup EXCEPT !.d2c = IF Answered /\ cl.host THEN Unread ELSE <<>>], taken)
           /\ Fine([Hangup EXCEPT !.d2c = <<>>], taken)
           /\ Fine(Hangup, taken)
<1>1. Answered => Unread \in Seq(Unit)
    BY UnreadTyped DEF Fine
<1>2. Fine(Hangup, taken)
    BY CloseControlFine DEF Hangup
<1>3. /\ \A s \in Seq(Unit) : Fine([ctl EXCEPT !.d2c = s], taken)
      /\ \A s \in Seq(Unit) : Fine([Hangup EXCEPT !.d2c = s], taken)
    BY <1>2, FineFields
<1> QED
    BY <1>1, <1>2, <1>3, EmptyTyped

LEMMA CallsFine ==
    ASSUME Fine(ctl, exits), Calls, ctl' \in ControlType
    PROVE  Fine(ctl', exits)
<1>1. \A t \in {"AUTH_REQ", "FINDALLIF_REQ", "OPEN_REQ", "SETSAMPLING_REQ", "STARTCAP_REQ",
                 "UPDATEFILTER_REQ", "STATS_REQ", "ENDCAP_REQ", "CLOSE"} :
          Send(t) => Fine(ctl', exits)
    BY PlainsFit, ToDaemonFine DEF Send
<1>2. ASSUME NEW pc, NEW auth, NEW t \in {"FINDALLIF_REQ", "OPEN_REQ"}, Begin(pc, auth, t)
      PROVE  Fine(ctl', exits)
  <2>1. CASE Send(t)
    BY <1>1, <2>1
  <2>2. CASE ctl' = [NoConnection EXCEPT !.c = "open", !.d = "backlog", !.c2d = Plain("AUTH_REQ")]
    <3>1. ctl'.c2d = Plain("AUTH_REQ")
      BY <2>2 DEF NoConnection
    <3> QED
      BY <3>1, PlainsFit, NewFine
  <2> QED
    BY <1>2, <2>1, <2>2 DEF Begin
<1>3. CASE FindAll \/ Open
    BY <1>2, <1>3 DEF FindAll, Open
<1>4. CASE ConnectFails
    BY <1>4 DEF ConnectFails, streamVars
<1>5. CASE Start
  <2>1. CASE SendStart(Entered, ctl)
    BY <2>1, PlainsFit, ToDaemonFine DEF SendStart
  <2> QED
    BY <1>1, <1>5, <2>1 DEF Start
<1>6. ASSUME NEW pc, NEW t \in {"UPDATEFILTER_REQ", "STATS_REQ", "ENDCAP_REQ"}, Ask(pc, t)
      PROVE  Fine(ctl', exits)
  <2>1. Send(t) \/ ctl' = ctl
    BY <1>6 DEF Ask
  <2> QED
    BY <1>1, <2>1
<1>7. CASE SetFilter
    BY <1>6, <1>7 DEF SetFilter
<1>8. CASE Stats
    BY <1>6, <1>8 DEF Stats
<1>9. Fine(CloseControl(ToDaemon(ctl, Plain("CLOSE"))), exits)
    BY PlainsFit, ToDaemonFine, CloseControlFine
<1>10. CASE Close
    BY <1>6, <1>9, <1>10 DEF Close
<1>11. CASE Accept
  <2>1. ctl' = [NoConnection EXCEPT !.c = "listen"]
    BY <1>11 DEF Accept
  <2>2. ctl'.c2d = <<>>
    BY <2>1 DEF NoConnection
  <2> QED
    BY <2>2, NewFine
<1>12. CASE CloseHost
    BY <1>9, <1>12 DEF CloseHost
<1> QED
    BY <1>3, <1>4, <1>5, <1>7, <1>8, <1>10, <1>11, <1>12 DEF Calls

LEMMA AnswersFine ==
    ASSUME Fine(ctl, exits), Answers, ctl' \in ControlType
    PROVE  Fine(ctl', exits)
<1>a. /\ Answered => Fine([ctl EXCEPT !.d2c = Unread], exits)
      /\ Fine([ctl EXCEPT !.d2c = IF Answered THEN Unread ELSE <<>>], exits)
      /\ Answered => Fine([Hangup EXCEPT !.d2c = IF cl.host THEN Unread ELSE <<>>], exits)
      /\ Fine([Hangup EXCEPT !.d2c = IF Answered /\ cl.host THEN Unread ELSE <<>>], exits)
      /\ Fine([Hangup EXCEPT !.d2c = <<>>], exits)
      /\ Fine(Hangup, exits)
    BY AnsweredFine
<1>b. \A t : (GoodAnswer(t) => Answered) /\ (OtherAnswer(t) => Answered)
    BY DEF GoodAnswer, OtherAnswer
<1>c. ASSUME NEW m, Fine(m, exits)
      PROVE  /\ Fine(CloseControl(m), exits)
             /\ \A d : StartFails(m, d) => Fine(ctl', exits)
             /\ \A c : SendStart(c, m) => Fine(ctl', exits)
             /\ Fine(ToDaemon(m, Plain("UPDATEFILTER_REQ")), exits)
             /\ Fine(ToDaemon(m, Plain("FINDALLIF_REQ")), exits)
             /\ Fine(ToDaemon(m, Plain("OPEN_REQ")), exits)
             /\ Fine(ToDaemon(m, Plain("AUTH_REQ")), exits)
             /\ Fine(ToDaemon(m, Plain("ERROR")), exits)
  <2>1. Fine(CloseControl(m), exits)
    BY <1>c, CloseControlFine
  <2>2. \A w : Fit(w) => Fine(ToDaemon(m, w), exits)
    BY <1>c, ToDaemonFine
  <2>3. \A d : StartFails(m, d) => Fine(ctl', exits)
    BY <1>c, <2>1 DEF StartFails
  <2>4. \A c : SendStart(c, m) => Fine(ctl', exits)
    BY <2>2, PlainsFit DEF SendStart
  <2> QED
    BY <2>1, <2>2, <2>3, <2>4, PlainsFit
<1>1. CASE Authenticated
  <2>1. RequestAfter(cl.pc)[2] \in {"FINDALLIF_REQ", "OPEN_REQ"}
    BY DEF RequestAfter
  <2>2. ctl' = ToDaemon([ctl EXCEPT !.d2c = Unread], Plain(RequestAfter(cl.pc)[2]))
    BY <1>1 DEF Authenticated
  <2>3. Fine([ctl EXCEPT !.d2c = Unread], exits)
    BY <1>1, <1>a, <1>b DEF Authenticated
  <2> QED
    BY <1>c, <2>1, <2>2, <2>3
<1>2. CASE NotAuthenticated
    BY <1>2, <1>c DEF NotAuthenticated
<1>3. CASE FoundAll
    BY <1>3, <1>a, <1>b DEF FoundAll
<1>4. CASE FindAllFails
    BY <1>4, <1>a, <1>b DEF FindAllFails
<1>5. CASE Opened
    BY <1>5, <1>a, <1>b DEF Opened
<1>6. CASE OpenFails
    BY <1>6, <1>a, <1>b DEF OpenFails
<1>7. CASE SamplingSet
  <2>1. SendStart(cl, [ctl EXCEPT !.d2c = Unread]) /\ Fine([ctl EXCEPT !.d2c = Unread], exits)
    BY <1>7, <1>a, <1>b DEF SamplingSet
  <2> QED
    BY <1>c, <2>1
<1>8. CASE SamplingFails
    BY <1>8, <1>a, <1>b DEF SamplingFails
<1>9. CASE StartReplied
  <2> DEFINE m == [ctl EXCEPT !.d2c = Unread]
  <2>1. Fine(m, exits)
    BY <1>9, <1>a, <1>b DEF StartReplied
  <2>2. \/ ctl' \in {m, ToDaemon(m, Plain("UPDATEFILTER_REQ"))}
        \/ \E d \in {data, Connected(data)} : StartFails(m, d)
    BY <1>9 DEF StartReplied
  <2> HIDE DEF m
  <2> QED
    BY <1>c, <2>1, <2>2
<1>10. CASE StartRefused
  <2> DEFINE m == [ctl EXCEPT !.d2c = IF Answered THEN Unread ELSE <<>>]
  <2>1. Fine(m, exits)
    BY <1>a
  <2>2. StartFails(m, data) \/ (Answered /\ ctl' = [ctl EXCEPT !.d2c = Unread])
    BY <1>10 DEF StartRefused
  <2> HIDE DEF m
  <2> QED
    BY <1>a, <1>c, <2>1, <2>2
<1>11. CASE FilterReplied
  <2> DEFINE m == [ctl EXCEPT !.d2c = IF Answered THEN Unread ELSE <<>>]
  <2>1. Fine(m, exits)
    BY <1>a
  <2>2. StartFails(m, data) \/ ctl' = m
    BY <1>11 DEF FilterReplied
  <2> HIDE DEF m
  <2> QED
    BY <1>c, <2>1, <2>2
<1>12. CASE StatsReplied
    BY <1>12, <1>a DEF StatsReplied
<1>13. CASE EndCapReplied
    BY <1>13, <1>a DEF EndCapReplied
<1>14. CASE AcceptHost
  <2>1. CASE Send("AUTH_REQ")
    BY <1>c, <2>1 DEF Send
  <2>2. CASE ctl' = NoConnection
    <3>1. ctl'.c2d = <<>>
      BY <2>2 DEF NoConnection
    <3> QED
      BY <3>1, NewFine
  <2> QED
    BY <1>14, <2>1, <2>2 DEF AcceptHost
<1>15. CASE HostAccepted
  <2>1. CASE Answered /\ ctl' = [ctl EXCEPT !.d2c = Unread]
    BY <1>a, <2>1
  <2>2. CASE ctl' = CloseControl(ToDaemon(ctl, Plain("ERROR")))
    BY <1>c, <2>2
  <2> QED
    BY <1>15, <1>b, <2>1, <2>2 DEF HostAccepted
<1> QED
    BY <1>1, <1>2, <1>3, <1>4, <1>5, <1>6, <1>7, <1>8, <1>9, <1>10, <1>11, <1>12, <1>13, <1>14,
       <1>15 DEF Answers

LEMMA EndsFine ==
    ASSUME NEW c, NEW taken, Fine(c, taken)
    PROVE  /\ Fine([c EXCEPT !.d = "closed"], taken) /\ Fine([c EXCEPT !.d = "held"], taken)
           /\ c.d = "backlog" => Fine([c EXCEPT !.d = "open"], taken)
<1>1. \A e \in Ends : e \notin {"backlog", "open"} \/ c.d = "backlog" => Fine([c EXCEPT !.d = e], taken)
    BY FineFields, Zenon
<1>2. "closed" \notin {"backlog", "open"} /\ "held" \notin {"backlog", "open"}
    OBVIOUS
<1> QED
    BY <1>1, <1>2, EndsNamed

LEMMA ServiceFine ==
    ASSUME Fine(ctl, exits), Service, ctl' \in ControlType
    PROVE  Fine(ctl', exits')
<1>1. CASE AcceptControl
  <2> DEFINE m == [ctl EXCEPT !.d = "open"]
             e == SendError(m)
  <2>1. Fine(m, exits)
    BY <1>1, EndsFine DEF AcceptControl
  <2>2. Fine(e, exits)
    BY <2>1, SendErrorFine
  <2>3. ctl' \in {[e EXCEPT !.d = "closed"], m} /\ exits \subseteq exits'
    BY <1>1 DEF AcceptControl
  <2> HIDE DEF e, m
  <2>4. Fine(ctl', exits)
    BY <2>1, <2>2, <2>3, EndsFine
  <2> QED
    BY <2>3, <2>4, FineLater
<1>2. CASE ConnectActive
  <2>1. ctl'.c2d = <<>>
    BY <1>2 DEF ConnectActive, NoConnection
  <2> QED
    BY <2>1, NewFine
<1>3. CASE Pause \/ ReadConfiguration
    BY <1>3 DEF Pause, ReadConfiguration, streamVars
<1>4. CASE Stop
  <2>1. ctl' \in {ctl, [ctl EXCEPT !.d = "closed"]} /\ exits' = exits
    BY <1>4 DEF Stop
  <2> QED
    BY <2>1, EndsFine
<1> QED
    BY <1>1, <1>2, <1>3, <1>4 DEF Service

LEMMA EndLoopFine ==
    ASSUME NEW c, Fine(c, exits), NEW asked, EndLoop(c, asked)
    PROVE  Fine(ctl', exits')
<1>1. ctl' \in {[c EXCEPT !.d = "held"], [c EXCEPT !.d = "closed"]}
    BY DEF EndLoop
<1>2. exits \subseteq exits'
    BY DEF EndLoop, EndCapture
<1>3. Fine(ctl', exits)
    BY <1>1, EndsFine
<1> QED
    BY <1>2, <1>3, FineLater

LEMMA StartErrorFine ==
    ASSUME NEW c, NEW used, Fine(c, exits \cup used), StartError(c, used)
    PROVE  Fine(ctl', exits')
<1>1. ctl' = SendError(c) /\ exits \cup used \subseteq exits'
    BY DEF StartError
<1>2. Fine(ctl', exits \cup used)
    BY <1>1, SendErrorFine
<1> QED
    BY <1>1, <1>2, FineLater

LEMMA StartThreadFine ==
    ASSUME NEW c, NEW reached, Fine(c, exits), StartThread(c, data, reached)
    PROVE  Fine(ctl', exits')
<1>1. CASE ctl' = c /\ exits \subseteq exits'
    BY <1>1, FineLater
<1>2. CASE StartError(c, {"lateError"})
  <2>1. Fine(c, exits \cup {"lateError"})
    BY FineLater
  <2> QED
    BY <1>2, <2>1, StartErrorFine
<1> QED
    BY <1>1, <1>2 DEF StartThread

LEMMA ServeFine ==
    ASSUME Fine(ctl, exits), Serve
    PROVE  Fine(ctl', exits')
<1>t. ASSUME NEW t, LoopTakes(t)
      PROVE  /\ Fine(Took(Rest), exits)
             /\ Request.plen = Request.n => Fine(Took(After(ctl.c2d, 1 + Request.plen)), exits)
             /\ Fine(Took(After(ctl.c2d, 1 + Request.plen)), exits \cup {"lengthTooShort"})
             /\ Request.plen = Request.n \/ Request.plen < Request.n
             /\ \A k \in Nat : Fine(Took(After(ctl.c2d, k)), exits \cup {"requestNotRead"})
    BY <1>t, TookFine DEF LoopTakes, Waiting
<1>c. ASSUME NEW c, NEW taken, Fine(c, taken)
      PROVE  /\ Fine(SendError(c), taken)
             /\ \A t \in {"FINDALLIF_REPLY", "OPEN_REPLY", "SETSAMPLING_REPLY", "STARTCAP_REPLY",
                          "UPDATEFILTER_REPLY", "STATS_REPLY", "ENDCAP_REPLY"} :
                    Fine(ToClient(c, Plain(t)), taken)
    BY <1>c, SendErrorFine, ToClientFine, PlainsTyped
<1>1. CASE FindAllDevs
  <2>1. Fine(ctl', exits) /\ exits \subseteq exits'
    BY <1>1, <1>t, <1>c DEF FindAllDevs
  <2> QED
    BY <2>1, FineLater
<1>2. CASE OpenSource \/ GetStats \/ SetSampling
  <2>1. Fine(ctl', exits) /\ exits' = exits
    BY <1>2, <1>t, <1>c DEF OpenSource, GetStats, SetSampling
  <2> QED
    BY <2>1
<1>3. CASE StartNoSource
  <2>1. ctl' = SendError(Took(After(ctl.c2d, 2))) /\ exits \cup {"requestNotRead"} \subseteq exits'
    BY <1>3 DEF StartNoSource
  <2>2. Fine(Took(After(ctl.c2d, 2)), exits \cup {"requestNotRead"})
    BY <1>3, <1>t DEF StartNoSource
  <2>3. Fine(ctl', exits \cup {"requestNotRead"})
    BY <1>c, <2>1, <2>2
  <2> QED
    BY <2>1, <2>3, FineLater
<1>4. CASE StartNoConnection
  <2> DEFINE c == Took(After(ctl.c2d, 1 + Request.plen))
  <2>1. StartError(c, IF Request.plen < Request.n THEN {"lengthTooShort"} ELSE {})
    BY <1>4 DEF StartNoConnection
  <2>2. /\ Request.plen = Request.n => Fine(c, exits)
        /\ Fine(c, exits \cup {"lengthTooShort"})
        /\ Request.plen = Request.n \/ Request.plen < Request.n
    BY <1>4, <1>t DEF StartNoConnection
  <2> HIDE DEF c
  <2>3. CASE Request.plen < Request.n
    BY <2>1, <2>2, <2>3, StartErrorFine
  <2>4. CASE ~(Request.plen < Request.n)
    <3>1. Fine(c, exits \cup {})
      BY <2>2, <2>4, FineLater
    <3> QED
      BY <2>1, <2>4, <3>1, StartErrorFine
  <2> QED
    BY <2>3, <2>4
<1>5. CASE StartNoFilter
  <2>1. StartError(Took(Rest), {}) /\ Fine(Took(Rest), exits)
    BY <1>5, <1>t DEF StartNoFilter
  <2>2. Fine(Took(Rest), exits \cup {})
    BY <2>1, FineLater
  <2> QED
    BY <2>1, <2>2, StartErrorFine
<1>6. CASE StartServeOpen
  <2> DEFINE c == ToClient(Took(Rest), Plain("STARTCAP_REPLY"))
  <2>1. StartThread(c, data, PortIsOpen) /\ Fine(c, exits)
    BY <1>6, <1>t, <1>c DEF StartServeOpen
  <2> HIDE DEF c
  <2> QED
    BY <2>1, StartThreadFine
<1>7. CASE StartListen
    BY <1>7, <1>t, <1>c DEF StartListen
<1>8. CASE AcceptData
    BY <1>8, StartThreadFine DEF AcceptData
<1>9. CASE UpdateFilter
  <2>1. CASE exits' = exits /\ ctl' \in {ToClient(Took(Rest), Plain("UPDATEFILTER_REPLY")), SendError(Took(Rest))}
    BY <1>9, <1>t, <1>c, <2>1 DEF UpdateFilter
  <2>2. CASE exits' = exits \cup {"requestNotRead"} /\ ctl' = SendError(Took(After(ctl.c2d, 1)))
    BY <1>9, <1>t, <1>c, <2>2 DEF UpdateFilter
  <2> QED
    BY <1>9, <2>1, <2>2 DEF UpdateFilter
<1>10. CASE EndCap
  <2>1. Fine(ctl', exits) /\ exits \subseteq exits'
    BY <1>10, <1>t, <1>c DEF EndCap, EndCapture
  <2> QED
    BY <2>1, FineLater
<1>11. CASE CloseSession
    BY <1>11, <1>t, EndLoopFine DEF CloseSession
<1> QED
    BY <1>1, <1>2, <1>3, <1>4, <1>5, <1>6, <1>7, <1>8, <1>9, <1>10, <1>11 DEF Serve

LEMMA LoopFine ==
    ASSUME Fine(ctl, exits), Loop
    PROVE  Fine(ctl', exits')
<1>1. CASE TimeOut
    BY <1>1, SendErrorFine, EndLoopFine DEF TimeOut
<1>2. CASE ConnectionLost
    BY <1>2, FineFields, EndLoopFine DEF ConnectionLost
<1>3. CASE Authenticate
  <2>1. Fine(Took(Rest), exits)
    BY <1>3, TookFine DEF Authenticate, Waiting
  <2>2. /\ ctl' \in {SendError(Took(Rest)), ToClient(Took(Rest), Plain("AUTH_REPLY"))}
        /\ exits' = exits
    BY <1>3 DEF Authenticate
  <2>3. Fine(SendError(Took(Rest)), exits) /\ Fine(ToClient(Took(Rest), Plain("AUTH_REPLY")), exits)
    BY <2>1, SendErrorFine, ToClientFine, PlainsTyped
  <2> QED
    BY <2>2, <2>3
<1>4. CASE AuthGivenUp
  <2>1. Fine(Took(Rest), exits)
    BY <1>4, TookFine DEF AuthGivenUp, Waiting
  <2> QED
    BY <1>4, <2>1, EndLoopFine DEF AuthGivenUp
<1>5. CASE OutOfFrame
    BY <1>5 DEF OutOfFrame, streamVars
<1> QED
    BY <1>1, <1>2, <1>3, <1>4, <1>5, ServeFine DEF Loop

LEMMA ThreadFine ==
    ASSUME Fine(ctl, exits), Thread
    PROVE  Fine(ctl', exits')
<1>1. CASE ThreadReady \/ SendPacket \/ ThreadEnd
    BY <1>1 DEF ThreadReady, SendPacket, ThreadEnd, streamVars
<1>2. CASE ReadFails
  <2>1. ctl' = SendError(ctl) /\ exits \subseteq exits'
    BY <1>2 DEF ReadFails
  <2> QED
    BY <2>1, SendErrorFine, FineLater
<1> QED
    BY <1>1, <1>2 DEF Thread

LEMMA BreakFine ==
    ASSUME Fine(ctl, exits), Break, ctl' \in ControlType
    PROVE  Fine(ctl', exits')
<1>1. CASE BreakData
    BY <1>1 DEF BreakData
<1>2. CASE BreakControl
  <2>1. PICK s \in Cut(ctl.c2d), r \in Cut(ctl.d2c) :
            ctl' = [ctl EXCEPT !.up = FALSE, !.c2d = s, !.d2c = r]
    BY <1>2 DEF BreakControl
  <2>2. Framed(s) /\ s \in Seq(Unit) /\ (AtBoundary(ctl.c2d) => AtBoundary(s))
    BY PrefixFramed DEF Fine, ControlType
  <2>3. ctl'.c2d = s /\ ctl'.up = FALSE /\ ctl'.d = ctl.d /\ exits' = exits
    BY <1>2, <2>1 DEF BreakControl, Fine, ControlType
  <2> QED
    BY <2>2, <2>3 DEF Fine, InFrame
<1> QED
    BY <1>1, <1>2 DEF Break

FrameInv == SessionInv /\ Fine(ctl, exits)

LEMMA InitFrame == Init => FrameInv
<1> SUFFICES ASSUME Init PROVE FrameInv
    OBVIOUS
<1>1. SessionInv /\ ctl \in ControlType
    BY InitSession DEF SessionInv, WiresTyped
<1>2. ctl.c2d = <<>>
    BY DEF Init, NoConnection
<1> QED
    BY <1>1, <1>2, NewFine DEF FrameInv

LEMMA NextFrame == FrameInv /\ [Next]_vars => FrameInv'
<1> SUFFICES ASSUME FrameInv, [Next]_vars PROVE FrameInv'
    OBVIOUS
<1>1. SessionInv' /\ ctl' \in ControlType
    BY NextSession DEF FrameInv, SessionInv, WiresTyped
<1>2. SessionInv /\ Fine(ctl, exits) /\ WiresTyped
    BY DEF FrameInv, SessionInv
<1>3. CASE ClientStep
  <2>1. Reads \/ LoseDatagram => ctl' = ctl
    BY DEF Reads, ReadTcp, ReadUdp, LoseDatagram
  <2>2. Fine(ctl', exits)
    BY <1>1, <1>2, <1>3, <2>1, CallsFine, AnswersFine DEF ClientStep
  <2> QED
    BY <1>1, <1>2, <1>3, <2>2, ClientExits, FineLater DEF FrameInv
<1>4. CASE DaemonStep
    BY <1>1, <1>2, <1>4, ServiceFine, LoopFine, ThreadFine DEF DaemonStep, FrameInv
<1>5. CASE Break
    BY <1>1, <1>2, <1>5, BreakFine DEF FrameInv
<1>6. CASE UNCHANGED vars
    BY <1>1, <1>2, <1>6 DEF vars, streamVars, FrameInv
<1> QED
    BY <1>3, <1>4, <1>5, <1>6 DEF Next

LEMMA FrameInvariant == Spec => []FrameInv
BY InitFrame, NextFrame, PTL DEF Spec

(* daemon_serviceloop (daemon.c) reads headers where headers are: whatever  *)
(* the client asks, in what order and where the connection breaks, the      *)
(* daemon stands at a message boundary, unless it has answered a request    *)
(* that it had not read or believed a length that was too short.            *)
THEOREM DaemonStaysInFrame == Spec => []DaemonInFrame
<1>1. FrameInv => DaemonInFrame
    BY DEF FrameInv, Fine, InFrame, FrameExits, DaemonInFrame, None
<1> QED
    BY <1>1, FrameInvariant, PTL

----------------------------------------------------------------------------
(* Requests and replies: as long as both ends are joined and nobody has     *)
(* sent what answers nothing, the connection is quiet, or holds the request *)
(* of the call in progress, or holds its reply.                             *)
StrayExits == {"threadError", "lateError", "requestNotRead", "lengthTooShort"}

Joined(c) == c.c = "open" /\ c.d \in {"backlog", "open"} /\ c.up

Quiet(c) == Joined(c) => c.c2d = <<>> /\ c.d2c = <<>>

RequestOf == [findall |-> "FINDALLIF_REQ", open |-> "OPEN_REQ", samp |-> "SETSAMPLING_REQ",
              start |-> "STARTCAP_REQ", norpcap |-> "UPDATEFILTER_REQ", upd |-> "UPDATEFILTER_REQ",
              stats |-> "STATS_REQ", endcap |-> "ENDCAP_REQ", auth_findall |-> "AUTH_REQ",
              auth_open |-> "AUTH_REQ", auth_host |-> "AUTH_REQ"]

Waits == {"findall", "open", "samp", "start", "norpcap", "upd", "stats", "endcap",
          "auth_findall", "auth_open", "auth_host"}

Asked(pc, m) ==
    /\ pc \in Waits
    /\ m = Plain(RequestOf[pc]) \/ (pc = "start" /\ m = Message("STARTCAP_REQ", 2, 3))

Replied(pc, m) == pc \in Waits /\ m \in {Plain(ReplyTo[pc]), Plain("ERROR")}

Balanced(pc, c) ==
    Joined(c) =>
        \/ c.c2d = <<>> /\ c.d2c = <<>>
        \/ c.d2c = <<>> /\ Asked(pc, c.c2d)
        \/ c.c2d = <<>> /\ Replied(pc, c.d2c)

LEMMA WaitsNamed ==
    /\ DOMAIN ReplyTo = Waits
    /\ \A pc \in Waits : /\ RequestOf[pc] \in Requests \cup Replies
                         /\ ReplyTo[pc] \in Requests \cup Replies
                         /\ pc = "start" <=> RequestOf[pc] = "STARTCAP_REQ"
BY DEF ReplyTo, RequestOf, Waits, Requests, Replies

\* what a whole message is to the end that takes it
Whole(m, t) ==
    /\ m \in Seq(Unit) /\ m # <<>>
    /\ Head(m).t = t
    /\ After(m, 1 + Head(m).n) = <<>>

LEMMA MessageWhole ==
    ASSUME NEW t \in Requests \cup Replies, NEW plen \in Nat, NEW n \in Nat
    PROVE  Whole(Message(t, plen, n), t)
<1> DEFINE m == Message(t, plen, n)
<1>1. m \in Seq(Unit) /\ Len(m) = n + 1 /\ m[1] = [t |-> t, plen |-> plen, n |-> n]
    BY MessageShape
<1> HIDE DEF m
<1>2. m # <<>>
    BY <1>1
<1>3. Head(m) = [t |-> t, plen |-> plen, n |-> n]
    BY <1>1, <1>2, HeadTailProperties
<1>4. 1 + n \in Nat
    OBVIOUS
<1>5. /\ After(m, 1 + n) \in Seq(Unit)
      /\ Len(After(m, 1 + n)) = IF 1 + n <= Len(m) THEN Len(m) - (1 + n) ELSE 0
    BY <1>1, <1>4, AfterTyped
<1>6. After(m, 1 + n) = <<>>
  <2>1. Len(After(m, 1 + n)) = 0
    BY <1>1, <1>5
  <2> QED
    BY <1>5, <2>1, EmptySeq
<1>7. Head(m).t = t /\ Head(m).n = n
    BY <1>3
<1> QED
    BY <1>1, <1>2, <1>6, <1>7 DEF m, Whole

LEMMA PlainWhole ==
    ASSUME NEW t \in Requests \cup Replies
    PROVE  Whole(Plain(t), t)
<1>1. PayloadOf[t] \in Nat
    BY PayloadTyped
<1> QED
    BY <1>1, MessageWhole DEF Plain

LEMMA AskedWhole ==
    ASSUME NEW pc, NEW m, Asked(pc, m)
    PROVE  Whole(m, RequestOf[pc])
<1>1. pc \in Waits /\ RequestOf[pc] \in Requests \cup Replies
    BY WaitsNamed DEF Asked
<1>2. CASE m = Plain(RequestOf[pc])
    BY <1>1, <1>2, PlainWhole
<1>3. CASE pc = "start" /\ m = Message("STARTCAP_REQ", 2, 3)
  <2>1. "STARTCAP_REQ" \in Requests \cup Replies /\ RequestOf[pc] = "STARTCAP_REQ"
    BY <1>1, <1>3, WaitsNamed DEF Requests
  <2>2. 2 \in Nat /\ 3 \in Nat
    OBVIOUS
  <2>3. Whole(Message("STARTCAP_REQ", 2, 3), "STARTCAP_REQ")
    BY <2>1, <2>2, MessageWhole
  <2> QED
    BY <1>3, <2>1, <2>3
<1> QED
    BY <1>2, <1>3 DEF Asked

LEMMA RepliedWhole ==
    ASSUME NEW pc, NEW m, Replied(pc, m)
    PROVE  Whole(m, ReplyTo[pc]) \/ Whole(m, "ERROR")
<1>1. ReplyTo[pc] \in Requests \cup Replies /\ "ERROR" \in Requests \cup Replies
    BY WaitsNamed DEF Replied, Replies
<1> QED
    BY <1>1, PlainWhole DEF Replied

LEMMA QuietBalanced == ASSUME NEW c, Quiet(c), NEW pc PROVE Balanced(pc, c)
BY DEF Quiet, Balanced

LEMMA CallQuiet ==
    ASSUME Balanced(cl.pc, ctl), cl.pc \notin Waits
    PROVE  Quiet(ctl)
BY DEF Balanced, Quiet, Asked, Replied

\* A request on a quiet connection.
LEMMA AskBalanced ==
    ASSUME NEW c \in ControlType, Quiet(c), NEW pc, NEW m, Asked(pc, m)
    PROVE  Balanced(pc, ToDaemon(c, m))
<1>1. m \in Seq(Unit)
    BY AskedWhole DEF Whole
<1>2. CASE c.up /\ c.d \in {"backlog", "open"} /\ c.c = "open"
  <2>1. c.c2d = <<>> /\ c.d2c = <<>>
    BY <1>2 DEF Quiet, Joined
  <2>2. c.c2d \o m = m
    BY <1>1, <2>1, ConcatEmptySeq
  <2>3. ToDaemon(c, m) = [c EXCEPT !.c2d = m]
    BY <1>2, <2>2 DEF ToDaemon
  <2>4. ToDaemon(c, m).c2d = m /\ ToDaemon(c, m).d2c = <<>>
    BY <2>1, <2>3 DEF ControlType
  <2> QED
    BY <2>4 DEF Balanced
<1>3. CASE ~(c.up /\ c.d \in {"backlog", "open"} /\ c.c = "open")
    BY <1>3 DEF ToDaemon, Balanced, Joined
<1> QED
    BY <1>2, <1>3

\* A reply on a quiet connection.
LEMMA ReplyBalanced ==
    ASSUME NEW c \in ControlType, Quiet(c), NEW pc, NEW t, Joined(c) => Replied(pc, Plain(t))
    PROVE  Balanced(pc, ToClient(c, Plain(t)))
<1>2. CASE c.up /\ c.c = "open" /\ c.d = "open"
  <2>1. c.c2d = <<>> /\ c.d2c = <<>> /\ Replied(pc, Plain(t))
    BY <1>2 DEF Quiet, Joined
  <2>2. c.d2c \o Plain(t) = Plain(t)
    BY <2>1, RepliedWhole, ConcatEmptySeq DEF Whole
  <2>3. ToClient(c, Plain(t)) = [c EXCEPT !.d2c = Plain(t)]
    BY <1>2, <2>2 DEF ToClient
  <2>4. ToClient(c, Plain(t)).d2c = Plain(t) /\ ToClient(c, Plain(t)).c2d = <<>>
    BY <2>1, <2>3 DEF ControlType
  <2> QED
    BY <2>1, <2>4 DEF Balanced
<1>3. CASE ~(c.up /\ c.d = "open" /\ c.c = "open")
    BY <1>3, QuietBalanced DEF ToClient
<1> QED
    BY <1>2, <1>3

\* The answer is taken, or there is none.
LEMMA AnsweredQuiet ==
    ASSUME ctl \in ControlType, Balanced(cl.pc, ctl)
    PROVE  /\ Answered => Quiet([ctl EXCEPT !.d2c = Unread])
           /\ NoAnswer \/ Answered => Quiet([ctl EXCEPT !.d2c = IF Answered THEN Unread ELSE <<>>])
           /\ NoAnswer => Quiet(ctl)
<1>1. NoAnswer => ~Joined(ctl)
    BY DEF NoAnswer, ClientEof, Joined
<1>2. ASSUME NEW s \in Seq(Unit)
      PROVE  /\ Joined([ctl EXCEPT !.d2c = s]) <=> Joined(ctl)
             /\ [ctl EXCEPT !.d2c = s].d2c = s /\ [ctl EXCEPT !.d2c = s].c2d = ctl.c2d
    BY DEF ControlType, Joined
<1>3. ASSUME Answered PROVE Quiet([ctl EXCEPT !.d2c = Unread])
  <2>1. Unread \in Seq(Unit)
    BY <1>3, UnreadTyped
  <2>2. ASSUME Joined(ctl) PROVE ctl.c2d = <<>> /\ Unread = <<>>
    <3>1. ctl.c2d = <<>> /\ Replied(cl.pc, ctl.d2c)
      BY <1>3, <2>2 DEF Balanced, Answered
    <3> QED
      BY <3>1, RepliedWhole DEF Whole, Unread, Answer
  <2> QED
    BY <1>2, <2>1, <2>2 DEF Quiet
<1>4. ASSUME NoAnswer, ~Answered PROVE Quiet([ctl EXCEPT !.d2c = <<>>])
    BY <1>1, <1>2, <1>4, EmptyTyped DEF Quiet
<1> QED
    BY <1>1, <1>3, <1>4 DEF Quiet

LEMMA ClosedQuiet ==
    ASSUME NEW c \in ControlType
    PROVE  Quiet(CloseControl(c)) /\ ~Joined(CloseControl(c))
BY DEF CloseControl, ControlType, Quiet, Joined

LEMMA RequestsNamed ==
    /\ RequestOf["findall"] = "FINDALLIF_REQ" /\ RequestOf["open"] = "OPEN_REQ"
    /\ RequestOf["samp"] = "SETSAMPLING_REQ" /\ RequestOf["start"] = "STARTCAP_REQ"
    /\ RequestOf["norpcap"] = "UPDATEFILTER_REQ" /\ RequestOf["upd"] = "UPDATEFILTER_REQ"
    /\ RequestOf["stats"] = "STATS_REQ" /\ RequestOf["endcap"] = "ENDCAP_REQ"
    /\ RequestOf["auth_findall"] = "AUTH_REQ" /\ RequestOf["auth_open"] = "AUTH_REQ"
    /\ RequestOf["auth_host"] = "AUTH_REQ"
BY DEF RequestOf

LEMMA WaitsPlaced ==
    /\ Waits \subseteq CallPlaces
    /\ "idle" \notin Waits /\ "accept" \notin Waits /\ "lost" \notin Waits
BY DEF Waits, CallPlaces

\* The request that pc names, on a quiet connection.
Asks(pc, t) == pc \in Waits /\ RequestOf[pc] = t

LEMMA AsksNamed ==
    /\ Asks("findall", "FINDALLIF_REQ") /\ Asks("open", "OPEN_REQ")
    /\ Asks("samp", "SETSAMPLING_REQ")
    /\ Asks("norpcap", "UPDATEFILTER_REQ") /\ Asks("upd", "UPDATEFILTER_REQ")
    /\ Asks("stats", "STATS_REQ") /\ Asks("endcap", "ENDCAP_REQ")
    /\ Asks("auth_findall", "AUTH_REQ") /\ Asks("auth_open", "AUTH_REQ")
    /\ Asks("auth_host", "AUTH_REQ")
BY RequestsNamed DEF Asks, Waits

LEMMA RequestBalanced ==
    ASSUME NEW c \in ControlType, Quiet(c), NEW pc, NEW t, Asks(pc, t)
    PROVE  Balanced(pc, ToDaemon(c, Plain(t)))
<1>1. Asked(pc, Plain(t))
    BY DEF Asked, Asks
<1> QED
    BY <1>1, AskBalanced

LEMMA PlacedBalanced ==
    ASSUME ClientInv, NEW c \in {cl, Entered}, Enter \/ c = cl, NEW m \in ControlType, Quiet(m),
           NEW pc, NEW t, Asks(pc, t), cl' = [c EXCEPT !.pc = pc], ctl' = ToDaemon(m, Plain(t))
    PROVE  Balanced(cl'.pc, ctl')
<1>1. pc \in CallPlaces
    BY WaitsPlaced DEF Asks
<1>2. cl'.pc = pc
    BY <1>1, PlaceAt
<1>3. Balanced(pc, ctl')
    BY RequestBalanced
<1> QED
    BY <1>2, <1>3

LEMMA SendStartBalanced ==
    ASSUME ClientInv, NEW c \in {cl, Entered}, Enter \/ c = cl, NEW m \in ControlType, Quiet(m),
           SendStart(c, m)
    PROVE  Balanced(cl'.pc, ctl')
<1>1. "start" \in Waits /\ "start" \in CallPlaces
    BY WaitsPlaced DEF Waits
<1>2. cl' = [c EXCEPT !.pc = "start"] /\ ctl' = ToDaemon(m, StartRequest(c))
    BY DEF SendStart
<1>3. StartRequest(c) = Plain("STARTCAP_REQ") \/ StartRequest(c) = Message("STARTCAP_REQ", 2, 3)
    BY DEF StartRequest, Plain, PayloadOf, Requests, Replies
<1>4. Asked("start", StartRequest(c))
    BY <1>1, <1>3, RequestsNamed DEF Asked
<1>5. Balanced("start", ctl')
    BY <1>2, <1>4, AskBalanced
<1>6. cl'.pc = "start"
    BY <1>1, <1>2, PlaceAt
<1> QED
    BY <1>5, <1>6

LEMMA BeginBalanced ==
    ASSUME ClientInv, ctl \in ControlType, Quiet(ctl), NEW pc, NEW auth, NEW t,
           Begin(pc, auth, t), Asks(pc, t), Asks(auth, "AUTH_REQ")
    PROVE  Balanced(cl'.pc, ctl')
<1>0. Enter
    BY DEF Begin
<1>1. ASSUME NEW p, p \in Waits, cl' = [Entered EXCEPT !.pc = p, !.sockcount = @ + 1]
      PROVE  cl'.pc = p
  <2>1. GoesTo(Entered, p, 1)
    BY <1>0, <1>1, WaitsPlaced, EnteredIdle, InitGoes
  <2> QED
    BY <2>1 DEF GoesTo
<1>2. CASE Send(t) /\ cl' = [Entered EXCEPT !.pc = pc, !.sockcount = @ + 1]
  <2>1. Balanced(pc, ctl')
    BY <1>2, RequestBalanced DEF Send
  <2> QED
    BY <1>1, <1>2, <2>1 DEF Asks
<1>3. CASE /\ ctl' = [NoConnection EXCEPT !.c = "open", !.d = "backlog", !.c2d = Plain("AUTH_REQ")]
           /\ cl' = [Entered EXCEPT !.pc = auth, !.sockcount = @ + 1]
  <2>1. ctl'.c2d = Plain("AUTH_REQ") /\ ctl'.d2c = <<>>
    BY <1>3 DEF NoConnection
  <2>2. Asked(auth, Plain("AUTH_REQ"))
    BY DEF Asks, Asked
  <2>3. Balanced(auth, ctl')
    BY <2>1, <2>2 DEF Balanced
  <2> QED
    BY <1>1, <1>3, <2>3 DEF Asks
<1> QED
    BY <1>2, <1>3 DEF Begin

LEMMA AskingBalanced ==
    ASSUME ClientInv, ctl \in ControlType, Quiet(ctl), NEW pc, NEW t, Enter, Ask(pc, t), Asks(pc, t)
    PROVE  Balanced(cl'.pc, ctl')
<1>1. CASE Send(t) /\ cl' = [Entered EXCEPT !.pc = pc]
    BY <1>1, PlacedBalanced DEF Send
<1>2. CASE ctl' = ctl
    BY <1>2, QuietBalanced
<1> QED
    BY <1>1, <1>2 DEF Ask

LEMMA CallsBalanced ==
    ASSUME ClientInv, ctl \in ControlType, Balanced(cl.pc, ctl), Calls
    PROVE  Balanced(cl'.pc, ctl')
<1>1. Enter /\ cl.pc = "idle"
    BY DEF Calls, FindAll, Open, Begin, ConnectFails, Start, SetFilter, Stats, Close, Accept,
       CloseHost, Enter
<1>2. Quiet(ctl)
    BY <1>1, CallQuiet, WaitsPlaced
<1>3. CASE ctl' = ctl
    BY <1>2, <1>3, QuietBalanced
<1>4. ASSUME NEW m \in ControlType, ctl' = CloseControl(m) PROVE Balanced(cl'.pc, ctl')
    BY <1>4, ClosedQuiet, QuietBalanced
<1>5. ToDaemon(ctl, Plain("CLOSE")) \in ControlType
    BY PlainsTyped, ToDaemonTyped
<1>6. CASE FindAll \/ Open
    BY <1>2, <1>6, AsksNamed, BeginBalanced DEF FindAll, Open
<1>7. CASE ConnectFails
    BY <1>3, <1>7 DEF ConnectFails, streamVars
<1>8. CASE Start
  <2>1. CASE SendStart(Entered, ctl)
    BY <1>1, <1>2, <2>1, SendStartBalanced
  <2>2. CASE Send("SETSAMPLING_REQ") /\ cl' = [Entered EXCEPT !.pc = "samp"]
    BY <1>1, <1>2, <2>2, AsksNamed, PlacedBalanced DEF Send
  <2> QED
    BY <1>3, <1>8, <2>1, <2>2 DEF Start
<1>9. CASE SetFilter
    BY <1>1, <1>2, <1>3, <1>9, AsksNamed, AskingBalanced DEF SetFilter
<1>10. CASE Stats
    BY <1>1, <1>2, <1>10, AsksNamed, AskingBalanced DEF Stats
<1>11. CASE Close
    BY <1>1, <1>2, <1>3, <1>4, <1>5, <1>11, AsksNamed, AskingBalanced DEF Close
<1>12. CASE Accept
  <2>1. ctl' = [NoConnection EXCEPT !.c = "listen"]
    BY <1>12 DEF Accept
  <2>2. ~Joined(ctl')
    BY <2>1 DEF NoConnection, Joined
  <2> QED
    BY <2>2 DEF Balanced
<1>13. CASE CloseHost
    BY <1>3, <1>4, <1>5, <1>13 DEF CloseHost
<1> QED
    BY <1>6, <1>7, <1>8, <1>9, <1>10, <1>11, <1>12, <1>13 DEF Calls

\* What the client does to the connection when it takes an answer, and hangs up.
LEMMA HangupQuiet ==
    ASSUME ctl \in ControlType, Balanced(cl.pc, ctl)
    PROVE  /\ Answered => Quiet([Hangup EXCEPT !.d2c = IF cl.host THEN Unread ELSE <<>>])
           /\ Answered \/ NoAnswer
                  => Quiet([Hangup EXCEPT !.d2c = IF Answered /\ cl.host THEN Unread ELSE <<>>])
           /\ NoAnswer => Quiet([Hangup EXCEPT !.d2c = <<>>]) /\ Quiet(Hangup)
<1>1. CASE cl.host
  <2>1. Hangup = ctl
    BY <1>1 DEF Hangup
  <2>2. NoAnswer => ~Answered
    BY DEF NoAnswer
  <2> QED
    BY <1>1, <2>1, <2>2, AnsweredQuiet
<1>2. CASE ~cl.host
  <2>1. Hangup = CloseControl(ctl) /\ Hangup \in ControlType /\ ~Joined(Hangup)
    BY <1>2, ClosedQuiet, HangupTyped DEF Hangup
  <2>2. \A s : Hangup.c = [Hangup EXCEPT !.d2c = s].c /\ Hangup.c # "open"
    BY <2>1 DEF ControlType, CloseControl
  <2> QED
    BY <2>1, <2>2 DEF Quiet, Joined
<1> QED
    BY <1>1, <1>2

LEMMA StartFailsQuiet ==
    ASSUME NEW m \in ControlType, Quiet(m), NEW d, StartFails(m, d)
    PROVE  Quiet(ctl')
BY ClosedQuiet DEF StartFails

LEMMA AnswersBalanced ==
    ASSUME ClientInv, ctl \in ControlType, Balanced(cl.pc, ctl), Answers
    PROVE  Balanced(cl'.pc, ctl')
<1>q. Quiet(ctl') => Balanced(cl'.pc, ctl')
    BY QuietBalanced
<1>a. /\ Answered => /\ Quiet([ctl EXCEPT !.d2c = Unread])
                     /\ [ctl EXCEPT !.d2c = Unread] \in ControlType
      /\ NoAnswer \/ Answered => Quiet([ctl EXCEPT !.d2c = IF Answered THEN Unread ELSE <<>>])
      /\ [ctl EXCEPT !.d2c = IF Answered THEN Unread ELSE <<>>] \in ControlType
    BY AnsweredQuiet, AnsweredTyped
<1>b. \A t : (GoodAnswer(t) => Answered) /\ (OtherAnswer(t) => Answered)
    BY DEF GoodAnswer, OtherAnswer
<1>h. /\ Answered => Quiet([Hangup EXCEPT !.d2c = IF cl.host THEN Unread ELSE <<>>])
      /\ Answered \/ NoAnswer
             => Quiet([Hangup EXCEPT !.d2c = IF Answered /\ cl.host THEN Unread ELSE <<>>])
      /\ NoAnswer => Quiet([Hangup EXCEPT !.d2c = <<>>]) /\ Quiet(Hangup) /\ ~Answered
    BY HangupQuiet DEF NoAnswer
<1>1. CASE Authenticated
  <2> DEFINE m == [ctl EXCEPT !.d2c = Unread]
             pc == RequestAfter(cl.pc)[1]
             t == RequestAfter(cl.pc)[2]
  <2>1. m \in ControlType /\ Quiet(m)
    BY <1>1, <1>a, <1>b DEF Authenticated
  <2>2. cl' = [cl EXCEPT !.pc = pc] /\ ctl' = ToDaemon(m, Plain(t))
    BY <1>1 DEF Authenticated
  <2>3. Asks(pc, t)
    BY AsksNamed DEF RequestAfter
  <2> HIDE DEF m, pc, t
  <2> QED
    BY <2>1, <2>2, <2>3, PlacedBalanced
<1>2. CASE NotAuthenticated
    BY <1>2, <1>q, ClosedQuiet DEF NotAuthenticated
<1>3. CASE FoundAll
    BY <1>3, <1>b, <1>h, <1>q DEF FoundAll
<1>4. CASE FindAllFails
    BY <1>4, <1>b, <1>h, <1>q DEF FindAllFails
<1>5. CASE Opened
    BY <1>5, <1>a, <1>b, <1>q DEF Opened
<1>6. CASE OpenFails
    BY <1>6, <1>a, <1>b, <1>h, <1>q DEF OpenFails
<1>7. CASE SamplingSet
    BY <1>7, <1>a, <1>b, SendStartBalanced DEF SamplingSet
<1>8. CASE SamplingFails
    BY <1>8, <1>a, <1>b, <1>q DEF SamplingFails
<1>9. CASE StartReplied
  <2> DEFINE m == [ctl EXCEPT !.d2c = Unread]
  <2>1. m \in ControlType /\ Quiet(m)
    BY <1>9, <1>a, <1>b DEF StartReplied
  <2>2. \/ ctl' = m
        \/ ctl' = ToDaemon(m, Plain("UPDATEFILTER_REQ")) /\ cl' = [cl EXCEPT !.pc = "norpcap"]
        \/ \E d \in {data, Connected(data)} : StartFails(m, d)
    BY <1>9 DEF StartReplied
  <2> HIDE DEF m
  <2> QED
    BY <1>q, <2>1, <2>2, AsksNamed, PlacedBalanced, StartFailsQuiet
<1>10. CASE StartRefused
  <2> DEFINE m == [ctl EXCEPT !.d2c = IF Answered THEN Unread ELSE <<>>]
  <2>1. m \in ControlType /\ Quiet(m)
    BY <1>10, <1>a, <1>b DEF StartRefused
  <2>2. StartFails(m, data) \/ (Answered /\ ctl' = [ctl EXCEPT !.d2c = Unread])
    BY <1>10 DEF StartRefused
  <2> HIDE DEF m
  <2> QED
    BY <1>a, <1>q, <2>1, <2>2, StartFailsQuiet
<1>11. CASE FilterReplied
  <2> DEFINE m == [ctl EXCEPT !.d2c = IF Answered THEN Unread ELSE <<>>]
  <2>1. m \in ControlType /\ Quiet(m)
    BY <1>11, <1>a, <1>b DEF FilterReplied
  <2>2. StartFails(m, data) \/ ctl' = m
    BY <1>11 DEF FilterReplied
  <2> HIDE DEF m
  <2> QED
    BY <1>q, <2>1, <2>2, StartFailsQuiet
<1>12. CASE StatsReplied
    BY <1>12, <1>a, <1>b, <1>q DEF StatsReplied
<1>13. CASE EndCapReplied
    BY <1>13, <1>a, <1>q DEF EndCapReplied
<1>14. CASE AcceptHost
  <2>1. Quiet(ctl)
    BY <1>14, CallQuiet, WaitsPlaced DEF AcceptHost
  <2>2. CASE Send("AUTH_REQ") /\ cl' = [cl EXCEPT !.pc = "auth_host"]
    BY <2>1, <2>2, AsksNamed, PlacedBalanced DEF Send
  <2>3. CASE ctl' = NoConnection
    BY <2>3 DEF NoConnection, Balanced
  <2> QED
    BY <1>14, <2>2, <2>3 DEF AcceptHost
<1>15. CASE HostAccepted
  <2>1. ToDaemon(ctl, Plain("ERROR")) \in ControlType
    BY PlainsTyped, ToDaemonTyped
  <2> QED
    BY <1>15, <1>a, <1>b, <1>q, <2>1, ClosedQuiet DEF HostAccepted
<1> QED
    BY <1>1, <1>2, <1>3, <1>4, <1>5, <1>6, <1>7, <1>8, <1>9, <1>10, <1>11, <1>12, <1>13, <1>14,
       <1>15 DEF Answers

----------------------------------------------------------------------------
(* The daemon takes the request of the call in progress, and answers it.    *)
ReplyNames ==
    [AUTH_REQ |-> "AUTH_REPLY", FINDALLIF_REQ |-> "FINDALLIF_REPLY", OPEN_REQ |-> "OPEN_REPLY",
     SETSAMPLING_REQ |-> "SETSAMPLING_REPLY", STARTCAP_REQ |-> "STARTCAP_REPLY",
     UPDATEFILTER_REQ |-> "UPDATEFILTER_REPLY", STATS_REQ |-> "STATS_REPLY",
     ENDCAP_REQ |-> "ENDCAP_REPLY"]

LEMMA RepliesNamed == \A pc \in Waits : ReplyTo[pc] = ReplyNames[RequestOf[pc]]
BY DEF Waits, ReplyTo, ReplyNames, RequestOf

LEMMA NamesOfReplies ==
    /\ ReplyNames["AUTH_REQ"] = "AUTH_REPLY" /\ ReplyNames["FINDALLIF_REQ"] = "FINDALLIF_REPLY"
    /\ ReplyNames["OPEN_REQ"] = "OPEN_REPLY" /\ ReplyNames["SETSAMPLING_REQ"] = "SETSAMPLING_REPLY"
    /\ ReplyNames["STARTCAP_REQ"] = "STARTCAP_REPLY"
    /\ ReplyNames["UPDATEFILTER_REQ"] = "UPDATEFILTER_REPLY"
    /\ ReplyNames["STATS_REQ"] = "STATS_REPLY" /\ ReplyNames["ENDCAP_REQ"] = "ENDCAP_REPLY"
BY DEF ReplyNames

LEMMA TakenQuiet ==
    ASSUME ctl \in ControlType, Balanced(cl.pc, ctl), Arrived
    PROVE  /\ Took(Rest) \in ControlType /\ Quiet(Took(Rest))
           /\ Joined(Took(Rest)) => cl.pc \in Waits /\ Request.t = RequestOf[cl.pc]
<1>1. ctl.c2d # <<>> /\ Took(Rest) \in ControlType /\ Rest \in Seq(Unit)
    BY RequestTyped DEF Arrived
<1>2. Took(Rest).c2d = Rest /\ Took(Rest).d2c = ctl.d2c /\ (Joined(Took(Rest)) <=> Joined(ctl))
    BY <1>1 DEF Took, ControlType, Joined
<1>3. ASSUME Joined(ctl)
      PROVE  Rest = <<>> /\ ctl.d2c = <<>> /\ cl.pc \in Waits /\ Request.t = RequestOf[cl.pc]
  <2>1. ctl.d2c = <<>> /\ Asked(cl.pc, ctl.c2d)
    BY <1>1, <1>3 DEF Balanced
  <2> QED
    BY <2>1, AskedWhole DEF Whole, Rest, Request, Asked
<1> QED
    BY <1>1, <1>2, <1>3 DEF Quiet

LEMMA RepliesBalanced ==
    ASSUME ctl \in ControlType, Balanced(cl.pc, ctl), Arrived
    PROVE  /\ Balanced(cl.pc, Took(Rest))
           /\ Balanced(cl.pc, SendError(Took(Rest)))
           /\ \A t : Request.t \in DOMAIN ReplyNames /\ t = ReplyNames[Request.t]
                         => Balanced(cl.pc, ToClient(Took(Rest), Plain(t)))
<1>1. /\ Took(Rest) \in ControlType /\ Quiet(Took(Rest))
      /\ Joined(Took(Rest)) => cl.pc \in Waits /\ Request.t = RequestOf[cl.pc]
    BY TakenQuiet
<1>2. Joined(Took(Rest)) => Replied(cl.pc, Plain("ERROR"))
    BY <1>1 DEF Replied
<1>3. Balanced(cl.pc, SendError(Took(Rest)))
    BY <1>1, <1>2, ReplyBalanced DEF SendError
<1>4. ASSUME NEW t, t = ReplyNames[Request.t]
      PROVE  Balanced(cl.pc, ToClient(Took(Rest), Plain(t)))
  <2>1. Joined(Took(Rest)) => Replied(cl.pc, Plain(t))
    BY <1>1, <1>4, RepliesNamed DEF Replied
  <2> QED
    BY <1>1, <2>1, ReplyBalanced
<1> QED
    BY <1>1, <1>3, <1>4, QuietBalanced

\* A connection the daemon no longer serves.
LEMMA LeftBalanced ==
    ASSUME NEW c \in ControlType, NEW pc
    PROVE  Balanced(pc, [c EXCEPT !.d = "held"]) /\ Balanced(pc, [c EXCEPT !.d = "closed"])
BY DEF ControlType, Balanced, Joined

LEMMA EndLoopBalanced ==
    ASSUME NEW c \in ControlType, NEW asked, EndLoop(c, asked)
    PROVE  Balanced(cl.pc, ctl')
BY LeftBalanced DEF EndLoop

LEMMA StrayNamed ==
    ASSUME None(StrayExits)'
    PROVE  \A e \in StrayExits : e \notin exits'
BY DEF None

LEMMA ServiceBalanced ==
    ASSUME ctl \in ControlType, Balanced(cl.pc, ctl), Service
    PROVE  Balanced(cl.pc, ctl')
<1>1. CASE AcceptControl
  <2> DEFINE m == [ctl EXCEPT !.d = "open"]
             e == SendError(m)
  <2>1. m \in ControlType
    BY ControlFields, EndsNamed
  <2>2. e \in ControlType
    BY <2>1, SendErrorTyped
  <2>3. ctl' \in {[e EXCEPT !.d = "closed"], m} /\ ctl.d = "backlog"
    BY <1>1 DEF AcceptControl
  <2>4. Balanced(cl.pc, m)
    BY <2>3 DEF ControlType, Balanced, Joined
  <2> HIDE DEF m, e
  <2> QED
    BY <2>2, <2>3, <2>4, LeftBalanced
<1>2. CASE ConnectActive
  <2>1. ctl'.c2d = <<>> /\ ctl'.d2c = <<>>
    BY <1>2 DEF ConnectActive, NoConnection
  <2> QED
    BY <2>1 DEF Balanced
<1>3. CASE Pause \/ ReadConfiguration
    BY <1>3 DEF Pause, ReadConfiguration, streamVars
<1>4. CASE Stop
    BY <1>4, LeftBalanced DEF Stop
<1> QED
    BY <1>1, <1>2, <1>3, <1>4 DEF Service

LEMMA StartThreadBalanced ==
    ASSUME NEW c, NEW reached, None(StrayExits)', Balanced(cl.pc, c), StartThread(c, data, reached)
    PROVE  Balanced(cl.pc, ctl')
<1>1. CASE ctl' = c
    BY <1>1
<1>2. CASE StartError(c, {"lateError"})
    BY <1>2, StrayNamed DEF StartError, StrayExits
<1> QED
    BY <1>1, <1>2 DEF StartThread

LEMMA ServeBalanced ==
    ASSUME Fine(ctl, exits), Balanced(cl.pc, ctl), Serve, None(StrayExits)'
    PROVE  Balanced(cl.pc, ctl')
<1>0. ctl \in ControlType
    BY DEF Fine
<1>s. \A e \in StrayExits : e \notin exits'
    BY StrayNamed
<1>t. ASSUME NEW t, LoopTakes(t)
      PROVE  /\ Balanced(cl.pc, Took(Rest))
             /\ Balanced(cl.pc, SendError(Took(Rest)))
             /\ t \in DOMAIN ReplyNames => Balanced(cl.pc, ToClient(Took(Rest), Plain(ReplyNames[t])))
             /\ Took(Rest) \in ControlType
             /\ Request.plen = Request.n \/ Request.plen < Request.n
    BY <1>0, <1>t, RepliesBalanced, TakenQuiet, TookFine DEF LoopTakes, Waiting
<1>n. /\ "FINDALLIF_REQ" \in DOMAIN ReplyNames /\ "OPEN_REQ" \in DOMAIN ReplyNames
      /\ "SETSAMPLING_REQ" \in DOMAIN ReplyNames /\ "STARTCAP_REQ" \in DOMAIN ReplyNames
      /\ "UPDATEFILTER_REQ" \in DOMAIN ReplyNames /\ "STATS_REQ" \in DOMAIN ReplyNames
      /\ "ENDCAP_REQ" \in DOMAIN ReplyNames
    BY DEF ReplyNames
<1>1. CASE FindAllDevs
    BY <1>1, <1>t, <1>n, NamesOfReplies DEF FindAllDevs
<1>2. CASE OpenSource
    BY <1>2, <1>t, <1>n, NamesOfReplies DEF OpenSource
<1>3. CASE SetSampling
    BY <1>3, <1>t, <1>n, NamesOfReplies DEF SetSampling
<1>4. CASE StartNoSource
    BY <1>4, <1>s DEF StartNoSource, StrayExits
<1>5. CASE StartNoConnection
  <2> DEFINE c == Took(After(ctl.c2d, 1 + Request.plen))
  <2>1. StartError(c, IF Request.plen < Request.n THEN {"lengthTooShort"} ELSE {})
    BY <1>5 DEF StartNoConnection
  <2>2. ~(Request.plen < Request.n)
    BY <1>s, <2>1 DEF StartError, StrayExits
  <2>3. Request.plen = Request.n
    BY <1>5, <1>t, <2>2 DEF StartNoConnection
  <2>4. c = Took(Rest)
    BY <2>3 DEF Rest
  <2> HIDE DEF c
  <2>5. ctl' = SendError(Took(Rest))
    BY <2>1, <2>4 DEF StartError
  <2> QED
    BY <1>5, <1>t, <2>5 DEF StartNoConnection
<1>6. CASE StartNoFilter
    BY <1>6, <1>t DEF StartNoFilter, StartError
<1>7. CASE StartServeOpen
  <2> DEFINE c == ToClient(Took(Rest), Plain("STARTCAP_REPLY"))
  <2>1. StartThread(c, data, PortIsOpen) /\ Balanced(cl.pc, c)
    BY <1>7, <1>t, <1>n, NamesOfReplies DEF StartServeOpen
  <2> HIDE DEF c
  <2> QED
    BY <2>1, StartThreadBalanced
<1>8. CASE StartListen
    BY <1>8, <1>t, <1>n, NamesOfReplies DEF StartListen
<1>9. CASE AcceptData
    BY <1>9, StartThreadBalanced DEF AcceptData
<1>10. CASE UpdateFilter
  <2>1. ctl' \in {ToClient(Took(Rest), Plain("UPDATEFILTER_REPLY")), SendError(Took(Rest))}
    BY <1>10, <1>s DEF UpdateFilter, StrayExits
  <2> QED
    BY <1>10, <1>t, <1>n, <2>1, NamesOfReplies DEF UpdateFilter
<1>11. CASE GetStats
    BY <1>11, <1>t, <1>n, NamesOfReplies DEF GetStats
<1>12. CASE EndCap
    BY <1>12, <1>t, <1>n, NamesOfReplies DEF EndCap
<1>13. CASE CloseSession
    BY <1>13, <1>t, EndLoopBalanced DEF CloseSession
<1> QED
    BY <1>1, <1>2, <1>3, <1>4, <1>5, <1>6, <1>7, <1>8, <1>9, <1>10, <1>11, <1>12, <1>13 DEF Serve

LEMMA LoopBalanced ==
    ASSUME Fine(ctl, exits), Balanced(cl.pc, ctl), Loop, None(StrayExits)'
    PROVE  Balanced(cl.pc, ctl')
<1>0. ctl \in ControlType
    BY DEF Fine
<1>1. CASE TimeOut
    BY <1>0, <1>1, SendErrorTyped, EndLoopBalanced DEF TimeOut
<1>2. CASE ConnectionLost
    BY <1>0, <1>2, ControlFields, EmptyTyped, EndLoopBalanced DEF ConnectionLost
<1>3. CASE Authenticate
  <2>1. "AUTH_REQ" \in DOMAIN ReplyNames
    BY DEF ReplyNames
  <2>2. Arrived /\ Request.t = "AUTH_REQ"
        /\ ctl' \in {ToClient(Took(Rest), Plain("AUTH_REPLY")), SendError(Took(Rest))}
    BY <1>3 DEF Authenticate
  <2> QED
    BY <1>0, <2>1, <2>2, RepliesBalanced, NamesOfReplies
<1>4. CASE AuthGivenUp
    BY <1>0, <1>4, TakenQuiet, EndLoopBalanced DEF AuthGivenUp
<1>5. CASE OutOfFrame
    BY <1>5 DEF OutOfFrame, streamVars
<1> QED
    BY <1>1, <1>2, <1>3, <1>4, <1>5, ServeBalanced DEF Loop

LEMMA ThreadBalanced ==
    ASSUME Balanced(cl.pc, ctl), Thread, None(StrayExits)'
    PROVE  Balanced(cl.pc, ctl')
<1>1. ~ReadFails
    BY StrayNamed DEF ReadFails, StrayExits
<1>2. ctl' = ctl
    BY <1>1 DEF Thread, ThreadReady, SendPacket, ThreadEnd, streamVars
<1> QED
    BY <1>2

LEMMA BreakBalanced ==
    ASSUME ctl \in ControlType, Balanced(cl.pc, ctl), Break
    PROVE  Balanced(cl.pc, ctl')
<1>1. CASE BreakControl
  <2>1. PICK s \in Cut(ctl.c2d), r \in Cut(ctl.d2c) :
            ctl' = [ctl EXCEPT !.up = FALSE, !.c2d = s, !.d2c = r]
    BY <1>1 DEF BreakControl
  <2>2. ctl'.up = FALSE
    BY <2>1 DEF ControlType
  <2> QED
    BY <2>2 DEF Balanced, Joined
<1>2. CASE BreakData
    BY <1>2 DEF BreakData
<1> QED
    BY <1>1, <1>2 DEF Break

BalanceInv == FrameInv /\ (None(StrayExits) => Balanced(cl.pc, ctl))

LEMMA BalanceStep ==
    ASSUME BalanceInv, [Next]_vars, None(StrayExits)'
    PROVE  Balanced(cl'.pc, ctl')
<1>1. /\ ClientInv /\ WiresTyped /\ LoopTyped /\ ctl \in ControlType /\ Fine(ctl, exits)
      /\ (None(StrayExits) => Balanced(cl.pc, ctl))
    BY DEF BalanceInv, FrameInv, SessionInv, WiresTyped
<1>2. CASE ClientStep
  <2>1. Balanced(cl.pc, ctl)
    BY <1>1, <1>2, ClientExits, ExitsStay
  <2>2. CASE Calls \/ Answers
    BY <1>1, <2>1, <2>2, CallsBalanced, AnswersBalanced
  <2>3. CASE Reads
    <3>1. ctl' = ctl /\ cl.pc = "idle"
      BY <2>3 DEF Reads, ReadTcp, ReadUdp
    <3>2. Quiet(ctl)
      BY <2>1, <3>1, CallQuiet, WaitsPlaced
    <3> QED
      BY <3>1, <3>2, QuietBalanced
  <2>4. CASE LoseDatagram
    BY <2>1, <2>4 DEF LoseDatagram
  <2> QED
    BY <1>2, <2>2, <2>3, <2>4 DEF ClientStep
<1>3. CASE DaemonStep
  <2>1. cl' = cl /\ exits \subseteq exits'
    BY <1>1, <1>3, ServiceTyped, LoopStepTyped, ThreadTyped DEF DaemonStep, clientVars
  <2>2. Balanced(cl.pc, ctl)
    BY <1>1, <2>1, ExitsStay
  <2> QED
    BY <1>1, <1>3, <2>1, <2>2, ServiceBalanced, LoopBalanced, ThreadBalanced DEF DaemonStep
<1>4. CASE Break
  <2>1. cl' = cl /\ exits' = exits
    BY <1>4 DEF Break, BreakControl, BreakData, clientVars
  <2>2. Balanced(cl.pc, ctl)
    BY <1>1, <2>1, ExitsStay
  <2> QED
    BY <1>1, <1>4, <2>1, <2>2, BreakBalanced
<1>5. CASE UNCHANGED vars
  <2>1. cl' = cl /\ exits' = exits /\ ctl' = ctl
    BY <1>5 DEF vars, streamVars, clientVars
  <2> QED
    BY <1>1, <2>1, ExitsStay
<1> QED
    BY <1>2, <1>3, <1>4, <1>5 DEF Next

LEMMA BalanceInvariant == Spec => []BalanceInv
<1>1. Init => BalanceInv
  <2> SUFFICES ASSUME Init PROVE BalanceInv
    OBVIOUS
  <2>1. ctl.c2d = <<>> /\ ctl.d2c = <<>>
    BY DEF Init, NoConnection
  <2> QED
    BY <2>1, InitFrame DEF BalanceInv, Balanced
<1>2. BalanceInv /\ [Next]_vars => BalanceInv'
  <2> SUFFICES ASSUME BalanceInv, [Next]_vars PROVE BalanceInv'
    OBVIOUS
  <2>1. FrameInv'
    BY NextFrame DEF BalanceInv
  <2> QED
    BY <2>1, BalanceStep DEF BalanceInv
<1> QED
    BY <1>1, <1>2, PTL DEF Spec

LEMMA OneHeader ==
    ASSUME NEW t \in Requests \cup Replies
    PROVE  Headers(Plain(t)) = 1
<1> DEFINE n == PayloadOf[t]
           m == Message(t, n, n)
<1>1. n \in Nat
    BY PayloadTyped
<1> HIDE DEF n
<1>2. /\ Len(m) = n + 1 /\ m[1] = [t |-> t, plen |-> n, n |-> n]
      /\ \A i \in 2..n + 1 : m[i] = Body
    BY <1>1, MessageShape
<1> HIDE DEF m
<1>3. t # "body" /\ m[1].t = t
    BY <1>2 DEF Requests, Replies
<1>4. \A i \in 2..n + 1 : m[i].t = "body"
    BY <1>2 DEF Body
<1>5. \A i \in 1..Len(m) : m[i].t # "body" <=> i = 1
    BY <1>1, <1>2, <1>3, <1>4
<1>6. 1 \in 1..Len(m)
    BY <1>1, <1>2
<1>7. {i \in 1..Len(m) : m[i].t # "body"} = {1}
    BY <1>5, <1>6
<1>8. Headers(m) = 1
    BY <1>7, FS_Singleton DEF Headers
<1> QED
    BY <1>8 DEF m, n, Plain

(* pcap-remote.c takes whatever comes next for the reply: it is the reply   *)
(* to the request of the call in progress, or the error that refuses it,    *)
(* whatever the order of the calls, the failures of the daemon and the      *)
(* breaks of the connection, unless the daemon has sent an error that       *)
(* answers nothing or left a request in the stream.                         *)
THEOREM RepliesAnswerRequests == Spec => []ReplyAnswersRequest
<1>1. BalanceInv => ReplyAnswersRequest
  <2> SUFFICES ASSUME BalanceInv, None(StrayExits), ctl.d2c # <<>>, ctl.c = "open", ctl.d = "open",
                      ctl.up
               PROVE  /\ Headers(ctl.d2c) = 1 /\ ctl.c2d = <<>>
                      /\ cl.pc \in DOMAIN ReplyTo
                      /\ Head(ctl.d2c).t \in {ReplyTo[cl.pc], "ERROR"}
    BY DEF ReplyAnswersRequest, StrayExits
  <2>1. ctl.c2d = <<>> /\ Replied(cl.pc, ctl.d2c)
    BY DEF BalanceInv, Balanced, Joined
  <2>2. cl.pc \in Waits /\ cl.pc \in DOMAIN ReplyTo
    BY <2>1, WaitsNamed DEF Replied
  <2>3. ReplyTo[cl.pc] \in Requests \cup Replies /\ "ERROR" \in Requests \cup Replies
    BY <2>2, WaitsNamed DEF Replies
  <2>4. Headers(ctl.d2c) = 1
    BY <2>1, <2>3, OneHeader DEF Replied
  <2>5. Head(ctl.d2c).t \in {ReplyTo[cl.pc], "ERROR"}
    BY <2>1, RepliedWhole DEF Whole
  <2> QED
    BY <2>1, <2>2, <2>4, <2>5
<1> QED
    BY <1>1, BalanceInvariant, PTL

----------------------------------------------------------------------------
(* What the daemon has yet to read: how often a capture is to be started,   *)
(* and whether the sampling is asked for before it.                         *)
Occurs(s, t) == \E i \in 1..Len(s) : s[i].t = t

Lone(s) ==
    \A i, j \in 1..Len(s) : s[i].t = "STARTCAP_REQ" /\ s[j].t = "STARTCAP_REQ" => i = j

Preceded(s) ==
    \A i \in 1..Len(s) :
        s[i].t = "STARTCAP_REQ" => \E j \in 1..i - 1 : s[j].t = "SETSAMPLING_REQ"

\* r says no more than s of captures to start, and no less of sampling
Keeps(s, r) ==
    /\ Occurs(r, "STARTCAP_REQ") => Occurs(s, "STARTCAP_REQ")
    /\ Lone(s) => Lone(r)
    /\ Preceded(s) => Preceded(r)
    /\ Occurs(s, "SETSAMPLING_REQ") => Occurs(r, "SETSAMPLING_REQ")

\* m is a message with the header t and nothing else
Headed(m, t) ==
    /\ m \in Seq(Unit) /\ Len(m) > 0 /\ m[1].t = t
    /\ \A i \in 2..Len(m) : m[i].t = "body"

LEMMA MessageHeaded ==
    ASSUME NEW t \in Requests \cup Replies, NEW plen \in Nat, NEW n \in Nat
    PROVE  Headed(Message(t, plen, n), t)
<1> DEFINE m == Message(t, plen, n)
<1>1. /\ m \in Seq(Unit) /\ Len(m) = n + 1 /\ m[1] = [t |-> t, plen |-> plen, n |-> n]
      /\ \A i \in 2..n + 1 : m[i] = Body
    BY MessageShape
<1> HIDE DEF m
<1>2. Len(m) > 0 /\ m[1].t = t
    BY <1>1
<1>3. \A i \in 2..Len(m) : m[i].t = "body"
    BY <1>1 DEF Body
<1> QED
    BY <1>1, <1>2, <1>3 DEF Headed, m

LEMMA PlainHeaded ==
    /\ \A t \in {"AUTH_REQ", "FINDALLIF_REQ", "OPEN_REQ", "SETSAMPLING_REQ", "UPDATEFILTER_REQ",
                 "STATS_REQ", "ENDCAP_REQ", "CLOSE", "ERROR"} : Headed(Plain(t), t)
    /\ \A c : Headed(StartRequest(c), "STARTCAP_REQ")
<1>1. ASSUME NEW t \in Requests \cup Replies PROVE Headed(Plain(t), t)
  <2>1. PayloadOf[t] \in Nat
    BY PayloadTyped
  <2> QED
    BY <2>1, MessageHeaded DEF Plain
<1>2. Headed(Message("STARTCAP_REQ", 2, 3), "STARTCAP_REQ")
      /\ Headed(Message("STARTCAP_REQ", 3, 3), "STARTCAP_REQ")
  <2>1. "STARTCAP_REQ" \in Requests \cup Replies /\ 3 \in Nat /\ 2 \in Nat
    BY DEF Requests
  <2> QED
    BY <2>1, MessageHeaded
<1> QED
    BY <1>1, <1>2 DEF Requests, Replies, StartRequest

LEMMA Joining ==
    ASSUME NEW s \in Seq(Unit), NEW t, NEW m, Headed(m, t)
    PROVE  /\ s \o m \in Seq(Unit) /\ Len(s \o m) = Len(s) + Len(m)
           /\ Len(s) \in Nat /\ Len(m) \in Nat /\ Len(m) > 0
           /\ \A i \in 1..Len(s) : (s \o m)[i] = s[i]
           /\ (s \o m)[Len(s) + 1].t = t
           /\ \A i \in Len(s) + 2..Len(s) + Len(m) : (s \o m)[i].t = "body"
<1>1. /\ s \o m \in Seq(Unit) /\ Len(s \o m) = Len(s) + Len(m)
      /\ \A i \in 1..Len(s) + Len(m) : (s \o m)[i] = IF i <= Len(s) THEN s[i] ELSE m[i - Len(s)]
      /\ Len(s) \in Nat /\ Len(m) \in Nat /\ Len(m) > 0 /\ m[1].t = t
      /\ \A i \in 2..Len(m) : m[i].t = "body"
    BY ConcatProperties, UnitsTyped DEF Headed
<1> DEFINE r == s \o m
<1> HIDE DEF r
<1>2. r[Len(s) + 1] = m[1]
  <2>1. Len(s) + 1 \in 1..Len(s) + Len(m) /\ ~(Len(s) + 1 <= Len(s)) /\ (Len(s) + 1) - Len(s) = 1
    BY <1>1
  <2>2. (s \o m)[Len(s) + 1] = m[(Len(s) + 1) - Len(s)]
    BY <1>1, <2>1
  <2> QED
    BY <2>1, <2>2 DEF r
<1>3. ASSUME NEW i \in Len(s) + 2..Len(s) + Len(m) PROVE r[i].t = "body"
  <2>1. i \in 1..Len(s) + Len(m) /\ ~(i <= Len(s)) /\ i - Len(s) \in 2..Len(m)
    BY <1>1
  <2> QED
    BY <1>1, <2>1 DEF r
<1>4. ASSUME NEW i \in 1..Len(s) PROVE r[i] = s[i]
  <2>1. i \in 1..Len(s) + Len(m) /\ i <= Len(s)
    BY <1>1
  <2> QED
    BY <1>1, <2>1 DEF r
<1> QED
    BY <1>1, <1>2, <1>3, <1>4 DEF r

LEMMA MessageKeeps ==
    ASSUME NEW s \in Seq(Unit), NEW t, NEW m, Headed(m, t), t # "STARTCAP_REQ"
    PROVE  Keeps(s, s \o m) /\ (t = "SETSAMPLING_REQ" => Occurs(s \o m, "SETSAMPLING_REQ"))
<1> DEFINE r == s \o m
<1>1. /\ Len(r) = Len(s) + Len(m) /\ Len(s) \in Nat /\ Len(m) \in Nat /\ Len(m) > 0
      /\ \A i \in 1..Len(s) : r[i] = s[i]
      /\ r[Len(s) + 1].t = t
      /\ \A i \in Len(s) + 2..Len(s) + Len(m) : r[i].t = "body"
    BY Joining
<1> HIDE DEF r
<1>2. \A i \in 1..Len(r) : r[i].t = "STARTCAP_REQ" => i \in 1..Len(s) /\ s[i].t = "STARTCAP_REQ"
  <2> SUFFICES ASSUME NEW i \in 1..Len(r), r[i].t = "STARTCAP_REQ", i \notin 1..Len(s) PROVE FALSE
    BY <1>1
  <2>1. i = Len(s) + 1 \/ i \in Len(s) + 2..Len(s) + Len(m)
    BY <1>1
  <2> QED
    BY <1>1, <2>1
<1>3. \A i \in 1..Len(s) : i \in 1..Len(r)
    BY <1>1
<1>4. Occurs(r, "STARTCAP_REQ") => Occurs(s, "STARTCAP_REQ")
    BY <1>2 DEF Occurs
<1>5. Lone(s) => Lone(r)
    BY <1>2 DEF Lone
<1>6. Preceded(s) => Preceded(r)
  <2> SUFFICES ASSUME Preceded(s), NEW i \in 1..Len(r), r[i].t = "STARTCAP_REQ"
               PROVE  \E j \in 1..i - 1 : r[j].t = "SETSAMPLING_REQ"
    BY DEF Preceded
  <2>1. i \in 1..Len(s) /\ s[i].t = "STARTCAP_REQ"
    BY <1>2
  <2>2. PICK j \in 1..i - 1 : s[j].t = "SETSAMPLING_REQ"
    BY <2>1 DEF Preceded
  <2>3. j \in 1..Len(s)
    BY <1>1, <2>1
  <2> QED
    BY <1>1, <2>2, <2>3
<1>7. Occurs(s, "SETSAMPLING_REQ") => Occurs(r, "SETSAMPLING_REQ")
    BY <1>1, <1>3 DEF Occurs
<1>8. t = "SETSAMPLING_REQ" => Occurs(r, "SETSAMPLING_REQ")
  <2>1. Len(s) + 1 \in 1..Len(r)
    BY <1>1
  <2> QED
    BY <1>1, <2>1 DEF Occurs
<1> QED
    BY <1>4, <1>5, <1>6, <1>7, <1>8 DEF Keeps, r

\* The request to start a capture.
LEMMA StartFollows ==
    ASSUME NEW s \in Seq(Unit), NEW m, Headed(m, "STARTCAP_REQ")
    PROVE  /\ ~Occurs(s, "STARTCAP_REQ") => Lone(s \o m)
           /\ Preceded(s) /\ Occurs(s, "SETSAMPLING_REQ") => Preceded(s \o m)
<1> DEFINE r == s \o m
<1>1. /\ Len(r) = Len(s) + Len(m) /\ Len(s) \in Nat /\ Len(m) \in Nat /\ Len(m) > 0
      /\ \A i \in 1..Len(s) : r[i] = s[i]
      /\ \A i \in Len(s) + 2..Len(s) + Len(m) : r[i].t = "body"
    BY Joining
<1> HIDE DEF r
<1>2. \A i \in 1..Len(r) : r[i].t = "STARTCAP_REQ" =>
          i = Len(s) + 1 \/ (i \in 1..Len(s) /\ s[i].t = "STARTCAP_REQ")
  <2> SUFFICES ASSUME NEW i \in 1..Len(r), r[i].t = "STARTCAP_REQ", i \notin 1..Len(s)
               PROVE  i = Len(s) + 1
    BY <1>1
  <2>1. i = Len(s) + 1 \/ i \in Len(s) + 2..Len(s) + Len(m)
    BY <1>1
  <2> QED
    BY <1>1, <2>1
<1>3. ~Occurs(s, "STARTCAP_REQ") => Lone(r)
    BY <1>2 DEF Occurs, Lone
<1>4. Preceded(s) /\ Occurs(s, "SETSAMPLING_REQ") => Preceded(r)
  <2> SUFFICES ASSUME Preceded(s), Occurs(s, "SETSAMPLING_REQ"), NEW i \in 1..Len(r),
                      r[i].t = "STARTCAP_REQ"
               PROVE  \E j \in 1..i - 1 : r[j].t = "SETSAMPLING_REQ"
    BY DEF Preceded
  <2>1. CASE i = Len(s) + 1
    <3>1. PICK j \in 1..Len(s) : s[j].t = "SETSAMPLING_REQ"
      BY DEF Occurs
    <3>2. j \in 1..i - 1 /\ r[j].t = "SETSAMPLING_REQ"
      BY <1>1, <2>1, <3>1
    <3> QED
      BY <3>2
  <2>2. CASE i \in 1..Len(s) /\ s[i].t = "STARTCAP_REQ"
    <3>1. PICK j \in 1..i - 1 : s[j].t = "SETSAMPLING_REQ"
      BY <2>2 DEF Preceded
    <3>2. j \in 1..Len(s)
      BY <1>1, <2>2
    <3> QED
      BY <1>1, <3>1, <3>2
  <2> QED
    BY <1>2, <2>1, <2>2
<1> QED
    BY <1>3, <1>4 DEF r

\* What is left when k units have been read, none of them a request for sampling.
LEMMA SuffixKeeps ==
    ASSUME NEW s \in Seq(Unit), NEW k \in Nat
    PROVE  /\ Occurs(After(s, k), "STARTCAP_REQ") => Occurs(s, "STARTCAP_REQ")
           /\ Lone(s) => Lone(After(s, k))
           /\ (\A i \in 1..Len(s) : i <= k => s[i].t # "SETSAMPLING_REQ") => Keeps(s, After(s, k))
           /\ Lone(s) /\ k > 0 /\ s # <<>> /\ s[1].t = "STARTCAP_REQ"
                  => ~Occurs(After(s, k), "STARTCAP_REQ")
<1> DEFINE r == After(s, k)
<1>1. /\ r \in Seq(Unit) /\ Len(r) = IF k <= Len(s) THEN Len(s) - k ELSE 0
      /\ \A i \in 1..Len(s) - k : r[i] = s[k + i]
      /\ Len(s) \in Nat
    BY AfterTyped, UnitsTyped
<1> HIDE DEF r
<1>2. \A i \in 1..Len(r) : k + i \in 1..Len(s) /\ r[i] = s[k + i]
    BY <1>1
<1>3. \A i \in 1..Len(s) : i > k => i - k \in 1..Len(r) /\ r[i - k] = s[i]
  <2> SUFFICES ASSUME NEW i \in 1..Len(s), i > k PROVE i - k \in 1..Len(r) /\ r[i - k] = s[i]
    OBVIOUS
  <2>1. i - k \in 1..Len(r) /\ k + (i - k) = i
    BY <1>1
  <2> QED
    BY <1>2, <2>1
<1>4. Occurs(r, "STARTCAP_REQ") => Occurs(s, "STARTCAP_REQ")
    BY <1>2 DEF Occurs
<1>5. Lone(s) => Lone(r)
  <2> SUFFICES ASSUME Lone(s), NEW i \in 1..Len(r), NEW j \in 1..Len(r),
                      r[i].t = "STARTCAP_REQ", r[j].t = "STARTCAP_REQ"
               PROVE  i = j
    BY DEF Lone
  <2>1. k + i = k + j
    BY <1>2 DEF Lone
  <2> QED
    BY <2>1
<1>6. ASSUME \A i \in 1..Len(s) : i <= k => s[i].t # "SETSAMPLING_REQ"
      PROVE  /\ Preceded(s) => Preceded(r)
             /\ Occurs(s, "SETSAMPLING_REQ") => Occurs(r, "SETSAMPLING_REQ")
  <2>1. ASSUME NEW j \in 1..Len(s), s[j].t = "SETSAMPLING_REQ"
        PROVE  j > k /\ j - k \in 1..Len(r) /\ r[j - k].t = "SETSAMPLING_REQ"
    BY <1>3, <1>6, <2>1
  <2>2. Occurs(s, "SETSAMPLING_REQ") => Occurs(r, "SETSAMPLING_REQ")
    BY <2>1 DEF Occurs
  <2>3. ASSUME Preceded(s), NEW i \in 1..Len(r), r[i].t = "STARTCAP_REQ"
        PROVE  \E j \in 1..i - 1 : r[j].t = "SETSAMPLING_REQ"
    <3>1. k + i \in 1..Len(s) /\ s[k + i].t = "STARTCAP_REQ"
      BY <1>2, <2>3
    <3>2. PICK j \in 1..k + i - 1 : s[j].t = "SETSAMPLING_REQ"
      BY <2>3, <3>1 DEF Preceded
    <3>3. j \in 1..Len(s)
      BY <1>1, <3>1
    <3>4. j > k /\ r[j - k].t = "SETSAMPLING_REQ"
      BY <2>1, <3>2, <3>3
    <3>5. j - k \in 1..i - 1
      BY <3>2, <3>4
    <3> QED
      BY <3>4, <3>5
  <2> QED
    BY <2>2, <2>3 DEF Preceded
<1>7. ASSUME Lone(s), k > 0, s # <<>>, s[1].t = "STARTCAP_REQ"
      PROVE  ~Occurs(r, "STARTCAP_REQ")
  <2> SUFFICES ASSUME NEW i \in 1..Len(r), r[i].t = "STARTCAP_REQ" PROVE FALSE
    BY DEF Occurs
  <2>1. k + i \in 1..Len(s) /\ s[k + i].t = "STARTCAP_REQ" /\ 1 \in 1..Len(s)
    BY <1>1, <1>2
  <2>2. k + i = 1
    BY <1>7, <2>1 DEF Lone
  <2> QED
    BY <1>7, <2>2
<1> QED
    BY <1>4, <1>5, <1>6, <1>7 DEF Keeps, r

\* What is left of a stream that breaks.
LEMMA PrefixKeeps ==
    ASSUME NEW s \in Seq(Unit), NEW r \in Cut(s)
    PROVE  /\ Occurs(r, "STARTCAP_REQ") => Occurs(s, "STARTCAP_REQ")
           /\ Lone(s) => Lone(r)
           /\ Preceded(s) => Preceded(r)
<1>1. PICK k \in 0..Len(s) : r = SubSeq(s, 1, k)
    BY DEF Cut
<1>2. Len(s) \in Nat /\ \A j \in 1..k : s[j] \in Unit
    BY UnitsTyped
<1>3. Len(r) = k /\ \A i \in 1..k : r[i] = s[i] /\ i \in 1..Len(s)
    BY <1>1, <1>2, SubSeqProperties
<1>4. Occurs(r, "STARTCAP_REQ") => Occurs(s, "STARTCAP_REQ")
    BY <1>3 DEF Occurs
<1>5. Lone(s) => Lone(r)
    BY <1>3 DEF Lone
<1>6. ASSUME Preceded(s), NEW i \in 1..Len(r), r[i].t = "STARTCAP_REQ"
      PROVE  \E j \in 1..i - 1 : r[j].t = "SETSAMPLING_REQ"
  <2>1. PICK j \in 1..i - 1 : s[j].t = "SETSAMPLING_REQ"
    BY <1>3, <1>6 DEF Preceded
  <2>2. j \in 1..k
    BY <1>2, <1>3
  <2> QED
    BY <1>3, <2>1, <2>2
<1> QED
    BY <1>4, <1>5, <1>6 DEF Preceded

----------------------------------------------------------------------------
(* What the client does, as far as the start of a capture goes: it keeps    *)
(* the connection as it is, sends the request to start, or has a new        *)
(* connection.                                                              *)
Kept(c, e) ==
    /\ e \in ControlType /\ e.d = c.d /\ e.up = c.up
    /\ e.c = c.c \/ e.c = "closed"
    /\ Keeps(c.c2d, e.c2d)

LEMMA KeptSame == ASSUME NEW c \in ControlType PROVE Kept(c, c)
BY DEF Kept, Keeps

LEMMA KeptFollows ==
    ASSUME NEW c, NEW e, NEW f, Kept(c, e), Kept(e, f)
    PROVE  Kept(c, f)
BY DEF Kept, Keeps

LEMMA ReplyKept ==
    ASSUME NEW c \in ControlType, NEW s \in Seq(Unit)
    PROVE  Kept(c, [c EXCEPT !.d2c = s]) /\ [c EXCEPT !.d2c = s].c = c.c
<1> DEFINE e == [c EXCEPT !.d2c = s]
<1>1. e \in ControlType /\ e.d = c.d /\ e.up = c.up /\ e.c = c.c /\ e.c2d = c.c2d
    BY DEF ControlType
<1> QED
    BY <1>1 DEF Kept, Keeps

LEMMA CloseControlKept ==
    ASSUME NEW c \in ControlType
    PROVE  Kept(c, CloseControl(c)) /\ CloseControl(c).c = "closed"
<1> DEFINE e == CloseControl(c)
<1>1. e \in ControlType /\ e.d = c.d /\ e.up = c.up /\ e.c = "closed" /\ e.c2d = c.c2d
    BY CloseControlTyped DEF ControlType, CloseControl
<1> QED
    BY <1>1 DEF Kept, Keeps

\* a request that arrives, if the connection is there
Reaches(c, t) == c.up /\ c.c = "open" /\ c.d \in {"backlog", "open"} => Occurs(c.c2d, t)

LEMMA ToDaemonKept ==
    ASSUME NEW c \in ControlType, NEW t, NEW m, Headed(m, t), t # "STARTCAP_REQ"
    PROVE  /\ Kept(c, ToDaemon(c, m)) /\ ToDaemon(c, m).c = c.c
           /\ t = "SETSAMPLING_REQ" => Reaches(ToDaemon(c, m), t)
<1>1. CASE c.up /\ c.d \in {"backlog", "open"} /\ c.c = "open"
  <2> DEFINE s == c.c2d \o m
             e == [c EXCEPT !.c2d = s]
  <2>1. c.c2d \in Seq(Unit)
    BY DEF ControlType
  <2>2. /\ s \in Seq(Unit) /\ Keeps(c.c2d, s)
        /\ t = "SETSAMPLING_REQ" => Occurs(s, "SETSAMPLING_REQ")
    BY <2>1, Joining, MessageKeeps
  <2>3. ToDaemon(c, m) = e
    BY <1>1 DEF ToDaemon
  <2> HIDE DEF s
  <2>4. e \in ControlType /\ e.d = c.d /\ e.up = c.up /\ e.c = c.c /\ e.c2d = s
    BY <2>2 DEF ControlType
  <2> QED
    BY <2>2, <2>3, <2>4 DEF Kept, Reaches
<1>2. CASE ~(c.up /\ c.d \in {"backlog", "open"} /\ c.c = "open")
    BY <1>2, KeptSame DEF ToDaemon, Reaches
<1> QED
    BY <1>1, <1>2

LEMMA SentKept ==
    ASSUME NEW c \in ControlType, NEW m, Kept(c, m)
    PROVE  /\ Kept(c, CloseControl(m))
           /\ \A t \in {"AUTH_REQ", "FINDALLIF_REQ", "OPEN_REQ", "SETSAMPLING_REQ",
                        "UPDATEFILTER_REQ", "STATS_REQ", "ENDCAP_REQ", "CLOSE", "ERROR"} :
                 /\ Kept(c, ToDaemon(m, Plain(t))) /\ ToDaemon(m, Plain(t)).c = m.c
                 /\ ToDaemon(m, Plain(t)) \in ControlType
           /\ Reaches(ToDaemon(m, Plain("SETSAMPLING_REQ")), "SETSAMPLING_REQ")
<1>1. m \in ControlType
    BY DEF Kept
<1>2. Kept(c, CloseControl(m))
    BY <1>1, CloseControlKept, KeptFollows
<1>3. ASSUME NEW t \in {"AUTH_REQ", "FINDALLIF_REQ", "OPEN_REQ", "SETSAMPLING_REQ",
                        "UPDATEFILTER_REQ", "STATS_REQ", "ENDCAP_REQ", "CLOSE", "ERROR"}
      PROVE  /\ Kept(c, ToDaemon(m, Plain(t))) /\ ToDaemon(m, Plain(t)).c = m.c
             /\ ToDaemon(m, Plain(t)) \in ControlType
             /\ t = "SETSAMPLING_REQ" => Reaches(ToDaemon(m, Plain(t)), t)
  <2>1. Headed(Plain(t), t) /\ t # "STARTCAP_REQ"
    BY PlainHeaded
  <2>2. Kept(m, ToDaemon(m, Plain(t)))
    BY <1>1, <2>1, ToDaemonKept
  <2> QED
    BY <1>1, <2>1, <2>2, ToDaemonKept, KeptFollows DEF Kept
<1> QED
    BY <1>2, <1>3

LEMMA AnsweredKept ==
    ASSUME ctl \in ControlType
    PROVE  /\ Answered => /\ Kept(ctl, [ctl EXCEPT !.d2c = Unread])
                          /\ [ctl EXCEPT !.d2c = Unread].c = ctl.c
           /\ Kept(ctl, [ctl EXCEPT !.d2c = IF Answered THEN Unread ELSE <<>>])
           /\ [ctl EXCEPT !.d2c = IF Answered THEN Unread ELSE <<>>].c = ctl.c
           /\ Answered => Kept(ctl, [Hangup EXCEPT !.d2c = IF cl.host THEN Unread ELSE <<>>])
           /\ Kept(ctl, [Hangup EXCEPT !.d2c = IF Answered /\ cl.host THEN Unread ELSE <<>>])
           /\ Kept(ctl, [Hangup EXCEPT !.d2c = <<>>])
           /\ Kept(ctl, Hangup)
<1>1. Answered => Unread \in Seq(Unit)
    BY UnreadTyped
<1>2. Kept(ctl, Hangup) /\ Hangup \in ControlType
    BY KeptSame, CloseControlKept, HangupTyped DEF Hangup
<1>3. /\ \A s \in Seq(Unit) : Kept(ctl, [ctl EXCEPT !.d2c = s]) /\ [ctl EXCEPT !.d2c = s].c = ctl.c
      /\ \A s \in Seq(Unit) : Kept(ctl, [Hangup EXCEPT !.d2c = s])
    BY <1>2, ReplyKept, KeptFollows
<1>4. (IF Answered THEN Unread ELSE <<>>) \in Seq(Unit)
    BY <1>1, EmptyTyped
<1>5. Answered => (IF cl.host THEN Unread ELSE <<>>) \in Seq(Unit)
    BY <1>1, EmptyTyped
<1>6. (IF Answered /\ cl.host THEN Unread ELSE <<>>) \in Seq(Unit)
    BY <1>1, EmptyTyped
<1>7. /\ Answered => /\ Kept(ctl, [ctl EXCEPT !.d2c = Unread])
                     /\ [ctl EXCEPT !.d2c = Unread].c = ctl.c
      /\ Answered => Kept(ctl, [Hangup EXCEPT !.d2c = IF cl.host THEN Unread ELSE <<>>])
    BY <1>1, <1>3, <1>5, Zenon
<1>8. /\ Kept(ctl, [ctl EXCEPT !.d2c = IF Answered THEN Unread ELSE <<>>])
      /\ [ctl EXCEPT !.d2c = IF Answered THEN Unread ELSE <<>>].c = ctl.c
    BY <1>3, <1>4, Zenon
<1>9. Kept(ctl, [Hangup EXCEPT !.d2c = IF Answered /\ cl.host THEN Unread ELSE <<>>])
    BY <1>3, <1>6, Zenon
<1>10. Kept(ctl, [Hangup EXCEPT !.d2c = <<>>])
    BY <1>3, EmptyTyped, Zenon
<1> QED
    BY <1>2, <1>7, <1>8, <1>9, <1>10, Zenon

\* places of a call that has connected and has not opened the source yet
Connecting == {"auth_findall", "auth_open", "findall", "open"}

\* a capture may still be asked for
MayStart(l) ==
    \/ l.pc \in {"auth_open", "open"}
    \/ l.own /\ l.fp \in {"open", "failed"} /\ l.pc \notin {"start", "norpcap", "lost"}

\* in passive mode the socket is the pcap_t's, or the call's
OnceClient(l, c) ==
    /\ ~l.host /\ l.pc \notin {"accept", "auth_host"}
    /\ l.own => c.c = "open"
    /\ l.pc = "samp" => l.own
    /\ l.pc \in Connecting => ~l.own /\ c.c = "open"

OnceStep ==
    ~mode.active /\ OnceClient(cl, ctl) =>
        OnceClient(cl', ctl') /\ (MayStart(cl') => MayStart(cl))

\* the four kinds of steps
Holding ==
    /\ Kept(ctl, ctl')
    /\ cl'.pc = "samp" => cl.pc = "samp" \/ Reaches(ctl', "SETSAMPLING_REQ")
    /\ ctl.c = "listen" /\ cl.pc = "accept" => cl'.pc = "accept"
    /\ OnceStep

Starting ==
    /\ cl'.pc = "start"
    /\ cl.pc = "samp" \/ ~mode.samp
    /\ \E m \in ControlType : \E w :
          Kept(ctl, m) /\ m.c = ctl.c /\ Headed(w, "STARTCAP_REQ") /\ ctl' = ToDaemon(m, w)
    /\ cl.pc # "accept"
    /\ ~mode.active /\ OnceClient(cl, ctl) => OnceClient(cl', ctl') /\ MayStart(cl)

Connects2 ==
    /\ Idle(ctl)
    /\ ctl' = [NoConnection EXCEPT !.c = "open", !.d = "backlog", !.c2d = Plain("AUTH_REQ")]
    /\ cl'.pc \in Connecting
    /\ ~mode.active /\ OnceClient(cl, ctl) => OnceClient(cl', ctl')

Listens ==
    \/ mode.active /\ Idle(ctl) /\ ctl' = [NoConnection EXCEPT !.c = "listen"] /\ cl'.pc = "accept"
    \/ ctl.c = "listen" /\ cl.pc = "accept" /\ ctl' = NoConnection /\ cl'.pc = "idle"

Kinds == Holding \/ Starting \/ Connects2 \/ Listens

\* The call returns.
LEMMA ReturnOnce ==
    ASSUME NEW c \in ClientType, NEW use \in Int, Return(c, use),
           c.own = cl.own, c.fp = cl.fp, c.host = cl.host,
           cl.pc \notin {"start", "norpcap", "lost"},
           ctl'.c = ctl.c \/ cl.pc \in Connecting
    PROVE  OnceStep /\ cl'.pc = "idle"
<1>1. GoesTo(c, "idle", use)
    BY ReturnGoes
<1>2. cl'.pc = "idle" /\ cl'.own = cl.own /\ cl'.fp = cl.fp /\ cl'.host = cl.host
    BY <1>1 DEF GoesTo
<1> QED
    BY <1>2 DEF OnceStep, OnceClient, MayStart, Connecting

\* The call goes on.
LEMMA PlaceOnce ==
    ASSUME NEW c \in ClientType, NEW pc \in CallPlaces, cl' = [c EXCEPT !.pc = pc],
           c.own = cl.own, c.fp = cl.fp, c.host = cl.host, ctl'.c = ctl.c,
           pc \notin {"accept", "auth_host"}, pc = "samp" => cl.own,
           pc \in Connecting => cl.pc \in Connecting,
           pc \in {"auth_open", "open"} => cl.pc \in {"auth_open", "open"},
           cl.pc \in {"start", "norpcap", "lost"} => pc \in {"start", "norpcap", "lost"}
    PROVE  OnceStep /\ cl'.pc = pc
<1>1. GoesTo(c, pc, 0)
    BY PlaceGoes
<1>2. cl'.pc = pc /\ cl'.own = cl.own /\ cl'.fp = cl.fp /\ cl'.host = cl.host
    BY <1>1 DEF GoesTo
<1> QED
    BY <1>2 DEF OnceStep, OnceClient, MayStart, Connecting

\* The call returns with a socket that is no longer ours.
LEMMA HandleOnce ==
    ASSUME NEW c \in ClientType, NEW fp \in Captures, NEW own \in BOOLEAN, NEW use \in Int,
           Return(Handle(c, fp, own), use), c.host = cl.host,
           own => cl.host \/ (cl.own /\ fp = "started" /\ ctl'.c = ctl.c)
    PROVE  OnceStep /\ cl'.pc = "idle"
<1> DEFINE e == Handle(c, fp, own)
<1>1. e \in ClientType /\ e.fp = fp /\ e.own = own /\ e.host = c.host
    BY DEF ClientType, Captures, Handle
<1>2. Return(e, use)
    OBVIOUS
<1> HIDE DEF e
<1>3. GoesTo(e, "idle", use)
    BY <1>1, <1>2, ReturnGoes
<1>4. cl'.pc = "idle" /\ cl'.own = own /\ cl'.fp = fp /\ cl'.host = cl.host
    BY <1>1, <1>3 DEF GoesTo
<1> QED
    BY <1>4 DEF OnceStep, OnceClient, MayStart, Connecting

\* A request that the client sends and waits for.
LEMMA PlacedHolding ==
    ASSUME ctl \in ControlType, NEW c \in ClientType, NEW pc \in CallPlaces, cl' = [c EXCEPT !.pc = pc],
           Kept(ctl, ctl'), ctl'.c = ctl.c,
           c.own = cl.own, c.fp = cl.fp, c.host = cl.host, cl.pc # "accept",
           pc \notin {"accept", "auth_host"}, pc = "samp" => cl.own /\ Reaches(ctl', "SETSAMPLING_REQ"),
           pc \in Connecting => cl.pc \in Connecting,
           pc \in {"auth_open", "open"} => cl.pc \in {"auth_open", "open"},
           cl.pc \in {"start", "norpcap", "lost"} => pc \in {"start", "norpcap", "lost"}
    PROVE  Holding
BY PlaceOnce DEF Holding

LEMMA ReturnHolding ==
    ASSUME ctl \in ControlType, NEW c \in ClientType, NEW use \in Int, Return(c, use),
           Kept(ctl, ctl'),
           c.own = cl.own, c.fp = cl.fp, c.host = cl.host,
           cl.pc \notin {"start", "norpcap", "lost", "accept"},
           ctl'.c = ctl.c \/ cl.pc \in Connecting
    PROVE  Holding
BY ReturnOnce DEF Holding

LEMMA HandleHolding ==
    ASSUME NEW c \in ClientType, NEW fp \in Captures, NEW own \in BOOLEAN, NEW use \in Int,
           Return(Handle(c, fp, own), use), c.host = cl.host,
           Kept(ctl, ctl'), cl.pc # "accept",
           own => cl.host \/ (cl.own /\ fp = "started" /\ ctl'.c = ctl.c)
    PROVE  Holding
BY HandleOnce DEF Holding

\* In active mode there is nothing to say of how often a capture starts.
LEMMA HostHolding ==
    ASSUME Kept(ctl, ctl'), cl'.pc # "samp", cl.host \/ cl.pc = "auth_host", cl.pc # "accept"
    PROVE  Holding
BY DEF Holding, OnceStep, OnceClient

LEMMA EnteredAs ==
    ASSUME ClientInv, Enter
    PROVE  /\ Entered \in ClientType /\ Entered.own = cl.own /\ Entered.fp = cl.fp
           /\ Entered.host = cl.host /\ cl.pc = "idle"
BY EnteredIdle

LEMMA SendHolds ==
    ASSUME ctl \in ControlType,
           NEW t \in {"AUTH_REQ", "FINDALLIF_REQ", "OPEN_REQ", "SETSAMPLING_REQ", "UPDATEFILTER_REQ",
                      "STATS_REQ", "ENDCAP_REQ", "CLOSE", "ERROR"}, Send(t)
    PROVE  /\ Kept(ctl, ctl') /\ ctl'.c = ctl.c
           /\ t = "SETSAMPLING_REQ" => Reaches(ctl', "SETSAMPLING_REQ")
BY KeptSame, SentKept DEF Send

LEMMA BeginKinds ==
    ASSUME ClientInv, ctl \in ControlType, NEW pc \in {"findall", "open"},
           NEW auth \in {"auth_findall", "auth_open"},
           NEW t \in {"FINDALLIF_REQ", "OPEN_REQ"}, Begin(pc, auth, t)
    PROVE  Kinds
<1>1. cl.pc = "idle" /\ Entered \in ClientType /\ Entered.own = cl.own /\ Entered.fp = cl.fp
      /\ Entered.host = cl.host
    BY EnteredAs DEF Begin
<1>2. CASE KnownHost
  <2>1. Send(t) /\ cl.host
    BY <1>2 DEF Begin, KnownHost
  <2>2. cl'.pc = pc
    BY <1>1, <1>2 DEF Begin, ClientType
  <2> QED
    BY <1>1, <2>1, <2>2, SendHolds, HostHolding DEF Kinds
<1>3. CASE ~KnownHost
  <2>1. /\ Idle(ctl) /\ cl' = [Entered EXCEPT !.pc = auth, !.sockcount = @ + 1]
        /\ ctl' = [NoConnection EXCEPT !.c = "open", !.d = "backlog", !.c2d = Plain("AUTH_REQ")]
    BY <1>3 DEF Begin
  <2>2. auth \in CallPlaces
    BY DEF CallPlaces
  <2>3. GoesTo(Entered, auth, 1)
    BY <1>1, <2>1, <2>2, InitGoes
  <2>4. cl'.pc = auth /\ cl'.own = cl.own /\ cl'.host = cl.host /\ ctl'.c = "open"
    BY <1>1, <2>1, <2>3 DEF GoesTo, NoConnection
  <2>5. OnceClient(cl, ctl) => OnceClient(cl', ctl')
    BY <2>1, <2>4 DEF OnceClient, Idle
  <2> QED
    BY <2>1, <2>4, <2>5 DEF Kinds, Connects2, Connecting
<1> QED
    BY <1>2, <1>3

LEMMA AskKinds ==
    ASSUME ClientInv, ctl \in ControlType, Enter, NEW pc \in {"upd", "stats", "endcap"},
           NEW t \in {"UPDATEFILTER_REQ", "STATS_REQ", "ENDCAP_REQ"}, Ask(pc, t)
    PROVE  Holding
<1>1. cl.pc = "idle" /\ Entered \in ClientType /\ Entered.own = cl.own /\ Entered.fp = cl.fp
      /\ Entered.host = cl.host /\ pc \in CallPlaces
    BY EnteredAs DEF CallPlaces
<1>2. CASE cl.own
  <2>1. Send(t) /\ cl' = [Entered EXCEPT !.pc = pc]
    BY <1>2 DEF Ask
  <2> QED
    BY <1>1, <2>1, SendHolds, PlacedHolding DEF Connecting
<1>3. CASE ~cl.own
  <2>1. Return(Entered, 0) /\ ctl' = ctl
    BY <1>3 DEF Ask
  <2> QED
    BY <1>1, <2>1, KeptSame, ReturnHolding
<1> QED
    BY <1>2, <1>3

\* The request to start a capture.
LEMMA SendStartKinds ==
    ASSUME ctl \in ControlType, NEW m, Kept(ctl, m), m.c = ctl.c, NEW c \in ClientType,
           SendStart(c, m), cl.pc = "samp" \/ ~mode.samp, cl.pc # "accept",
           c.own = cl.own, c.fp = cl.fp, c.host = cl.host,
           OnceClient(cl, ctl) => MayStart(cl)
    PROVE  Starting
<1>1. "start" \in CallPlaces
    BY DEF CallPlaces
<1>2. GoesTo(c, "start", 0)
    BY <1>1, PlaceGoes DEF SendStart
<1>3. cl'.pc = "start" /\ cl'.own = cl.own /\ cl'.host = cl.host
    BY <1>2 DEF GoesTo
<1>4. /\ m \in ControlType /\ Headed(StartRequest(c), "STARTCAP_REQ")
      /\ ctl' = ToDaemon(m, StartRequest(c))
    BY PlainHeaded DEF Kept, SendStart
<1>5. ctl'.c = m.c
    BY <1>4 DEF ToDaemon, ControlType
<1>6. OnceClient(cl, ctl) => OnceClient(cl', ctl')
    BY <1>3, <1>5 DEF OnceClient, Connecting
<1> QED
    BY <1>3, <1>4, <1>6 DEF Starting

LEMMA StartKinds ==
    ASSUME ClientInv, ctl \in ControlType, Start
    PROVE  Kinds
<1>1. cl.pc = "idle" /\ Entered \in ClientType /\ Entered.own = cl.own /\ Entered.fp = cl.fp
      /\ Entered.host = cl.host /\ "samp" \in CallPlaces
    BY EnteredAs DEF Start, CallPlaces
<1>2. CASE cl.own /\ mode.samp
  <2>1. Send("SETSAMPLING_REQ") /\ cl' = [Entered EXCEPT !.pc = "samp"]
    BY <1>2 DEF Start
  <2>2. Kept(ctl, ctl') /\ ctl'.c = ctl.c /\ Reaches(ctl', "SETSAMPLING_REQ")
    BY <2>1, SendHolds
  <2> QED
    BY <1>1, <1>2, <2>1, <2>2, PlacedHolding DEF Connecting, Kinds
<1>3. CASE cl.own /\ ~mode.samp
  <2>1. SendStart(Entered, ctl) /\ cl.fp \in {"open", "failed"}
    BY <1>3 DEF Start
  <2> QED
    BY <1>1, <1>3, <2>1, KeptSame, SendStartKinds DEF MayStart, Kinds
<1>4. CASE ~cl.own
  <2>1. Return(Entered, 0) /\ ctl' = ctl
    BY <1>4 DEF Start
  <2> QED
    BY <1>1, <2>1, KeptSame, ReturnHolding DEF Kinds
<1> QED
    BY <1>2, <1>3, <1>4

LEMMA ClosedHolding ==
    ASSUME ClientInv, NEW c \in ClientType, c.host = cl.host, cl.pc # "accept", Kept(ctl, ctl'),
           Return([c EXCEPT !.fp = "none", !.own = FALSE], -1)
    PROVE  Holding
<1> DEFINE fp == "none"
           own == FALSE
           use == -1
<1>1. /\ Return(Handle(c, fp, own), use)
      /\ fp \in Captures /\ own \in BOOLEAN /\ use \in Int /\ ~own
    BY DEF Handle, Captures
<1> HIDE DEF fp, own, use
<1> QED
    BY <1>1, HandleHolding

LEMMA SetFilterKinds ==
    ASSUME ClientInv, ctl \in ControlType, SetFilter
    PROVE  Kinds
<1>1. /\ cl.pc = "idle" /\ Entered \in ClientType /\ Entered.own = cl.own /\ Entered.fp = cl.fp
      /\ Entered.host = cl.host /\ Enter
    BY EnteredAs DEF SetFilter
<1>2. CASE Ask("upd", "UPDATEFILTER_REQ")
    BY <1>1, <1>2, AskKinds DEF Kinds
<1>3. CASE Return([Entered EXCEPT !.filter = TRUE], 0) /\ ctl' = ctl
  <2> DEFINE c == Filtered(Entered)
  <2>1. c \in ClientType /\ c.own = cl.own /\ c.fp = cl.fp /\ c.host = cl.host
    BY <1>1, FilteredTyped
  <2>2. Return(c, 0)
    BY <1>3 DEF Filtered
  <2> HIDE DEF c
  <2> QED
    BY <1>1, <1>3, <2>1, <2>2, KeptSame, ReturnHolding DEF Kinds
<1> QED
    BY <1>2, <1>3 DEF SetFilter

LEMMA CloseKinds ==
    ASSUME ClientInv, ctl \in ControlType, Close
    PROVE  Kinds
<1>1. cl.pc = "idle" /\ Entered \in ClientType /\ Entered.host = cl.host /\ Enter
    BY EnteredAs DEF Close
<1>2. CASE Ask("endcap", "ENDCAP_REQ")
    BY <1>1, <1>2, AskKinds DEF Kinds
<1>3. CASE /\ ctl' = IF cl.own THEN CloseControl(ToDaemon(ctl, Plain("CLOSE"))) ELSE ctl
           /\ Return([Entered EXCEPT !.fp = "none", !.own = FALSE], -1)
  <2>1. Kept(ctl, ToDaemon(ctl, Plain("CLOSE")))
    BY KeptSame, SentKept
  <2>2. Kept(ctl, CloseControl(ToDaemon(ctl, Plain("CLOSE"))))
    BY <2>1, SentKept
  <2>3. Kept(ctl, ctl')
    BY <1>3, <2>2, KeptSame
  <2> QED
    BY <1>1, <1>3, <2>3, ClosedHolding DEF Kinds
<1> QED
    BY <1>2, <1>3 DEF Close

LEMMA CloseHostKinds ==
    ASSUME ClientInv, ctl \in ControlType, CloseHost
    PROVE  Kinds
<1> DEFINE host == FALSE
           own == IF cl.host THEN FALSE ELSE cl.own
           use == -1
           c == Host(Entered, host, own)
<1>1. /\ cl.pc = "idle" /\ Entered \in ClientType /\ Entered.own = cl.own /\ Entered.fp = cl.fp
      /\ cl.own \in BOOLEAN
    BY EnteredAs DEF CloseHost, ClientInv, ClientType
<1>2. own \in BOOLEAN
    BY <1>1, Zenon
<1>3. c \in ClientType /\ c.host = FALSE /\ c.own = own /\ c.fp = cl.fp
    BY <1>1, <1>2 DEF ClientType, Host
<1>4. Return([Entered EXCEPT !.host = FALSE, !.own = IF cl.host THEN FALSE ELSE @], -1)
    BY DEF CloseHost
<1>8. Return(c, use)
    BY <1>1, <1>4, Zenon DEF Host
<1>9. use \in Int
    OBVIOUS
<1> HIDE DEF c, host, use
<1>5. Return(c, use) /\ use \in Int
    BY <1>8, <1>9
<1>6. CASE cl.host
  <2>1. ctl' = CloseControl(ToDaemon(ctl, Plain("CLOSE")))
    BY <1>6 DEF CloseHost
  <2>2. Kept(ctl, ToDaemon(ctl, Plain("CLOSE")))
    BY KeptSame, SentKept
  <2>3. Kept(ctl, ctl')
    BY <2>1, <2>2, SentKept
  <2>4. cl'.pc = "idle"
    BY <1>3, <1>5, ReturnGoes DEF GoesTo
  <2> QED
    BY <1>1, <1>6, <2>3, <2>4, HostHolding DEF Kinds
<1>7. CASE ~cl.host
  <2>1. ctl' = ctl /\ c.own = cl.own /\ c.host = cl.host
    BY <1>3, <1>7 DEF CloseHost, ClientInv, ClientType
  <2> QED
    BY <1>1, <1>3, <1>5, <2>1, KeptSame, ReturnHolding DEF Kinds
<1> QED
    BY <1>6, <1>7

LEMMA CallsKinds ==
    ASSUME ClientInv, ctl \in ControlType, Calls
    PROVE  Kinds
<1>1. CASE FindAll
    BY <1>1, BeginKinds DEF FindAll
<1>2. CASE Open
    BY <1>2, BeginKinds DEF Open
<1>3. CASE ConnectFails
  <2>1. Enter /\ ctl' = ctl
    BY <1>3 DEF ConnectFails, streamVars
  <2>2. /\ cl.pc = "idle" /\ Entered \in ClientType /\ Entered.own = cl.own /\ Entered.fp = cl.fp
        /\ Entered.host = cl.host
    BY <2>1, EnteredAs
  <2>3. PICK use \in {0, 1} : Return(Entered, use)
    BY <1>3 DEF ConnectFails
  <2> QED
    BY <2>1, <2>2, <2>3, KeptSame, ReturnHolding DEF Kinds
<1>4. CASE Stats
    BY <1>4, AskKinds DEF Stats, Kinds
<1>5. CASE Accept
  <2>1. /\ mode.active /\ Idle(ctl) /\ ctl' = [NoConnection EXCEPT !.c = "listen"]
        /\ cl' = [Entered EXCEPT !.pc = "accept", !.sockcount = @ + 1] /\ Enter
    BY <1>5 DEF Accept
  <2>2. Entered \in ClientType /\ "accept" \in CallPlaces
    BY <2>1, EnteredAs DEF CallPlaces
  <2>3. cl'.pc = "accept"
    BY <2>1, <2>2, InitGoes DEF GoesTo
  <2> QED
    BY <2>1, <2>3 DEF Kinds, Listens
<1> QED
    BY <1>1, <1>2, <1>3, <1>4, <1>5, StartKinds, SetFilterKinds, CloseKinds, CloseHostKinds DEF Calls

\* The capture could not be started.
LEMMA StartFailsHolding ==
    ASSUME ClientInv, NEW m, Kept(ctl, m), NEW d, StartFails(m, d), cl.pc \in {"start", "norpcap"}
    PROVE  Holding
<1> DEFINE fp == IF cl.host THEN "open" ELSE "failed"
           own == cl.host
           use == 0
<1>1. /\ Return(Handle(cl, fp, own), use)
      /\ fp \in Captures /\ own \in BOOLEAN /\ use \in Int /\ cl \in ClientType
    BY DEF Handle, Captures, StartFails, ClientInv, ClientType
<1>2. Kept(ctl, ctl')
  <2>1. Kept(m, CloseControl(m))
    BY CloseControlKept DEF Kept
  <2> QED
    BY <2>1, KeptFollows DEF StartFails
<1>3. own => cl.host
    OBVIOUS
<1> HIDE DEF fp, own, use
<1> QED
    BY <1>1, <1>2, <1>3, HandleHolding

\* The capture is started.
LEMMA StartedHolding ==
    ASSUME ClientInv, Kept(ctl, ctl'), ctl'.c = ctl.c, cl.pc \in {"start", "norpcap", "upd"},
           Return([cl EXCEPT !.fp = "started"], 0)
    PROVE  Holding
<1> DEFINE fp == "started"
           own == cl.own
           use == 0
<1>1. /\ fp = "started" /\ fp \in Captures /\ own \in BOOLEAN /\ use \in Int /\ cl \in ClientType
      /\ own = cl.own
    BY DEF Captures, ClientInv, ClientType
<1>2. Return(Handle(cl, fp, own), use)
    BY DEF Handle, ClientInv, ClientType
<1> HIDE DEF fp, own, use
<1> QED
    BY <1>1, <1>2, HandleHolding

LEMMA AnswersKinds ==
    ASSUME ClientInv, ctl \in ControlType, Answers
    PROVE  Kinds
<1>a. /\ Answered => /\ Kept(ctl, [ctl EXCEPT !.d2c = Unread])
                     /\ [ctl EXCEPT !.d2c = Unread].c = ctl.c
      /\ Kept(ctl, [ctl EXCEPT !.d2c = IF Answered THEN Unread ELSE <<>>])
      /\ [ctl EXCEPT !.d2c = IF Answered THEN Unread ELSE <<>>].c = ctl.c
      /\ Answered => Kept(ctl, [Hangup EXCEPT !.d2c = IF cl.host THEN Unread ELSE <<>>])
      /\ Kept(ctl, [Hangup EXCEPT !.d2c = IF Answered /\ cl.host THEN Unread ELSE <<>>])
      /\ Kept(ctl, [Hangup EXCEPT !.d2c = <<>>])
      /\ Kept(ctl, Hangup)
    BY AnsweredKept
<1>b. \A t : (GoodAnswer(t) => Answered) /\ (OtherAnswer(t) => Answered)
    BY DEF GoodAnswer, OtherAnswer
<1>c. cl \in ClientType
    BY DEF ClientInv
<1>d. {"findall", "open", "lost", "norpcap", "auth_host"} \subseteq CallPlaces
    BY DEF CallPlaces
<1>1. CASE Authenticated
  <2> DEFINE pc == RequestAfter(cl.pc)[1]
             t == RequestAfter(cl.pc)[2]
             m == [ctl EXCEPT !.d2c = Unread]
  <2>1. /\ t \in {"FINDALLIF_REQ", "OPEN_REQ"} /\ pc \in {"findall", "open"}
        /\ pc = "open" => cl.pc = "auth_open"
        /\ cl.pc \in {"auth_findall", "auth_open"}
    BY <1>1 DEF RequestAfter, Authenticated, Authenticating
  <2>2. ctl' = ToDaemon(m, Plain(t)) /\ cl' = [cl EXCEPT !.pc = pc]
    BY <1>1 DEF Authenticated
  <2>3. Kept(ctl, m) /\ m.c = ctl.c
    BY <1>1, <1>a, <1>b DEF Authenticated
  <2> HIDE DEF pc, t, m
  <2>4. Kept(ctl, ctl') /\ ctl'.c = ctl.c
    BY <2>1, <2>2, <2>3, SentKept
  <2> QED
    BY <1>c, <1>d, <2>1, <2>2, <2>4, PlacedHolding DEF Connecting, Kinds
<1>2. CASE NotAuthenticated
  <2>1. ctl' = CloseControl(ctl) /\ Return(cl, 0) /\ cl.pc \in {"auth_findall", "auth_open"}
    BY <1>2 DEF NotAuthenticated, Authenticating
  <2>2. Kept(ctl, ctl')
    BY <2>1, CloseControlKept
  <2> QED
    BY <1>c, <2>1, <2>2, ReturnHolding DEF Connecting, Kinds
<1>3. CASE FoundAll
  <2>1. Kept(ctl, ctl') /\ cl.pc = "findall" /\ Return(cl, -1)
    BY <1>3, <1>a DEF FoundAll
  <2>2. -1 \in Int
    OBVIOUS
  <2> QED
    BY <1>c, <2>1, <2>2, ReturnHolding DEF Connecting, Kinds
<1>4. CASE FindAllFails
  <2>1. /\ Kept(ctl, ctl') /\ cl.pc = "findall"
        /\ \E use \in {0, -1} : Return(cl, use)
    BY <1>4, <1>a, <1>b DEF FindAllFails
  <2>2. {0, -1} \subseteq Int
    OBVIOUS
  <2> QED
    BY <1>c, <2>1, <2>2, ReturnHolding DEF Connecting, Kinds
<1>5. CASE Opened
  <2>1. /\ cl.pc = "open" /\ ctl' = [ctl EXCEPT !.d2c = Unread]
        /\ Return([cl EXCEPT !.fp = "open", !.own = TRUE, !.TotCapt = 0, !.TotNetDrops = 0], 0)
    BY <1>5 DEF Opened
  <2>2. Kept(ctl, ctl') /\ ctl'.c = ctl.c
    BY <1>5, <1>a, <1>b, <2>1 DEF Opened
  <2>3. cl'.pc = "idle" /\ cl'.own = TRUE /\ cl'.host = cl.host
    BY <1>c, <2>1 DEF Return, ClientType
  <2>4. OnceStep
    BY <2>1, <2>2, <2>3 DEF OnceStep, OnceClient, MayStart, Connecting
  <2> QED
    BY <2>1, <2>2, <2>3, <2>4 DEF Holding, Kinds
<1>6. CASE OpenFails
  <2>1. CASE cl' = [cl EXCEPT !.pc = "lost"] /\ Answered /\ ctl' = [ctl EXCEPT !.d2c = Unread]
    BY <1>6, <1>a, <1>c, <1>d, <2>1, PlacedHolding DEF OpenFails, Connecting, Kinds
  <2>2. CASE /\ Return(cl, 0)
             /\ ctl' = [Hangup EXCEPT !.d2c = IF Answered /\ cl.host THEN Unread ELSE <<>>]
    BY <1>6, <1>a, <1>c, <2>2, ReturnHolding DEF OpenFails, Connecting, Kinds
  <2> QED
    BY <1>6, <2>1, <2>2 DEF OpenFails
<1>7. CASE SamplingSet
  <2> DEFINE m == [ctl EXCEPT !.d2c = Unread]
  <2>1. SendStart(cl, m) /\ cl.pc = "samp"
    BY <1>7 DEF SamplingSet
  <2>2. Kept(ctl, m) /\ m.c = ctl.c
    BY <1>7, <1>a, <1>b DEF SamplingSet
  <2> HIDE DEF m
  <2>3. OnceClient(cl, ctl) => MayStart(cl)
    BY <2>1 DEF ClientInv, PlaceOK, OnceClient, MayStart
  <2> QED
    BY <1>c, <2>1, <2>2, <2>3, SendStartKinds DEF Kinds
<1>8. CASE SamplingFails
    BY <1>8, <1>a, <1>c, ReturnHolding DEF SamplingFails, Kinds
<1>9. CASE StartReplied
  <2> DEFINE m == [ctl EXCEPT !.d2c = Unread]
  <2>1. Kept(ctl, m) /\ m.c = ctl.c /\ cl.pc = "start"
    BY <1>9, <1>a, <1>b DEF StartReplied
  <2>2. \/ ctl' = m /\ Return([cl EXCEPT !.fp = "started"], 0)
        \/ ctl' = ToDaemon(m, Plain("UPDATEFILTER_REQ")) /\ cl' = [cl EXCEPT !.pc = "norpcap"]
        \/ \E d \in {data, Connected(data)} : StartFails(m, d)
    BY <1>9 DEF StartReplied
  <2> HIDE DEF m
  <2>3. CASE ctl' = m /\ Return([cl EXCEPT !.fp = "started"], 0)
    BY <2>1, <2>3, StartedHolding DEF Kinds
  <2>4. CASE ctl' = ToDaemon(m, Plain("UPDATEFILTER_REQ")) /\ cl' = [cl EXCEPT !.pc = "norpcap"]
    <3>1. Kept(ctl, ctl') /\ ctl'.c = ctl.c
      BY <2>1, <2>4, SentKept
    <3> QED
      BY <1>c, <1>d, <2>1, <2>4, <3>1, PlacedHolding DEF Connecting, Kinds
  <2>5. CASE \E d \in {data, Connected(data)} : StartFails(m, d)
    BY <2>1, <2>5, StartFailsHolding DEF Kinds
  <2> QED
    BY <2>2, <2>3, <2>4, <2>5
<1>10. CASE StartRefused
  <2> DEFINE m == [ctl EXCEPT !.d2c = IF Answered THEN Unread ELSE <<>>]
  <2>1. Kept(ctl, m) /\ cl.pc = "start"
    BY <1>10, <1>a DEF StartRefused
  <2>2. \/ StartFails(m, data)
        \/ Answered /\ ctl' = [ctl EXCEPT !.d2c = Unread] /\ cl' = [cl EXCEPT !.pc = "lost"]
    BY <1>10 DEF StartRefused
  <2> HIDE DEF m
  <2>3. CASE Answered /\ ctl' = [ctl EXCEPT !.d2c = Unread] /\ cl' = [cl EXCEPT !.pc = "lost"]
    BY <1>a, <1>c, <1>d, <2>1, <2>3, PlacedHolding DEF Connecting, Kinds
  <2> QED
    BY <2>1, <2>2, <2>3, StartFailsHolding DEF Kinds
<1>11. CASE FilterReplied
  <2> DEFINE m == [ctl EXCEPT !.d2c = IF Answered THEN Unread ELSE <<>>]
  <2>1. Kept(ctl, m) /\ m.c = ctl.c /\ cl.pc \in {"norpcap", "upd"}
    BY <1>11, <1>a DEF FilterReplied
  <2>2. \/ ctl' = m /\ Return([cl EXCEPT !.fp = "started"], 0)
        \/ cl.pc = "norpcap" /\ StartFails(m, data)
        \/ cl.pc = "upd" /\ ctl' = m /\ Return(cl, 0)
    BY <1>11 DEF FilterReplied
  <2> HIDE DEF m
  <2>3. CASE ctl' = m /\ Return([cl EXCEPT !.fp = "started"], 0)
    BY <2>1, <2>3, StartedHolding DEF Kinds
  <2>4. CASE cl.pc = "upd" /\ ctl' = m /\ Return(cl, 0)
    BY <1>c, <2>1, <2>4, ReturnHolding DEF Kinds
  <2> QED
    BY <2>1, <2>2, <2>3, <2>4, StartFailsHolding DEF Kinds
<1>12. CASE StatsReplied
  <2>1. Kept(ctl, ctl') /\ ctl'.c = ctl.c /\ cl.pc = "stats"
    BY <1>12, <1>a DEF StatsReplied
  <2>2. cl' = [cl EXCEPT !.pc = "lost"] \/ Return(cl, 0)
    BY <1>12 DEF StatsReplied
  <2>3. CASE cl' = [cl EXCEPT !.pc = "lost"]
    BY <1>c, <1>d, <2>1, <2>3, PlacedHolding DEF Connecting, Kinds
  <2>4. CASE Return(cl, 0)
    BY <1>c, <2>1, <2>4, ReturnHolding DEF Kinds
  <2> QED
    BY <2>2, <2>3, <2>4
<1>13. CASE EndCapReplied
  <2>1. Kept(ctl, ctl') /\ cl.pc = "endcap" /\ Return([cl EXCEPT !.fp = "none", !.own = FALSE], -1)
    BY <1>13, <1>a DEF EndCapReplied
  <2> QED
    BY <1>c, <2>1, ClosedHolding DEF Kinds
<1>14. CASE AcceptHost
  <2>1. CASE ctl.c = "open" /\ Send("AUTH_REQ") /\ cl' = [cl EXCEPT !.pc = "auth_host"]
    <3>1. Kept(ctl, ctl')
      BY <2>1, SendHolds
    <3>2. cl.pc = "accept" /\ cl'.pc = "auth_host"
      BY <1>14, <1>c, <2>1 DEF AcceptHost, ClientType
    <3> QED
      BY <2>1, <3>1, <3>2 DEF Holding, OnceStep, OnceClient, Kinds
  <2>2. CASE ctl.c = "listen" /\ ctl' = NoConnection /\ Return(cl, -1)
    <3>1. -1 \in Int
      OBVIOUS
    <3>2. GoesTo(cl, "idle", -1)
      BY <1>c, <2>2, <3>1, ReturnGoes
    <3> QED
      BY <1>14, <2>2, <3>2 DEF AcceptHost, GoesTo, Listens, Kinds
  <2> QED
    BY <1>14, <2>1, <2>2 DEF AcceptHost
<1>15. CASE HostAccepted
  <2>1. CASE Answered /\ ctl' = [ctl EXCEPT !.d2c = Unread] /\ Return([cl EXCEPT !.host = TRUE], 0)
    <3>1. cl'.pc = "idle"
      BY <1>c, <2>1 DEF Return, ClientType
    <3> QED
      BY <1>15, <1>a, <2>1, <3>1, HostHolding DEF HostAccepted, Kinds
  <2>2. CASE ctl' = CloseControl(ToDaemon(ctl, Plain("ERROR"))) /\ Return(cl, 0)
    <3>1. Kept(ctl, ToDaemon(ctl, Plain("ERROR")))
      BY KeptSame, SentKept
    <3>2. Kept(ctl, ctl')
      BY <2>2, <3>1, SentKept
    <3>3. cl'.pc = "idle"
      BY <1>c, <2>2 DEF Return, ClientType
    <3> QED
      BY <1>15, <3>2, <3>3, HostHolding DEF HostAccepted, Kinds
  <2> QED
    BY <1>15, <1>b, <2>1, <2>2 DEF HostAccepted
<1> QED
    BY <1>1, <1>2, <1>3, <1>4, <1>5, <1>6, <1>7, <1>8, <1>9, <1>10, <1>11, <1>12, <1>13, <1>14,
       <1>15 DEF Answers

LEMMA ReadsKinds ==
    ASSUME ClientInv, ctl \in ControlType, data.q \in Seq(Packet), Reads \/ LoseDatagram
    PROVE  Kinds
<1>1. ctl' = ctl /\ Kept(ctl, ctl')
    BY KeptSame DEF Reads, ReadTcp, ReadUdp, LoseDatagram
<1>2. CASE LoseDatagram
  <2>1. cl' = cl
    BY <1>2 DEF LoseDatagram
  <2> QED
    BY <1>1, <2>1 DEF Kinds, Holding, OnceStep, OnceClient, MayStart
<1>3. CASE Reads
  <2>1. /\ cl.pc = "idle"
        /\ cl'.own = cl.own /\ cl'.fp = cl.fp /\ cl'.host = cl.host /\ cl'.pc \in {"idle", "lost"}
    <3>1. CASE ReadUdp
      BY <3>1 DEF ReadUdp, ClientInv, ClientType
    <3>2. CASE ReadTcp
      <4>1. Head(data.q) \in Packet
        BY <3>2, HeadTailProperties DEF ReadTcp
      <4>2. cl.pc = "idle"
        BY <3>2 DEF ReadTcp
      <4>3. CASE Head(data.q).k \in {"whole", "torn"}
        <5>1. cl' = [cl EXCEPT !.TotCapt = (@ + 1) % W]
          BY <3>2, <4>3 DEF ReadTcp
        <5> QED
          BY <4>2, <5>1 DEF ClientInv, ClientType
      <4>4. CASE Head(data.q).k = "big"
        <5>1. cl' = cl
          BY <3>2, <4>4 DEF ReadTcp
        <5> QED
          BY <4>2, <5>1
      <4>5. CASE Head(data.q).k = "rest"
        <5>1. cl' = [cl EXCEPT !.pc = "lost"]
          BY <3>2, <4>5 DEF ReadTcp
        <5> QED
          BY <4>2, <5>1 DEF ClientInv, ClientType
      <4> QED
        BY <4>1, <4>3, <4>4, <4>5 DEF Packet
    <3> QED
      BY <1>3, <3>1, <3>2 DEF Reads
  <2>2. OnceStep
    BY <1>1, <2>1 DEF OnceStep, OnceClient, MayStart, Connecting
  <2> QED
    BY <1>1, <2>1, <2>2 DEF Kinds, Holding
<1> QED
    BY <1>2, <1>3

LEMMA ClientKinds ==
    ASSUME SessionInv, ClientStep
    PROVE  Kinds
BY CallsKinds, AnswersKinds, ReadsKinds DEF SessionInv, WiresTyped, DataType, ClientStep

----------------------------------------------------------------------------
(* The invariant of a capture that starts: where the loop and the           *)
(* connection are, the sampling that is asked for before the start, and, in *)
(* passive mode, the one start of a connection.                             *)
LoopAt(c, m) ==
    /\ c.d # "open" => m.pc = "none"
    /\ m.pc = "none" => ~m.fp /\ m.samp = "unset"

Listening(l, c) == c.c = "listen" => c.d = "none" /\ l.pc = "accept"

Sampled(l, c, m) ==
    c.d \in {"backlog", "open"} =>
        /\ m.samp = "asked" \/ Preceded(c.c2d)
        /\ l.pc = "samp" => m.samp = "asked" \/ Reaches(c, "SETSAMPLING_REQ")
        /\ m.pc = "accept" => m.samp = "asked"

Once(l, c, m) ==
    /\ OnceClient(l, c)
    /\ MayStart(l) => ~Occurs(c.c2d, "STARTCAP_REQ") /\ ~m.fp /\ m.pc # "accept"
    /\ Occurs(c.c2d, "STARTCAP_REQ") => ~m.fp /\ m.pc # "accept"
    /\ Lone(c.c2d)
    /\ m.pc = "accept" => ~m.fp

Begun(l, c, m) ==
    /\ LoopAt(c, m)
    /\ Listening(l, c)
    /\ mode.samp => Sampled(l, c, m)
    /\ ~mode.active => Once(l, c, m)

\* the data thread runs inside the capture of the loop
Inside ==
    None({"captureForgotten"}) /\ th \in {"new", "run", "closing"} =>
        /\ dm.fp /\ dm.handle /\ dm.rd /\ dm.pc \in {"loop", "lost"}
        /\ mode.samp => dm.use = "asked"

LEMMA HeadedOccurs ==
    ASSUME NEW t, NEW m, Headed(m, t), t # "STARTCAP_REQ"
    PROVE  ~Occurs(m, "STARTCAP_REQ") /\ Lone(m) /\ Preceded(m)
<1>1. Len(m) \in Nat /\ \A i \in 1..Len(m) : m[i].t # "STARTCAP_REQ"
  <2>1. Len(m) \in Nat
    BY LenProperties DEF Headed
  <2>2. ASSUME NEW i \in 1..Len(m) PROVE m[i].t # "STARTCAP_REQ"
    <3>1. i = 1 \/ i \in 2..Len(m)
      BY <2>1
    <3> QED
      BY <3>1 DEF Headed
  <2> QED
    BY <2>1, <2>2
<1> QED
    BY <1>1 DEF Occurs, Lone, Preceded

LEMMA NothingOccurs == ~Occurs(<<>>, "STARTCAP_REQ") /\ Lone(<<>>) /\ Preceded(<<>>)
<1>1. 1..Len(<<>>) = {}
    BY EmptySeq
<1> QED
    BY <1>1 DEF Occurs, Lone, Preceded

LEMMA HoldingBegun ==
    ASSUME Begun(cl, ctl, dm), Holding, dm' = dm, mode' = mode
    PROVE  Begun(cl', ctl', dm')
<1>1. /\ ctl'.d = ctl.d /\ ctl'.up = ctl.up /\ (ctl'.c = ctl.c \/ ctl'.c = "closed")
      /\ Keeps(ctl.c2d, ctl'.c2d)
    BY DEF Holding, Kept
<1>2. LoopAt(ctl', dm')
    BY <1>1 DEF Begun, LoopAt
<1>3. Listening(cl', ctl')
    BY <1>1 DEF Begun, Listening, Holding
<1>4. ASSUME mode.samp PROVE Sampled(cl', ctl', dm')
  <2>1. Sampled(cl, ctl, dm)
    BY <1>4 DEF Begun
  <2>2. Reaches(ctl, "SETSAMPLING_REQ") => Reaches(ctl', "SETSAMPLING_REQ")
    BY <1>1 DEF Reaches, Keeps
  <2> QED
    BY <1>1, <2>1, <2>2 DEF Sampled, Holding, Keeps
<1>5. ASSUME ~mode.active PROVE Once(cl', ctl', dm')
  <2>1. Once(cl, ctl, dm)
    BY <1>5 DEF Begun
  <2>2. OnceClient(cl', ctl') /\ (MayStart(cl') => MayStart(cl))
    BY <1>5, <2>1 DEF Holding, OnceStep, Once
  <2> QED
    BY <1>1, <2>1, <2>2 DEF Once, Keeps
<1> QED
    BY <1>2, <1>3, <1>4, <1>5 DEF Begun

\* what the request to start does to the stream
LEMMA StartSent ==
    ASSUME Starting, ctl \in ControlType
    PROVE  /\ ctl'.d = ctl.d /\ ctl'.c = ctl.c
           /\ \E s \in Seq(Unit) : \E w :
                 /\ Keeps(ctl.c2d, s) /\ Headed(w, "STARTCAP_REQ")
                 /\ \/ ctl'.c2d = s
                    \/ ctl'.c2d = s \o w /\ ctl.up /\ ctl.c = "open"
<1>0. PICK m \in ControlType : \E w :
          Kept(ctl, m) /\ m.c = ctl.c /\ Headed(w, "STARTCAP_REQ") /\ ctl' = ToDaemon(m, w)
    BY DEF Starting
<1>1. PICK w : Kept(ctl, m) /\ m.c = ctl.c /\ Headed(w, "STARTCAP_REQ") /\ ctl' = ToDaemon(m, w)
    BY <1>0
<1>2. m.d = ctl.d /\ m.up = ctl.up /\ Keeps(ctl.c2d, m.c2d) /\ m.c2d \in Seq(Unit)
    BY <1>1 DEF Kept, ControlType
<1>3. CASE m.up /\ m.d \in {"backlog", "open"} /\ m.c = "open"
  <2> DEFINE r == m.c2d \o w
  <2>1. ctl' = [m EXCEPT !.c2d = r]
    BY <1>1, <1>3 DEF ToDaemon
  <2> HIDE DEF r
  <2>2. ctl'.d = m.d /\ ctl'.c = m.c /\ ctl'.c2d = r
    BY <2>1 DEF ControlType
  <2> QED
    BY <1>1, <1>2, <1>3, <2>2 DEF r
<1>4. CASE ~(m.up /\ m.d \in {"backlog", "open"} /\ m.c = "open")
  <2>1. ctl' = m
    BY <1>1, <1>4 DEF ToDaemon
  <2> QED
    BY <1>1, <1>2, <2>1
<1> QED
    BY <1>3, <1>4

LEMMA StartingBegun ==
    ASSUME Begun(cl, ctl, dm), Starting, ctl \in ControlType, dm' = dm, mode' = mode
    PROVE  Begun(cl', ctl', dm')
<1>1. ctl'.d = ctl.d /\ ctl'.c = ctl.c /\ cl'.pc = "start" /\ cl.pc # "accept"
    BY StartSent DEF Starting
<1>0. PICK s \in Seq(Unit) : \E w :
          /\ Keeps(ctl.c2d, s) /\ Headed(w, "STARTCAP_REQ")
          /\ \/ ctl'.c2d = s
             \/ ctl'.c2d = s \o w /\ ctl.up /\ ctl.c = "open"
    BY StartSent
<1>2. PICK w :
          /\ Keeps(ctl.c2d, s) /\ Headed(w, "STARTCAP_REQ")
          /\ \/ ctl'.c2d = s
             \/ ctl'.c2d = s \o w /\ ctl.up /\ ctl.c = "open"
    BY <1>0
<1>3. LoopAt(ctl', dm') /\ Listening(cl', ctl')
    BY <1>1 DEF Begun, LoopAt, Listening
<1>4. ASSUME mode.samp PROVE Sampled(cl', ctl', dm')
  <2>1. Sampled(cl, ctl, dm) /\ cl.pc = "samp"
    BY <1>4 DEF Begun, Starting
  <2> SUFFICES ASSUME ctl.d \in {"backlog", "open"}, dm.samp # "asked" PROVE Preceded(ctl'.c2d)
    BY <1>1, <2>1 DEF Sampled
  <2>2. Preceded(ctl.c2d) /\ Reaches(ctl, "SETSAMPLING_REQ")
    BY <2>1 DEF Sampled
  <2>3. CASE ctl'.c2d = s
    BY <1>2, <2>2, <2>3 DEF Keeps
  <2>4. CASE ctl'.c2d = s \o w /\ ctl.up /\ ctl.c = "open"
    <3>1. Preceded(s) /\ Occurs(s, "SETSAMPLING_REQ")
      BY <1>2, <2>2, <2>4 DEF Keeps, Reaches
    <3> QED
      BY <1>2, <2>4, <3>1, StartFollows
  <2> QED
    BY <1>2, <2>3, <2>4
<1>5. ASSUME ~mode.active PROVE Once(cl', ctl', dm')
  <2>1. Once(cl, ctl, dm)
    BY <1>5 DEF Begun
  <2>2. OnceClient(cl', ctl') /\ MayStart(cl)
    BY <1>5, <2>1 DEF Starting, Once
  <2>3. ~Occurs(ctl.c2d, "STARTCAP_REQ") /\ ~dm.fp /\ dm.pc # "accept" /\ Lone(ctl.c2d)
    BY <2>1, <2>2 DEF Once
  <2>4. Lone(ctl'.c2d)
    BY <1>2, <2>3, StartFollows DEF Keeps
  <2>5. ~MayStart(cl')
    BY <1>1 DEF MayStart
  <2> QED
    BY <2>2, <2>3, <2>4, <2>5 DEF Once
<1> QED
    BY <1>3, <1>4, <1>5 DEF Begun

LEMMA Connects2Begun ==
    ASSUME Begun(cl, ctl, dm), Connects2, dm' = dm, mode' = mode
    PROVE  Begun(cl', ctl', dm')
<1>1. /\ ctl'.d = "backlog" /\ ctl'.c = "open" /\ ctl'.c2d = Plain("AUTH_REQ")
      /\ ctl.d \in {"none", "closed", "held"} /\ cl'.pc \in Connecting
    BY DEF Connects2, NoConnection, Idle
<1>2. dm.pc = "none" /\ ~dm.fp /\ dm.samp = "unset"
    BY <1>1 DEF Begun, LoopAt
<1>3. /\ ~Occurs(ctl'.c2d, "STARTCAP_REQ") /\ Lone(ctl'.c2d) /\ Preceded(ctl'.c2d)
  <2>1. Headed(Plain("AUTH_REQ"), "AUTH_REQ")
    BY PlainHeaded
  <2> QED
    BY <1>1, <2>1, HeadedOccurs
<1>4. LoopAt(ctl', dm') /\ Listening(cl', ctl')
    BY <1>1, <1>2 DEF LoopAt, Listening
<1>5. Sampled(cl', ctl', dm')
    BY <1>1, <1>2, <1>3 DEF Sampled, Connecting
<1>6. ASSUME ~mode.active PROVE Once(cl', ctl', dm')
  <2>1. OnceClient(cl', ctl')
    BY <1>6 DEF Begun, Once, Connects2
  <2> QED
    BY <1>2, <1>3, <2>1 DEF Once
<1> QED
    BY <1>4, <1>5, <1>6 DEF Begun

LEMMA ListensBegun ==
    ASSUME Begun(cl, ctl, dm), Listens, dm' = dm, mode' = mode
    PROVE  Begun(cl', ctl', dm')
<1>1. /\ ctl'.d = "none" /\ ctl'.c \in {"none", "listen"}
      /\ ctl'.c = "listen" => cl'.pc = "accept"
    BY DEF Listens, NoConnection
<1>2. ctl.d # "open"
    BY DEF Listens, Idle, Begun, Listening
<1>3. mode.active
    BY DEF Listens, Begun, Once, OnceClient
<1> QED
    BY <1>1, <1>2, <1>3 DEF Begun, LoopAt, Listening, Sampled

LEMMA ClientBegun ==
    ASSUME SessionInv, Begun(cl, ctl, dm), ClientStep
    PROVE  Begun(cl', ctl', dm')
<1>1. dm' = dm
    BY DEF ClientStep, daemonVars
<1>2. mode' = mode
    BY ModeStays
<1>3. ctl \in ControlType
    BY DEF SessionInv, WiresTyped
<1> QED
    BY <1>1, <1>2, <1>3, ClientKinds, HoldingBegun, StartingBegun, Connects2Begun, ListensBegun DEF Kinds

----------------------------------------------------------------------------
(* What the daemon and the network do.                                      *)
SameEnds(c, e) == e.c = c.c /\ e.d = c.d /\ e.up = c.up

\* no more captures to start than there were
Fewer(s, r) ==
    /\ Occurs(r, "STARTCAP_REQ") => Occurs(s, "STARTCAP_REQ")
    /\ Lone(s) => Lone(r)

\* the request that was taken is the one to start
StartRead(s, r) ==
    /\ Occurs(s, "STARTCAP_REQ") /\ ~Preceded(s)
    /\ Lone(s) => Lone(r) /\ ~Occurs(r, "STARTCAP_REQ")

NewLoop(pc) == dm'.pc = pc /\ ~dm'.fp /\ dm'.samp = "unset"

Ended ==
    /\ ctl'.c = ctl.c /\ ctl'.d \notin {"backlog", "open"} /\ (ctl.d = "none" => ctl'.d = "none")
    /\ NewLoop("none")
    /\ Fewer(ctl.c2d, ctl'.c2d)

Served ==
    /\ SameEnds(ctl, ctl') /\ Keeps(ctl.c2d, ctl'.c2d)
    /\ dm.pc # "none" /\ dm'.pc \in {"auth", "loop", "lost"}
    /\ dm'.samp = dm.samp /\ (dm'.fp => dm.fp)

Aside ==
    /\ SameEnds(ctl, ctl') /\ ctl'.c2d = ctl.c2d
    /\ dm'.pc = dm.pc /\ dm'.fp = dm.fp /\ dm'.samp = dm.samp

Accepted ==
    /\ ctl.d = "backlog" /\ ctl'.d = "open"
    /\ ctl'.c = ctl.c /\ ctl'.up = ctl.up /\ ctl'.c2d = ctl.c2d
    /\ dm' = dm \/ NewLoop("auth")

Reconnected ==
    /\ mode.active /\ ctl.c = "listen"
    /\ ctl'.c = "open" /\ ctl'.d = "open" /\ ctl'.c2d = <<>>
    /\ NewLoop("auth")

SamplingTaken ==
    /\ SameEnds(ctl, ctl') /\ ctl.d = "open" /\ Fewer(ctl.c2d, ctl'.c2d)
    /\ dm.pc = "loop" /\ dm'.pc = "loop" /\ dm'.fp = dm.fp /\ dm'.samp = "asked"

StartTaken ==
    /\ SameEnds(ctl, ctl') /\ ctl.d = "open" /\ StartRead(ctl.c2d, ctl'.c2d)
    /\ dm'.pc \in {"loop", "accept"} /\ (dm'.pc = "accept" => dm'.fp = dm.fp)
    /\ dm'.samp = dm.samp

DataAccepted ==
    /\ SameEnds(ctl, ctl') /\ ctl'.c2d = ctl.c2d
    /\ dm.pc = "accept" /\ dm'.pc = "loop" /\ dm'.samp = dm.samp

Broken ==
    /\ ctl'.c = ctl.c /\ ctl'.d = ctl.d /\ ~ctl'.up /\ dm' = dm
    /\ Fewer(ctl.c2d, ctl'.c2d) /\ (Preceded(ctl.c2d) => Preceded(ctl'.c2d))

DaemonKinds ==
    \/ Ended \/ Served \/ Aside \/ Accepted \/ Reconnected \/ SamplingTaken \/ StartTaken
    \/ DataAccepted \/ Broken

LEMMA EndedBegun ==
    ASSUME Begun(cl, ctl, dm), Ended, cl' = cl, mode' = mode
    PROVE  Begun(cl', ctl', dm')
<1>1. LoopAt(ctl', dm') /\ Listening(cl', ctl') /\ Sampled(cl', ctl', dm')
    BY DEF Begun, Ended, NewLoop, LoopAt, Listening, Sampled
<1>2. ASSUME ~mode.active PROVE Once(cl', ctl', dm')
  <2>1. Once(cl, ctl, dm)
    BY <1>2 DEF Begun
  <2> QED
    BY <2>1 DEF Once, OnceClient, Ended, NewLoop, Fewer
<1> QED
    BY <1>1, <1>2 DEF Begun

LEMMA ServedBegun ==
    ASSUME Begun(cl, ctl, dm), Served \/ Aside, cl' = cl, mode' = mode
    PROVE  Begun(cl', ctl', dm')
<1>0. /\ SameEnds(ctl, ctl') /\ Keeps(ctl.c2d, ctl'.c2d)
      /\ dm'.samp = dm.samp /\ (dm'.fp => dm.fp)
      /\ dm'.pc = dm.pc \/ (dm.pc # "none" /\ dm'.pc \in {"auth", "loop", "lost"})
    BY DEF Served, Aside, Keeps
<1>1. LoopAt(ctl', dm') /\ Listening(cl', ctl')
    BY <1>0 DEF Begun, LoopAt, Listening, SameEnds
<1>2. ASSUME mode.samp PROVE Sampled(cl', ctl', dm')
  <2>1. Sampled(cl, ctl, dm)
    BY <1>2 DEF Begun
  <2>2. Reaches(ctl, "SETSAMPLING_REQ") => Reaches(ctl', "SETSAMPLING_REQ")
    BY <1>0 DEF Reaches, Keeps, SameEnds
  <2> QED
    BY <1>0, <2>1, <2>2 DEF Sampled, SameEnds, Keeps
<1>3. ASSUME ~mode.active PROVE Once(cl', ctl', dm')
  <2>1. Once(cl, ctl, dm)
    BY <1>3 DEF Begun
  <2> QED
    BY <1>0, <2>1 DEF Once, OnceClient, SameEnds, Keeps
<1> QED
    BY <1>1, <1>2, <1>3 DEF Begun

LEMMA AcceptedBegun ==
    ASSUME Begun(cl, ctl, dm), Accepted, cl' = cl, mode' = mode
    PROVE  Begun(cl', ctl', dm')
<1>1. dm.pc = "none" /\ ~dm.fp /\ dm.samp = "unset"
    BY DEF Begun, LoopAt, Accepted
<1>2. dm'.pc \in {"none", "auth"} /\ ~dm'.fp /\ dm'.samp = "unset"
    BY <1>1 DEF Accepted, NewLoop
<1>3. LoopAt(ctl', dm') /\ Listening(cl', ctl')
    BY <1>2 DEF Begun, LoopAt, Listening, Accepted
<1>4. ASSUME mode.samp PROVE Sampled(cl', ctl', dm')
  <2>1. Sampled(cl, ctl, dm)
    BY <1>4 DEF Begun
  <2>2. Reaches(ctl, "SETSAMPLING_REQ") => Reaches(ctl', "SETSAMPLING_REQ")
    BY DEF Reaches, Accepted
  <2> QED
    BY <1>1, <1>2, <2>1, <2>2 DEF Sampled, Accepted
<1>5. ASSUME ~mode.active PROVE Once(cl', ctl', dm')
  <2>1. Once(cl, ctl, dm)
    BY <1>5 DEF Begun
  <2> QED
    BY <1>2, <2>1 DEF Once, OnceClient, Accepted
<1> QED
    BY <1>3, <1>4, <1>5 DEF Begun

LEMMA ReconnectedBegun ==
    ASSUME Begun(cl, ctl, dm), Reconnected, cl' = cl, mode' = mode
    PROVE  Begun(cl', ctl', dm')
<1>1. cl'.pc = "accept"
    BY DEF Begun, Listening, Reconnected
<1> QED
    BY <1>1, NothingOccurs DEF Begun, Reconnected, NewLoop, LoopAt, Listening, Sampled

LEMMA SamplingTakenBegun ==
    ASSUME Begun(cl, ctl, dm), SamplingTaken, cl' = cl, mode' = mode
    PROVE  Begun(cl', ctl', dm')
<1>1. LoopAt(ctl', dm') /\ Listening(cl', ctl') /\ Sampled(cl', ctl', dm')
    BY DEF Begun, SamplingTaken, SameEnds, LoopAt, Listening, Sampled
<1>2. ASSUME ~mode.active PROVE Once(cl', ctl', dm')
  <2>1. Once(cl, ctl, dm)
    BY <1>2 DEF Begun
  <2> QED
    BY <2>1 DEF Once, OnceClient, SamplingTaken, SameEnds, Fewer
<1> QED
    BY <1>1, <1>2 DEF Begun

LEMMA StartTakenBegun ==
    ASSUME Begun(cl, ctl, dm), StartTaken, cl' = cl, mode' = mode
    PROVE  Begun(cl', ctl', dm')
<1>1. LoopAt(ctl', dm') /\ Listening(cl', ctl')
    BY DEF Begun, StartTaken, SameEnds, LoopAt, Listening
<1>2. ASSUME mode.samp PROVE Sampled(cl', ctl', dm')
  <2>1. Sampled(cl, ctl, dm)
    BY <1>2 DEF Begun
  <2>2. dm.samp = "asked"
    BY <2>1 DEF Sampled, StartTaken, StartRead
  <2> QED
    BY <2>2 DEF Sampled, StartTaken
<1>3. ASSUME ~mode.active PROVE Once(cl', ctl', dm')
  <2>1. Once(cl, ctl, dm)
    BY <1>3 DEF Begun
  <2> QED
    BY <2>1 DEF Once, OnceClient, StartTaken, StartRead, SameEnds
<1> QED
    BY <1>1, <1>2, <1>3 DEF Begun

LEMMA DataAcceptedBegun ==
    ASSUME Begun(cl, ctl, dm), DataAccepted, cl' = cl, mode' = mode
    PROVE  Begun(cl', ctl', dm')
<1>1. LoopAt(ctl', dm') /\ Listening(cl', ctl')
    BY DEF Begun, DataAccepted, SameEnds, LoopAt, Listening
<1>2. ASSUME mode.samp PROVE Sampled(cl', ctl', dm')
  <2>1. Sampled(cl, ctl, dm)
    BY <1>2 DEF Begun
  <2> QED
    BY <2>1 DEF Sampled, DataAccepted, SameEnds
<1>3. ASSUME ~mode.active PROVE Once(cl', ctl', dm')
  <2>1. Once(cl, ctl, dm)
    BY <1>3 DEF Begun
  <2> QED
    BY <2>1 DEF Once, OnceClient, DataAccepted, SameEnds
<1> QED
    BY <1>1, <1>2, <1>3 DEF Begun

LEMMA BrokenBegun ==
    ASSUME Begun(cl, ctl, dm), Broken, cl' = cl, mode' = mode
    PROVE  Begun(cl', ctl', dm')
<1>1. LoopAt(ctl', dm') /\ Listening(cl', ctl')
    BY DEF Begun, Broken, LoopAt, Listening
<1>2. ASSUME mode.samp PROVE Sampled(cl', ctl', dm')
  <2>1. Sampled(cl, ctl, dm)
    BY <1>2 DEF Begun
  <2> QED
    BY <2>1 DEF Sampled, Broken, Reaches
<1>3. ASSUME ~mode.active PROVE Once(cl', ctl', dm')
  <2>1. Once(cl, ctl, dm)
    BY <1>3 DEF Begun
  <2> QED
    BY <2>1 DEF Once, OnceClient, Broken, Fewer
<1> QED
    BY <1>1, <1>2, <1>3 DEF Begun

LEMMA KindsBegun ==
    ASSUME Begun(cl, ctl, dm), DaemonKinds, cl' = cl, mode' = mode
    PROVE  Begun(cl', ctl', dm')
BY EndedBegun, ServedBegun, AcceptedBegun, ReconnectedBegun, SamplingTakenBegun, StartTakenBegun,
   DataAcceptedBegun, BrokenBegun DEF DaemonKinds

\* What is sent to the client leaves the requests as they are.
LEMMA ToClientSame ==
    ASSUME NEW c \in ControlType
    PROVE  /\ \A m : SameEnds(c, ToClient(c, m)) /\ ToClient(c, m).c2d = c.c2d
           /\ SameEnds(c, SendError(c)) /\ SendError(c).c2d = c.c2d
<1>1. ASSUME NEW m PROVE SameEnds(c, ToClient(c, m)) /\ ToClient(c, m).c2d = c.c2d
  <2> DEFINE r == c.d2c \o m
  <2>1. ToClient(c, m) = c \/ ToClient(c, m) = [c EXCEPT !.d2c = r]
    BY DEF ToClient
  <2> HIDE DEF r
  <2> QED
    BY <2>1 DEF ControlType, SameEnds
<1> QED
    BY <1>1 DEF SendError

LEMMA TookSame ==
    ASSUME ctl \in ControlType, NEW s \in Seq(Unit)
    PROVE  Took(s) \in ControlType /\ SameEnds(ctl, Took(s)) /\ Took(s).c2d = s
BY DEF Took, ControlType, SameEnds

LEMMA SameTwice ==
    ASSUME NEW a, NEW b, NEW c, SameEnds(a, b), SameEnds(b, c)
    PROVE  SameEnds(a, c)
BY DEF SameEnds

\* A request, read up to its end or less.
LEMMA RequestHead ==
    ASSUME Fine(ctl, exits), Arrived
    PROVE  /\ ctl \in ControlType /\ ctl.c2d \in Seq(Unit) /\ ctl.c2d # <<>>
           /\ Request = ctl.c2d[1] /\ Len(ctl.c2d) \in Nat /\ 1 \in 1..Len(ctl.c2d)
           /\ Request.n \in Nat /\ Request.plen \in Nat /\ Request.plen <= Request.n
           /\ 1 + Request.n \in Nat /\ 1 + Request.plen \in Nat
<1>1. ctl \in ControlType /\ ctl.c2d \in Seq(Unit) /\ ctl.c2d # <<>> /\ Framed(ctl.c2d)
    BY DEF Fine, ControlType, Arrived
<1>2. Request = ctl.c2d[1] /\ Len(ctl.c2d) \in Nat /\ 1 \in 1..Len(ctl.c2d)
    BY <1>1, HeadTailProperties, EmptySeq, UnitsTyped DEF Request
<1>3. Request.n \in Nat /\ Request.plen \in Nat
    BY <1>1, <1>2, UnitsTyped
<1>4. Request.plen <= Request.n
    BY <1>1, <1>2 DEF Framed
<1> QED
    BY <1>1, <1>2, <1>3, <1>4

LEMMA TakenKeeps ==
    ASSUME Fine(ctl, exits), Arrived, Request.t \notin {"body", "SETSAMPLING_REQ"},
           NEW k \in Nat, k <= 1 + Request.n
    PROVE  Keeps(ctl.c2d, After(ctl.c2d, k)) /\ After(ctl.c2d, k) \in Seq(Unit)
<1> DEFINE s == ctl.c2d
           n == Request.n
<1>1. s \in Seq(Unit) /\ Request = s[1] /\ Len(s) \in Nat /\ 1 \in 1..Len(s) /\ n \in Nat
    BY RequestHead
<1>2. \A j \in 1..n : 1 + j <= Len(s) => s[1 + j].t = "body"
    BY <1>1 DEF Fine, Framed, HeaderAt
<1>3. ASSUME NEW i \in 1..Len(s), i <= k PROVE s[i].t # "SETSAMPLING_REQ"
  <2>1. CASE i = 1
    BY <1>1, <2>1
  <2>2. CASE i # 1
    <3>1. i - 1 \in 1..n /\ 1 + (i - 1) = i
      BY <1>1, <1>3, <2>2
    <3>2. s[1 + (i - 1)].t = "body"
      BY <1>1, <1>2, <3>1
    <3> QED
      BY <3>1, <3>2
  <2> QED
    BY <2>1, <2>2
<1> QED
    BY <1>1, <1>3, SuffixKeeps, AfterTyped

LEMMA TakenFewer ==
    ASSUME Fine(ctl, exits), Arrived, NEW k \in Nat
    PROVE  Fewer(ctl.c2d, After(ctl.c2d, k)) /\ After(ctl.c2d, k) \in Seq(Unit)
BY RequestHead, SuffixKeeps, AfterTyped DEF Fewer

LEMMA StartIsRead ==
    ASSUME Fine(ctl, exits), Arrived, Request.t = "STARTCAP_REQ", NEW k \in Nat, k > 0
    PROVE  StartRead(ctl.c2d, After(ctl.c2d, k)) /\ After(ctl.c2d, k) \in Seq(Unit)
<1> DEFINE s == ctl.c2d
<1>1. s \in Seq(Unit) /\ s # <<>> /\ Len(s) \in Nat /\ 1 \in 1..Len(s) /\ s[1].t = "STARTCAP_REQ"
    BY RequestHead
<1>2. Occurs(s, "STARTCAP_REQ")
    BY <1>1 DEF Occurs
<1>3. ~Preceded(s)
  <2>1. 1..1 - 1 = {}
    OBVIOUS
  <2> QED
    BY <1>1, <2>1 DEF Preceded
<1> HIDE DEF s
<1>4. Lone(s) => Lone(After(s, k)) /\ ~Occurs(After(s, k), "STARTCAP_REQ")
    BY <1>1, SuffixKeeps
<1> QED
    BY <1>1, <1>2, <1>3, <1>4, AfterTyped DEF StartRead, s

\* An answer to the request, or an error.
LEMMA AnswerSame ==
    ASSUME ctl \in ControlType, NEW s \in Seq(Unit),
           \/ ctl' = Took(s) \/ ctl' = SendError(Took(s))
           \/ \E m : ctl' = ToClient(Took(s), m)
    PROVE  SameEnds(ctl, ctl') /\ ctl'.c2d = s
<1> DEFINE c == Took(s)
<1>1. c \in ControlType /\ SameEnds(ctl, c) /\ c.c2d = s
    BY TookSame
<1> HIDE DEF c
<1>2. ctl' = c \/ ctl' = SendError(c) \/ \E m : ctl' = ToClient(c, m)
    BY DEF c
<1>3. SameEnds(c, ctl') /\ ctl'.c2d = c.c2d
    BY <1>1, <1>2, ToClientSame DEF SameEnds
<1> QED
    BY <1>1, <1>3, SameTwice

LEMMA FewerSame == \A s : Fewer(s, s) /\ Keeps(s, s)
BY DEF Fewer, Keeps

LEMMA KeepsFewer == ASSUME NEW s, NEW r, Keeps(s, r) PROVE Fewer(s, r)
BY DEF Keeps, Fewer

LEMMA EndLoopKinds ==
    ASSUME NEW c \in ControlType, NEW asked, EndLoop(c, asked), ctl.d = "open",
           SameEnds(ctl, c), Fewer(ctl.c2d, c.c2d)
    PROVE  Ended
<1>1. PICK e \in {"held", "closed"} : ctl' = [c EXCEPT !.d = e]
    BY DEF EndLoop
<1>2. ctl'.c = c.c /\ ctl'.d = e /\ ctl'.c2d = c.c2d
    BY <1>1 DEF ControlType
<1>3. NewLoop("none")
    BY DEF EndLoop, NoLoop, NewLoop
<1> QED
    BY <1>2, <1>3 DEF Ended, SameEnds

LEMMA ServiceKinds ==
    ASSUME SessionInv, LoopAt(ctl, dm), Service
    PROVE  DaemonKinds
<1>0. ctl \in ControlType /\ dm \in LoopType
    BY DEF SessionInv, WiresTyped, LoopTyped
<1>1. CASE AcceptControl
  <2> DEFINE m == [ctl EXCEPT !.d = "open"]
             e == SendError(m)
  <2>1. m \in ControlType /\ m.d = "open" /\ m.c = ctl.c /\ m.up = ctl.up /\ m.c2d = ctl.c2d
    BY <1>0 DEF ControlType, Ends
  <2>2. ctl.d = "backlog" /\ dm.pc = "none"
    BY <1>1 DEF AcceptControl
  <2>3. \/ ctl' = [e EXCEPT !.d = "closed"] /\ dm' = dm
        \/ ctl' = m /\ (dm' = dm \/ dm' = [NoLoop EXCEPT !.pc = "auth", !.null = conf.null])
    BY <1>1 DEF AcceptControl
  <2> HIDE DEF m
  <2>4. e \in ControlType /\ SameEnds(m, e) /\ e.c2d = m.c2d
    BY <2>1, ToClientSame, SendErrorTyped
  <2> HIDE DEF e
  <2>5. CASE ctl' = [e EXCEPT !.d = "closed"] /\ dm' = dm
    <3>1. ctl'.c = ctl.c /\ ctl'.d = "closed" /\ ctl'.c2d = ctl.c2d
      BY <2>1, <2>4, <2>5 DEF ControlType, SameEnds
    <3> QED
      BY <2>2, <2>5, <3>1, FewerSame DEF LoopAt, NewLoop, Ended, DaemonKinds
  <2>6. CASE ctl' = m /\ (dm' = dm \/ dm' = [NoLoop EXCEPT !.pc = "auth", !.null = conf.null])
    BY <2>1, <2>2, <2>6 DEF Accepted, NewLoop, NoLoop, DaemonKinds
  <2> QED
    BY <2>3, <2>5, <2>6
<1>2. CASE ConnectActive
    BY <1>2 DEF ConnectActive, NoConnection, NoLoop, NewLoop, Reconnected, DaemonKinds
<1>3. CASE Pause \/ ReadConfiguration
    BY <1>3 DEF Pause, ReadConfiguration, streamVars, SameEnds, Aside, DaemonKinds
<1>4. CASE Stop
  <2>1. NewLoop("none")
    BY <1>4 DEF Stop, NoLoop, NewLoop
  <2>2. CASE ctl.d = "none" /\ ctl' = ctl
    BY <2>1, <2>2, FewerSame DEF Ended, DaemonKinds
  <2>3. CASE ctl.d # "none" /\ ctl' = [ctl EXCEPT !.d = "closed"]
    <3>1. ctl'.c = ctl.c /\ ctl'.d = "closed" /\ ctl'.c2d = ctl.c2d
      BY <1>0, <2>3 DEF ControlType
    <3> QED
      BY <2>1, <2>3, <3>1, FewerSame DEF Ended, DaemonKinds
  <2> QED
    BY <1>4, <2>2, <2>3 DEF Stop
<1> QED
    BY <1>1, <1>2, <1>3, <1>4 DEF Service

\* daemon_startcapture has taken the request: it fails, or the capture starts.
LEMMA StartErrorKinds ==
    ASSUME ctl \in ControlType, dm \in LoopType, NEW c \in ControlType, NEW used, StartError(c, used),
           SameEnds(ctl, c), ctl.d = "open", StartRead(ctl.c2d, c.c2d)
    PROVE  StartTaken
<1>1. SameEnds(c, ctl') /\ ctl'.c2d = c.c2d
    BY ToClientSame DEF StartError
<1>2. dm'.pc = "loop" /\ dm'.samp = dm.samp
    BY DEF StartError, LoopType
<1> QED
    BY <1>1, <1>2, SameTwice DEF StartTaken

LEMMA StartThreadKinds ==
    ASSUME ctl \in ControlType, dm \in LoopType, NEW c \in ControlType, NEW d, NEW reached,
           StartThread(c, d, reached)
    PROVE  SameEnds(c, ctl') /\ ctl'.c2d = c.c2d /\ dm'.pc = "loop" /\ dm'.samp = dm.samp
<1>1. CASE /\ ctl' = c
           /\ dm' = [dm EXCEPT !.pc = "loop", !.fp = TRUE, !.rd = TRUE, !.handle = TRUE,
                               !.sent = 0, !.use = dm.samp]
    BY <1>1 DEF LoopType, SameEnds
<1>2. CASE StartError(c, {"lateError"})
    BY <1>2, ToClientSame DEF StartError, LoopType
<1> QED
    BY <1>1, <1>2 DEF StartThread

LEMMA StartingKinds ==
    ASSUME SessionInv, Fine(ctl, exits),
           \/ StartNoSource \/ StartNoConnection \/ StartNoFilter \/ StartServeOpen \/ StartListen
    PROVE  StartTaken
<1>0. ctl \in ControlType /\ dm \in LoopType
    BY DEF SessionInv, WiresTyped, LoopTyped
<1>1. ctl.d = "open" /\ Arrived /\ Request.t = "STARTCAP_REQ"
    BY DEF StartNoSource, StartNoConnection, StartNoFilter, StartServeOpen, StartListen, LoopTakes,
       Waiting
<1>2. Request.n \in Nat /\ Request.plen \in Nat
    BY <1>1, RequestHead
<1>3. ASSUME NEW k \in Nat, k > 0
      PROVE  /\ After(ctl.c2d, k) \in Seq(Unit) /\ StartRead(ctl.c2d, After(ctl.c2d, k))
             /\ Took(After(ctl.c2d, k)) \in ControlType /\ SameEnds(ctl, Took(After(ctl.c2d, k)))
             /\ Took(After(ctl.c2d, k)).c2d = After(ctl.c2d, k)
    BY <1>0, <1>1, <1>3, StartIsRead, TookSame
<1>4. 1 + Request.n \in Nat /\ 1 + Request.n > 0 /\ 1 + Request.plen \in Nat /\ 1 + Request.plen > 0
    BY <1>2
<1>5. CASE StartNoSource
  <2> DEFINE s == After(ctl.c2d, 2)
  <2>1. s \in Seq(Unit) /\ StartRead(ctl.c2d, s)
    <3>1. 2 \in Nat /\ 2 > 0
      OBVIOUS
    <3> QED
      BY <1>3, <3>1
  <2>2. ctl' = SendError(Took(s)) /\ dm' = [dm EXCEPT !.fp = FALSE, !.rd = FALSE] /\ dm.pc = "loop"
    BY <1>5 DEF StartNoSource, LoopTakes, Waiting
  <2> HIDE DEF s
  <2>3. SameEnds(ctl, ctl') /\ ctl'.c2d = s
    BY <1>0, <2>1, <2>2, AnswerSame
  <2>4. dm'.pc = "loop" /\ dm'.samp = dm.samp
    BY <1>0, <2>2 DEF LoopType
  <2> QED
    BY <1>1, <2>1, <2>3, <2>4 DEF StartTaken
<1>6. CASE StartNoConnection
  <2>1. PICK used : StartError(Took(After(ctl.c2d, 1 + Request.plen)), used)
    BY <1>6 DEF StartNoConnection
  <2> QED
    BY <1>0, <1>1, <1>3, <1>4, <2>1, StartErrorKinds
<1>7. CASE StartNoFilter
  <2>1. StartError(Took(After(ctl.c2d, 1 + Request.n)), {})
    BY <1>7 DEF StartNoFilter, Rest
  <2> QED
    BY <1>0, <1>1, <1>3, <1>4, <2>1, StartErrorKinds
<1>8. CASE StartServeOpen \/ StartListen
  <2> DEFINE s == After(ctl.c2d, 1 + Request.n)
             m == Took(s)
             c == ToClient(m, Plain("STARTCAP_REPLY"))
  <2>1. /\ StartRead(ctl.c2d, s) /\ m \in ControlType /\ SameEnds(ctl, m) /\ m.c2d = s
    BY <1>3, <1>4
  <2>2. \/ StartThread(c, data, PortIsOpen)
        \/ ctl' = c /\ dm' = [dm EXCEPT !.pc = "accept"]
    BY <1>8 DEF StartServeOpen, StartListen, Rest
  <2> HIDE DEF s, m
  <2>3. c \in ControlType
    BY <2>1, ToClientTyped, PlainsTyped
  <2>4. SameEnds(m, c) /\ c.c2d = m.c2d
    BY <2>1, ToClientSame
  <2> HIDE DEF c
  <2>5. SameEnds(ctl, c) /\ c.c2d = s
    BY <2>1, <2>4, SameTwice
  <2>6. CASE StartThread(c, data, PortIsOpen)
    <3>1. SameEnds(c, ctl') /\ ctl'.c2d = c.c2d /\ dm'.pc = "loop" /\ dm'.samp = dm.samp
      BY <1>0, <2>3, <2>6, StartThreadKinds
    <3>2. SameEnds(ctl, ctl')
      BY <2>5, <3>1, SameTwice
    <3> QED
      BY <1>1, <2>1, <2>5, <3>1, <3>2 DEF StartTaken
  <2>7. CASE ctl' = c /\ dm' = [dm EXCEPT !.pc = "accept"]
    <3>1. dm'.pc = "accept" /\ dm'.samp = dm.samp /\ dm'.fp = dm.fp
      BY <1>0, <2>7 DEF LoopType
    <3> QED
      BY <1>1, <2>1, <2>5, <2>7, <3>1 DEF StartTaken
  <2> QED
    BY <2>2, <2>6, <2>7
<1> QED
    BY <1>5, <1>6, <1>7, <1>8

LEMMA ServingKinds ==
    ASSUME SessionInv, Fine(ctl, exits),
           FindAllDevs \/ OpenSource \/ UpdateFilter \/ GetStats \/ EndCap \/ Authenticate
    PROVE  Served
<1>0. ctl \in ControlType /\ dm \in LoopType
    BY DEF SessionInv, WiresTyped, LoopTyped
<1>1. /\ Arrived /\ dm.pc \in {"auth", "loop"}
      /\ Request.t \in {"FINDALLIF_REQ", "OPEN_REQ", "UPDATEFILTER_REQ", "STATS_REQ", "ENDCAP_REQ",
                        "AUTH_REQ"}
    BY DEF FindAllDevs, OpenSource, UpdateFilter, GetStats, EndCap, Authenticate, LoopTakes, Waiting
<1>2. 1 + Request.n \in Nat /\ 1 \in Nat /\ 1 <= 1 + Request.n /\ 1 + Request.n <= 1 + Request.n
    BY <1>1, RequestHead
<1>3. \A k \in {1, 1 + Request.n} : Keeps(ctl.c2d, After(ctl.c2d, k)) /\ After(ctl.c2d, k) \in Seq(Unit)
    BY <1>1, <1>2, TakenKeeps
<1>4. PICK k \in {1, 1 + Request.n} :
         \/ ctl' = Took(After(ctl.c2d, k)) \/ ctl' = SendError(Took(After(ctl.c2d, k)))
         \/ \E m : ctl' = ToClient(Took(After(ctl.c2d, k)), m)
    BY DEF FindAllDevs, OpenSource, UpdateFilter, GetStats, EndCap, Authenticate, Rest
<1>5. SameEnds(ctl, ctl') /\ Keeps(ctl.c2d, ctl'.c2d)
    BY <1>0, <1>3, <1>4, AnswerSame
<1>6. \/ dm' = dm \/ dm' = [dm EXCEPT !.pc = "loop"]
      \/ dm' = [dm EXCEPT !.fp = FALSE, !.rd = FALSE]
    BY DEF FindAllDevs, OpenSource, UpdateFilter, GetStats, EndCap, Authenticate
<1>7. dm'.pc \in {"auth", "loop"} /\ dm'.samp = dm.samp /\ (dm'.fp => dm.fp)
    BY <1>0, <1>1, <1>6 DEF LoopType
<1> QED
    BY <1>1, <1>5, <1>7 DEF Served

LEMMA LoopKinds ==
    ASSUME SessionInv, LoopAt(ctl, dm), Fine(ctl, exits), Loop
    PROVE  DaemonKinds
<1>0. ctl \in ControlType /\ dm \in LoopType
    BY DEF SessionInv, WiresTyped, LoopTyped
<1>1. CASE TimeOut
  <2>1. EndLoop(SendError(ctl), FALSE) /\ ctl.d = "open"
    BY <1>1 DEF TimeOut, Waiting
  <2>2. SendError(ctl) \in ControlType /\ SameEnds(ctl, SendError(ctl)) /\ SendError(ctl).c2d = ctl.c2d
    BY <1>0, ToClientSame, SendErrorTyped
  <2> QED
    BY <2>1, <2>2, FewerSame, EndLoopKinds DEF DaemonKinds
<1>2. CASE ConnectionLost
  <2> DEFINE c == Took(<<>>)
  <2>1. EndLoop(c, FALSE) /\ ctl.d = "open"
    BY <1>2 DEF ConnectionLost, Waiting, Took
  <2>2. c \in ControlType /\ SameEnds(ctl, c) /\ c.c2d = <<>>
    BY <1>0, TookSame, EmptyTyped
  <2>3. Fewer(ctl.c2d, c.c2d)
    BY <2>2, NothingOccurs DEF Fewer
  <2> HIDE DEF c
  <2> QED
    BY <2>1, <2>2, <2>3, EndLoopKinds DEF DaemonKinds
<1>3. CASE AuthGivenUp \/ CloseSession
  <2> DEFINE c == Took(Rest)
  <2>1. /\ \E asked \in {FALSE, TRUE} : EndLoop(c, asked)
        /\ ctl.d = "open" /\ Arrived
    BY <1>3 DEF AuthGivenUp, CloseSession, LoopTakes, Waiting
  <2>2. Rest \in Seq(Unit) /\ Fewer(ctl.c2d, Rest)
    BY <2>1, RequestHead, TakenFewer DEF Rest
  <2>3. c \in ControlType /\ SameEnds(ctl, c) /\ c.c2d = Rest
    BY <1>0, <2>2, TookSame
  <2> HIDE DEF c
  <2> QED
    BY <2>1, <2>2, <2>3, EndLoopKinds DEF DaemonKinds
<1>4. CASE OutOfFrame
  <2>1. ctl' = ctl /\ dm.pc = "loop" /\ dm' = [dm EXCEPT !.pc = "lost"]
    BY <1>4 DEF OutOfFrame, streamVars, Waiting
  <2>2. dm'.pc = "lost" /\ dm'.samp = dm.samp /\ dm'.fp = dm.fp
    BY <1>0, <2>1 DEF LoopType
  <2> QED
    BY <2>1, <2>2, FewerSame DEF Served, SameEnds, DaemonKinds
<1>5. CASE SetSampling
  <2>1. /\ ctl' = ToClient(Took(Rest), Plain("SETSAMPLING_REPLY")) /\ dm' = [dm EXCEPT !.samp = "asked"]
        /\ ctl.d = "open" /\ dm.pc = "loop" /\ Arrived
    BY <1>5 DEF SetSampling, LoopTakes, Waiting
  <2>2. Rest \in Seq(Unit) /\ Fewer(ctl.c2d, Rest)
    BY <2>1, RequestHead, TakenFewer DEF Rest
  <2>3. SameEnds(ctl, ctl') /\ ctl'.c2d = Rest
    BY <1>0, <2>1, <2>2, AnswerSame
  <2>4. dm'.pc = "loop" /\ dm'.samp = "asked" /\ dm'.fp = dm.fp
    BY <1>0, <2>1 DEF LoopType
  <2> QED
    BY <2>1, <2>2, <2>3, <2>4 DEF SamplingTaken, DaemonKinds
<1>6. CASE AcceptData
  <2>1. StartThread(ctl, data, TRUE) /\ dm.pc = "accept"
    BY <1>6 DEF AcceptData
  <2>2. SameEnds(ctl, ctl') /\ ctl'.c2d = ctl.c2d /\ dm'.pc = "loop" /\ dm'.samp = dm.samp
    BY <1>0, <2>1, StartThreadKinds
  <2> QED
    BY <2>1, <2>2 DEF DataAccepted, DaemonKinds
<1> QED
    BY <1>1, <1>2, <1>3, <1>4, <1>5, <1>6, StartingKinds, ServingKinds DEF Loop, Serve, DaemonKinds

LEMMA ThreadKinds ==
    ASSUME SessionInv, Thread
    PROVE  DaemonKinds
<1>0. ctl \in ControlType /\ dm \in LoopType
    BY DEF SessionInv, WiresTyped, LoopTyped
<1>1. ctl' = ctl \/ ctl' = SendError(ctl)
    BY DEF Thread, ThreadReady, SendPacket, ReadFails, ThreadEnd, streamVars
<1>2. SameEnds(ctl, ctl') /\ ctl'.c2d = ctl.c2d
    BY <1>0, <1>1, ToClientSame DEF SameEnds
<1>3. dm' = dm \/ dm' = [dm EXCEPT !.sent = @ + 1] \/ dm' = [dm EXCEPT !.rd = FALSE]
    BY DEF Thread, ThreadReady, SendPacket, ReadFails, ThreadEnd
<1>4. dm'.pc = dm.pc /\ dm'.fp = dm.fp /\ dm'.samp = dm.samp
    BY <1>0, <1>3 DEF LoopType
<1> QED
    BY <1>2, <1>4 DEF Aside, DaemonKinds

LEMMA BreakKinds ==
    ASSUME SessionInv, Break
    PROVE  DaemonKinds
<1>0. ctl \in ControlType /\ dm' = dm
    BY DEF SessionInv, WiresTyped, Break
<1>1. CASE BreakData
    BY <1>0, <1>1 DEF BreakData, Aside, SameEnds, DaemonKinds
<1>2. CASE BreakControl
  <2>1. PICK s \in Cut(ctl.c2d), r \in Cut(ctl.d2c) :
            ctl' = [ctl EXCEPT !.up = FALSE, !.c2d = s, !.d2c = r]
    BY <1>2 DEF BreakControl
  <2>2. Fewer(ctl.c2d, s) /\ (Preceded(ctl.c2d) => Preceded(s))
    BY <1>0, PrefixKeeps DEF ControlType, Fewer
  <2>3. ctl'.c = ctl.c /\ ctl'.d = ctl.d /\ ~ctl'.up /\ ctl'.c2d = s
    BY <1>0, <2>1 DEF ControlType
  <2> QED
    BY <1>0, <2>2, <2>3 DEF Broken, DaemonKinds
<1> QED
    BY <1>1, <1>2 DEF Break

BegunInv == FrameInv /\ Begun(cl, ctl, dm)

LEMMA InitBegun == Init => BegunInv
<1> SUFFICES ASSUME Init PROVE BegunInv
    OBVIOUS
<1>1. /\ ctl.d = "none" /\ ctl.c = "none" /\ ctl.c2d = <<>>
      /\ dm.pc = "none" /\ ~dm.fp /\ dm.samp = "unset"
      /\ cl.pc = "idle" /\ ~cl.own /\ ~cl.host
    BY DEF Init, NoConnection, DaemonInit, NoLoop, ClientInit
<1>2. LoopAt(ctl, dm) /\ Listening(cl, ctl) /\ Sampled(cl, ctl, dm)
    BY <1>1 DEF LoopAt, Listening, Sampled
<1>3. OnceClient(cl, ctl) /\ ~MayStart(cl)
    BY <1>1 DEF OnceClient, MayStart, Connecting
<1>4. Once(cl, ctl, dm)
    BY <1>1, <1>3, NothingOccurs DEF Once
<1> QED
    BY <1>2, <1>4, InitFrame DEF BegunInv, Begun

LEMMA BegunKept ==
    ASSUME mode' = mode, FrameInv', Begun(cl', ctl', dm')
    PROVE  BegunInv'
BY DEF BegunInv, Begun

LEMMA NextBegun == BegunInv /\ [Next]_vars => BegunInv'
<1> SUFFICES ASSUME BegunInv, [Next]_vars PROVE BegunInv'
    OBVIOUS
<1>0. FrameInv /\ SessionInv /\ Fine(ctl, exits) /\ Begun(cl, ctl, dm) /\ LoopAt(ctl, dm)
    BY DEF BegunInv, FrameInv, Begun
<1>1. FrameInv'
    BY <1>0, NextFrame
<1>2. CASE ClientStep
  <2>1. mode' = mode
    BY <1>2, ModeStays
  <2>2. Begun(cl', ctl', dm')
    BY <1>0, <1>2, ClientBegun
  <2> QED
    BY <1>1, <2>1, <2>2, BegunKept
<1>3. CASE DaemonStep
  <2>1. cl' = cl /\ mode' = mode
    BY <1>3, ModeStays DEF DaemonStep, clientVars
  <2>2. DaemonKinds
    BY <1>0, <1>3, ServiceKinds, LoopKinds, ThreadKinds DEF DaemonStep
  <2>3. Begun(cl', ctl', dm')
    BY <1>0, <2>1, <2>2, KindsBegun
  <2> QED
    BY <1>1, <2>1, <2>3, BegunKept
<1>4. CASE Break
  <2>1. cl' = cl /\ mode' = mode
    BY <1>4 DEF Break, BreakControl, BreakData, clientVars
  <2>2. Begun(cl', ctl', dm')
    BY <1>0, <1>4, <2>1, BreakKinds, KindsBegun
  <2> QED
    BY <1>1, <2>1, <2>2, BegunKept
<1>5. CASE UNCHANGED vars
  <2>1. cl' = cl /\ ctl' = ctl /\ dm' = dm /\ mode' = mode
    BY <1>5 DEF vars, streamVars, clientVars, daemonVars
  <2>2. Aside
    BY <2>1 DEF Aside, SameEnds
  <2>3. Begun(cl', ctl', dm')
    BY <1>0, <2>1, <2>2, ServedBegun
  <2> QED
    BY <1>1, <2>1, <2>3, BegunKept
<1> QED
    BY <1>2, <1>3, <1>4, <1>5 DEF Next

----------------------------------------------------------------------------
(* The data thread.                                                         *)
Running == {"new", "run", "closing"}

\* a step that ends the thread, or is made when there is none
LEMMA NoThreadInside ==
    ASSUME exits \subseteq exits', th' \notin Running \/ (th' = th /\ ~(None({"captureForgotten"}) /\ th \in Running))
    PROVE  Inside'
BY ExitsStay DEF Inside, Running

LEMMA SameThreadInside ==
    ASSUME Inside, exits \subseteq exits', mode' = mode,
           th' \in Running => th \in Running,
           dm'.fp = dm.fp, dm'.handle = dm.handle, dm'.rd = dm.rd, dm'.use = dm.use,
           dm.pc \in {"loop", "lost"} => dm'.pc \in {"loop", "lost"}
    PROVE  Inside'
BY ExitsStay DEF Inside, Running

LEMMA CancelledStops == ASSUME th \in ThreadPlaces PROVE Cancelled \notin Running
BY DEF Cancelled, ThreadPlaces, Running

LEMMA NoCaptureNoThread == ASSUME Inside, ~dm.fp PROVE ~(None({"captureForgotten"}) /\ th \in Running)
BY DEF Inside, Running

LEMMA EndLoopInside ==
    ASSUME Inside, th \in ThreadPlaces, NEW c, NEW asked, EndLoop(c, asked)
    PROVE  Inside'
<1>1. CASE dm.fp
  <2>1. th' = Cancelled /\ exits \subseteq exits'
    BY <1>1 DEF EndLoop, EndCapture
  <2> QED
    BY <2>1, CancelledStops, NoThreadInside
<1>2. CASE ~dm.fp
    BY <1>2, NoCaptureNoThread, NoThreadInside DEF EndLoop
<1> QED
    BY <1>1, <1>2

LEMMA StartErrorInside ==
    ASSUME Inside, th \in ThreadPlaces, NEW c, NEW used, StartError(c, used)
    PROVE  Inside'
<1>1. CASE dm.fp
  <2>1. "captureForgotten" \in exits'
    BY <1>1 DEF StartError, Forgotten
  <2> QED
    BY <2>1 DEF Inside, None
<1>2. CASE ~dm.fp
  <2>1. th' \in {Cancelled, th} /\ exits \subseteq exits'
    BY DEF StartError
  <2> QED
    BY <1>2, <2>1, CancelledStops, NoCaptureNoThread, NoThreadInside
<1> QED
    BY <1>1, <1>2

LEMMA StartThreadInside ==
    ASSUME Inside, th \in ThreadPlaces, dm \in LoopType, NEW c, NEW d, NEW reached,
           StartThread(c, d, reached), mode' = mode, mode.samp => dm.samp = "asked"
    PROVE  Inside'
<1>1. CASE dm' = [dm EXCEPT !.pc = "loop", !.fp = TRUE, !.rd = TRUE, !.handle = TRUE,
                            !.sent = 0, !.use = dm.samp]
  <2>1. dm'.pc = "loop" /\ dm'.fp /\ dm'.rd /\ dm'.handle /\ dm'.use = dm.samp
    BY <1>1 DEF LoopType
  <2> QED
    BY <2>1 DEF Inside
<1>2. CASE StartError(c, {"lateError"})
    BY <1>2, StartErrorInside
<1> QED
    BY <1>1, <1>2 DEF StartThread

\* the sampling has been asked for when the start is read
LEMMA StartSampled ==
    ASSUME BegunInv, mode.samp
    PROVE  /\ LoopTakes("STARTCAP_REQ") => dm.samp = "asked"
           /\ dm.pc = "accept" => dm.samp = "asked"
<1>1. /\ Fine(ctl, exits) /\ Sampled(cl, ctl, dm)
      /\ dm.pc # "none" => ctl.d = "open"
    BY DEF BegunInv, FrameInv, Begun, LoopAt
<1>2. ASSUME LoopTakes("STARTCAP_REQ") PROVE ctl.d = "open" /\ ~Preceded(ctl.c2d)
  <2>1. ctl.d = "open" /\ Arrived /\ Request.t = "STARTCAP_REQ" /\ 1 \in Nat /\ 1 > 0
    BY <1>2 DEF LoopTakes, Waiting
  <2>2. StartRead(ctl.c2d, After(ctl.c2d, 1))
    BY <1>1, <2>1, StartIsRead
  <2> QED
    BY <2>1, <2>2 DEF StartRead
<1> QED
    BY <1>1, <1>2 DEF Sampled

LEMMA DaemonInside ==
    ASSUME BegunInv, Inside, DaemonStep
    PROVE  Inside'
<1>0. dm \in LoopType /\ th \in ThreadPlaces /\ mode' = mode /\ (dm.pc = "none" => ~dm.fp)
    BY ModeStays DEF BegunInv, FrameInv, SessionInv, LoopTyped, Begun, LoopAt
<1>1. CASE AcceptControl \/ ConnectActive
  <2>1. dm.pc = "none" /\ th' = th /\ exits \subseteq exits'
    BY <1>1 DEF AcceptControl, ConnectActive
  <2> QED
    BY <1>0, <2>1, NoCaptureNoThread, NoThreadInside
<1>2. CASE Pause \/ ReadConfiguration
    BY <1>0, <1>2, SameThreadInside DEF Pause, ReadConfiguration, streamVars
<1>3. CASE Stop
    BY <1>3, NoThreadInside DEF Stop, Running
<1>4. CASE TimeOut \/ ConnectionLost \/ AuthGivenUp \/ CloseSession
    BY <1>0, <1>4, EndLoopInside DEF TimeOut, ConnectionLost, AuthGivenUp, CloseSession
<1>5. CASE Authenticate
  <2>1. dm.pc = "auth" /\ th' = th /\ exits' = exits
    BY <1>5 DEF Authenticate, Waiting
  <2>2. ~(None({"captureForgotten"}) /\ th \in Running)
    BY <2>1 DEF Inside, Running
  <2> QED
    BY <2>1, <2>2, NoThreadInside
<1>6. CASE OutOfFrame \/ SetSampling
  <2>1. th' = th /\ exits' = exits /\ dm.pc = "loop"
    BY <1>6 DEF OutOfFrame, SetSampling, streamVars, LoopTakes, Waiting
  <2>2. dm' = [dm EXCEPT !.pc = "lost"] \/ dm' = [dm EXCEPT !.samp = "asked"]
    BY <1>6 DEF OutOfFrame, SetSampling
  <2>3. /\ dm'.fp = dm.fp /\ dm'.handle = dm.handle /\ dm'.rd = dm.rd /\ dm'.use = dm.use
        /\ dm'.pc \in {"loop", "lost"}
    BY <1>0, <2>1, <2>2 DEF LoopType
  <2> QED
    BY <1>0, <2>1, <2>3, SameThreadInside
<1>7. CASE FindAllDevs \/ OpenSource \/ UpdateFilter \/ GetStats
  <2>1. th' = th /\ exits \subseteq exits' /\ dm' = dm
    BY <1>7 DEF FindAllDevs, OpenSource, UpdateFilter, GetStats
  <2> QED
    BY <1>0, <2>1, SameThreadInside
<1>8. CASE StartNoSource
  <2>1. exits \cup Forgotten \subseteq exits' /\ th' = th
    BY <1>8 DEF StartNoSource
  <2>2. CASE dm.fp
    BY <2>1, <2>2 DEF Inside, None, Forgotten
  <2>3. CASE ~dm.fp
    BY <2>1, <2>3, NoCaptureNoThread, NoThreadInside
  <2> QED
    BY <2>2, <2>3
<1>9. CASE StartNoConnection \/ StartNoFilter
    BY <1>0, <1>9, StartErrorInside DEF StartNoConnection, StartNoFilter
<1>10. CASE StartServeOpen
    BY <1>0, <1>10, StartSampled, StartThreadInside DEF StartServeOpen
<1>11. CASE AcceptData
    BY <1>0, <1>11, StartSampled, StartThreadInside DEF AcceptData
<1>12. CASE StartListen
  <2>1. LoopTakes("STARTCAP_REQ") /\ ~mode.active /\ th' = th /\ exits' = exits
    BY <1>12 DEF StartListen, ServeOpen
  <2>2. Once(cl, ctl, dm) /\ Fine(ctl, exits)
    BY <2>1 DEF BegunInv, FrameInv, Begun
  <2>3. Arrived /\ Request.t = "STARTCAP_REQ" /\ 1 \in Nat /\ 1 > 0
    BY <2>1 DEF LoopTakes
  <2>4. Occurs(ctl.c2d, "STARTCAP_REQ")
    BY <2>2, <2>3, StartIsRead DEF StartRead
  <2> QED
    BY <2>1, <2>2, <2>4, NoCaptureNoThread, NoThreadInside DEF Once
<1>13. CASE EndCap
  <2>1. CASE dm.fp
    <3>1. th' = Cancelled /\ exits \subseteq exits'
      BY <1>13, <2>1 DEF EndCap, EndCapture
    <3> QED
      BY <1>0, <3>1, CancelledStops, NoThreadInside
  <2>2. CASE ~dm.fp
    BY <1>13, <2>2, NoCaptureNoThread, NoThreadInside DEF EndCap
  <2> QED
    BY <2>1, <2>2
<1>14. CASE Thread
  <2>1. exits \subseteq exits' /\ (th' \in Running => th \in Running)
    BY <1>14 DEF Thread, ThreadReady, SendPacket, ReadFails, ThreadEnd, streamVars, Running
  <2>2. CASE dm' = dm \/ dm' = [dm EXCEPT !.sent = @ + 1]
    <3>1. /\ dm'.fp = dm.fp /\ dm'.handle = dm.handle /\ dm'.rd = dm.rd /\ dm'.use = dm.use
          /\ dm'.pc = dm.pc
      BY <1>0, <2>2 DEF LoopType
    <3> QED
      BY <1>0, <2>1, <3>1, SameThreadInside
  <2>3. CASE th' = "none"
    BY <2>1, <2>3, NoThreadInside DEF Running
  <2> QED
    BY <1>14, <2>2, <2>3 DEF Thread, ThreadReady, SendPacket, ReadFails, ThreadEnd
<1> QED
    BY <1>1, <1>2, <1>3, <1>4, <1>5, <1>6, <1>7, <1>8, <1>9, <1>10, <1>11, <1>12, <1>13, <1>14
    DEF DaemonStep, Service, Loop, Serve

LEMMA NextInside == BegunInv /\ Inside /\ [Next]_vars => Inside'
<1> SUFFICES ASSUME BegunInv, Inside, [Next]_vars PROVE Inside'
    OBVIOUS
<1>1. CASE ClientStep
  <2>1. dm' = dm /\ th' = th /\ mode' = mode /\ exits \subseteq exits'
    BY <1>1, ClientExits, ModeStays DEF ClientStep, daemonVars, BegunInv, FrameInv, SessionInv
  <2> QED
    BY <2>1, SameThreadInside
<1>2. CASE Break \/ UNCHANGED vars
  <2>1. dm' = dm /\ th' = th /\ mode' = mode /\ exits' = exits
    BY <1>2 DEF Break, BreakControl, BreakData, vars, streamVars, daemonVars
  <2> QED
    BY <2>1, SameThreadInside
<1> QED
    BY <1>1, <1>2, DaemonInside DEF Next

(* daemon_thrdatamain and daemon_startcapture (daemon.c): the data thread   *)
(* runs inside the capture of its loop and the capture samples as asked,    *)
(* for any number of captures, whichever of them fails to start, and        *)
(* wherever a connection breaks, unless a capture has been forgotten.       *)
THEOREM ThreadStaysInsideCapture == Spec => []ThreadInsideCapture
<1>1. Init => Inside
    BY DEF Init, DaemonInit, Inside
<1>2. Inside => ThreadInsideCapture
    BY DEF Inside, ThreadInsideCapture
<1> QED
    BY <1>1, <1>2, InitBegun, NextBegun, NextInside, PTL DEF Spec

----------------------------------------------------------------------------
(* The packets of a capture over TCP: those that were given to the          *)
(* application, those on the data connection, and those that were sent.     *)
Live(d) == d.up /\ d.d = "open" /\ d.c # "closed"

\* what is on the connection goes on where the application is, and nothing
\* follows a packet that was torn
Numbered(d, g) ==
    /\ \A i \in 1..Len(d.q) :
         /\ d.q[i].n = Len(g) + i
         /\ d.q[i].k = "rest" => i = 1
         /\ d.q[i].k = "torn" => i = Len(d.q) /\ ~d.up
    /\ \A i \in 1..Len(g) : g[i].n = i /\ (g[i].k = "whole" \/ (i = Len(g) /\ g[i].k = "torn"))
    /\ d.c \in {"none", "closed"} => d.q = <<>>
    /\ g # <<>> /\ g[Len(g)].k = "torn" => d.q = <<>> /\ (~d.up \/ d.c \in {"none", "closed"})

\* the client's end, and its pcap_t
Tied(l, d, g) ==
    /\ l.fp = "none" => d.c \in {"none", "closed"}
    /\ d.c = "listen" => l.fp \in {"open", "failed"}
    /\ l.fp \in {"open", "failed"} => g = <<>>
    /\ l.pc = "start" => d.c \in {"none", "listen"}
    /\ l.pc = "norpcap" => d.c # "listen"

\* the daemon's end, its capture and its thread
Sent(d, g, m, t, c) ==
    /\ d.d = "listen" => d.q = <<>> /\ (d.c = "open" => g = <<>>)
    /\ d.d = "open" => m.fp /\ m.rd /\ d.c # "none"
    /\ Live(d) => Len(g) + Len(d.q) = m.sent
    /\ Occurs(c.c2d, "STARTCAP_REQ") => d.d # "open" /\ d.q = <<>>
    /\ t = "closing" => d.d # "open"

Flow ==
    /\ Numbered(data, got)
    /\ Tied(cl, data, got)
    /\ Sent(data, got, dm, th, ctl)
    /\ dm.pc = "accept" => ~ServeOpen

FewerStarts == Occurs(ctl'.c2d, "STARTCAP_REQ") => Occurs(ctl.c2d, "STARTCAP_REQ")

\* what the client does to the data connection and to the pcap_t
LeavesData ==
    /\ data' = data /\ got' = got /\ cl'.fp = cl.fp
    /\ cl'.pc \notin {"start", "norpcap"}

OpensCapture ==
    /\ data' = data /\ got' = <<>> /\ cl.fp = "none" /\ cl'.fp = "open" /\ cl'.pc = "idle"

AsksData ==
    /\ data' \in {NoData, [NoData EXCEPT !.c = "listen"]}
    /\ got' = got /\ cl.fp \in {"open", "failed"} /\ cl'.fp = cl.fp /\ cl'.pc = "start"

ConnectsData ==
    /\ data' = [data EXCEPT !.c = "open"] /\ got' = got
    /\ cl.pc = "start" /\ cl.fp \in {"open", "failed"}
    /\ \/ cl'.pc = "norpcap" /\ cl'.fp = cl.fp
       \/ cl'.pc = "idle" /\ cl'.fp = "started"

StartsCapture ==
    /\ data' = data /\ got' = got
    /\ cl.pc = "norpcap" /\ cl.fp \in {"open", "failed"}
    /\ cl'.pc = "idle" /\ cl'.fp = "started"

DropsData ==
    /\ \/ data' = data /\ data.c = "none"
       \/ data' = [data EXCEPT !.c = "closed", !.q = <<>>]
    /\ got' = got
    /\ cl'.pc = "idle"
    /\ \/ cl'.fp = "none"
       \/ cl.fp \in {"open", "failed"} /\ cl'.fp \in {"open", "failed"}

DataKinds ==
    LeavesData \/ OpensCapture \/ AsksData \/ ConnectsData \/ StartsCapture \/ DropsData \/ ReadTcp

LEMMA PlacedLeaves ==
    ASSUME cl \in ClientType, NEW c \in {cl, Entered}, NEW pc \in CallPlaces,
           cl' = [c EXCEPT !.pc = pc], pc \notin {"start", "norpcap"},
           data' = data, got' = got
    PROVE  LeavesData
BY DEF ClientType, Entered, LeavesData

LEMMA ReturnLeaves ==
    ASSUME cl \in ClientType, NEW c \in ClientType, c.fp = cl.fp, NEW use \in Int, Return(c, use),
           data' = data, got' = got
    PROVE  LeavesData
BY ReturnMoves DEF LeavesData

LEMMA EnteredTyped == ASSUME cl \in ClientType PROVE Entered \in ClientType /\ Entered.fp = cl.fp
BY DEF ClientType, Entered

LEMMA BeginLeaves ==
    ASSUME cl \in ClientType, NEW pc \in {"findall", "open"}, NEW auth \in Connecting, NEW t,
           Begin(pc, auth, t)
    PROVE  LeavesData
<1>1. /\ Entered \in ClientType /\ Entered.fp = cl.fp /\ data' = data /\ got' = got
      /\ pc \in CallPlaces /\ auth \in CallPlaces
    BY EnteredTyped DEF Begin, CallPlaces, Connecting
<1>2. PICK p \in {pc, auth} : cl' = [Entered EXCEPT !.pc = p, !.sockcount = @ + 1]
    BY DEF Begin
<1>3. GoesTo(Entered, p, 1)
    BY <1>1, <1>2, InitGoes
<1> QED
    BY <1>1, <1>3 DEF GoesTo, LeavesData, Connecting

LEMMA AskLeaves ==
    ASSUME cl \in ClientType, NEW pc \in {"upd", "stats", "endcap"}, NEW t, Ask(pc, t),
           data' = data, got' = got
    PROVE  LeavesData
<1>1. pc \in CallPlaces /\ pc \notin {"start", "norpcap"}
    BY DEF CallPlaces
<1>2. cl' = [Entered EXCEPT !.pc = pc] \/ Return(Entered, 0)
    BY DEF Ask
<1> QED
    BY <1>1, <1>2, PlacedLeaves, ReturnLeaves, EnteredTyped

LEMMA SendStartAsks ==
    ASSUME cl \in ClientType, NEW c \in {cl, Entered}, NEW m, SendStart(c, m), ~mode.udp,
           cl.fp \in {"open", "failed"}, got' = got
    PROVE  AsksData
<1>1. c \in ClientType /\ c.fp = cl.fp /\ "start" \in CallPlaces
    BY EnteredTyped DEF CallPlaces
<1>2. cl'.pc = "start" /\ cl'.fp = cl.fp
    BY <1>1 DEF SendStart, ClientType
<1>3. data' \in {NoData, [NoData EXCEPT !.c = "listen"]}
    BY DEF SendStart, Udp
<1> QED
    BY <1>2, <1>3 DEF AsksData

LEMMA CloseDataDrops ==
    ASSUME data \in DataType
    PROVE  \A d \in {data, [data EXCEPT !.c = "open"]} :
             \/ CloseData(d) = data /\ data.c = "none"
             \/ CloseData(d) = [data EXCEPT !.c = "closed", !.q = <<>>]
BY DEF CloseData, DataType

LEMMA StartFailsDrops ==
    ASSUME cl \in ClientType, data \in DataType, cl.fp \in {"open", "failed"}, got' = got,
           NEW m, NEW d \in {data, [data EXCEPT !.c = "open"]}, StartFails(m, d)
    PROVE  DropsData
<1> DEFINE fp == IF cl.host THEN "open" ELSE "failed"
           own == cl.host
           use == 0
<1>1. /\ Return(Handle(cl, fp, own), use)
      /\ fp \in {"open", "failed"} /\ fp \in Captures /\ own \in BOOLEAN /\ use \in Int
      /\ data' = CloseData(d)
    BY DEF Handle, Captures, StartFails, ClientType
<1> HIDE DEF fp, own, use
<1>2. cl'.pc = "idle" /\ cl'.fp = fp
    BY <1>1, HandleTyped, ReturnMoves
<1> QED
    BY <1>1, <1>2, CloseDataDrops DEF DropsData

LEMMA ClosedDrops ==
    ASSUME cl \in ClientType, data \in DataType, NEW c \in {cl, Entered}, got' = got,
           data' = CloseData(data), Return([c EXCEPT !.fp = "none", !.own = FALSE], -1)
    PROVE  DropsData
<1> DEFINE fp == "none"
           own == FALSE
           use == -1
<1>1. /\ Return(Handle(c, fp, own), use) /\ fp = "none"
      /\ fp \in Captures /\ own \in BOOLEAN /\ use \in Int /\ c \in ClientType
    BY EnteredTyped DEF Handle, Captures
<1> HIDE DEF fp, own, use
<1>2. cl'.pc = "idle" /\ cl'.fp = "none"
    BY <1>1, HandleTyped, ReturnMoves
<1> QED
    BY <1>2, CloseDataDrops DEF DropsData

LEMMA CallsData ==
    ASSUME ClientInv, data \in DataType, ~mode.udp, Calls
    PROVE  DataKinds
<1>0. cl \in ClientType
    BY DEF ClientInv
<1>1. CASE FindAll \/ Open
    BY <1>0, <1>1, BeginLeaves DEF FindAll, Open, Connecting, DataKinds
<1>2. CASE ConnectFails
  <2>1. data' = data /\ got' = got /\ \E use \in {0, 1} : Return(Entered, use)
    BY <1>2 DEF ConnectFails, streamVars
  <2> QED
    BY <1>0, <2>1, EnteredTyped, ReturnLeaves DEF DataKinds
<1>3. CASE Start
  <2>1. cl.fp \in {"open", "failed"} /\ got' = got
    BY <1>3 DEF Start
  <2>2. CASE SendStart(Entered, ctl)
    BY <1>0, <2>1, <2>2, SendStartAsks DEF DataKinds
  <2>3. CASE data' = data /\ cl' = [Entered EXCEPT !.pc = "samp"]
    BY <1>0, <2>1, <2>3, PlacedLeaves DEF CallPlaces, DataKinds
  <2>4. CASE data' = data /\ Return(Entered, 0)
    BY <1>0, <2>1, <2>4, EnteredTyped, ReturnLeaves DEF DataKinds
  <2> QED
    BY <1>3, <2>2, <2>3, <2>4 DEF Start
<1>4. CASE SetFilter
  <2>1. data' = data /\ got' = got
    BY <1>4 DEF SetFilter
  <2>2. CASE Return([Entered EXCEPT !.filter = TRUE], 0)
    <3>1. Filtered(Entered) \in ClientType /\ Filtered(Entered).fp = cl.fp
      BY <1>0, EnteredTyped, FilteredTyped
    <3> QED
      BY <1>0, <2>1, <2>2, <3>1, 0 \in Int, ReturnLeaves DEF Filtered, DataKinds
  <2>3. CASE Ask("upd", "UPDATEFILTER_REQ")
    BY <1>0, <2>1, <2>3, AskLeaves DEF DataKinds
  <2> QED
    BY <1>4, <2>2, <2>3 DEF SetFilter
<1>5. CASE Stats
    BY <1>0, <1>5, AskLeaves DEF Stats, DataKinds
<1>6. CASE Close
  <2>1. CASE Ask("endcap", "ENDCAP_REQ") /\ data' = data
    BY <1>0, <1>6, <2>1, AskLeaves DEF Close, DataKinds
  <2>2. CASE data' = CloseData(data) /\ Return([Entered EXCEPT !.fp = "none", !.own = FALSE], -1)
    BY <1>0, <1>6, <2>2, ClosedDrops DEF Close, DataKinds
  <2> QED
    BY <1>6, <2>1, <2>2 DEF Close
<1>7. CASE Accept
  <2>1. /\ data' = data /\ got' = got /\ cl' = [Entered EXCEPT !.pc = "accept", !.sockcount = @ + 1]
        /\ "accept" \in CallPlaces
    BY <1>7 DEF Accept, CallPlaces
  <2>2. GoesTo(Entered, "accept", 1)
    BY <1>0, <2>1, EnteredTyped, InitGoes
  <2> QED
    BY <1>0, <2>1, <2>2, EnteredTyped DEF GoesTo, LeavesData, DataKinds
<1>8. CASE CloseHost
  <2> DEFINE host == FALSE
             own == IF cl.host THEN FALSE ELSE cl.own
             use == -1
             c == Host(Entered, host, own)
  <2>1. /\ Entered \in ClientType /\ Entered.own = cl.own /\ Entered.fp = cl.fp
        /\ cl.own \in BOOLEAN
    BY <1>0 DEF ClientType, Entered
  <2>2. own \in BOOLEAN
    BY <2>1, Zenon
  <2>3. c \in ClientType /\ c.fp = cl.fp
    BY <2>1, <2>2 DEF ClientType, Host
  <2>4. Return([Entered EXCEPT !.host = FALSE, !.own = IF cl.host THEN FALSE ELSE @], -1)
    BY <1>8 DEF CloseHost
  <2>5. Return(c, use)
    BY <2>1, <2>4, Zenon DEF Host
  <2>6. use \in Int /\ data' = data /\ got' = got
    BY <1>8 DEF CloseHost
  <2> HIDE DEF c, host, use
  <2> QED
    BY <1>0, <2>3, <2>5, <2>6, ReturnLeaves DEF DataKinds
<1> QED
    BY <1>1, <1>2, <1>3, <1>4, <1>5, <1>6, <1>7, <1>8 DEF Calls

LEMMA AnswersData ==
    ASSUME ClientInv, data \in DataType, ~mode.udp, Answers
    PROVE  DataKinds
<1>0. cl \in ClientType /\ PlaceOK(cl) /\ 0 \in Int /\ -1 \in Int
    BY DEF ClientInv
<1>1. CASE Authenticated
  <2>1. /\ data' = data /\ got' = got
        /\ \E pc \in {"findall", "open"} : cl' = [cl EXCEPT !.pc = pc]
    BY <1>1 DEF Authenticated, RequestAfter
  <2> QED
    BY <1>0, <2>1, PlacedLeaves DEF CallPlaces, DataKinds
<1>2. CASE NotAuthenticated \/ FoundAll \/ FindAllFails \/ SamplingFails
  <2>1. data' = data /\ got' = got /\ \E use \in {0, -1} : Return(cl, use)
    BY <1>2 DEF NotAuthenticated, FoundAll, FindAllFails, SamplingFails
  <2> QED
    BY <1>0, <2>1, ReturnLeaves DEF DataKinds
<1>3. CASE Opened
  <2>1. /\ cl.pc = "open" /\ data' = data /\ got' = <<>>
        /\ Return([cl EXCEPT !.fp = "open", !.own = TRUE, !.TotCapt = 0, !.TotNetDrops = 0], 0)
    BY <1>3 DEF Opened
  <2>2. cl'.pc = "idle" /\ cl'.fp = "open"
    BY <1>0, <2>1 DEF Return, ClientType
  <2> QED
    BY <1>0, <2>1, <2>2 DEF PlaceOK, OpensCapture, DataKinds
<1>4. CASE OpenFails \/ StatsReplied
  <2>1. data' = data /\ got' = got /\ (cl' = [cl EXCEPT !.pc = "lost"] \/ Return(cl, 0))
    BY <1>4 DEF OpenFails, StatsReplied
  <2> QED
    BY <1>0, <2>1, PlacedLeaves, ReturnLeaves DEF CallPlaces, DataKinds
<1>5. CASE SamplingSet
  <2>1. /\ SendStart(cl, [ctl EXCEPT !.d2c = Unread]) /\ got' = got
        /\ cl.fp \in {"open", "failed"}
    BY <1>0, <1>5 DEF SamplingSet, PlaceOK
  <2> QED
    BY <1>0, <2>1, SendStartAsks DEF DataKinds
<1>6. CASE StartReplied
  <2>1. cl.pc = "start" /\ got' = got /\ cl.fp \in {"open", "failed"}
    BY <1>0, <1>6 DEF StartReplied, PlaceOK
  <2>2. Connected(data) = [data EXCEPT !.c = "open"]
    BY DEF Connected, Udp
  <2>3. CASE data' = Connected(data) /\ cl' = [cl EXCEPT !.pc = "norpcap"]
    <3>1. cl'.pc = "norpcap" /\ cl'.fp = cl.fp
      BY <1>0, <2>3 DEF ClientType
    <3> QED
      BY <2>1, <2>2, <2>3, <3>1 DEF ConnectsData, DataKinds
  <2>4. CASE data' = Connected(data) /\ Return([cl EXCEPT !.fp = "started"], 0)
    <3>1. cl'.pc = "idle" /\ cl'.fp = "started"
      BY <1>0, <2>4 DEF Return, ClientType
    <3> QED
      BY <2>1, <2>2, <2>4, <3>1 DEF ConnectsData, DataKinds
  <2>5. ASSUME NEW m, NEW d \in {data, Connected(data)}, StartFails(m, d) PROVE DataKinds
    BY <1>0, <2>1, <2>2, <2>5, StartFailsDrops DEF DataKinds
  <2> QED
    BY <1>6, <2>3, <2>4, <2>5 DEF StartReplied
<1>7. CASE StartRefused
  <2>1. cl.pc = "start" /\ got' = got /\ cl.fp \in {"open", "failed"}
    BY <1>0, <1>7 DEF StartRefused, PlaceOK
  <2>2. CASE data' = data /\ cl' = [cl EXCEPT !.pc = "lost"]
    BY <1>0, <2>1, <2>2, PlacedLeaves DEF CallPlaces, DataKinds
  <2>3. ASSUME NEW m, StartFails(m, data) PROVE DataKinds
    BY <1>0, <2>1, <2>3, StartFailsDrops DEF DataKinds
  <2> QED
    BY <1>7, <2>2, <2>3 DEF StartRefused
<1>8. CASE FilterReplied
  <2>1. /\ cl.pc \in {"norpcap", "upd"} /\ got' = got
        /\ cl.pc = "norpcap" => cl.fp \in {"open", "failed"}
        /\ cl.pc = "upd" => cl.fp = "started"
    BY <1>0, <1>8 DEF FilterReplied, PlaceOK
  <2>2. CASE data' = data /\ Return([cl EXCEPT !.fp = "started"], 0)
    <3>1. cl'.pc = "idle" /\ cl'.fp = "started"
      BY <1>0, <2>2 DEF Return, ClientType
    <3> QED
      BY <2>1, <2>2, <3>1 DEF StartsCapture, LeavesData, DataKinds
  <2>3. ASSUME NEW m, StartFails(m, data), cl.pc = "norpcap" PROVE DataKinds
    BY <1>0, <2>1, <2>3, StartFailsDrops DEF DataKinds
  <2>4. CASE data' = data /\ Return(cl, 0)
    BY <1>0, <2>1, <2>4, ReturnLeaves DEF DataKinds
  <2> QED
    BY <1>8, <2>2, <2>3, <2>4 DEF FilterReplied
<1>9. CASE EndCapReplied
    BY <1>0, <1>9, ClosedDrops DEF EndCapReplied, DataKinds
<1>10. CASE AcceptHost
  <2>1. data' = data /\ got' = got /\ (cl' = [cl EXCEPT !.pc = "auth_host"] \/ Return(cl, -1))
    BY <1>10 DEF AcceptHost
  <2> QED
    BY <1>0, <2>1, PlacedLeaves, ReturnLeaves DEF CallPlaces, DataKinds
<1>11. CASE HostAccepted
  <2>1. data' = data /\ got' = got /\ (Return([cl EXCEPT !.host = TRUE], 0) \/ Return(cl, 0))
    BY <1>11 DEF HostAccepted
  <2>2. [cl EXCEPT !.host = TRUE] \in ClientType /\ [cl EXCEPT !.host = TRUE].fp = cl.fp
    BY <1>0 DEF ClientType
  <2> QED
    BY <1>0, <2>1, <2>2, ReturnLeaves DEF DataKinds
<1> QED
    BY <1>1, <1>2, <1>3, <1>4, <1>5, <1>6, <1>7, <1>8, <1>9, <1>10, <1>11 DEF Answers

LEMMA ClientData ==
    ASSUME SessionInv, ClientStep, ~mode.udp
    PROVE  DataKinds /\ dm' = dm /\ th' = th
<1>1. ClientInv /\ data \in DataType /\ dm' = dm /\ th' = th
    BY DEF SessionInv, WiresTyped, ClientStep, daemonVars
<1>2. CASE Calls
    BY <1>1, <1>2, CallsData
<1>3. CASE Answers
    BY <1>1, <1>3, AnswersData
<1>4. CASE Reads \/ LoseDatagram
    BY <1>1, <1>4 DEF Reads, LoseDatagram, ReadUdp, Udp, DataKinds
<1> QED
    BY <1>1, <1>2, <1>3, <1>4 DEF ClientStep

\* only the request of pcap_startcapture_remote adds a capture to start
LEMMA ClientStarts ==
    ASSUME SessionInv, ClientStep, cl'.pc # "start"
    PROVE  FewerStarts
<1>1. Holding \/ Connects2 \/ Listens
    BY ClientKinds DEF Kinds, Starting
<1>2. CASE Holding
    BY <1>2 DEF Holding, Kept, Keeps, FewerStarts
<1>3. CASE Connects2
  <2>1. Headed(Plain("AUTH_REQ"), "AUTH_REQ") /\ "AUTH_REQ" # "STARTCAP_REQ"
    BY PlainHeaded DEF Requests
  <2>2. ~Occurs(Plain("AUTH_REQ"), "STARTCAP_REQ")
    BY <2>1, HeadedOccurs
  <2>3. ctl'.c2d = Plain("AUTH_REQ")
    BY <1>3 DEF Connects2, NoConnection
  <2> QED
    BY <2>2, <2>3 DEF FewerStarts
<1>4. CASE Listens
  <2>1. ctl'.c2d = <<>>
    BY <1>4 DEF Listens, NoConnection
  <2> QED
    BY <2>1, NothingOccurs DEF FewerStarts
<1> QED
    BY <1>1, <1>2, <1>3, <1>4

LEMMA FlowKept ==
    ASSUME Numbered(data', got'), Tied(cl', data', got'), Sent(data', got', dm', th', ctl'),
           mode' = mode, dm'.pc = "accept" => ~ServeOpen
    PROVE  Flow'
BY DEF Flow, ServeOpen

LEMMA LeavesFlow ==
    ASSUME Flow, LeavesData, FewerStarts, dm' = dm, th' = th, mode' = mode
    PROVE  Flow'
<1>1. Numbered(data', got')
    BY DEF Flow, LeavesData
<1>2. Tied(cl', data', got')
    BY DEF Flow, LeavesData, Tied
<1>3. Sent(data', got', dm', th', ctl')
    BY DEF Flow, LeavesData, Sent, FewerStarts
<1> QED
    BY <1>1, <1>2, <1>3, FlowKept DEF Flow

LEMMA OpensFlow ==
    ASSUME Flow, OpensCapture, FewerStarts, dm' = dm, th' = th, mode' = mode
    PROVE  Flow'
<1>1. data.c \in {"none", "closed"} /\ data.q = <<>>
    BY DEF Flow, OpensCapture, Tied, Numbered
<1>2. Len(<<>>) = 0 /\ 1..0 = {}
    BY EmptySeq
<1>3. Numbered(data', got')
    BY <1>1, <1>2 DEF OpensCapture, Numbered
<1>4. Tied(cl', data', got')
    BY <1>1 DEF OpensCapture, Tied
<1>5. ~Live(data)
    BY <1>1 DEF Flow, Sent, Live
<1>6. Sent(data', got', dm', th', ctl')
    BY <1>1, <1>5 DEF Flow, OpensCapture, Sent, FewerStarts
<1> QED
    BY <1>3, <1>4, <1>6, FlowKept DEF Flow

LEMMA AsksFlow ==
    ASSUME Flow, AsksData, dm' = dm, th' = th, mode' = mode
    PROVE  Flow'
<1>1. got' = <<>> /\ cl'.fp \in {"open", "failed"} /\ cl'.pc = "start"
    BY DEF Flow, AsksData, Tied
<1>2. /\ data'.q = <<>> /\ data'.c \in {"none", "listen"} /\ data'.d = "none"
    BY DEF AsksData, NoData
<1>3. Len(<<>>) = 0 /\ 1..0 = {}
    BY EmptySeq
<1>4. Numbered(data', got')
    BY <1>1, <1>2, <1>3 DEF Numbered
<1>5. Tied(cl', data', got')
    BY <1>1, <1>2 DEF Tied
<1>6. Sent(data', got', dm', th', ctl')
    BY <1>2 DEF Sent, Live
<1> QED
    BY <1>4, <1>5, <1>6, FlowKept DEF Flow

LEMMA ConnectsFlow ==
    ASSUME Flow, ConnectsData, data \in DataType, FewerStarts, dm' = dm, th' = th, mode' = mode
    PROVE  Flow'
<1>1. /\ data'.q = data.q /\ data'.d = data.d /\ data'.up = data.up /\ data'.c = "open"
      /\ data.c \in {"none", "listen"} /\ got = <<>> /\ got' = <<>>
    BY DEF Flow, ConnectsData, Tied, DataType
<1>2. Len(<<>>) = 0 /\ 1..0 = {}
    BY EmptySeq
<1>3. Numbered(data', got')
    BY <1>1, <1>2 DEF Flow, Numbered
<1>4. Tied(cl', data', got')
    BY <1>1 DEF Flow, ConnectsData, Tied
<1>5. Live(data') => Live(data)
    BY <1>1 DEF Live
<1>6. Sent(data', got', dm', th', ctl')
    BY <1>1, <1>5 DEF Flow, Sent, FewerStarts
<1> QED
    BY <1>3, <1>4, <1>6, FlowKept DEF Flow

LEMMA StartsFlow ==
    ASSUME Flow, StartsCapture, FewerStarts, dm' = dm, th' = th, mode' = mode
    PROVE  Flow'
<1>1. Numbered(data', got')
    BY DEF Flow, StartsCapture
<1>2. Tied(cl', data', got')
    BY DEF Flow, StartsCapture, Tied
<1>3. Sent(data', got', dm', th', ctl')
    BY DEF Flow, StartsCapture, Sent, FewerStarts
<1> QED
    BY <1>1, <1>2, <1>3, FlowKept DEF Flow

LEMMA DropsFlow ==
    ASSUME Flow, DropsData, data \in DataType, FewerStarts, dm' = dm, th' = th, mode' = mode
    PROVE  Flow'
<1>1. /\ data'.q = <<>> /\ data'.d = data.d /\ data'.up = data.up
      /\ data'.c \in {"none", "closed"} /\ (data'.c = "none" => data.c = "none") /\ got' = got
    BY DEF Flow, DropsData, Numbered, DataType
<1>2. Len(<<>>) = 0 /\ 1..0 = {}
    BY EmptySeq
<1>3. Numbered(data', got')
    BY <1>1, <1>2 DEF Flow, Numbered
<1>4. Tied(cl', data', got')
    BY <1>1 DEF Flow, DropsData, Tied
<1>5. ~Live(data')
    BY <1>1 DEF Flow, Sent, Live
<1>6. Sent(data', got', dm', th', ctl')
    BY <1>1, <1>5 DEF Flow, Sent, FewerStarts
<1> QED
    BY <1>3, <1>4, <1>6, FlowKept DEF Flow

\* The packet at the head of the connection is given to the application.
LEMMA ReadNumbered ==
    ASSUME NEW d \in DataType, NEW e \in DataType, NEW g \in Seq(Packet),
           Numbered(d, g), d.q # <<>>, Head(d.q).k \in {"whole", "torn"},
           e.q = Tail(d.q), e.c = d.c, e.d = d.d, e.up = d.up
    PROVE  /\ Numbered(e, Append(g, Head(d.q)))
           /\ Len(Append(g, Head(d.q))) + Len(e.q) = Len(g) + Len(d.q)
<1> DEFINE q == d.q
           p == Head(d.q)
           r == Tail(d.q)
           h == Append(g, p)
           l == Len(g)
           k == Len(q)
<1>1. /\ q \in Seq(Packet) /\ q # <<>> /\ l \in Nat /\ k \in Nat /\ k > 0
      /\ p = q[1] /\ p \in Packet /\ r \in Seq(Packet) /\ Len(r) = k - 1
      /\ \A i \in 1..Len(r) : r[i] = q[i + 1]
    BY HeadTailProperties, LenProperties, EmptySeq DEF DataType
<1>2. /\ h \in Seq(Packet) /\ Len(h) = l + 1 /\ h[l + 1] = p /\ \A i \in 1..l : h[i] = g[i]
    BY <1>1, AppendProperties
<1>3. /\ \A i \in 1..k : /\ q[i].n = l + i
                         /\ q[i].k = "rest" => i = 1
                         /\ q[i].k = "torn" => i = k /\ ~d.up
      /\ \A i \in 1..l : g[i].n = i /\ (g[i].k = "whole" \/ (i = l /\ g[i].k = "torn"))
      /\ d.c \notin {"none", "closed"}
      /\ g # <<>> => g[l].k # "torn"
    BY <1>1 DEF Numbered
<1>5. \A i \in 1..l : g[i].k = "whole"
  <2>1. ASSUME NEW i \in 1..l, g[i].k # "whole" PROVE FALSE
    <3>1. i = l /\ g[i].k = "torn"
      BY <1>3, <2>1
    <3>2. g # <<>>
      BY <1>1, <2>1, EmptySeq
    <3> QED
      BY <1>3, <3>1, <3>2
  <2> QED
    BY <2>1
<1>0. e.q = r /\ p.k \in {"whole", "torn"}
    OBVIOUS
<1> HIDE DEF q, p, r, h, l, k
<1>4. p.n = l + 1 /\ (p.k = "torn" => k = 1 /\ ~d.up)
  <2>1. 1 \in 1..k
    BY <1>1
  <2>2. q[1].n = l + 1 /\ (q[1].k = "torn" => 1 = k /\ ~d.up)
    BY <1>3, <2>1
  <2> QED
    BY <1>1, <2>2
<1>6. \A i \in 1..Len(r) : /\ r[i].n = Len(h) + i
                           /\ r[i].k = "rest" => i = 1
                           /\ r[i].k = "torn" => i = Len(r) /\ ~d.up
  <2> TAKE i \in 1..Len(r)
  <2>1. i \in 1..k - 1 /\ i + 1 \in 1..k /\ r[i] = q[i + 1]
    BY <1>1
  <2>2. /\ q[i + 1].n = l + (i + 1)
        /\ q[i + 1].k = "rest" => i + 1 = 1
        /\ q[i + 1].k = "torn" => i + 1 = k /\ ~d.up
    BY <1>3, <2>1
  <2>3. l + (i + 1) = (l + 1) + i /\ i + 1 # 1 /\ (i + 1 = k => i = k - 1)
    BY <1>1, <2>1
  <2> QED
    BY <1>1, <1>2, <2>1, <2>2, <2>3
<1>7. \A i \in 1..Len(h) : h[i].n = i /\ (h[i].k = "whole" \/ (i = Len(h) /\ h[i].k = "torn"))
  <2> TAKE i \in 1..Len(h)
  <2>1. i \in 1..l \/ i = l + 1
    BY <1>1, <1>2
  <2> QED
    BY <1>0, <1>2, <1>3, <1>4, <1>5, <2>1
<1>8. h[Len(h)].k = "torn" => r = <<>> /\ ~d.up
    BY <1>1, <1>2, <1>4, EmptySeq
<1>9. Len(h) + Len(r) = l + k
    BY <1>1, <1>2
<1>10. Numbered(e, h)
    BY <1>0, <1>3, <1>6, <1>7, <1>8 DEF Numbered
<1> QED
    BY <1>0, <1>9, <1>10 DEF q, p, r, h, l, k

\* A packet that is too large stays on the connection.
LEMMA TooLargeNumbered ==
    ASSUME NEW d \in DataType, NEW e \in DataType, NEW g \in Seq(Packet),
           Numbered(d, g), d.q # <<>>, Head(d.q).k = "big",
           e.q = [d.q EXCEPT ![1] = [d.q[1] EXCEPT !.k = "rest"]],
           e.c = d.c, e.d = d.d, e.up = d.up
    PROVE  Numbered(e, g) /\ Len(e.q) = Len(d.q) /\ e.q # <<>>
<1> DEFINE q == d.q
           r == e.q
           k == Len(q)
<1>1. q \in Seq(Packet) /\ q # <<>> /\ k \in Nat /\ k > 0 /\ 1 \in 1..k /\ q[1] \in Packet
    BY HeadTailProperties, LenProperties, EmptySeq, ElementOfSeq DEF DataType
<1>2. [q[1] EXCEPT !.k = "rest"] \in Packet /\ [q[1] EXCEPT !.k = "rest"].n = q[1].n
      /\ [q[1] EXCEPT !.k = "rest"].k = "rest"
    BY <1>1 DEF Packet
<1>3. /\ r \in Seq(Packet) /\ Len(r) = k
      /\ \A i \in 1..k : r[i] = IF i = 1 THEN [q[1] EXCEPT !.k = "rest"] ELSE q[i]
    BY <1>1, <1>2, ExceptSeq, LenProperties
<1>4. r # <<>>
    BY <1>1, <1>3, EmptySeq
<1>5. \A i \in 1..k : /\ q[i].n = Len(g) + i
                      /\ q[i].k = "rest" => i = 1
                      /\ q[i].k = "torn" => i = k /\ ~d.up
    BY DEF Numbered
<1>6. \A i \in 1..Len(r) : /\ r[i].n = Len(g) + i
                           /\ r[i].k = "rest" => i = 1
                           /\ r[i].k = "torn" => i = Len(r) /\ ~d.up
    BY <1>1, <1>2, <1>3, <1>5
<1> QED
    BY <1>1, <1>3, <1>4, <1>6 DEF Numbered

LEMMA ReadFlow ==
    ASSUME Flow, ClientInv, ReadTcp, data \in DataType, dm' = dm, th' = th, mode' = mode
    PROVE  Flow'
<1>0. /\ cl \in ClientType /\ cl.fp = "started" /\ cl.pc = "idle" /\ got \in Seq(Packet)
      /\ data.c = "open" /\ data.q # <<>> /\ ctl' = ctl
      /\ Numbered(data, got) /\ Tied(cl, data, got) /\ Sent(data, got, dm, th, ctl)
    BY DEF ReadTcp, ClientInv, Flow
<1>1. data.d # "listen" /\ ~Occurs(ctl.c2d, "STARTCAP_REQ")
    BY <1>0 DEF Sent
<1>2. data.q \in Seq(Packet) /\ Head(data.q) \in Packet /\ Head(data.q) = data.q[1]
    BY <1>0, HeadTailProperties DEF DataType
<1>3. CASE Head(data.q).k \in {"whole", "torn"}
  <2>1. /\ got' = Append(got, Head(data.q)) /\ data' = [data EXCEPT !.q = Tail(@)]
        /\ cl' = [cl EXCEPT !.TotCapt = (@ + 1) % W]
    BY <1>3 DEF ReadTcp
  <2>2. /\ data'.q = Tail(data.q) /\ data'.c = data.c /\ data'.d = data.d /\ data'.up = data.up
        /\ cl'.pc = cl.pc /\ cl'.fp = cl.fp
    BY <1>0, <2>1 DEF DataType, ClientType
  <2>3. data' \in DataType
    <3>1. Tail(data.q) \in Seq(Packet)
      BY <1>0, <1>2, HeadTailProperties
    <3> QED
      BY <2>1, <3>1, DataFields
  <2>4. Numbered(data', got') /\ Len(got') + Len(data'.q) = Len(got) + Len(data.q)
    BY <1>0, <1>3, <2>1, <2>2, <2>3, ReadNumbered
  <2>5. Tied(cl', data', got')
    BY <1>0, <2>2 DEF Tied
  <2>6. Live(data') = Live(data)
    BY <2>2 DEF Live
  <2>7. Sent(data', got', dm', th', ctl')
    BY <1>0, <1>1, <2>2, <2>4, <2>6 DEF Sent
  <2> QED
    BY <2>4, <2>5, <2>7, FlowKept DEF Flow
<1>4. CASE Head(data.q).k = "big"
  <2>1. got' = got /\ cl' = cl /\ data' = [data EXCEPT !.q[1].k = "rest"]
    BY <1>4 DEF ReadTcp
  <2> DEFINE r == [data.q EXCEPT ![1] = [data.q[1] EXCEPT !.k = "rest"]]
  <2>2. 1 \in 1..Len(data.q) /\ data.q[1] \in Packet /\ [data.q[1] EXCEPT !.k = "rest"] \in Packet
    BY <1>0, <1>2, EmptySeq, LenProperties DEF Packet
  <2>3. r \in Seq(Packet)
    BY <1>2, <2>2, ExceptSeq
  <2>4. data' = [data EXCEPT !.q = r]
    BY <1>2, <2>1, <2>2 DEF DataType, Packet
  <2>5. data'.q = r /\ data'.c = data.c /\ data'.d = data.d /\ data'.up = data.up /\ data' \in DataType
    BY <2>3, <2>4, DataFields DEF DataType
  <2>6. Numbered(data', got') /\ Len(data'.q) = Len(data.q)
    BY <1>0, <1>4, <2>1, <2>5, TooLargeNumbered
  <2>7. Tied(cl', data', got')
    BY <1>0, <2>1, <2>5 DEF Tied
  <2>8. Live(data') = Live(data)
    BY <2>5 DEF Live
  <2>9. Sent(data', got', dm', th', ctl')
    BY <1>0, <1>1, <2>1, <2>5, <2>6, <2>8 DEF Sent
  <2> QED
    BY <2>6, <2>7, <2>9, FlowKept DEF Flow
<1>5. CASE Head(data.q).k = "rest"
  <2>1. got' = got /\ cl' = [cl EXCEPT !.pc = "lost"] /\ data' = data
    BY <1>5 DEF ReadTcp
  <2>2. cl'.pc = "lost" /\ cl'.fp = cl.fp
    BY <1>0, <2>1 DEF ClientType
  <2>3. Tied(cl', data', got')
    BY <1>0, <2>1, <2>2 DEF Tied
  <2> QED
    BY <1>0, <2>1, <2>3, FlowKept DEF Flow
<1> QED
    BY <1>2, <1>3, <1>4, <1>5 DEF Packet

LEMMA ClientFlow ==
    ASSUME SessionInv, Flow, ClientStep, ~mode.udp
    PROVE  Flow'
<1>1. DataKinds /\ dm' = dm /\ th' = th /\ mode' = mode /\ data \in DataType /\ ClientInv
    BY ClientData, ModeStays DEF SessionInv, WiresTyped
<1>2. CASE AsksData
    BY <1>1, <1>2, AsksFlow
<1>3. CASE ReadTcp
    BY <1>1, <1>3, ReadFlow
<1>4. CASE LeavesData \/ OpensCapture \/ ConnectsData \/ StartsCapture \/ DropsData
  <2>1. FewerStarts
    BY <1>4, ClientStarts DEF LeavesData, OpensCapture, ConnectsData, StartsCapture, DropsData
  <2> QED
    BY <1>1, <1>4, <2>1, LeavesFlow, OpensFlow, ConnectsFlow, StartsFlow, DropsFlow
<1> QED
    BY <1>1, <1>2, <1>3, <1>4 DEF DataKinds

----------------------------------------------------------------------------
(* The daemon and the network.                                              *)

\* the connection is closed, or has not been open
LEMMA ShutNumbered ==
    ASSUME NEW d \in DataType, NEW e \in DataType, NEW g, Numbered(d, g),
           e.q = d.q, e.c = d.c, e.up = d.up
    PROVE  Numbered(e, g)
BY DEF Numbered

\* no data connection is open afterwards
LEMMA ShutFlow ==
    ASSUME Flow, data \in DataType, cl' = cl, got' = got, mode' = mode, FewerStarts,
           \/ data' = data /\ data.d # "open"
           \/ data' = [data EXCEPT !.d = "closed"],
           dm'.pc = "accept" => dm.pc = "accept"
    PROVE  Flow'
<1>1. /\ data'.q = data.q /\ data'.c = data.c /\ data'.up = data.up /\ data' \in DataType
      /\ data'.d # "open" /\ (data'.d = "listen" => data.d = "listen")
  <2>1. CASE data' = data /\ data.d # "open"
    BY <2>1
  <2>2. CASE data' = [data EXCEPT !.d = "closed"]
    <3>1. data' \in DataType
      BY <2>2, EndsNamed, DataFields
    <3> QED
      BY <2>2, <3>1 DEF DataType
  <2> QED
    BY <2>1, <2>2
<1>2. Numbered(data', got')
    BY <1>1, ShutNumbered DEF Flow
<1>3. Tied(cl', data', got')
    BY <1>1 DEF Flow, Tied
<1>4. Sent(data', got', dm', th', ctl')
    BY <1>1 DEF Flow, Sent, Live, FewerStarts
<1> QED
    BY <1>2, <1>3, <1>4, FlowKept DEF Flow

\* nothing happens to the connection and its thread
LEMMA AsideFlow ==
    ASSUME Flow, data' = data, cl' = cl, got' = got, mode' = mode, FewerStarts,
           dm'.pc = "accept" => dm.pc = "accept",
           dm.fp => dm'.fp, dm.rd => dm'.rd, dm'.sent = dm.sent,
           th' = "closing" => th = "closing"
    PROVE  Flow'
<1>1. Sent(data', got', dm', th', ctl')
    BY DEF Flow, Sent, FewerStarts
<1> QED
    BY <1>1, FlowKept DEF Flow

\* A capture starts on a connection that nothing has been sent on.
LEMMA FreshFlow ==
    ASSUME Flow, data \in DataType, cl' = cl, got' = got, mode' = mode,
           data' = [data EXCEPT !.d = "open"], data.q = <<>>, data.c # "none",
           data.c # "closed" => got = <<>>,
           dm'.fp, dm'.rd, dm'.sent = 0, dm'.pc # "accept", th' # "closing",
           ~Occurs(ctl'.c2d, "STARTCAP_REQ")
    PROVE  Flow'
<1>1. /\ data'.q = <<>> /\ data'.c = data.c /\ data'.up = data.up /\ data' \in DataType
      /\ data'.d = "open"
    BY EndsNamed, DataFields DEF DataType
<1>2. Numbered(data', got')
    BY <1>1, ShutNumbered DEF Flow
<1>3. Tied(cl', data', got')
    BY <1>1 DEF Flow, Tied
<1>4. Len(<<>>) = 0 /\ 0 + 0 = 0
    BY EmptySeq
<1>5. Live(data') => Len(got') + Len(data'.q) = dm'.sent
    BY <1>1, <1>4 DEF Live
<1>6. Sent(data', got', dm', th', ctl')
    BY <1>1, <1>5 DEF Sent
<1> QED
    BY <1>2, <1>3, <1>6, FlowKept

\* daemon_startcapture listens.
LEMMA ListensFlow ==
    ASSUME Flow, data' = [NoData EXCEPT !.d = "listen"], cl' = cl, got' = got, mode' = mode
    PROVE  Numbered(data', got') /\ Tied(cl', data', got') /\ Sent(data', got', dm', th', ctl')
<1>1. data'.q = <<>> /\ data'.c = "none" /\ data'.d = "listen"
    BY DEF NoData
<1>2. Len(<<>>) = 0 /\ 1..0 = {}
    BY EmptySeq
<1>3. Numbered(data', got')
    BY <1>1, <1>2 DEF Flow, Numbered
<1>4. Tied(cl', data', got')
    BY <1>1 DEF Flow, Tied
<1>5. Sent(data', got', dm', th', ctl')
    BY <1>1 DEF Sent, Live
<1> QED
    BY <1>3, <1>4, <1>5

\* The next packet, the one after the n that have been sent, is put on the connection.
Puts(d, e, g, n, p) ==
    /\ d \in DataType /\ e \in DataType /\ g \in Seq(Packet) /\ n \in Nat
    /\ p \in Packet /\ p.n = n + 1 /\ p.k \in {"whole", "big"}
    /\ Numbered(d, g) /\ d.up /\ d.c \notin {"none", "closed"}
    /\ Len(g) + Len(d.q) = n /\ e.q = Append(d.q, p)
    /\ e.c = d.c /\ e.d = d.d /\ e.up = d.up

UpTo(e, g, n) == Numbered(e, g) /\ Len(g) + Len(e.q) = n

LEMMA SentNumbered ==
    ASSUME NEW d, NEW e, NEW g, NEW n, NEW p, Puts(d, e, g, n, p)
    PROVE  UpTo(e, g, n + 1)
<1> USE DEF Puts
<1> DEFINE q == d.q
           r == e.q
           l == Len(g)
           j == Len(q)
<1>1. q \in Seq(Packet) /\ l \in Nat /\ j \in Nat
    BY LenProperties DEF DataType
<1>2. /\ r \in Seq(Packet) /\ Len(r) = j + 1 /\ r[j + 1] = p /\ \A i \in 1..j : r[i] = q[i]
    BY <1>1, AppendProperties
<1>3. \A i \in 1..j : /\ q[i].n = l + i
                      /\ q[i].k = "rest" => i = 1
                      /\ q[i].k # "torn"
    BY DEF Numbered
<1>4. g # <<>> => g[l].k # "torn"
    BY DEF Numbered
<1>5. l + j = n
    OBVIOUS
<1> HIDE DEF q, r, l, j
<1>6. \A i \in 1..Len(r) : /\ r[i].n = l + i
                           /\ r[i].k = "rest" => i = 1
                           /\ r[i].k # "torn"
  <2> TAKE i \in 1..Len(r)
  <2>1. i \in 1..j \/ i = j + 1
    BY <1>1, <1>2
  <2>2. CASE i \in 1..j
    BY <1>2, <1>3, <2>2
  <2>3. CASE i = j + 1
    <3>1. r[i].n = n + 1 /\ r[i].k = p.k /\ n + 1 = l + (j + 1)
      BY <1>1, <1>2, <1>5, <2>3
    <3> QED
      BY <2>3, <3>1
  <2> QED
    BY <2>1, <2>2, <2>3
<1>7. l + Len(r) = n + 1
    BY <1>1, <1>2, <1>5
<1>8. Numbered(e, g)
    BY <1>4, <1>6 DEF Numbered, r, l
<1> QED
    BY <1>7, <1>8 DEF r, l, UpTo

\* A connection that breaks loses the end of what is on it.
LEMMA CutNumbered ==
    ASSUME NEW d \in DataType, NEW e \in DataType, NEW g \in Seq(Packet), Numbered(d, g), d.up,
           NEW s \in Cut(d.q),
           NEW torn \in {s} \cup (IF s = <<>> THEN {} ELSE {[s EXCEPT ![Len(s)].k = "torn"]}),
           e.q = torn, e.c = d.c, ~e.up
    PROVE  Numbered(e, g) /\ (d.q = <<>> => e.q = <<>>)
<1> DEFINE q == d.q
           l == Len(g)
<1>1. q \in Seq(Packet) /\ Len(q) \in Nat /\ l \in Nat /\ s \in Seq(Packet) /\ Len(s) \in Nat
    BY LenProperties, CutTyped DEF DataType
<1>2. /\ \A i \in 1..Len(q) : /\ q[i].n = l + i
                              /\ q[i].k = "rest" => i = 1
                              /\ q[i].k # "torn"
      /\ d.c \in {"none", "closed"} => q = <<>>
      /\ g # <<>> /\ g[l].k = "torn" => q = <<>>
    BY DEF Numbered
<1>3. Len(s) <= Len(q) /\ \A i \in 1..Len(s) : s[i] = q[i]
  <2>1. PICK k \in 0..Len(q) : s = SubSeq(q, 1, k)
    BY DEF Cut
  <2>2. \A i \in 1..k : q[i] \in Packet
    BY <1>1, <2>1, ElementOfSeq
  <2> QED
    BY <1>1, <2>1, <2>2, SubSeqProperties
<1> HIDE DEF q, l
<1>4. \A i \in 1..Len(s) : /\ s[i].n = l + i
                           /\ s[i].k = "rest" => i = 1
                           /\ s[i].k # "torn"
    BY <1>1, <1>2, <1>3
<1>5. q = <<>> => s = <<>>
    BY <1>1, <1>3, EmptySeq
<1>6. /\ \A i \in 1..Len(torn) : /\ torn[i].n = l + i
                                 /\ torn[i].k = "rest" => i = 1
                                 /\ torn[i].k = "torn" => i = Len(torn)
      /\ s = <<>> => torn = <<>>
  <2>1. CASE torn = s
    BY <1>4, <2>1
  <2>2. CASE s # <<>> /\ torn = [s EXCEPT ![Len(s)].k = "torn"]
    <3> DEFINE p == [s[Len(s)] EXCEPT !.k = "torn"]
    <3>1. Len(s) \in 1..Len(s) /\ s[Len(s)] \in Packet
      BY <1>1, <2>2, EmptySeq, LenProperties, ElementOfSeq
    <3>2. p \in Packet /\ p.n = s[Len(s)].n /\ p.k = "torn"
      BY <3>1 DEF Packet
    <3>3. torn = [s EXCEPT ![Len(s)] = p]
      BY <2>2
    <3> HIDE DEF p
    <3>4. Len(torn) = Len(s) /\ \A i \in 1..Len(s) : torn[i] = IF i = Len(s) THEN p ELSE s[i]
      BY <1>1, <3>1, <3>2, <3>3, ExceptSeq
    <3>5. ASSUME NEW i \in 1..Len(torn)
          PROVE  /\ torn[i].n = l + i
                 /\ torn[i].k = "rest" => i = 1
                 /\ torn[i].k = "torn" => i = Len(torn)
      BY <1>4, <3>1, <3>2, <3>4
    <3> QED
      BY <2>2, <3>5
  <2> QED
    BY <2>1, <2>2
<1>7. q = <<>> => torn = <<>>
    BY <1>5, <1>6
<1>8. e.q = torn /\ ~e.up /\ e.c = d.c
    OBVIOUS
<1>9. \A i \in 1..Len(g) : g[i].n = i /\ (g[i].k = "whole" \/ (i = Len(g) /\ g[i].k = "torn"))
    BY DEF Numbered
<1>10. Numbered(e, g)
    BY <1>2, <1>6, <1>7, <1>8, <1>9 DEF Numbered, l
<1> QED
    BY <1>7, <1>8, <1>10 DEF q

LEMMA DaemonFewer == ASSUME DaemonKinds PROVE FewerStarts
<1>1. ~Occurs(<<>>, "STARTCAP_REQ")
    BY NothingOccurs
<1> QED
    BY <1>1 DEF DaemonKinds, FewerStarts, Ended, Served, Aside, Accepted, Reconnected, SamplingTaken,
       StartTaken, DataAccepted, Broken, Fewer, Keeps, StartRead

\* The capture of the loop ends, with its connection.
LEMMA CaptureShuts ==
    ASSUME Sent(data, got, dm, th, ctl),
           \/ EndCapture
           \/ ~dm.fp /\ data' = data
    PROVE  (data' = data /\ data.d # "open") \/ data' = [data EXCEPT !.d = "closed"]
BY DEF Sent, EndCapture

LEMMA ServiceFlow ==
    ASSUME BegunInv, Flow, Service, UNCHANGED clientVars, FewerStarts, mode' = mode
    PROVE  Flow'
<1>0. /\ cl' = cl /\ got' = got /\ data \in DataType /\ Sent(data, got, dm, th, ctl)
      /\ dm.pc = "none" => ~dm.fp
    BY DEF BegunInv, FrameInv, SessionInv, WiresTyped, Begun, LoopAt, clientVars, Flow
<1>1. CASE AcceptControl \/ ConnectActive
  <2>1. /\ data' = data /\ dm.pc = "none"
        /\ dm' = dm \/ dm' = [NoLoop EXCEPT !.pc = "auth", !.null = conf.null]
    BY <1>1 DEF AcceptControl, ConnectActive
  <2>2. data.d # "open" /\ dm'.pc # "accept"
    BY <1>0, <2>1 DEF Sent, NoLoop
  <2> QED
    BY <1>0, <2>1, <2>2, ShutFlow
<1>2. CASE Pause \/ ReadConfiguration
  <2>1. data' = data /\ dm' = dm /\ th' = th
    BY <1>2 DEF Pause, ReadConfiguration, streamVars
  <2> QED
    BY <1>0, <2>1, AsideFlow
<1>3. CASE Stop
  <2>1. dm'.pc # "accept"
    BY <1>3 DEF Stop, NoLoop
  <2>2. (data' = data /\ data.d # "open") \/ data' = [data EXCEPT !.d = "closed"]
    BY <1>3 DEF Stop
  <2> QED
    BY <1>0, <2>1, <2>2, ShutFlow
<1> QED
    BY <1>1, <1>2, <1>3 DEF Service

LEMMA EndLoopFlow ==
    ASSUME BegunInv, Flow, NEW c, NEW asked, EndLoop(c, asked), UNCHANGED clientVars, FewerStarts,
           mode' = mode
    PROVE  Flow'
<1>0. cl' = cl /\ got' = got /\ data \in DataType /\ Sent(data, got, dm, th, ctl)
    BY DEF BegunInv, FrameInv, SessionInv, WiresTyped, clientVars, Flow
<1>1. dm'.pc # "accept"
    BY DEF EndLoop, NoLoop
<1>2. EndCapture \/ (~dm.fp /\ data' = data)
    BY DEF EndLoop
<1> QED
    BY <1>0, <1>1, <1>2, CaptureShuts, ShutFlow

\* What the request to start finds.
LEMMA StartFinds ==
    ASSUME BegunInv, Flow, LoopTakes("STARTCAP_REQ")
    PROVE  /\ Occurs(ctl.c2d, "STARTCAP_REQ") /\ data.d # "open" /\ data.q = <<>>
           /\ Rest \in Seq(Unit) /\ Took(Rest) \in ControlType /\ Took(Rest).c2d = Rest
           /\ PortIsOpen => ~Occurs(Rest, "STARTCAP_REQ")
<1>1. Fine(ctl, exits) /\ Arrived /\ Request.t = "STARTCAP_REQ" /\ ctl \in ControlType
    BY DEF BegunInv, FrameInv, SessionInv, WiresTyped, LoopTakes
<1>2. 1 + Request.n \in Nat /\ 1 + Request.n > 0
    BY <1>1, RequestHead
<1>3. Occurs(ctl.c2d, "STARTCAP_REQ") /\ Rest \in Seq(Unit)
    BY <1>1, <1>2, StartIsRead DEF StartRead, Rest
<1>4. Took(Rest) \in ControlType /\ Took(Rest).c2d = Rest
    BY <1>1, <1>3, TookSame
<1> QED
    BY <1>3, <1>4 DEF Flow, Sent, PortIsOpen, Occurs

LEMMA StartErrorFlow ==
    ASSUME BegunInv, Flow, NEW c, NEW used, StartError(c, used), UNCHANGED clientVars, FewerStarts,
           mode' = mode,
           (data' = data /\ data.d # "open") \/ data' = [data EXCEPT !.d = "closed"]
    PROVE  Flow'
<1>1. dm'.pc # "accept"
    BY DEF StartError, BegunInv, FrameInv, SessionInv, LoopTyped, LoopType
<1> QED
    BY <1>1, ShutFlow DEF BegunInv, FrameInv, SessionInv, WiresTyped, clientVars

LEMMA StartThreadFlow ==
    ASSUME BegunInv, Flow, NEW c, StartThread(c, data, TRUE), UNCHANGED clientVars, FewerStarts,
           mode' = mode, data.q = <<>>, data.c # "none", data.c # "closed" => got = <<>>,
           ~Occurs(ctl'.c2d, "STARTCAP_REQ")
    PROVE  Flow'
<1>1. CASE StartError(c, {"lateError"}) /\ data' = [data EXCEPT !.d = "closed"]
    BY <1>1, StartErrorFlow
<1>2. CASE /\ dm' = [dm EXCEPT !.pc = "loop", !.fp = TRUE, !.rd = TRUE, !.handle = TRUE,
                               !.sent = 0, !.use = dm.samp]
           /\ th' = "new" /\ data' = [data EXCEPT !.d = "open"]
  <2>1. dm'.fp /\ dm'.rd /\ dm'.sent = 0 /\ dm'.pc = "loop"
    BY <1>2 DEF BegunInv, FrameInv, SessionInv, LoopTyped, LoopType
  <2> QED
    BY <1>2, <2>1, FreshFlow DEF BegunInv, FrameInv, SessionInv, WiresTyped, clientVars
<1> QED
    BY <1>1, <1>2 DEF StartThread

LEMMA ServeFlow ==
    ASSUME BegunInv, Flow, Serve, ~mode.udp, UNCHANGED clientVars, FewerStarts, mode' = mode
    PROVE  Flow'
<1>0. /\ cl' = cl /\ got' = got /\ data \in DataType /\ dm \in LoopType /\ ctl \in ControlType
      /\ Numbered(data, got) /\ Tied(cl, data, got) /\ Sent(data, got, dm, th, ctl)
    BY DEF BegunInv, FrameInv, SessionInv, WiresTyped, LoopTyped, clientVars, Flow
<1>1. CASE FindAllDevs \/ OpenSource \/ UpdateFilter \/ GetStats
  <2>1. data' = data /\ dm' = dm /\ th' = th
    BY <1>1 DEF FindAllDevs, OpenSource, UpdateFilter, GetStats
  <2> QED
    BY <1>0, <2>1, AsideFlow
<1>2. CASE SetSampling
  <2>1. data' = data /\ dm' = [dm EXCEPT !.samp = "asked"] /\ th' = th
    BY <1>2 DEF SetSampling
  <2>2. dm'.pc = dm.pc /\ dm'.fp = dm.fp /\ dm'.rd = dm.rd /\ dm'.sent = dm.sent
    BY <1>0, <2>1 DEF LoopType
  <2> QED
    BY <1>0, <2>1, <2>2, AsideFlow
<1>3. CASE StartNoSource
  <2>1. data.d # "open" /\ data' = data
    BY <1>3, StartFinds DEF StartNoSource
  <2>2. dm' = [dm EXCEPT !.fp = FALSE, !.rd = FALSE]
    BY <1>3 DEF StartNoSource
  <2>3. dm'.pc = dm.pc
    BY <1>0, <2>2 DEF LoopType
  <2> QED
    BY <1>0, <2>1, <2>3, ShutFlow
<1>4. CASE StartNoConnection \/ StartNoFilter
  <2>1. LoopTakes("STARTCAP_REQ") /\ \E c, used : StartError(c, used)
    BY <1>4 DEF StartNoConnection, StartNoFilter
  <2>2. data' = data \/ data' = [data EXCEPT !.d = "closed"]
    BY <1>4 DEF StartNoConnection, StartNoFilter
  <2>3. data.d # "open"
    BY <2>1, StartFinds
  <2> QED
    BY <2>1, <2>2, <2>3, StartErrorFlow
<1>5. CASE StartServeOpen
  <2>1. /\ LoopTakes("STARTCAP_REQ") /\ data.c = "listen" /\ PortIsOpen
        /\ StartThread(ToClient(Took(Rest), Plain("STARTCAP_REPLY")), data, PortIsOpen)
    BY <1>5 DEF StartServeOpen
  <2> DEFINE c == ToClient(Took(Rest), Plain("STARTCAP_REPLY"))
  <2>2. /\ data.q = <<>> /\ Took(Rest) \in ControlType /\ Took(Rest).c2d = Rest
        /\ ~Occurs(Rest, "STARTCAP_REQ")
    BY <2>1, StartFinds
  <2>3. c \in ControlType /\ c.c2d = Rest
    BY <2>2, ToClientSame, ToClientTyped, PlainsTyped
  <2> HIDE DEF c
  <2>4. StartThread(c, data, TRUE)
    BY <2>1 DEF c
  <2>5. ctl' = c \/ ctl' = SendError(c)
    BY <2>4 DEF StartThread, StartError
  <2>6. ctl'.c2d = Rest
    BY <2>3, <2>5, ToClientSame
  <2>7. got = <<>>
    BY <1>0, <2>1 DEF Tied
  <2> QED
    BY <2>1, <2>2, <2>4, <2>6, <2>7, StartThreadFlow
<1>6. CASE StartListen
  <2>1. ~ServeOpen /\ data' = [NoData EXCEPT !.d = "listen"]
    BY <1>6 DEF StartListen
  <2> QED
    BY <1>0, <2>1, ListensFlow, FlowKept
<1>7. CASE AcceptData
  <2>1. /\ dm.pc = "accept" /\ data.d = "listen" /\ data.c \in {"open", "closed"}
        /\ StartThread(ctl, data, TRUE)
    BY <1>7 DEF AcceptData
  <2>2. ~mode.active
    BY <2>1 DEF Flow, ServeOpen
  <2>3. ~Occurs(ctl.c2d, "STARTCAP_REQ")
    BY <2>1, <2>2 DEF BegunInv, Begun, Once
  <2>4. ctl' = ctl \/ ctl' = SendError(ctl)
    BY <2>1 DEF StartThread, StartError
  <2>5. ctl'.c2d = ctl.c2d
    BY <1>0, <2>4, ToClientSame
  <2>6. data.q = <<>> /\ (data.c = "open" => got = <<>>)
    BY <1>0, <2>1 DEF Sent
  <2> QED
    BY <2>1, <2>3, <2>5, <2>6, StartThreadFlow
<1>8. CASE EndCap
  <2>1. CASE dm.fp
    <3>1. EndCapture /\ dm' = [dm EXCEPT !.fp = FALSE, !.rd = FALSE]
      BY <1>8, <2>1 DEF EndCap
    <3>2. dm'.pc = dm.pc
      BY <1>0, <3>1 DEF LoopType
    <3> QED
      BY <1>0, <3>1, <3>2, CaptureShuts, ShutFlow
  <2>2. CASE ~dm.fp
    <3>1. data' = data /\ dm' = dm /\ th' = th
      BY <1>8, <2>2 DEF EndCap
    <3> QED
      BY <1>0, <3>1, AsideFlow
  <2> QED
    BY <2>1, <2>2
<1>9. CASE CloseSession
    BY <1>9, EndLoopFlow DEF CloseSession
<1> QED
    BY <1>1, <1>2, <1>3, <1>4, <1>5, <1>6, <1>7, <1>8, <1>9 DEF Serve

LEMMA LoopFlow ==
    ASSUME BegunInv, Flow, Loop, ~mode.udp, UNCHANGED clientVars, FewerStarts, mode' = mode
    PROVE  Flow'
<1>0. cl' = cl /\ got' = got /\ dm \in LoopType
    BY DEF BegunInv, FrameInv, SessionInv, LoopTyped, clientVars
<1>1. CASE TimeOut \/ ConnectionLost \/ AuthGivenUp
    BY <1>1, EndLoopFlow DEF TimeOut, ConnectionLost, AuthGivenUp
<1>2. CASE Authenticate \/ OutOfFrame
  <2>1. data' = data /\ th' = th
    BY <1>2 DEF Authenticate, OutOfFrame, streamVars
  <2>2. dm' = dm \/ dm' = [dm EXCEPT !.pc = "loop"] \/ dm' = [dm EXCEPT !.pc = "lost"]
    BY <1>2 DEF Authenticate, OutOfFrame
  <2>3. /\ dm'.pc = dm.pc \/ dm'.pc \in {"loop", "lost"}
        /\ dm'.fp = dm.fp /\ dm'.rd = dm.rd /\ dm'.sent = dm.sent
    BY <1>0, <2>2 DEF LoopType
  <2> QED
    BY <1>0, <2>1, <2>3, AsideFlow
<1> QED
    BY <1>1, <1>2, ServeFlow DEF Loop

LEMMA ThreadFlow ==
    ASSUME BegunInv, Flow, Thread, ~mode.udp, UNCHANGED clientVars, FewerStarts, mode' = mode
    PROVE  Flow'
<1>0. /\ cl' = cl /\ got' = got /\ dm \in LoopType /\ data \in DataType /\ got \in Seq(Packet)
      /\ Numbered(data, got) /\ Tied(cl, data, got) /\ Sent(data, got, dm, th, ctl)
    BY DEF BegunInv, FrameInv, SessionInv, WiresTyped, LoopTyped, ClientInv, clientVars, Flow
<1>1. CASE ThreadReady
  <2>1. data' = data /\ dm' = dm /\ th' # "closing"
    BY <1>1 DEF ThreadReady, streamVars
  <2> QED
    BY <1>0, <2>1, AsideFlow
<1>2. ASSUME data' = CloseThreadData, dm' = dm PROVE Flow'
  <2>1. (data' = data /\ data.d # "open") \/ data' = [data EXCEPT !.d = "closed"]
    BY <1>2 DEF CloseThreadData
  <2> QED
    BY <1>0, <1>2, <2>1, ShutFlow
<1>3. CASE ReadFails
    BY <1>2, <1>3 DEF ReadFails
<1>4. CASE ThreadEnd
  <2>1. data' = data /\ dm' = [dm EXCEPT !.rd = FALSE] /\ data.d # "open"
    BY <1>0, <1>4 DEF ThreadEnd, streamVars, Sent
  <2>2. dm'.pc = dm.pc
    BY <1>0, <2>1 DEF LoopType
  <2> QED
    BY <1>0, <2>1, <2>2, ShutFlow
<1>5. CASE SendPacket
  <2>1. CASE data' = CloseThreadData /\ dm' = dm
    BY <1>2, <2>1
  <2>2. CASE ~DataGone /\ dm' = [dm EXCEPT !.sent = @ + 1] /\ th' = th /\ ctl' = ctl
             /\ \E k \in {"whole", "big"} :
                    data' = [data EXCEPT !.q = Append(@, [n |-> dm.sent + 1, k |-> k])]
    <3>1. PICK k \in {"whole", "big"} :
              data' = [data EXCEPT !.q = Append(@, [n |-> dm.sent + 1, k |-> k])]
      BY <2>2
    <3>2. data.up /\ data.d = "open" /\ data.c # "closed" /\ data.c # "none" /\ Live(data)
      BY <1>0, <2>2 DEF DataGone, Sent, Live
    <3>3. dm.sent \in Nat /\ dm.sent + 1 \in Nat /\ dm'.sent = dm.sent + 1 /\ dm'.pc = dm.pc
          /\ dm'.fp = dm.fp /\ dm'.rd = dm.rd
      BY <1>0, <2>2 DEF LoopType
    <3>4. [n |-> dm.sent + 1, k |-> k] \in Packet /\ data.q \in Seq(Packet)
      BY <1>0, <3>3 DEF Packet, DataType
    <3>5. Append(data.q, [n |-> dm.sent + 1, k |-> k]) \in Seq(Packet)
      BY <3>4, AppendProperties
    <3> DEFINE r == Append(data.q, [n |-> dm.sent + 1, k |-> k])
    <3>6. data' = [data EXCEPT !.q = r] /\ r \in Seq(Packet)
      BY <3>1, <3>5
    <3> HIDE DEF r
    <3>7. /\ data'.q = r /\ data'.c = data.c /\ data'.d = data.d /\ data'.up = data.up
          /\ data' \in DataType
      BY <1>0, <3>6, DataFields DEF DataType
    <3>8. Numbered(data', got') /\ Len(got') + Len(data'.q) = dm'.sent
      <4> DEFINE d == data
                 e == data'
                 n == dm.sent
                 p == [n |-> dm.sent + 1, k |-> k]
      <4>1. /\ d \in DataType /\ e \in DataType /\ got \in Seq(Packet) /\ n \in Nat
            /\ Numbered(d, got) /\ d.up /\ d.c \notin {"none", "closed"}
            /\ Len(got) + Len(d.q) = n
            /\ e.c = d.c /\ e.d = d.d /\ e.up = d.up
        BY <1>0, <3>2, <3>3, <3>7 DEF Sent
      <4>2. e.q = Append(d.q, p) /\ p \in Packet /\ p.n = n + 1 /\ p.k \in {"whole", "big"}
        BY <3>1, <3>4, <3>7 DEF r
      <4> HIDE DEF d, e, n, p
      <4>3. Puts(d, e, got, n, p)
        BY <4>1, <4>2 DEF Puts
      <4>4. UpTo(e, got, n + 1)
        BY <4>3, SentNumbered
      <4> QED
        BY <1>0, <3>3, <4>4 DEF UpTo, e, n
    <3>9. Tied(cl', data', got')
      BY <1>0, <3>7 DEF Tied
    <3>10. Sent(data', got', dm', th', ctl')
      BY <1>0, <2>2, <3>2, <3>3, <3>7, <3>8 DEF Sent
    <3> QED
      BY <3>3, <3>8, <3>9, <3>10, FlowKept DEF Flow
  <2> QED
    BY <1>5, <2>1, <2>2 DEF SendPacket
<1> QED
    BY <1>1, <1>3, <1>4, <1>5 DEF Thread

LEMMA BreakFlow ==
    ASSUME BegunInv, Flow, Break, FewerStarts
    PROVE  Flow'
<1>0. /\ cl' = cl /\ got' = got /\ data \in DataType /\ got \in Seq(Packet)
      /\ dm' = dm /\ th' = th /\ mode' = mode
      /\ Numbered(data, got) /\ Tied(cl, data, got) /\ Sent(data, got, dm, th, ctl)
    BY DEF BegunInv, FrameInv, SessionInv, WiresTyped, ClientInv, clientVars, Flow, Break,
       BreakControl, BreakData
<1>1. CASE BreakControl
  <2>1. data' = data
    BY <1>1 DEF BreakControl
  <2> QED
    BY <1>0, <2>1, AsideFlow
<1>2. CASE BreakData
  <2>1. data.up /\ data.c = "open" /\ data.d = "open" /\ ctl' = ctl
    BY <1>2 DEF BreakData
  <2>2. PICK s \in Cut(data.q) : \E torn \in {s} \cup (IF s = <<>> THEN {} ELSE {[s EXCEPT ![Len(s)].k = "torn"]}) :
              data' = [data EXCEPT !.up = FALSE, !.q = torn]
    BY <1>2 DEF BreakData
  <2>3. PICK torn \in {s} \cup (IF s = <<>> THEN {} ELSE {[s EXCEPT ![Len(s)].k = "torn"]}) :
              data' = [data EXCEPT !.up = FALSE, !.q = torn]
    BY <2>2
  <2>4. data' \in DataType
    BY <1>2, BreakTyped DEF Break, BegunInv, FrameInv, SessionInv, WiresTyped
  <2>5. data'.q = torn /\ data'.c = data.c /\ data'.d = data.d /\ ~data'.up
    BY <1>0, <2>3 DEF DataType
  <2>6. Numbered(data', got') /\ (data.q = <<>> => data'.q = <<>>)
    BY <1>0, <2>1, <2>4, <2>5, CutNumbered
  <2>7. Tied(cl', data', got')
    BY <1>0, <2>5 DEF Tied
  <2>8. Sent(data', got', dm', th', ctl')
    BY <1>0, <2>1, <2>5, <2>6 DEF Sent, Live
  <2> QED
    BY <1>0, <2>6, <2>7, <2>8, FlowKept DEF Flow
<1> QED
    BY <1>1, <1>2 DEF Break

LEMMA NextFlow == BegunInv /\ (~mode.udp => Flow) /\ [Next]_vars => (~mode.udp => Flow)'
<1> SUFFICES ASSUME BegunInv, ~mode.udp => Flow, [Next]_vars, ~mode'.udp PROVE Flow'
    OBVIOUS
<1>0. SessionInv /\ LoopAt(ctl, dm) /\ Fine(ctl, exits) /\ mode' = mode
    BY ModeStays DEF BegunInv, FrameInv, Begun, Next, Break, BreakControl, BreakData, vars
<1>1. ~mode.udp /\ Flow
    BY <1>0
<1>2. CASE ClientStep
    BY <1>0, <1>1, <1>2, ClientFlow
<1>3. CASE DaemonStep
  <2>1. FewerStarts /\ UNCHANGED clientVars
    BY <1>0, <1>3, DaemonFewer, ServiceKinds, LoopKinds, ThreadKinds DEF DaemonStep
  <2> QED
    BY <1>0, <1>1, <1>3, <2>1, ServiceFlow, LoopFlow, ThreadFlow DEF DaemonStep
<1>4. CASE Break
    BY <1>0, <1>1, <1>4, BreakKinds, DaemonFewer, BreakFlow
<1>5. CASE UNCHANGED vars
  <2>1. /\ data' = data /\ cl' = cl /\ got' = got /\ dm' = dm /\ th' = th /\ ctl' = ctl
    BY <1>5 DEF vars, streamVars, clientVars, daemonVars
  <2> QED
    BY <1>0, <1>1, <2>1, AsideFlow DEF FewerStarts
<1> QED
    BY <1>2, <1>3, <1>4, <1>5 DEF Next

LEMMA InitFlow == Init => Flow
<1> SUFFICES ASSUME Init PROVE Flow
    OBVIOUS
<1>1. /\ data.q = <<>> /\ data.c = "none" /\ data.d = "none" /\ got = <<>>
      /\ cl.pc = "idle" /\ cl.fp = "none" /\ dm.pc = "none" /\ th = "none" /\ ctl.c2d = <<>>
    BY DEF Init, NoConnection, NoData, DaemonInit, NoLoop, ClientInit
<1>2. Len(<<>>) = 0 /\ 1..0 = {}
    BY EmptySeq
<1>3. Numbered(data, got)
    BY <1>1, <1>2 DEF Numbered
<1>4. Tied(cl, data, got)
    BY <1>1 DEF Tied
<1>5. Sent(data, got, dm, th, ctl)
    BY <1>1, NothingOccurs DEF Sent, Live
<1> QED
    BY <1>1, <1>3, <1>4, <1>5 DEF Flow

(* pcap_read_nocb_remote, daemon_thrdatamain and the closes of the data     *)
(* socket: over TCP the packets of a capture reach the application in the   *)
(* order in which they were sent and without a gap, for any number of       *)
(* captures, wherever a connection breaks, and whichever end closes or      *)
(* restarts first; only the last may be torn.                               *)
THEOREM PacketsInOrder == Spec => []DeliveredInOrder
<1>1. (~mode.udp => Flow) => DeliveredInOrder
    BY DEF Flow, Numbered, DeliveredInOrder
<1>2. Init => BegunInv /\ (~mode.udp => Flow)
    BY InitBegun, InitFlow
<1> QED
    BY <1>1, <1>2, NextBegun, NextFlow, PTL DEF Spec
=============================================================================
