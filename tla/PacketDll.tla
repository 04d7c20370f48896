----------------------------- MODULE PacketDll -----------------------------
(***************************************************************************)
(* packet.dll in one process: the list of adapters that every thread of    *)
(* the application shares under a recursive mutex, the opening and closing *)
(* of adapters through the driver or one of the libraries below, and the   *)
(* installation and start of the driver on the way.  The functions call    *)
(* each other, so a thread has a list of what is left to do of its call:   *)
(* an action takes the first item, and puts the items of the functions it  *)
(* calls in its place.                                                     *)
(***************************************************************************)
EXTENDS NPFService

CONSTANTS
  Threads,    \* threads of the application
  NoOne,      \* not a thread
  FakeWan     \* the name of the adapter "GenericDialupAdapter"

ASSUME ThreadsAssumption == IsFiniteSet(Threads) /\ NoOne \notin Threads

VARIABLES
  list,     \* g_AdaptersInfoList: names and flags, the newest first
  mutex,    \* g_AdaptersInfoMutex: owner and depth
  th,       \* per thread: the calls to come, this one, what is left of it
  ad,       \* per thread: the adapter it has open
  below,    \* open handles of airpcap.dll, NPFIM, dagc.dll and WanPacket
  dll       \* libraries loaded, networks gone; for the properties: service
            \* handles leaked, the list raced for, FireWire adapters shown

dllVars == <<list, mutex, th, ad, below, dll>>

Libraries == {"wan", "air", "im", "dag"}
Flags == Libraries \cup {"ndis", "hidden", "dagfile"}

NoAdapter == [flag |-> "none", name |-> "none"]
Do(what, name) == [do |-> what, name |-> name]
Idle == Do("idle", "none")

Waiting(calls) == [calls |-> calls, call |-> Idle, work |-> << >>, ok |-> FALSE,
                   found |-> "none", file |-> FALSE, seen |-> << >>]

Names(entries) == {entries[i].name : i \in DOMAIN entries}
Entry(name, flag) == [name |-> name, flag |-> flag]
Each(what, names) == [i \in DOMAIN names |-> Do(what, names[i])]

(* Thread t is at an item, and what it is applied to.                      *)
Doing(t, what) == th[t].work # << >> /\ Head(th[t].work).do = what
Arg(t) == Head(th[t].work).name

(* The record of t when the item is done and these take its place.         *)
Then(t, items) == [th[t] EXCEPT !.work = items \o Tail(@)]
Becomes(t, r) == th' = [th EXCEPT ![t] = r]
Goes(t, items) == Becomes(t, Then(t, items))

KeepService == UNCHANGED <<svc, drv, faults>>
KeepAdapters == UNCHANGED <<ad, below, dll>>

CanLock(t) == mutex.owner \in {NoOne, t}
Lock(t) == CanLock(t) /\ mutex' = [owner |-> t, depth |-> mutex.depth + 1]

Released == IF mutex.depth = 1 THEN [owner |-> NoOne, depth |-> 0]
                               ELSE [mutex EXCEPT !.depth = @ - 1]

(* WaitForSingleObject and ReleaseMutex of a function whose other items    *)
(* stand between them.                                                     *)
LockMutex(t) ==
  /\ Doing(t, "lock") /\ Lock(t) /\ Goes(t, << >>)
  /\ KeepService /\ KeepAdapters /\ UNCHANGED list

ReleaseMutex(t) ==
  /\ Doing(t, "unlock") /\ mutex' = Released /\ Goes(t, << >>)
  /\ KeepService /\ KeepAdapters /\ UNCHANGED list

-----------------------------------------------------------------------------
(* PacketOpenAdapterNPF, which leaves in "file" whether it opened one.     *)

(* OpenSCManager, and the test of the registry key of the service.         *)
PacketOpenAdapterNPF(t) ==
  /\ Doing(t, "npf")
  /\ \/ NoFault /\ svc.there /\ Goes(t, <<Do("service", Arg(t))>>)
     \/ NoFault /\ ~svc.there /\ Goes(t, <<Do("install", Arg(t))>>)
     \/ Fault /\ Goes(t, <<Do("file", Arg(t))>>)
  /\ UNCHANGED <<svc, drv, list, mutex>> /\ KeepAdapters

(* A service that is there, and not marked for deletion, is as good.       *)
PacketInstallDriver(result) ==
  \/ result /\ NoFault /\ CreateService /\ ~svc.marked
  \/ ~result /\ NoFault /\ svc.marked /\ UNCHANGED <<svc, drv>>
  \/ ~result /\ Fault /\ UNCHANGED <<svc, drv>>

(* When it fails it is tried once more, and the service is then opened for *)
(* SERVICE_START only, so that its status cannot be asked.                 *)
InstallFirst(t) ==
  /\ Doing(t, "install")
  /\ \/ PacketInstallDriver(TRUE) /\ Goes(t, <<Do("service", Arg(t))>>)
     \/ PacketInstallDriver(FALSE) /\ Goes(t, <<Do("again", Arg(t))>>)
  /\ KeepAdapters /\ UNCHANGED <<list, mutex>>

InstallAgain(t) ==
  /\ Doing(t, "again")
  /\ \/ PacketInstallDriver(TRUE) /\ Goes(t, <<Do("blind", Arg(t))>>)
     \/ PacketInstallDriver(FALSE) /\ Goes(t, <<Do("file", Arg(t))>>)
  /\ KeepAdapters /\ UNCHANGED <<list, mutex>>

CannotOpenService == (~svc.there /\ NoFault) \/ (svc.there /\ Fault)

(* OpenService and QueryServiceStatus.                                     *)
OpenServiceFirst(t) ==
  /\ Doing(t, "service")
  /\ \/ /\ OpenService /\ NoFault
        /\ Goes(t, <<Do(IF svc.state = "running" THEN "close" ELSE "start", Arg(t))>>)
     \/ CannotOpenService /\ UNCHANGED <<svc, drv>> /\ Goes(t, <<Do("file", Arg(t))>>)
  /\ KeepAdapters /\ UNCHANGED <<list, mutex>>

OpenServiceAgain(t) ==
  /\ Doing(t, "blind")
  /\ \/ OpenService /\ NoFault /\ Goes(t, <<Do("start", Arg(t))>>)
     \/ CannotOpenService /\ UNCHANGED <<svc, drv>> /\ Goes(t, <<Do("file", Arg(t))>>)
  /\ KeepAdapters /\ UNCHANGED <<list, mutex>>

(* When the driver does not start the function returns, with the handle of *)
(* the service still open.                                                 *)
StartDriver(t) ==
  /\ Doing(t, "start")
  /\ \/ /\ StartService("started") \/ StartService("already")
        /\ Goes(t, <<Do("close", Arg(t))>>) /\ UNCHANGED dll
     \/ /\ StartService("failed")
        /\ Becomes(t, [Then(t, << >>) EXCEPT !.file = FALSE])
        /\ dll' = [dll EXCEPT !.leaked = @ + 1]
  /\ UNCHANGED <<list, mutex, ad, below>>

CloseService(t) ==
  /\ Doing(t, "close")
  /\ CloseServiceHandle
  /\ Goes(t, <<Do("file", Arg(t))>>)
  /\ KeepAdapters /\ UNCHANGED <<list, mutex, faults>>

(* GlobalAlloc of the adapter, and CreateFile.                             *)
Reachable(name) == CanOpen(name) /\ name \notin dll.gone

OpenTheFile(t) ==
  /\ Doing(t, "file")
  /\ \/ Reachable(Arg(t)) /\ NoFault /\ OpenFile /\ Goes(t, <<Do("event", Arg(t))>>)
     \/ /\ (~Reachable(Arg(t)) /\ NoFault) \/ (Reachable(Arg(t)) /\ Fault)
        /\ Becomes(t, [Then(t, << >>) EXCEPT !.file = FALSE])
        /\ UNCHANGED <<svc, drv>>
  /\ KeepAdapters /\ UNCHANGED <<list, mutex>>

PacketSetReadEvt(t) ==
  /\ Doing(t, "event")
  /\ \/ NoFault /\ Becomes(t, [Then(t, << >>) EXCEPT !.file = TRUE]) /\ UNCHANGED <<svc, drv>>
     \/ Fault /\ Becomes(t, [Then(t, << >>) EXCEPT !.file = FALSE]) /\ CloseFile
  /\ KeepAdapters /\ UNCHANGED <<list, mutex>>

NpfNext(t) ==
  \/ PacketOpenAdapterNPF(t) \/ InstallFirst(t) \/ InstallAgain(t) \/ OpenServiceFirst(t)
  \/ OpenServiceAgain(t) \/ StartDriver(t) \/ CloseService(t) \/ OpenTheFile(t)
  \/ PacketSetReadEvt(t)

-----------------------------------------------------------------------------
(* The list.                                                               *)

Listed(name) == name \in Names(list)
Prepend(name, flag) == list' = <<Entry(name, flag)>> \o list

(* As if the return for an adapter that is listed forgot ReleaseMutex.     *)
AddNPFLocked(t, hidden) ==
  /\ Lock(t)
  /\ \/ Listed(Arg(t)) /\ Becomes(t, [Then(t, << >>) EXCEPT !.ok = TRUE]) /\ UNCHANGED list
     \/ /\ ~Listed(Arg(t)) /\ hidden
        /\ Becomes(t, [Then(t, <<Do("unlock", Arg(t))>>) EXCEPT !.ok = TRUE])
        /\ Prepend(Arg(t), "hidden")
     \/ /\ ~Listed(Arg(t)) /\ ~hidden
        /\ Goes(t, <<Do("npf", Arg(t)), Do("link", Arg(t)), Do("unlock", Arg(t))>>)
        /\ UNCHANGED list
  /\ KeepService /\ KeepAdapters

(* PacketAddAdapterNPF; with INFO_FLAG_DONT_EXPORT the adapter is listed   *)
(* without being opened.                                                   *)
AddNPF(t, hidden) ==
  /\ Lock(t)
  /\ \/ /\ Listed(Arg(t))
        /\ Becomes(t, [Then(t, <<Do("unlock", Arg(t))>>) EXCEPT !.ok = TRUE])
        /\ UNCHANGED list
     \/ /\ ~Listed(Arg(t)) /\ hidden
        /\ Becomes(t, [Then(t, <<Do("unlock", Arg(t))>>) EXCEPT !.ok = TRUE])
        /\ Prepend(Arg(t), "hidden")
     \/ /\ ~Listed(Arg(t)) /\ ~hidden
        /\ Goes(t, <<Do("npf", Arg(t)), Do("link", Arg(t)), Do("unlock", Arg(t))>>)
        /\ UNCHANGED list
  /\ KeepService /\ KeepAdapters

PacketAddAdapterNPF(t) ==
  \/ Doing(t, "add") /\ AddNPF(t, FALSE)
  \/ Doing(t, "hide") /\ AddNPF(t, TRUE)

(* Its part after PacketOpenAdapterNPF: without memory or a link layer     *)
(* type the adapter is not listed; it is closed either way.                *)
LinkNPF(t) ==
  /\ Doing(t, "link")
  /\ \/ /\ ~th[t].file /\ NoFault /\ UNCHANGED <<svc, drv, list>>
        /\ Becomes(t, [Then(t, << >>) EXCEPT !.ok = FALSE])
     \/ /\ th[t].file /\ NoFault /\ CloseFile /\ Prepend(Arg(t), "ndis")
        /\ Becomes(t, [Then(t, << >>) EXCEPT !.ok = TRUE])
     \/ /\ th[t].file /\ Fault /\ CloseFile /\ UNCHANGED list
        /\ Becomes(t, [Then(t, << >>) EXCEPT !.ok = FALSE])
  /\ KeepAdapters /\ UNCHANGED mutex

IsFireWire(i) == machine.class[i].fireWire

(* The adapters of the class key, then those TCP/IP is bound to.           *)
PacketGetAdaptersNPF(t) ==
  /\ Doing(t, "npfs")
  /\ LET class == [i \in DOMAIN machine.class |->
                     Do(IF IsFireWire(i) THEN "hide" ELSE "add", machine.class[i].name)]
     IN \/ NoFault /\ Goes(t, class \o Each("add", machine.tcp))
        \/ Fault /\ Goes(t, class)
  /\ KeepAdapters /\ UNCHANGED <<svc, drv, list, mutex>>

(* PacketAddAdapterIPH walks the list, and below prepends to it, without   *)
(* the mutex: only some of its callers hold it.                            *)
PPP(name) == \E i \in DOMAIN machine.iph : machine.iph[i].name = name /\ machine.iph[i].ppp

PacketAddAdapterIPH(t) ==
  /\ Doing(t, "iph")
  /\ \/ Listed(Arg(t)) /\ Goes(t, << >>)
     \/ ~Listed(Arg(t)) /\ PPP(Arg(t)) /\ ~machine.wan /\ Goes(t, << >>)
     \/ /\ ~Listed(Arg(t)) /\ PPP(Arg(t)) /\ machine.wan
        /\ Becomes(t, [Then(t, <<Do("first", Arg(t))>>) EXCEPT !.seen = list])
     \/ /\ ~Listed(Arg(t)) /\ ~PPP(Arg(t))
        /\ Becomes(t, [Then(t, <<Do("npf", Arg(t)), Do("shut", Arg(t))>>)
                         EXCEPT !.seen = list])
  /\ KeepService /\ KeepAdapters /\ UNCHANGED <<list, mutex>>

(* The adapter can be opened, and is closed, or it is skipped.             *)
ShutIPH(t) ==
  /\ Doing(t, "shut")
  /\ \/ th[t].file /\ CloseFile /\ Goes(t, <<Do("first", Arg(t))>>)
     \/ ~th[t].file /\ UNCHANGED <<svc, drv>> /\ Goes(t, << >>)
  /\ KeepAdapters /\ UNCHANGED <<list, mutex, faults>>

(* Another thread has changed the list since it was looked at, or is about *)
(* to, holding the mutex.                                                  *)
Races(t) == list # th[t].seen \/ ~CanLock(t)

(* TmpAdInfo->Next = g_AdaptersInfoList.                                   *)
ReadFirst(t) ==
  /\ Doing(t, "first")
  /\ \/ /\ NoFault /\ dll' = [dll EXCEPT !.raced = @ \/ Races(t)]
        /\ Becomes(t, [Then(t, <<Do("prepend", Arg(t))>>) EXCEPT !.seen = list])
     \/ Fault /\ Goes(t, << >>) /\ UNCHANGED dll
  /\ UNCHANGED <<svc, drv, list, mutex, ad, below>>

(* g_AdaptersInfoList = TmpAdInfo.                                         *)
WriteFirst(t) ==
  /\ Doing(t, "prepend")
  /\ list' = <<Entry(Arg(t), IF PPP(Arg(t)) THEN "wan" ELSE "ndis")>> \o th[t].seen
  /\ dll' = [dll EXCEPT !.raced = @ \/ Races(t)]
  /\ Becomes(t, [Then(t, << >>) EXCEPT !.seen = << >>])
  /\ KeepService /\ UNCHANGED <<mutex, ad, below>>

PacketGetAdaptersIPH(t) ==
  /\ Doing(t, "iphs")
  /\ \/ NoFault /\ Goes(t, [i \in DOMAIN machine.iph |-> Do("iph", machine.iph[i].name)])
     \/ Fault /\ Goes(t, << >>)
  /\ KeepAdapters /\ UNCHANGED <<svc, drv, list, mutex>>

(* PacketAddFakeNdisWanAdapter.                                            *)
PacketAddFakeNdisWanAdapter(t) ==
  /\ Doing(t, "fake")
  /\ \/ machine.wan /\ CanLock(t) /\ ~Listed(FakeWan) /\ NoFault /\ Prepend(FakeWan, "wan")
     \/ machine.wan /\ CanLock(t) /\ Listed(FakeWan) /\ NoFault /\ UNCHANGED list
     \/ machine.wan /\ CanLock(t) /\ ~Listed(FakeWan) /\ Fault /\ UNCHANGED list
     \/ ~machine.wan /\ NoFault /\ UNCHANGED list
  /\ Goes(t, << >>)
  /\ KeepAdapters /\ UNCHANGED <<svc, drv, mutex>>

-----------------------------------------------------------------------------
(* The cards of airpcap.dll, NPFIM and dagc.dll: each is opened for a look *)
(* at it and closed.                                                       *)

Opens(lib) == below' = [below EXCEPT ![lib] = @ + 1]
Closes(lib) == below' = [below EXCEPT ![lib] = @ - 1]

(* The head only, as if the loop were missing.                             *)
ListedAtHead(name, flag) == list # << >> /\ list[1] = Entry(name, flag)

ListedAs(name, flag) == \E i \in DOMAIN list : list[i] = Entry(name, flag)

(* A library lists its cards, when it is there.                            *)
GetAdapters(t, item, what, cards) ==
  /\ Doing(t, item)
  /\ \/ dll.loaded /\ NoFault /\ Goes(t, Each(what, cards))
     \/ dll.loaded /\ cards # << >> /\ Fault /\ Goes(t, << >>)
     \/ ~dll.loaded /\ NoFault /\ Goes(t, << >>)
  /\ KeepAdapters /\ UNCHANGED <<svc, drv, list, mutex>>

PacketGetAdaptersAirpcap(t) == GetAdapters(t, "airs", "air", machine.air)
PacketGetAdaptersNpfIm(t) == GetAdapters(t, "ims", "im", machine.im)
PacketGetAdaptersDag(t) == GetAdapters(t, "dags", "dag", machine.dag)

(* With the mutex, unless the card is listed, open it.                     *)
AddCard(t, lib) ==
  /\ Doing(t, lib) /\ Lock(t)
  /\ \/ ListedAs(Arg(t), lib) /\ NoFault /\ Goes(t, <<Do("unlock", Arg(t))>>) /\ UNCHANGED below
     \/ /\ ~ListedAs(Arg(t), lib) /\ NoFault /\ Opens(lib)
        /\ Goes(t, <<Do("card", lib), Do("unlock", Arg(t))>>)
     \/ ~ListedAs(Arg(t), lib) /\ Fault /\ Goes(t, <<Do("unlock", Arg(t))>>) /\ UNCHANGED below
  /\ UNCHANGED <<svc, drv, list, ad, dll>>

PacketAddAdapterAirpcap(t) == AddCard(t, "air")
PacketAddAdapterNpfIm(t) == AddCard(t, "im")

(* What is asked of the card (its link type, its addresses) may be refused;*)
(* the next item, the release of the mutex, has the name of the card.      *)
LinkCard(t) ==
  /\ Doing(t, "card")
  /\ Closes(Arg(t))
  /\ \/ NoFault /\ Prepend(th[t].work[2].name, Arg(t))
     \/ Fault /\ UNCHANGED list
  /\ Goes(t, << >>)
  /\ UNCHANGED <<svc, drv, mutex, ad, dll>>

(* The DAG library is asked without the mutex, and nobody looks whether    *)
(* the card is listed.                                                     *)
DagOpens(name) ==
  name \in machine.dagfiles \/ \E i \in DOMAIN machine.dag : machine.dag[i] = name

AddDag(t, link) ==
  \/ /\ DagOpens(Arg(t)) /\ NoFault /\ Opens("dag")
     /\ Becomes(t, [Then(t, <<Do(link, Arg(t))>>) EXCEPT !.ok = TRUE])
  \/ /\ (~DagOpens(Arg(t)) /\ NoFault) \/ (DagOpens(Arg(t)) /\ Fault)
     /\ UNCHANGED below
     /\ Becomes(t, [Then(t, << >>) EXCEPT !.ok = FALSE])

PacketAddAdapterDag(t) ==
  /\ \/ Doing(t, "dag") /\ AddDag(t, "dagcard")
     \/ Doing(t, "dagfile") /\ AddDag(t, "daglink")
  /\ UNCHANGED <<svc, drv, list, mutex, ad, dll>>

LinkDag(t) ==
  /\ \/ Doing(t, "dagcard") /\ Prepend(Arg(t), "dag")
     \/ Doing(t, "daglink") /\ Prepend(Arg(t), "dagfile")
  /\ CanLock(t)
  /\ Closes("dag") /\ Goes(t, << >>)
  /\ KeepService /\ UNCHANGED <<mutex, ad, dll>>

CardsNext(t) ==
  \/ PacketGetAdaptersAirpcap(t) \/ PacketGetAdaptersNpfIm(t) \/ PacketGetAdaptersDag(t)
  \/ PacketAddAdapterAirpcap(t) \/ PacketAddAdapterNpfIm(t) \/ LinkCard(t)
  \/ PacketAddAdapterDag(t) \/ LinkDag(t)
-----------------------------------------------------------------------------
(* Finding, updating and making the list.                                  *)

FirstFlag(name) ==
  IF Listed(name)
  THEN LET i == CHOOSE k \in DOMAIN list :
                  list[k].name = name /\ \A j \in 1..(k - 1) : list[j].name # name
       IN list[i].flag
  ELSE "none"

(* An empty list is made first.                                            *)
PacketFindAdInfo(t) ==
  /\ Doing(t, "find")
  /\ \/ list = << >> /\ Goes(t, <<Do("populate", "all"), Do("look", Arg(t))>>)
     \/ list # << >> /\ Becomes(t, [Then(t, << >>) EXCEPT !.found = FirstFlag(Arg(t))])
  /\ KeepService /\ KeepAdapters /\ UNCHANGED <<list, mutex>>

LookAtList(t) ==
  /\ Doing(t, "look")
  /\ Becomes(t, [Then(t, << >>) EXCEPT !.found = FirstFlag(Arg(t))])
  /\ KeepService /\ KeepAdapters /\ UNCHANGED <<list, mutex>>

Without(name) ==
  IF ~Listed(name) THEN list
  ELSE LET i == CHOOSE k \in DOMAIN list :
                  list[k].name = name /\ \A j \in 1..(k - 1) : list[j].name # name
       IN SubSeq(list, 1, i - 1) \o SubSeq(list, i + 1, Len(list))

FireWire == {machine.class[i].name : i \in {j \in DOMAIN machine.class : IsFireWire(j)}}

(* PacketUpdateAdInfo: the entry goes, the mutex is released, and the      *)
(* adapter is added again, this time as one that is not hidden.  If that   *)
(* fails, so are all adapters of the other kinds.                          *)
PacketUpdateAdInfo(t) ==
  /\ Doing(t, "update") /\ CanLock(t)
  /\ \/ /\ Arg(t) = FakeWan /\ Listed(FakeWan) /\ Goes(t, << >>)
        /\ UNCHANGED <<list, dll>>
     \/ /\ Arg(t) # FakeWan \/ ~Listed(FakeWan)
        /\ list' = Without(Arg(t))
        /\ Goes(t, <<Do("add", Arg(t)), Do("others", Arg(t))>>)
        /\ dll' = [dll EXCEPT !.shown = @ \cup (FireWire \cap {Arg(t)})]
  /\ KeepService /\ UNCHANGED <<mutex, ad, below>>

Everything(order) == [i \in DOMAIN order |-> Do(order[i], "all")]

UpdateOthers(t) ==
  /\ Doing(t, "others")
  /\ \/ th[t].ok /\ Goes(t, << >>) /\ UNCHANGED dll
     \/ /\ ~th[t].ok /\ Goes(t, Everything(<<"iphs", "ims", "airs", "fake", "dags">>))
        /\ dll' = [dll EXCEPT !.shown = @ \cup (FireWire \ Names(list))]
  /\ KeepService /\ UNCHANGED <<list, mutex, ad, below>>

PacketPopulateAdaptersInfoList(t) ==
  /\ Doing(t, "populate") /\ Lock(t)
  /\ list' = << >>
  /\ dll' = [dll EXCEPT !.shown = {}]
  /\ Goes(t, Everything(<<"npfs", "iphs", "fake", "airs", "ims", "dags", "unlock">>))
  /\ KeepService /\ UNCHANGED <<ad, below>>

(* PacketLoadLibrariesDynamically, which has a mutex of its own.           *)
PacketLoadLibrariesDynamically(t) ==
  /\ Doing(t, "load")
  /\ dll' = [dll EXCEPT !.loaded = TRUE]
  /\ Goes(t, << >>)
  /\ KeepService /\ UNCHANGED <<list, mutex, ad, below>>

-----------------------------------------------------------------------------
(* PacketOpenAdapter and PacketCloseAdapter.                               *)

UpdateWhenMissing(t) ==
  /\ Doing(t, "missing")
  /\ \/ th[t].found = "none" /\ Goes(t, <<Do("update", Arg(t)), Do("find", Arg(t))>>)
     \/ th[t].found # "none" /\ Goes(t, << >>)
  /\ KeepService /\ KeepAdapters /\ UNCHANGED <<list, mutex>>

(* How PacketOpenAdapter goes on with what it has found: an unknown name   *)
(* may be that of a file of the DAG library; what is hidden, or a file     *)
(* that is open already, is refused.                                       *)
OpenBy(flag) ==
  CASE flag = "ndis" -> <<"npf", "keep">>
    [] flag = "none" -> IF dll.loaded THEN <<"dagfile", "openfile">> ELSE << >>
    [] flag \in Libraries -> <<"open">>
    [] OTHER -> << >>

PacketOpenAdapter(t) ==
  /\ Doing(t, "choose")
  /\ LET items == OpenBy(th[t].found)
     IN Goes(t, [i \in DOMAIN items |-> Do(items[i], Arg(t))])
  /\ KeepService /\ KeepAdapters /\ UNCHANGED <<list, mutex>>

KeepNPF(t) ==
  /\ Doing(t, "keep")
  /\ ad' = [ad EXCEPT ![t] = IF th[t].file THEN Entry(Arg(t), "ndis") ELSE @]
  /\ Goes(t, << >>)
  /\ KeepService /\ UNCHANGED <<list, mutex, below, dll>>

(* PacketOpenAdapterWanPacket, ...Airpcap, ...NpfIm and ...DAG: allocate,  *)
(* open; the second and third then ask for the read event.                 *)
OpensByLibrary(t, lib) ==
  /\ Doing(t, "open") /\ th[t].found = lib
  /\ \/ /\ NoFault /\ Opens(lib)
        /\ ad' = [ad EXCEPT ![t] = Entry(Arg(t), lib)]
     \/ Fault /\ UNCHANGED <<ad, below>>
  /\ UNCHANGED <<svc, drv, list, mutex, dll>>

PacketOpenAdapterWanPacket(t) == OpensByLibrary(t, "wan") /\ Goes(t, << >>)
PacketOpenAdapterAirpcap(t) ==
  OpensByLibrary(t, "air") /\ Goes(t, IF ad'[t].flag = "air" THEN <<Do("wait", "air")>> ELSE << >>)
PacketOpenAdapterNpfIm(t) ==
  OpensByLibrary(t, "im") /\ Goes(t, IF ad'[t].flag = "im" THEN <<Do("wait", "im")>> ELSE << >>)
PacketOpenAdapterDAG(t) == OpensByLibrary(t, "dag") /\ Goes(t, << >>)

(* As if the adapter were not closed when it has no event.                 *)
GetReadEventOnly(t) ==
  /\ Doing(t, "wait")
  /\ \/ NoFault /\ UNCHANGED ad
     \/ Fault /\ ad' = [ad EXCEPT ![t] = NoAdapter]
  /\ Goes(t, << >>)
  /\ UNCHANGED <<svc, drv, list, mutex, below, dll>>

GetReadEvent(t) ==
  /\ Doing(t, "wait")
  /\ \/ NoFault /\ UNCHANGED <<ad, below>>
     \/ Fault /\ Closes(Arg(t)) /\ ad' = [ad EXCEPT ![t] = NoAdapter]
  /\ Goes(t, << >>)
  /\ UNCHANGED <<svc, drv, list, mutex, dll>>

(* A file is listed before it is opened, and stays so if that fails.       *)
OpenDagFile(t) ==
  /\ Doing(t, "openfile")
  /\ \/ th[t].ok /\ NoFault /\ Opens("dag") /\ ad' = [ad EXCEPT ![t] = Entry(Arg(t), "dagfile")]
     \/ ~th[t].ok /\ NoFault /\ UNCHANGED <<ad, below>>
     \/ th[t].ok /\ Fault /\ UNCHANGED <<ad, below>>
  /\ Goes(t, << >>)
  /\ UNCHANGED <<svc, drv, list, mutex, dll>>

Library(flag) == IF flag = "dagfile" THEN "dag" ELSE flag

PacketCloseAdapter(t) ==
  /\ Doing(t, "shutad")
  /\ \/ ad[t].flag = "none" /\ UNCHANGED <<svc, drv, below>>
     \/ ad[t].flag = "ndis" /\ CloseFile /\ UNCHANGED below
     \/ ad[t].flag \notin {"none", "ndis"} /\ Closes(Library(ad[t].flag)) /\ UNCHANGED <<svc, drv>>
  /\ ad' = [ad EXCEPT ![t] = NoAdapter]
  /\ Goes(t, << >>)
  /\ UNCHANGED <<list, mutex, faults, dll>>

ListNext(t) ==
  \/ LockMutex(t) \/ ReleaseMutex(t) \/ PacketLoadLibrariesDynamically(t)
  \/ PacketAddAdapterNPF(t) \/ LinkNPF(t) \/ PacketGetAdaptersNPF(t)
  \/ PacketAddAdapterIPH(t) \/ ShutIPH(t) \/ ReadFirst(t) \/ WriteFirst(t)
  \/ PacketGetAdaptersIPH(t) \/ PacketAddFakeNdisWanAdapter(t)
  \/ PacketFindAdInfo(t) \/ LookAtList(t) \/ PacketUpdateAdInfo(t) \/ UpdateOthers(t)
  \/ PacketPopulateAdaptersInfoList(t)

OpenNext(t) ==
  \/ UpdateWhenMissing(t) \/ PacketOpenAdapter(t) \/ KeepNPF(t)
  \/ PacketOpenAdapterWanPacket(t) \/ PacketOpenAdapterAirpcap(t)
  \/ PacketOpenAdapterNpfIm(t) \/ PacketOpenAdapterDAG(t) \/ GetReadEvent(t)
  \/ OpenDagFile(t) \/ PacketCloseAdapter(t)

-----------------------------------------------------------------------------
(* The calls on an open adapter: who answers, for each kind of adapter.    *)
(* "yes" and "no" are the answers of packet.dll itself.                    *)

PacketReceivePacket(f) == Library(f)
PacketSendPacket(f) == IF f \in {"ndis", "air"} THEN f ELSE "no"
PacketSetMinToCopy(f) == IF Library(f) = "dag" THEN "yes" ELSE f
PacketSetMode(f, capt) ==
  CASE f \in {"ndis", "wan"} -> f
    [] f \in {"air", "im"} -> IF capt THEN "yes" ELSE "no"
    [] OTHER -> "no"
OnlyNdis(f) == IF f = "ndis" THEN f ELSE "no"
PacketSetDumpName(f) == OnlyNdis(f)
PacketSetDumpLimits(f) == OnlyNdis(f)
PacketIsDumpEnded(f) == OnlyNdis(f)
PacketSetNumWrites(f) == OnlyNdis(f)
PacketSetLoopbackBehavior(f) == OnlyNdis(f)
PacketSetReadTimeout(f) == IF f \in {"wan", "im"} THEN f ELSE "yes"
PacketSetBuff(f) == CASE f = "dag" -> "yes" [] f = "dagfile" -> "no" [] OTHER -> f
PacketSetBpf(f) == IF Library(f) = "dag" THEN "yes" ELSE f
PacketSetSnapLen(f) == IF Library(f) = "dag" THEN "dag" ELSE "yes"
PacketGetStats(f) == Library(f)
PacketGetStatsEx(f) == IF f \in {"im", "dagfile"} THEN "no" ELSE f
PacketRequest(f, set) == IF f = "ndis" \/ (f = "im" /\ ~set) THEN f ELSE "no"
PacketSetHwFilter(f) ==
  CASE f = "ndis" -> PacketRequest(f, TRUE) [] Library(f) = "dag" -> "no" [] OTHER -> "yes"
PacketGetAirPcapHandle(f) == IF f = "air" THEN "yes" ELSE "no"

Answers(f) ==
  {PacketReceivePacket(f), PacketSendPacket(f), PacketSetMinToCopy(f), PacketSetDumpName(f),
   PacketSetDumpLimits(f), PacketIsDumpEnded(f), PacketSetNumWrites(f),
   PacketSetLoopbackBehavior(f), PacketSetReadTimeout(f), PacketSetBuff(f), PacketSetBpf(f),
   PacketSetSnapLen(f), PacketGetStats(f), PacketGetStatsEx(f), PacketSetHwFilter(f),
   PacketGetAirPcapHandle(f)}
  \cup {PacketSetMode(f, capt) : capt \in BOOLEAN}
  \cup {PacketRequest(f, set) : set \in BOOLEAN}

(* The application makes one of them.                                      *)
Ask(t) ==
  /\ Doing(t, "ask")
  /\ \E who \in Answers(ad[t].flag) :
       Goes(t, IF who \in {"yes", "no"} THEN << >> ELSE <<Do("asked", who)>>)
  /\ KeepService /\ KeepAdapters /\ UNCHANGED <<list, mutex>>

Answered(t) ==
  /\ Doing(t, "asked")
  /\ Goes(t, << >>)
  /\ KeepService /\ KeepAdapters /\ UNCHANGED <<list, mutex>>

(* PacketSendPackets of one or two packets: BIOCSENDPACKETS may return     *)
(* after the first, when the second is not due yet; on an adapter that has *)
(* gone it succeeds with 0 bytes, and PacketSendPackets sees no reason to  *)
(* stop.                                                                   *)
PacketSendPackets(t) ==
  /\ Doing(t, "send")
  /\ \/ (ad[t].flag # "ndis" \/ ad[t].name \notin dll.gone) /\ NoFault /\ Goes(t, << >>)
     \/ /\ ad[t].flag = "ndis" /\ ad[t].name \notin dll.gone /\ Arg(t) = "two" /\ NoFault
        /\ Goes(t, <<Do("tick", "due"), Do("send", "one")>>)
     \/ /\ ad[t].flag = "ndis" /\ ad[t].name \in dll.gone /\ NoFault
        /\ Goes(t, <<Do("tick", "due"), Do("send", Arg(t))>>)
     \/ ad[t].flag = "ndis" /\ Fault /\ Goes(t, << >>)
  /\ KeepAdapters /\ UNCHANGED <<svc, drv, list, mutex>>

WaitForTarget(t) ==
  /\ Doing(t, "tick") /\ Goes(t, << >>)
  /\ KeepService /\ KeepAdapters /\ UNCHANGED <<list, mutex>>

(* PacketStopDriver.                                                       *)
PacketStopDriver(t) ==
  /\ \/ /\ Doing(t, "stop") /\ OpenService /\ NoFault
        /\ Goes(t, <<Do("control", "svc"), Do("done", "svc")>>)
     \/ Doing(t, "stop") /\ CannotOpenService /\ UNCHANGED <<svc, drv>> /\ Goes(t, << >>)
     \/ Doing(t, "control") /\ ControlStop /\ NoFault /\ Goes(t, << >>)
     \/ Doing(t, "done") /\ CloseServiceHandle /\ NoFault /\ Goes(t, << >>)
  /\ KeepAdapters /\ UNCHANGED <<list, mutex>>

CallNext(t) ==
  \/ Ask(t) \/ Answered(t) \/ PacketSendPackets(t) \/ WaitForTarget(t) \/ PacketStopDriver(t)

-----------------------------------------------------------------------------
PacketGetAdapterNames == <<Do("load", "all"), Do("populate", "all"),
                           Do("lock", "all"), Do("unlock", "all")>>
PacketGetNetInfoEx(n) == <<Do("update", n), Do("lock", n), Do("find", n), Do("unlock", n)>>
PacketGetNetType(n) == <<Do("lock", n), Do("find", n), Do("unlock", n)>>
OpenAdapter(n) == <<Do("load", "all"), Do("lock", n), Do("find", n), Do("missing", n),
                    Do("choose", n), Do("unlock", n)>>

(* The entry of a DAG file is updated before the file is closed.           *)
CloseAdapter(a) ==
  (IF a.flag = "dagfile" THEN <<Do("update", a.name)>> ELSE << >>) \o <<Do("shutad", a.name)>>

(* What a call comes down to, for the adapter the thread has, if any.      *)
Program(call, a) ==
  CASE call.do = "names" -> PacketGetAdapterNames
    [] call.do = "netinfo" -> PacketGetNetInfoEx(call.name)
    [] call.do = "nettype" -> IF a = NoAdapter THEN << >> ELSE PacketGetNetType(a.name)
    [] call.do = "open" -> OpenAdapter(call.name)
    [] call.do = "close" -> CloseAdapter(a)
    [] call.do = "stopdriver" -> <<Do("stop", "svc")>>
    [] call.do = "send" -> IF a = NoAdapter THEN << >> ELSE <<Do("send", call.name)>>
    [] call.do = "ask" -> IF a = NoAdapter THEN << >> ELSE <<Do("ask", call.name)>>

(* A thread has one adapter open at a time.                                *)
Enter(t) ==
  /\ th[t].call = Idle /\ th[t].calls # << >>
  /\ Head(th[t].calls).do = "open" => ad[t] = NoAdapter
  /\ LET call == Head(th[t].calls)
     IN Becomes(t, [Waiting(Tail(th[t].calls)) EXCEPT
                      !.call = call, !.work = Program(call, ad[t])])
  /\ KeepService /\ KeepAdapters /\ UNCHANGED <<list, mutex>>

Return(t) ==
  /\ th[t].call # Idle /\ th[t].work = << >>
  /\ Becomes(t, Waiting(th[t].calls))
  /\ KeepService /\ KeepAdapters /\ UNCHANGED <<list, mutex>>

(* NDIS unbinds the driver from a network the machine loses.               *)
AdapterGoes ==
  /\ machine.leaves \ dll.gone # {}
  /\ dll' = [dll EXCEPT !.gone = machine.leaves]
  /\ UNCHANGED <<serviceVars, list, mutex, th, ad, below>>

DllInit ==
  /\ list = << >> /\ mutex = [owner |-> NoOne, depth |-> 0]
  /\ ad = [t \in Threads |-> NoAdapter]
  /\ below = [lib \in Libraries |-> 0]
  /\ dll = [loaded |-> FALSE, gone |-> {}, leaked |-> 0, raced |-> FALSE, shown |-> {}]

Working(t) == NpfNext(t) \/ ListNext(t) \/ CardsNext(t) \/ OpenNext(t) \/ CallNext(t) \/ Return(t)

ThreadNext(t) == (Enter(t) \/ Working(t)) /\ UNCHANGED <<machine, mgm>>

DllNext ==
  \/ \E t \in Threads : ThreadNext(t)
  \/ ServiceNext /\ UNCHANGED dllVars
  \/ AdapterGoes

(* Whatever the machine has, npf_mgm is told and the threads call; the     *)
(* service may be there or not, and runs for nobody yet.                   *)
IsList(s) == s \in Seq({s[i] : i \in DOMAIN s})

DllCalls == {"names", "netinfo", "nettype", "open", "close", "stopdriver", "send", "ask"}
MgmCommands == {"create", "delete", "start", "stop", "auto", "reinstall"}

DllStart ==
  /\ IsList(machine.class) /\ IsList(machine.tcp) /\ IsList(machine.iph)
  /\ IsList(machine.air) /\ IsList(machine.im) /\ IsList(machine.dag)
  /\ svc \in {NotThere, Installed} /\ drv = [linked |-> {}, files |-> 0]
  /\ mgm.cmds \in Seq(MgmCommands) /\ mgm = [cmds |-> mgm.cmds, todo |-> << >>, at |-> "main"]
  /\ faults = 0
  /\ DllInit
  /\ DOMAIN th = Threads
  /\ \A t \in Threads :
       /\ th[t] = Waiting(th[t].calls) /\ IsList(th[t].calls)
       /\ \A i \in DOMAIN th[t].calls : th[t].calls[i].do \in DllCalls

DllSpec == DllStart /\ [][DllNext]_<<serviceVars, dllVars>>

-----------------------------------------------------------------------------
Unlisted(flag) == {i \in DOMAIN list : Library(list[i].flag) # flag}

(* Between calls that hold the mutex the list names an adapter once, and   *)
(* a FireWire adapter is in it only to be hidden.  Not so for cards of the *)
(* DAG library, which PacketUpdateAdInfo adds again, nor for a FireWire    *)
(* adapter that it, or PacketGetAdaptersIPH for it, adds without the flag, *)
(* nor once PacketAddAdapterIPH, called without the mutex, has raced with  *)
(* a thread that changes the list.                                         *)
ListSound ==
  mutex.owner = NoOne /\ ~dll.raced =>
    /\ \A i, j \in Unlisted("dag") : i # j => list[i].name # list[j].name
    /\ \A i \in DOMAIN list :
         list[i].name \in FireWire \ dll.shown => list[i].flag = "hidden"

HandleOf(who) == IF who = "ndis" THEN drv.files > 0 ELSE below[who] > 0
Holding(lib) == Cardinality({t \in Threads : Library(ad[t].flag) = lib})

(* A call goes to a driver or library that has a handle open for it, and   *)
(* between calls nothing is open but the adapters the application has:     *)
(* no failure on the way, of a call or of a race for the list, leaks one.  *)
(* The exception is the handle of the service when the driver does not     *)
(* start.                                                                  *)
HandlesReleased ==
  /\ \A t \in Threads : Doing(t, "asked") => HandleOf(Arg(t))
  /\ (\A t \in Threads : th[t].call = Idle) =>
       /\ \A lib \in Libraries : below[lib] = Holding(lib)
       /\ drv.files = Holding("ndis")
       /\ svc.handles = dll.leaked + (IF MgmHolds THEN 1 ELSE 0)

(* Every call returns: no path leaves the mutex locked, whatever fails.    *)
(* PacketSendPackets on an adapter that has gone need not.                 *)
CallsReturn ==
  \A t \in Threads : th[t].call # Idle ~> (th[t].call = Idle \/ ad[t].name \in dll.gone)
=============================================================================
