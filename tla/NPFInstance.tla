------------------------------ MODULE NPFInstance ------------------------------
(***************************************************************************)
(* The life of one open instance of the NPF driver (packetNtx/driver/      *)
(* Openclos.c, and the IRPs of Packet.c and Read.c as its users):          *)
(* NPF_Open, NPF_Cleanup and NPF_Close for the file object, NPF_Unbind-    *)
(* Adapter when NDIS takes the adapter away, and in between IRPs that use  *)
(* the instance (NumPendingIrps), the adapter (AdapterHandleUsageCounter), *)
(* the pool of request blocks (RequestList) and the event of the reader.   *)
(*                                                                         *)
(* The driver counts on no order of IRPs: any number of them may run, and  *)
(* NPF_Cleanup may come while they do.  What a read copies is NPFCapture,  *)
(* what a write sends is NPFWrite.                                         *)
(***************************************************************************)
EXTENDS NPFBinding, FiniteSets

CONSTANTS
  Irps,             \* threads with IRPs for this instance
  MAX_REQUESTS,     \* request blocks of the instance
  TimeOuts,         \* read timeouts the application sets
  MaxCalls          \* bound: IRPs of each thread

ASSUME InstanceAssumption ==
  /\ Closers = {"cleanup", "unbind"}
  /\ IsFiniteSet(Irps)
  /\ MAX_REQUESTS \in Nat \ {0}
  /\ TimeOuts \subseteq {"immediate", "finite", "infinite"}
  /\ MaxCalls \in Nat

Requests == 1 .. MAX_REQUESTS

VARIABLES
  life,             \* how far NPF_Open, NPF_Cleanup and NPF_Close have got
  ClosePending, NumPendingIrps,
  RequestList,      \* request blocks not in use
  request,          \* each block: idle, at NDIS, or completed
  ReadEvent,        \* "null", or the state of the event
  references,       \* references the driver holds to events of the application
  irp,              \* each thread's IRP
  unbind            \* how far NPF_UnbindAdapter has got

irpVars == <<ClosePending, NumPendingIrps>>
requestVars == <<RequestList, request>>
eventVars == <<ReadEvent, references>>
vars == <<bindingVars, irpVars, requestVars, eventVars, life, irp, unbind>>

Calls == [op : {"read"}, timeOut : TimeOuts]
           \cup [op : {"oid", "event"}, timeOut : {"none"}]

\* req is the request block of the IRP, 0 if it has none
IdleIrp == [pc |-> "idle", op |-> "none", timeOut |-> "none", req |-> 0, calls |-> 0]

At(t, pc) == irp[t].pc = pc

Goto(t, pc) == irp' = [irp EXCEPT ![t].pc = pc]

\* IoCompleteRequest
CompleteIrp(t) == irp' = [irp EXCEPT ![t] = [IdleIrp EXCEPT !.calls = irp[t].calls]]

-------------------------------------------------------------------------------
(************************ NPF_Open, NPF_Cleanup, NPF_Close ****************)
(* The adapter is opened: from here on NDIS may call NPF_UnbindAdapter.    *)
OpenAdapter ==
  /\ life = "none"
  /\ life' = "adapter"
  /\ UNCHANGED <<bindingVars, irpVars, requestVars, eventVars, irp, unbind>>

\* NdisOpenAdapter fails: the instance is released and freed
OpenFails ==
  /\ life = "none"
  /\ life' = "closed"
  /\ UNCHANGED <<bindingVars, irpVars, requestVars, eventVars, irp, unbind>>

(* NPF_GetDeviceMTU asks for the frame size with a request block, but      *)
(* without the binding; it assumes Ethernet if that fails.                 *)
MtuQuery ==
  /\ life = "adapter"
  /\ \E r \in RequestList :
       /\ RequestList' = RequestList \ {r}
       /\ request' = [request EXCEPT ![r] = "ndis"]
  /\ life' = "mtu"
  /\ UNCHANGED <<bindingVars, irpVars, eventVars, irp, unbind>>

MtuDone ==
  /\ life = "mtu"
  /\ \E r \in Requests \ RequestList :
       /\ request[r] = "completed"
       /\ RequestList' = RequestList \cup {r}
       /\ request' = [request EXCEPT ![r] = "idle"]
  /\ life' = "open"
  /\ UNCHANGED <<bindingVars, irpVars, eventVars, irp, unbind>>

(* NPF_CloseOpenInstance: no IRP enters any more ...                       *)
Cleanup ==
  /\ life = "open"
  /\ ClosePending' = TRUE
  /\ life' = "cleanup"
  /\ UNCHANGED <<bindingVars, NumPendingIrps, requestVars, eventVars, irp, unbind>>

\* mutant: IRPs in progress are not waited for
CleanupAtOnce ==
  /\ life = "cleanup"
  /\ life' = "drained"
  /\ UNCHANGED <<bindingVars, irpVars, requestVars, eventVars, irp, unbind>>

(* ... and those inside leave; the wait polls every millisecond.           *)
CleanupDrained ==
  /\ life = "cleanup" /\ NumPendingIrps = 0
  /\ life' = "drained"
  /\ UNCHANGED <<bindingVars, irpVars, requestVars, eventVars, irp, unbind>>

\* KeSetEvent, if the application has given an event
Signalled == IF ReadEvent = "null" THEN "null" ELSE "signalled"

CleanupEvent ==
  /\ life = "drained"
  /\ ReadEvent' = Signalled
  /\ CloseBinding("cleanup")
  /\ life' = "closing"
  /\ UNCHANGED <<irpVars, requestVars, references, irp, unbind>>

(* NPF_ReleaseOpenInstanceResources: packet pool, filter, event, buffers.  *)
Release ==
  /\ life = "closing" /\ closer["cleanup"] = "done"
  /\ references' = references - (IF ReadEvent = "null" THEN 0 ELSE 1)
  /\ life' = "released"
  /\ UNCHANGED <<bindingVars, irpVars, requestVars, ReadEvent, irp, unbind>>

(* NPF_Close frees the instance.  The I/O manager calls it when no IRP     *)
(* refers to the file object; NDIS must have left NPF_UnbindAdapter.       *)
Close ==
  /\ life = "released"
  /\ \A t \in Irps : At(t, "idle")
  /\ unbind \in {"none", "returned"}
  /\ life' = "closed"
  /\ UNCHANGED <<bindingVars, irpVars, requestVars, eventVars, irp, unbind>>

-------------------------------------------------------------------------------
(****************************** NPF_UnbindAdapter **************************)
Unbind ==
  /\ unbind = "none" /\ life # "none" /\ life # "closed"
  /\ AdapterBindingStatus # "unbound"
  /\ unbind' = "called"
  /\ UNCHANGED <<bindingVars, irpVars, requestVars, eventVars, life, irp>>

(* A reader is woken first; it may not notice, and sleep again.            *)
UnbindEvent ==
  /\ unbind = "called"
  /\ ReadEvent' = Signalled
  /\ CloseBinding("unbind")
  /\ unbind' = "closing"
  /\ UNCHANGED <<irpVars, requestVars, references, life, irp>>

UnbindReturn ==
  /\ unbind = "closing" /\ closer["unbind"] = "done"
  /\ unbind' = "returned"
  /\ UNCHANGED <<bindingVars, irpVars, requestVars, eventVars, life, irp>>

CloseStep(t) ==
  /\ CloseBindingStep(t)
  /\ UNCHANGED <<irpVars, requestVars, eventVars, life, irp, unbind>>

-------------------------------------------------------------------------------
(********************************* the IRPs ********************************)
(* The I/O manager issues IRPs while a handle is open.                     *)
Issue(t, call) ==
  /\ At(t, "idle") /\ irp[t].calls < MaxCalls
  /\ life = "open"
  /\ irp' = [irp EXCEPT ![t] = [pc |-> "start", op |-> call.op,
               timeOut |-> call.timeOut, req |-> 0, calls |-> irp[t].calls + 1]]
  /\ UNCHANGED <<bindingVars, irpVars, requestVars, eventVars, life, unbind>>

(* NPF_StartUsingOpenInstance, TRUE and FALSE.                             *)
StartUsingOpenInstance(t) ==
  /\ At(t, "start") /\ ~ClosePending
  /\ NumPendingIrps' = NumPendingIrps + 1
  /\ Goto(t, irp[t].op)
  /\ UNCHANGED <<bindingVars, ClosePending, requestVars, eventVars, life, unbind>>

Cancelled(t) ==
  /\ At(t, "start") /\ ClosePending
  /\ CompleteIrp(t)
  /\ UNCHANGED <<bindingVars, irpVars, requestVars, eventVars, life, unbind>>

StopUsingOpenInstance(t) ==
  /\ At(t, "stop")
  /\ NumPendingIrps' = NumPendingIrps - 1
  /\ CompleteIrp(t)
  /\ UNCHANGED <<bindingVars, ClosePending, requestVars, eventVars, life, unbind>>

\* mutant: the failing IRP is not counted out
GoneKeepsInstance(t) ==
  /\ At(t, "read") \/ At(t, "oid")
  /\ CannotUseBinding
  /\ CompleteIrp(t)
  /\ UNCHANGED <<bindingVars, irpVars, requestVars, eventVars, life, unbind>>

(* NPF_Read and BIOC*OID fail if the adapter has been removed.             *)
AdapterGone(t) ==
  /\ At(t, "read") \/ At(t, "oid")
  /\ CannotUseBinding
  /\ Goto(t, "stop")
  /\ UNCHANGED <<bindingVars, irpVars, requestVars, eventVars, life, unbind>>

-------------------------------------------------------------------------------
(* NPF_Read only tests the binding ("a quick way to have the read fail").  *)
ReadBind(t) ==
  /\ At(t, "read")
  /\ StartUsingBinding
  /\ Goto(t, "tested")
  /\ UNCHANGED <<irpVars, requestVars, eventVars, life, unbind>>

ReadUnbind(t) ==
  /\ At(t, "tested")
  /\ StopUsingBinding
  /\ Goto(t, "buffer")
  /\ UNCHANGED <<irpVars, requestVars, eventVars, life, unbind>>

(* There is no buffer, packets enough in it, or no event to wait for.      *)
ReadNow(t) ==
  /\ At(t, "buffer")
  /\ Goto(t, "stop")
  /\ UNCHANGED <<bindingVars, irpVars, requestVars, eventVars, life, unbind>>

ReadWait(t) ==
  /\ At(t, "buffer") /\ ReadEvent # "null"
  /\ Goto(t, IF irp[t].timeOut = "immediate" THEN "clear" ELSE "wait")
  /\ UNCHANGED <<bindingVars, irpVars, requestVars, eventVars, life, unbind>>

ReadWake(t) ==
  /\ At(t, "wait")
  /\ ReadEvent = "signalled" \/ irp[t].timeOut = "finite"
  /\ Goto(t, "clear")
  /\ UNCHANGED <<bindingVars, irpVars, requestVars, eventVars, life, unbind>>

ReadClear(t) ==
  /\ At(t, "clear")
  /\ ReadEvent' = "clear"
  /\ Goto(t, "stop")
  /\ UNCHANGED <<bindingVars, irpVars, requestVars, references, life, unbind>>

(* NPF_tap signals packets as long as the adapter is open.                 *)
TapSignals ==
  /\ life \notin {"none", "closed"} /\ AdapterBindingStatus # "unbound"
  /\ ReadEvent' = Signalled
  /\ UNCHANGED <<bindingVars, irpVars, requestVars, references, life, irp, unbind>>

-------------------------------------------------------------------------------
(* BIOCSETEVENTHANDLE: the event is referenced, installed by a compare and *)
(* exchange with NULL, and reset; a second one is dereferenced again.      *)
EventBad(t) ==
  /\ At(t, "event")
  /\ Goto(t, "stop")
  /\ UNCHANGED <<bindingVars, irpVars, requestVars, eventVars, life, unbind>>

EventReference(t) ==
  /\ At(t, "event")
  /\ references' = references + 1
  /\ Goto(t, "install")
  /\ UNCHANGED <<bindingVars, irpVars, requestVars, ReadEvent, life, unbind>>

EventInstall(t) ==
  /\ At(t, "install") /\ ReadEvent = "null"
  /\ ReadEvent' = "clear"
  /\ Goto(t, "reset")
  /\ UNCHANGED <<bindingVars, irpVars, requestVars, references, life, unbind>>

EventRefused(t) ==
  /\ At(t, "install") /\ ReadEvent # "null"
  /\ references' = references - 1
  /\ Goto(t, "stop")
  /\ UNCHANGED <<bindingVars, irpVars, requestVars, ReadEvent, life, unbind>>

EventReset(t) ==
  /\ At(t, "reset")
  /\ ReadEvent' = "clear"
  /\ Goto(t, "stop")
  /\ UNCHANGED <<bindingVars, irpVars, requestVars, references, life, unbind>>

-------------------------------------------------------------------------------
(* BIOCSETOID and BIOCQUERYOID take the binding, then a request block.     *)
OidBind(t) ==
  /\ At(t, "oid")
  /\ StartUsingBinding
  /\ Goto(t, "take")
  /\ UNCHANGED <<irpVars, requestVars, eventVars, life, unbind>>

\* mutant: the block is found in the list, and left there
OidPeek(t) ==
  /\ At(t, "take")
  /\ \E r \in RequestList : irp' = [irp EXCEPT ![t].pc = "check", ![t].req = r]
  /\ UNCHANGED <<bindingVars, irpVars, requestVars, eventVars, life, unbind>>

OidTake(t) ==
  /\ At(t, "take")
  /\ \E r \in RequestList :
       /\ RequestList' = RequestList \ {r}
       /\ irp' = [irp EXCEPT ![t].pc = "check", ![t].req = r]
  /\ UNCHANGED <<bindingVars, irpVars, request, eventVars, life, unbind>>

\* all of them are in use: the IRP fails
OidNoMemory(t) ==
  /\ At(t, "take") /\ RequestList = {}
  /\ StopUsingBinding
  /\ Goto(t, "stop")
  /\ UNCHANGED <<irpVars, requestVars, eventVars, life, unbind>>

(* A buffer of a wrong length: the IRP fails, the block is not returned.   *)
OidMalformed(t) ==
  /\ At(t, "check")
  /\ StopUsingBinding
  /\ irp' = [irp EXCEPT ![t].pc = "stop", ![t].req = 0]
  /\ UNCHANGED <<irpVars, requestVars, eventVars, life, unbind>>

\* mutant: the binding is not held while NDIS has the request
OidSubmitUnbound(t) ==
  /\ At(t, "check")
  /\ \E s \in {"ndis", "completed"} : request' = [request EXCEPT ![irp[t].req] = s]
  /\ StopUsingBinding
  /\ Goto(t, "pending")
  /\ UNCHANGED <<irpVars, RequestList, eventVars, life, unbind>>

\* NdisRequest completes the request now or later
OidSubmit(t) ==
  /\ At(t, "check")
  /\ \E s \in {"ndis", "completed"} : request' = [request EXCEPT ![irp[t].req] = s]
  /\ Goto(t, "pending")
  /\ UNCHANGED <<bindingVars, irpVars, RequestList, eventVars, life, unbind>>

\* mutant: the binding is not released
OidDoneKeepsBinding(t) ==
  /\ At(t, "pending") /\ request[irp[t].req] = "completed"
  /\ Goto(t, "return")
  /\ UNCHANGED <<bindingVars, irpVars, requestVars, eventVars, life, unbind>>

OidDone(t) ==
  /\ At(t, "pending") /\ request[irp[t].req] = "completed"
  /\ StopUsingBinding
  /\ Goto(t, "return")
  /\ UNCHANGED <<irpVars, requestVars, eventVars, life, unbind>>

OidReturn(t) ==
  /\ At(t, "return")
  /\ RequestList' = RequestList \cup {irp[t].req}
  /\ request' = [request EXCEPT ![irp[t].req] = "idle"]
  /\ irp' = [irp EXCEPT ![t].pc = "stop", ![t].req = 0]
  /\ UNCHANGED <<bindingVars, irpVars, eventVars, life, unbind>>

(* NPF_RequestComplete, called by NDIS.                                    *)
RequestComplete(r) ==
  /\ request[r] = "ndis"
  /\ request' = [request EXCEPT ![r] = "completed"]
  /\ UNCHANGED <<bindingVars, irpVars, RequestList, eventVars, life, irp, unbind>>

-------------------------------------------------------------------------------
Init ==
  /\ BindingInit
  /\ life = "none"
  /\ ClosePending = FALSE /\ NumPendingIrps = 0
  /\ RequestList = Requests /\ request = [r \in Requests |-> "idle"]
  /\ ReadEvent = "null" /\ references = 0
  /\ irp = [t \in Irps |-> IdleIrp]
  /\ unbind = "none"

IrpStep(t) ==
  \/ StartUsingOpenInstance(t) \/ Cancelled(t) \/ StopUsingOpenInstance(t)
  \/ AdapterGone(t) \/ ReadBind(t) \/ ReadUnbind(t) \/ ReadNow(t)
  \/ ReadWait(t) \/ ReadWake(t) \/ ReadClear(t)
  \/ EventBad(t) \/ EventReference(t) \/ EventInstall(t) \/ EventRefused(t)
  \/ EventReset(t)
  \/ OidBind(t) \/ OidTake(t) \/ OidNoMemory(t) \/ OidMalformed(t)
  \/ OidSubmit(t) \/ OidDone(t) \/ OidReturn(t)

OpenStep == MtuQuery \/ MtuDone

CleanupStep == CleanupDrained \/ CleanupEvent \/ Release \/ Close

UnbindStep == UnbindEvent \/ UnbindReturn

Next ==
  \/ OpenAdapter \/ OpenFails \/ OpenStep
  \/ Cleanup \/ CleanupStep
  \/ Unbind \/ UnbindStep \/ TapSignals
  \/ \E t \in Closers : CloseStep(t)
  \/ \E t \in Irps, call \in Calls : Issue(t, call)
  \/ \E t \in Irps : IrpStep(t)
  \/ \E r \in Requests : RequestComplete(r)

Spec == Init /\ [][Next]_vars

\* Threads go on, and NDIS completes every request and every close.
Fairness ==
  /\ WF_vars(OpenStep) /\ WF_vars(CleanupStep) /\ WF_vars(UnbindStep)
  /\ \A t \in Closers : WF_vars(CloseStep(t))
  /\ \A t \in Irps : WF_vars(IrpStep(t))
  /\ \A r \in Requests : WF_vars(RequestComplete(r))

FairSpec == Spec /\ Fairness

-------------------------------------------------------------------------------
(****************************** properties *******************************)
IrpPcs == {"idle", "start", "read", "tested", "buffer", "wait", "clear",
           "event", "install", "reset",
           "oid", "take", "check", "pending", "return", "stop"}

TypeOK ==
  /\ BindingTypeOK
  /\ life \in {"none", "adapter", "mtu", "open", "cleanup", "drained",
               "closing", "released", "closed"}
  /\ ClosePending \in BOOLEAN /\ NumPendingIrps \in Nat
  /\ RequestList \subseteq Requests
  /\ request \in [Requests -> {"idle", "ndis", "completed"}]
  /\ ReadEvent \in {"null", "clear", "signalled"} /\ references \in Nat
  /\ irp \in [Irps -> [pc : IrpPcs, op : {"none", "read", "oid", "event"},
                       timeOut : TimeOuts \cup {"none"},
                       req : Requests \cup {0}, calls : Nat]]
  /\ unbind \in {"none", "called", "closing", "returned"}

\* IRPs that use the instance
Inside == {t \in Irps : irp[t].pc \notin {"idle", "start"}}

(* The adapter handle is closed by one of NPF_Cleanup and NPF_Unbind-      *)
(* Adapter, and once: while one closes it the other waits, and once it is  *)
(* closed nobody closes it again.                                          *)
AdapterClosedOnce ==
  \A t \in Closers :
    closer[t] \in {"close", "closed"} =>
      /\ AdapterBindingStatus = "unbinding"
      /\ \A u \in Closers \ {t} : closer[u] \notin {"close", "closed"}

(* "gain ownership of the Ndis Handle": while NDIS has the OID request of  *)
(* an IRP nobody closes the adapter.                                       *)
OidHoldsAdapter ==
  \A t \in Irps :
    irp[t].req # 0 /\ request[irp[t].req] = "ndis" => AdapterBindingStatus = "bound"

(* "when the IRP_MJ_CLEANUP dispatcher gets called, we can wait for those  *)
(* IRPs": once the resources are released no IRP is in the driver, the     *)
(* adapter is unbound, every request block is back and no event of the     *)
(* application is still referenced.                                        *)
ReleasedIsUnused ==
  life = "released" =>
    /\ Inside = {} /\ AdapterBindingStatus = "unbound"
    /\ AdapterHandleUsageCounter = 0
    /\ references = 0
    /\ \A r \in Requests : request[r] # "ndis"

(* "Maximum number of simultaneous IOCTL requests": a block that is not in *)
(* the list belongs to one IRP in progress, or to NPF_Open.                *)
NoRequestLost ==
  Cardinality(RequestList) + Cardinality({t \in Irps : irp[t].req # 0})
    + (IF life = "mtu" THEN 1 ELSE 0) = MAX_REQUESTS

(* A block serves one request at a time, or a completion would wake the    *)
(* wrong IRP and leave the other one waiting.                              *)
RequestHasOneUser ==
  \A t \in Irps : irp[t].req # 0 =>
    /\ irp[t].req \notin RequestList
    /\ \A u \in Irps \ {t} : irp[u].req # irp[t].req

(* Closing the file ends: no IRP keeps NPF_Cleanup for ever, and neither   *)
(* does the unbind it races with.                                          *)
CleanupReturns == life = "cleanup" ~> life = "closed"

(* NPF_UnbindAdapter ends: no IRP keeps the binding for ever.              *)
UnbindReturns == unbind = "called" ~> unbind = "returned"
===============================================================================
