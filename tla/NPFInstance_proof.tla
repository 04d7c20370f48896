--------------------------- MODULE NPFInstance_proof ---------------------------
(***************************************************************************)
(* For any number of IRPs, request blocks and calls: the adapter is closed *)
(* once, never under an OID request; the instance is released when nobody  *)
(* uses it; a request block has one user.  The argument is InstanceInv:    *)
(* the two counters of the driver are the numbers of IRPs that are inside  *)
(* and that hold the binding, and IRPs enter only before NPF_Cleanup.      *)
(***************************************************************************)
EXTENDS NPFInstance, FiniteSetTheorems, TLAPS

(* The states of the binding and of the threads in NPF_CloseBinding.       *)
CloserTypeOK ==
  /\ AdapterBindingStatus \in {"bound", "unbinding", "unbound"}
  /\ closer \in [Closers -> {"none", "unused", "settled", "close", "closed", "done"}]

(* What NPF_CloseBinding relies on: one thread closes, and the status says *)
(* so.                                                                     *)
ClosingInv == CloserTypeOK /\ AdapterClosedOnce

-------------------------------------------------------------------------------
(* A step of NPF_CloseBinding (Openclos.c:119-192) keeps the invariant: a  *)
(* thread starts to close only when it sees ADAPTER_BOUND under the lock,  *)
(* which says that no other thread is closing.                             *)
LEMMA CloseBindingKeeps ==
  ASSUME ClosingInv, NEW t \in Closers, CloseBinding(t) \/ CloseBindingStep(t)
  PROVE  ClosingInv'
<1> USE DEF ClosingInv, CloserTypeOK, AdapterClosedOnce
<1>1. CASE CloseBinding(t)
  BY <1>1 DEF CloseBinding
<1>2. ASSUME Decide(t), closer[t] \in {"unused", "settled"}
      PROVE  ClosingInv'
  <2>1. CASE AdapterBindingStatus = "unbinding"
    BY <1>2, <2>1 DEF Decide
  <2>2. CASE AdapterBindingStatus = "unbound"
    BY <1>2, <2>2 DEF Decide
  <2>3. CASE AdapterBindingStatus = "bound"
    <3>1. \A u \in Closers : closer[u] \notin {"close", "closed"}
      BY <2>3
    <3>2. closer' = [closer EXCEPT ![t] = "close"] /\ AdapterBindingStatus' = "unbinding"
      BY <1>2, <2>3 DEF Decide
    <3> QED
      BY <3>1, <3>2
  <2> QED
    BY <2>1, <2>2, <2>3 
<1>3. CASE WaitUnused(t) \/ WaitSettled(t)
  BY <1>2, <1>3 DEF WaitUnused, WaitSettled
<1>4. CASE CloseAdapter(t)
  BY <1>4 DEF CloseAdapter
<1>5. CASE Unbound(t)
  BY <1>5 DEF Unbound
<1> QED
  BY <1>1, <1>3, <1>4, <1>5 DEF CloseBindingStep

(* A step that leaves the status of the binding and the closers alone      *)
(* keeps the invariant.                                                    *)
LEMMA OthersKeep ==
  ASSUME ClosingInv, UNCHANGED <<AdapterBindingStatus, closer>>
  PROVE  ClosingInv'
BY DEF ClosingInv, CloserTypeOK, AdapterClosedOnce

(* An IRP uses the binding but never closes it.                            *)
LEMMA IrpsDoNotClose ==
  ASSUME NEW t \in Irps, IrpStep(t)
  PROVE  UNCHANGED <<AdapterBindingStatus, closer>>
<1>1. CASE StartUsingOpenInstance(t) \/ Cancelled(t) \/ StopUsingOpenInstance(t)
  BY <1>1 DEF StartUsingOpenInstance, Cancelled, StopUsingOpenInstance, bindingVars
<1>2. CASE AdapterGone(t) \/ ReadNow(t) \/ ReadWait(t) \/ ReadWake(t) \/ ReadClear(t)
  BY <1>2 DEF AdapterGone, ReadNow, ReadWait, ReadWake, ReadClear, bindingVars
<1>3. CASE ReadBind(t) \/ OidBind(t)
  BY <1>3 DEF ReadBind, OidBind, StartUsingBinding
<1>4. CASE ReadUnbind(t) \/ OidNoMemory(t) \/ OidMalformed(t) \/ OidDone(t)
  BY <1>4 DEF ReadUnbind, OidNoMemory, OidMalformed, OidDone, StopUsingBinding
<1>5. CASE EventBad(t) \/ EventReference(t) \/ EventInstall(t) \/ EventRefused(t)
             \/ EventReset(t)
  BY <1>5 DEF EventBad, EventReference, EventInstall, EventRefused, EventReset,
              bindingVars
<1>6. CASE OidTake(t) \/ OidSubmit(t) \/ OidReturn(t)
  BY <1>6 DEF OidTake, OidSubmit, OidReturn, bindingVars
<1> QED
  BY <1>1, <1>2, <1>3, <1>4, <1>5, <1>6 DEF IrpStep

-------------------------------------------------------------------------------
(* NPF_Cleanup and NPF_UnbindAdapter never both call NdisCloseAdapter      *)
(* (Openclos.c:156-192), in whatever order they and the IRPs run.          *)
THEOREM AdapterIsClosedOnce == Spec => []AdapterClosedOnce
<1>1. Init => ClosingInv
  BY DEF Init, BindingInit, ClosingInv, CloserTypeOK, AdapterClosedOnce
<1>2. ClosingInv /\ [Next]_vars => ClosingInv'
  <2> SUFFICES ASSUME ClosingInv, [Next]_vars
               PROVE  ClosingInv'
    OBVIOUS
  <2>1. CASE OpenAdapter \/ OpenFails \/ OpenStep \/ Cleanup \/ Unbind \/ TapSignals
    BY <2>1, OthersKeep
       DEF OpenAdapter, OpenFails, OpenStep, MtuQuery, MtuDone, Cleanup, Unbind,
           TapSignals, bindingVars
  <2>2. CASE CleanupEvent \/ UnbindEvent
    BY <2>2, CloseBindingKeeps, InstanceAssumption DEF CleanupEvent, UnbindEvent
  <2>3. CASE CleanupDrained \/ Release \/ Close \/ UnbindReturn
    BY <2>3, OthersKeep DEF CleanupDrained, Release, Close, UnbindReturn, bindingVars
  <2>4. ASSUME NEW t \in Closers, CloseStep(t)
        PROVE  ClosingInv'
    BY <2>4, CloseBindingKeeps DEF CloseStep
  <2>5. ASSUME NEW t \in Irps, IrpStep(t)
        PROVE  ClosingInv'
    BY <2>5, IrpsDoNotClose, OthersKeep
  <2>6. ASSUME NEW t \in Irps, NEW call \in Calls, Issue(t, call)
        PROVE  ClosingInv'
    BY <2>6, OthersKeep DEF Issue, bindingVars
  <2>7. ASSUME NEW r \in Requests, RequestComplete(r)
        PROVE  ClosingInv'
    BY <2>7, OthersKeep DEF RequestComplete, bindingVars
  <2>8. CASE UNCHANGED vars
    BY <2>8, OthersKeep DEF vars, bindingVars
  <2> QED
    BY <2>1, <2>2, <2>3, <2>4, <2>5, <2>6, <2>7, <2>8
       DEF Next, CleanupStep, UnbindStep
<1>3. ClosingInv => AdapterClosedOnce
  BY DEF ClosingInv
<1> QED
  BY <1>1, <1>2, <1>3, PTL DEF Spec
-------------------------------------------------------------------------------
(******************** the IRPs and the resources they hold *****************)
\* IRPs that hold the adapter, an event not yet installed, a request block
Users == {t \in Irps : irp[t].pc \in {"tested", "take", "check", "pending"}}

Installers == {t \in Irps : irp[t].pc = "install"}

HasRequest(t) == irp[t].pc \in {"check", "pending", "return"}

AllIdle == \A t \in Irps : irp[t].pc = "idle"

\* the part of TypeOK that does not follow from the counts below
StateTypeOK ==
  /\ CloserTypeOK
  /\ life \in {"none", "adapter", "mtu", "open", "cleanup", "drained",
               "closing", "released", "closed"}
  /\ ClosePending \in BOOLEAN
  /\ RequestList \subseteq Requests
  /\ request \in [Requests -> {"idle", "ndis", "completed"}]
  /\ ReadEvent \in {"null", "clear", "signalled"}
  /\ irp \in [Irps -> [pc : IrpPcs, op : {"none", "read", "oid", "event"},
                       timeOut : TimeOuts \cup {"none"},
                       req : Requests \cup {0}, calls : Nat]]
  /\ \A t \in Irps : irp[t].pc = "start" => irp[t].op # "none"
  /\ unbind \in {"none", "called", "closing", "returned"}

(* The counters of the instance and of the binding count the IRPs.         *)
CountInv ==
  /\ NumPendingIrps = Cardinality(Inside)
  /\ AdapterHandleUsageCounter = Cardinality(Users)

(* Nobody closes the adapter under an IRP, and no closer closes it again.  *)
HoldInv ==
  /\ Users # {} => AdapterBindingStatus = "bound"
  /\ \A c \in Closers :
       /\ closer[c] = "settled" => AdapterBindingStatus # "bound"
       /\ closer[c] = "done" => AdapterBindingStatus = "unbound"

(* IRPs enter between NPF_Open and NPF_Cleanup, and have left before the   *)
(* resources are released.                                                 *)
LifeInv ==
  /\ life \in {"none", "adapter", "mtu", "open"} => ~ClosePending
  /\ life \in {"cleanup", "drained", "closing", "released"} => ClosePending
  /\ life \in {"none", "adapter", "mtu", "closed"} => AllIdle
  /\ life \in {"drained", "closing", "released"} => Inside = {}
  /\ life = "released" => closer["cleanup"] = "done"

(* The driver holds one reference for the event it has installed and one   *)
(* for each it is about to install; a waiting IRP has an event.            *)
EventInv ==
  /\ life \notin {"released", "closed"} =>
       references = Cardinality(Installers) + (IF ReadEvent = "null" THEN 0 ELSE 1)
  /\ life \in {"released", "closed"} => references = 0
  /\ life = "none" => ReadEvent = "null"
  /\ \A t \in Irps : irp[t].pc \in {"wait", "clear", "reset"} => ReadEvent # "null"

(* A request block belongs to one IRP, and NDIS has it only for an IRP     *)
(* that waits or for NPF_GetDeviceMTU.                                     *)
RequestInv ==
  /\ RequestHasOneUser
  /\ \A t \in Irps : irp[t].req # 0 <=> HasRequest(t)
  /\ life \in {"none", "adapter"} =>
       RequestList = Requests /\ \A r \in Requests : request[r] = "idle"
  /\ life = "mtu" =>
       \E q \in Requests : /\ RequestList = Requests \ {q}
                           /\ \A r \in Requests \ {q} : request[r] = "idle"
  /\ life # "mtu" =>
       \A r \in Requests : request[r] = "ndis" =>
         \E t \in Irps : irp[t].pc = "pending" /\ irp[t].req = r

InstanceInv ==
  /\ StateTypeOK /\ AdapterClosedOnce
  /\ CountInv /\ HoldInv /\ LifeInv /\ EventInv /\ RequestInv

-------------------------------------------------------------------------------
(* What the ways of writing an IRP leave of it: only the IRP of t changes, *)
(* and it stays well formed.                                               *)
IrpOK(i) == i \in [Irps -> [pc : IrpPcs, op : {"none", "read", "oid", "event"},
                            timeOut : TimeOuts \cup {"none"},
                            req : Requests \cup {0}, calls : Nat]]

Becomes(t, pc, req) ==
  /\ IrpOK(irp')
  /\ irp'[t].pc = pc /\ irp'[t].req = req
  /\ irp'[t].pc = "start" => irp'[t].op # "none"
  /\ \A u \in Irps \ {t} : irp'[u] = irp[u]

LEMMA GotoBecomes ==
  ASSUME IrpOK(irp), NEW t \in Irps, NEW pc \in IrpPcs \ {"start"}, Goto(t, pc)
  PROVE  Becomes(t, pc, irp[t].req)
BY DEF IrpOK, Goto, Becomes

LEMMA CompleteBecomes ==
  ASSUME IrpOK(irp), NEW t \in Irps, CompleteIrp(t)
  PROVE  Becomes(t, "idle", 0)
<1> DEFINE e == [IdleIrp EXCEPT !.calls = irp[t].calls]
<1>1. /\ e = [pc |-> "idle", op |-> "none", timeOut |-> "none", req |-> 0,
              calls |-> irp[t].calls]
      /\ irp[t].calls \in Nat
  BY DEF IrpOK, IdleIrp
<1>2. irp' = [irp EXCEPT ![t] = e]
  BY DEF CompleteIrp
<1> QED
  BY <1>1, <1>2 DEF IrpOK, Becomes, IrpPcs

LEMMA RequestBecomes ==
  ASSUME IrpOK(irp), NEW t \in Irps, NEW pc \in IrpPcs \ {"start"},
         NEW r \in Requests \cup {0},
         irp' = [irp EXCEPT ![t].pc = pc, ![t].req = r]
  PROVE  Becomes(t, pc, r)
BY DEF IrpOK, Becomes

LEMMA IssueBecomes ==
  ASSUME IrpOK(irp), NEW t \in Irps, NEW call \in Calls, InstanceAssumption,
         Issue(t, call)
  PROVE  Becomes(t, "start", 0)
<1>1. irp[t].calls + 1 \in Nat
  BY DEF IrpOK
<1>2. irp' = [irp EXCEPT ![t] = [pc |-> "start", op |-> call.op,
                timeOut |-> call.timeOut, req |-> 0, calls |-> irp[t].calls + 1]]
  BY DEF Issue
<1>3. call.op \in {"read", "oid", "event"} /\ call.timeOut \in TimeOuts \cup {"none"}
  BY DEF Calls
<1> QED
  BY <1>1, <1>2, <1>3 DEF IrpOK, Becomes, IrpPcs

-------------------------------------------------------------------------------
(* The number of IRPs in a set of states counts every IRP that enters it   *)
(* or leaves it.                                                           *)
In(i, S) == {t \in Irps : i[t].pc \in S}

LEMMA InCounts ==
  ASSUME InstanceAssumption, NEW t \in Irps, NEW pc, NEW req, Becomes(t, pc, req),
         NEW S
  PROVE  /\ In(irp', S) = IF pc \in S THEN In(irp, S) \cup {t} ELSE In(irp, S) \ {t}
         /\ Cardinality(In(irp, S)) \in Nat
         /\ irp[t].pc \in S /\ pc \notin S =>
              /\ Cardinality(In(irp', S)) = Cardinality(In(irp, S)) - 1
              /\ Cardinality(In(irp, S)) > 0
         /\ irp[t].pc \notin S /\ pc \in S =>
              Cardinality(In(irp', S)) = Cardinality(In(irp, S)) + 1
         /\ (irp[t].pc \in S <=> pc \in S) => In(irp', S) = In(irp, S)
<1>1. In(irp', S) = IF pc \in S THEN In(irp, S) \cup {t} ELSE In(irp, S) \ {t}
  BY DEF In, Becomes
<1>2. irp[t].pc \in S <=> t \in In(irp, S)
  BY DEF In
<1>3. IsFiniteSet(In(irp, S))
  BY FS_Subset DEF In, InstanceAssumption
<1>4. Cardinality(In(irp, S)) \in Nat
  BY <1>3, FS_CardinalityType
<1>5. t \in In(irp, S) => Cardinality(In(irp, S)) # 0
  BY <1>3, FS_EmptySet
<1>6. Cardinality(In(irp, S) \cup {t})
        = IF t \in In(irp, S) THEN Cardinality(In(irp, S)) ELSE Cardinality(In(irp, S)) + 1
  BY <1>3, FS_AddElement
<1>7. Cardinality(In(irp, S) \ {t})
        = IF t \in In(irp, S) THEN Cardinality(In(irp, S)) - 1 ELSE Cardinality(In(irp, S))
  BY <1>3, FS_RemoveElement
<1> QED
  BY <1>1, <1>2, <1>4, <1>5, <1>6, <1>7

InsidePcs == IrpPcs \ {"idle", "start"}
UserPcs == {"tested", "take", "check", "pending"}

\* an IRP that enters a set of states, or leaves it
Enters(p, q, S) == (IF q \in S THEN 1 ELSE 0) - (IF p \in S THEN 1 ELSE 0)

LEMMA Counts ==
  ASSUME InstanceAssumption, IrpOK(irp), NEW t \in Irps, NEW pc, NEW req,
         Becomes(t, pc, req)
  PROVE  LET p == irp[t].pc IN
         /\ Inside' = IF pc \in InsidePcs THEN Inside \cup {t} ELSE Inside \ {t}
         /\ Users' = IF pc \in UserPcs THEN Users \cup {t} ELSE Users \ {t}
         /\ Cardinality(Inside)' = Cardinality(Inside) + Enters(p, pc, InsidePcs)
         /\ Cardinality(Users)' = Cardinality(Users) + Enters(p, pc, UserPcs)
         /\ Cardinality(Installers)' =
              Cardinality(Installers) + Enters(p, pc, {"install"})
         /\ Cardinality(Inside) \in Nat /\ Cardinality(Users) \in Nat
         /\ Cardinality(Installers) \in Nat
<1>1. /\ Inside = In(irp, InsidePcs) /\ Users = In(irp, UserPcs)
      /\ Installers = In(irp, {"install"})
  BY DEF IrpOK, Inside, Users, Installers, In, InsidePcs, UserPcs
<1>2. IrpOK(irp')
  BY DEF Becomes
<1>3. /\ Inside' = In(irp', InsidePcs) /\ Users' = In(irp', UserPcs)
      /\ Installers' = In(irp', {"install"})
  BY <1>2 DEF IrpOK, Inside, Users, Installers, In, InsidePcs, UserPcs
<1>4. ASSUME NEW S
      PROVE  /\ Cardinality(In(irp', S)) = Cardinality(In(irp, S)) + Enters(irp[t].pc, pc, S)
             /\ Cardinality(In(irp, S)) \in Nat
             /\ In(irp', S) = IF pc \in S THEN In(irp, S) \cup {t} ELSE In(irp, S) \ {t}
  BY InCounts DEF Enters
<1> QED
  BY <1>1, <1>3, <1>4

-------------------------------------------------------------------------------
(* What every step of an IRP has to respect: it counts itself in and out   *)
(* of the instance and of the binding, enters the first only before        *)
(* NPF_Cleanup and the second only while the adapter is bound, and counts  *)
(* its references to events.  RequestInv is left to the steps that handle  *)
(* request blocks.                                                         *)
LEMMA IrpKeeps ==
  ASSUME InstanceAssumption, InstanceInv,
         NEW t \in Irps, NEW pc, NEW req, Becomes(t, pc, req),
         irp[t].pc # "idle",
         UNCHANGED <<AdapterBindingStatus, closer, life, ClosePending, unbind>>,
         NumPendingIrps' = NumPendingIrps + Enters(irp[t].pc, pc, InsidePcs),
         AdapterHandleUsageCounter' =
           AdapterHandleUsageCounter + Enters(irp[t].pc, pc, UserPcs),
         irp[t].pc \in InsidePcs \/ ~ClosePending
           \/ (pc \notin InsidePcs /\ ReadEvent' = ReadEvent),
         irp[t].pc \in UserPcs \/ pc \notin UserPcs \/ AdapterBindingStatus = "bound",
         RequestList' \subseteq Requests,
         request' \in [Requests -> {"idle", "ndis", "completed"}],
         ReadEvent' \in {"null", "clear", "signalled"},
         ReadEvent' = "null" => ReadEvent = "null",
         references' = references + Enters(irp[t].pc, pc, {"install"})
                         + (IF ReadEvent' # ReadEvent /\ ReadEvent = "null" THEN 1 ELSE 0),
         pc \in {"wait", "clear", "reset"} => ReadEvent' # "null"
  PROVE  /\ StateTypeOK' /\ AdapterClosedOnce' /\ CountInv'
         /\ HoldInv' /\ LifeInv' /\ EventInv'
<1> DEFINE p == irp[t].pc
<1>0. /\ StateTypeOK /\ AdapterClosedOnce /\ CountInv /\ HoldInv /\ LifeInv /\ EventInv
      /\ IrpOK(irp)
  BY DEF InstanceInv, StateTypeOK, IrpOK
<1>1. /\ Inside' = IF pc \in InsidePcs THEN Inside \cup {t} ELSE Inside \ {t}
      /\ Users' = IF pc \in UserPcs THEN Users \cup {t} ELSE Users \ {t}
      /\ Cardinality(Inside)' = Cardinality(Inside) + Enters(p, pc, InsidePcs)
      /\ Cardinality(Users)' = Cardinality(Users) + Enters(p, pc, UserPcs)
      /\ Cardinality(Installers)' =
           Cardinality(Installers) + Enters(p, pc, {"install"})
      /\ Cardinality(Installers) \in Nat
  BY <1>0, Counts
<1>2. StateTypeOK'
  <2>1. CloserTypeOK'
    BY <1>0 DEF StateTypeOK, CloserTypeOK
  <2>2. \A u \in Irps : irp'[u].pc = "start" => irp'[u].op # "none"
    BY <1>0 DEF StateTypeOK, Becomes
  <2> QED
    BY <1>0, <2>1, <2>2 DEF StateTypeOK, Becomes, IrpOK
<1>3. AdapterClosedOnce'
  BY <1>0 DEF AdapterClosedOnce
<1>4. CountInv'
  BY <1>0, <1>1 DEF CountInv
<1>5. HoldInv'
  <2>0. t \in Users <=> p \in UserPcs
    BY DEF Users, UserPcs
  <2>1. Users' # {} => AdapterBindingStatus = "bound"
    BY <1>0, <1>1, <2>0 DEF HoldInv
  <2> QED
    BY <1>0, <2>1 DEF HoldInv
<1>6. life \notin {"none", "adapter", "mtu", "closed"}
  BY <1>0 DEF LifeInv, AllIdle
<1>7. t \in Inside <=> p \in InsidePcs
  BY <1>0 DEF Inside, InsidePcs, IrpOK
<1>8. LifeInv'
  BY <1>0, <1>1, <1>6, <1>7 DEF LifeInv
<1>9. EventInv'
  <2>1. CASE life = "released"
    <3>1. p \notin InsidePcs /\ pc \notin InsidePcs /\ ReadEvent' = ReadEvent
      BY <1>0, <1>7, <2>1 DEF LifeInv
    <3>2. p # "install" /\ pc # "install"
      BY <3>1 DEF InsidePcs, IrpPcs
    <3>3. references' = references
      BY <1>0, <2>1, <3>1, <3>2 DEF Enters, EventInv
    <3> QED
      BY <1>0, <2>1, <3>1, <3>3 DEF EventInv, Becomes
  <2>2. CASE life # "released"
    <3>1. references = Cardinality(Installers) + (IF ReadEvent = "null" THEN 0 ELSE 1)
      BY <1>0, <1>6, <2>2 DEF EventInv
    <3>2. Enters(p, pc, {"install"}) \in Int
      BY DEF Enters
    <3>3. references' = Cardinality(Installers)' + (IF ReadEvent' = "null" THEN 0 ELSE 1)
      BY <1>1, <3>1, <3>2
    <3>4. \A u \in Irps : irp'[u].pc \in {"wait", "clear", "reset"} => ReadEvent' # "null"
      BY <1>0 DEF EventInv, Becomes
    <3> QED
      BY <1>6, <2>2, <3>3, <3>4 DEF EventInv
  <2> QED
    BY <2>1, <2>2
<1> QED
  BY <1>2, <1>3, <1>4, <1>5, <1>8, <1>9

-------------------------------------------------------------------------------
RequestPcs == {"check", "pending", "return"}

LEMMA RequestFacts ==
  ASSUME InstanceInv
  PROVE  /\ IrpOK(irp) /\ RequestList \subseteq Requests
         /\ request \in [Requests -> {"idle", "ndis", "completed"}]
         /\ 0 \notin Requests
         /\ \A t \in Irps : irp[t].req # 0 <=> irp[t].pc \in RequestPcs
         /\ \A t \in Irps : irp[t].req # 0 =>
              /\ irp[t].req \in Requests /\ irp[t].req \notin RequestList
              /\ \A u \in Irps \ {t} : irp[u].req # irp[t].req
         /\ \A t \in Irps : irp[t].pc # "idle" =>
              /\ life \notin {"none", "adapter", "mtu", "closed"}
              /\ \A r \in Requests : request[r] = "ndis" =>
                   \E u \in Irps : irp[u].pc = "pending" /\ irp[u].req = r
<1>1. IrpOK(irp) /\ RequestList \subseteq Requests
      /\ request \in [Requests -> {"idle", "ndis", "completed"}]
  BY DEF InstanceInv, StateTypeOK, IrpOK
<1>2. 0 \notin Requests
  BY DEF Requests
<1>3. RequestInv /\ LifeInv
  BY DEF InstanceInv
<1>4. \A t \in Irps : irp[t].req # 0 <=> irp[t].pc \in RequestPcs
  BY <1>3 DEF RequestInv, HasRequest, RequestPcs
<1>5. \A t \in Irps : irp[t].req # 0 =>
        /\ irp[t].req \notin RequestList
        /\ \A u \in Irps \ {t} : irp[u].req # irp[t].req
  BY <1>3 DEF RequestInv, RequestHasOneUser
<1>6. \A t \in Irps : irp[t].pc # "idle" => life \notin {"none", "adapter", "mtu", "closed"}
  BY <1>3 DEF LifeInv, AllIdle
<1>7. \A t \in Irps : irp[t].pc # "idle" =>
        \A r \in Requests : request[r] = "ndis" =>
          \E u \in Irps : irp[u].pc = "pending" /\ irp[u].req = r
  BY <1>3, <1>6 DEF RequestInv
<1>8. \A t \in Irps : irp[t].req \in Requests \cup {0}
  BY <1>1 DEF IrpOK
<1> QED
  BY <1>1, <1>2, <1>4, <1>5, <1>6, <1>7, <1>8

(* What a step of t has to respect: the block it has afterwards is its     *)
(* own, the other blocks stay where they are, and NDIS is given no block   *)
(* but that of t, while t waits.                                           *)
LEMMA RequestKept ==
  ASSUME InstanceInv, NEW t \in Irps, NEW pc, NEW req, Becomes(t, pc, req),
         irp[t].pc # "idle", life' = life,
         req # 0 <=> pc \in RequestPcs,
         req # 0 => /\ req \notin RequestList'
                    /\ \A u \in Irps \ {t} : irp[u].req # req,
         RequestList' \subseteq RequestList \cup {irp[t].req},
         \A r \in Requests : request'[r] = "ndis" =>
           \/ pc = "pending" /\ req = r
           \/ request[r] = "ndis" /\ (irp[t].pc # "pending" \/ irp[t].req # r)
  PROVE  RequestInv'
<1>1. /\ \A u \in Irps : irp[u].req # 0 <=> irp[u].pc \in RequestPcs
      /\ \A u \in Irps : irp[u].req # 0 =>
           /\ irp[u].req \notin RequestList
           /\ \A v \in Irps \ {u} : irp[v].req # irp[u].req
      /\ life \notin {"none", "adapter", "mtu", "closed"}
      /\ \A r \in Requests : request[r] = "ndis" =>
           \E u \in Irps : irp[u].pc = "pending" /\ irp[u].req = r
  BY RequestFacts
<1>2. irp'[t].pc = pc /\ irp'[t].req = req /\ \A u \in Irps \ {t} : irp'[u] = irp[u]
  BY DEF Becomes
<1>3. ASSUME NEW u \in Irps, irp'[u].req # 0
      PROVE  /\ irp'[u].req \notin RequestList'
             /\ \A v \in Irps \ {u} : irp'[v].req # irp'[u].req
  <2>1. CASE u = t
    BY <1>2, <1>3, <2>1
  <2>2. CASE u # t
    BY <1>1, <1>2, <1>3, <2>2
  <2> QED
    BY <2>1, <2>2
<1>4. RequestHasOneUser'
  BY <1>3 DEF RequestHasOneUser
<1>5. \A u \in Irps : irp'[u].req # 0 <=> irp'[u].pc \in {"check", "pending", "return"}
  BY <1>1, <1>2 DEF RequestPcs
<1>6. ASSUME NEW r \in Requests, request'[r] = "ndis"
      PROVE  \E u \in Irps : irp'[u].pc = "pending" /\ irp'[u].req = r
  <2>1. CASE pc = "pending" /\ req = r
    BY <1>2, <2>1
  <2>2. CASE request[r] = "ndis" /\ (irp[t].pc # "pending" \/ irp[t].req # r)
    BY <1>1, <1>2, <2>2
  <2> QED
    BY <1>6, <2>1, <2>2
<1> QED
  BY <1>1, <1>4, <1>5, <1>6 DEF RequestInv, HasRequest

-------------------------------------------------------------------------------
(* Every step of an IRP keeps the invariant.                               *)
\* an IRP that keeps its request block, or has none before and after
LEMMA IrpStepKeepsBlock ==
  ASSUME InstanceAssumption, InstanceInv, NEW t \in Irps, NEW pc \in IrpPcs,
         Becomes(t, pc, irp[t].req), irp[t].pc # "idle",
         UNCHANGED <<AdapterBindingStatus, closer, life, ClosePending, unbind, requestVars>>,
         irp[t].pc \in RequestPcs <=> pc \in RequestPcs,
         irp[t].pc = "pending" => request[irp[t].req] # "ndis",
         NumPendingIrps' = NumPendingIrps + Enters(irp[t].pc, pc, InsidePcs),
         AdapterHandleUsageCounter' =
           AdapterHandleUsageCounter + Enters(irp[t].pc, pc, UserPcs),
         irp[t].pc \in InsidePcs \/ ~ClosePending
           \/ (pc \notin InsidePcs /\ ReadEvent' = ReadEvent),
         irp[t].pc \in UserPcs \/ pc \notin UserPcs \/ AdapterBindingStatus = "bound",
         ReadEvent' \in {"null", "clear", "signalled"},
         ReadEvent' = "null" => ReadEvent = "null",
         references' = references + Enters(irp[t].pc, pc, {"install"})
                         + (IF ReadEvent' # ReadEvent /\ ReadEvent = "null" THEN 1 ELSE 0),
         pc \in {"wait", "clear", "reset"} => ReadEvent' # "null"
  PROVE  InstanceInv'
<1>1. /\ RequestList' = RequestList /\ request' = request
      /\ RequestList \subseteq Requests
      /\ request \in [Requests -> {"idle", "ndis", "completed"}]
      /\ irp[t].req # 0 <=> irp[t].pc \in RequestPcs
      /\ irp[t].req # 0 => /\ irp[t].req \notin RequestList
                           /\ \A u \in Irps \ {t} : irp[u].req # irp[t].req
  BY RequestFacts DEF requestVars
<1>2. RequestInv'
  BY <1>1, RequestKept
<1>3. /\ StateTypeOK' /\ AdapterClosedOnce' /\ CountInv' /\ HoldInv' /\ LifeInv' /\ EventInv'
  BY <1>1, IrpKeeps
<1> QED
  BY <1>2, <1>3 DEF InstanceInv

\* which states are inside, use the binding, have a request block
LEMMA PcSets ==
  /\ InsidePcs = {"read", "tested", "buffer", "wait", "clear", "event", "install",
                  "reset", "oid", "take", "check", "pending", "return", "stop"}
  /\ UserPcs = {"tested", "take", "check", "pending"}
  /\ RequestPcs = {"check", "pending", "return"}
  /\ IrpPcs = InsidePcs \cup {"idle", "start"}
BY DEF InsidePcs, UserPcs, RequestPcs, IrpPcs

\* the counters are numbers
LEMMA Numbers ==
  ASSUME InstanceAssumption, InstanceInv
  PROVE  NumPendingIrps \in Nat /\ AdapterHandleUsageCounter \in Nat /\ references \in Nat
<1>1. /\ IsFiniteSet(Inside) /\ IsFiniteSet(Users) /\ IsFiniteSet(Installers)
  BY FS_Subset DEF Inside, Users, Installers, InstanceAssumption
<1>2. /\ Cardinality(Inside) \in Nat /\ Cardinality(Users) \in Nat
      /\ Cardinality(Installers) \in Nat
  BY <1>1, FS_CardinalityType
<1> QED
  BY <1>2 DEF InstanceInv, CountInv, EventInv

LEMMA EnterOrLeaveInstance ==
  ASSUME InstanceAssumption, InstanceInv, NEW t \in Irps,
         StartUsingOpenInstance(t) \/ Cancelled(t) \/ StopUsingOpenInstance(t)
  PROVE  InstanceInv'
<1>1. /\ IrpOK(irp) /\ irp[t].op \in {"none", "read", "oid", "event"}
      /\ irp[t].pc = "start" => irp[t].op # "none"
      /\ irp[t].req # 0 <=> irp[t].pc \in RequestPcs
      /\ ReadEvent \in {"null", "clear", "signalled"}
      /\ NumPendingIrps \in Nat /\ AdapterHandleUsageCounter \in Int /\ references \in Int
  BY Numbers, RequestFacts DEF InstanceInv, StateTypeOK, IrpOK
<1>2. CASE StartUsingOpenInstance(t)
  <2>1. irp[t].pc = "start" /\ irp[t].op \in {"read", "oid", "event"}
    BY <1>1, <1>2 DEF StartUsingOpenInstance, At
  <2>2. irp[t].op \in IrpPcs \ {"start"}
    BY <2>1 DEF IrpPcs
  <2>3. Becomes(t, irp[t].op, irp[t].req)
    BY <1>1, <1>2, <2>2, GotoBecomes DEF StartUsingOpenInstance
  <2>4. /\ Enters(irp[t].pc, irp[t].op, InsidePcs) = 1
        /\ Enters(irp[t].pc, irp[t].op, UserPcs) = 0
        /\ Enters(irp[t].pc, irp[t].op, {"install"}) = 0
        /\ irp[t].pc \notin RequestPcs /\ irp[t].op \notin RequestPcs
    BY <2>1, PcSets DEF Enters
  <2> QED
    BY <1>1, <1>2, <2>1, <2>2, <2>3, <2>4, PcSets, IrpStepKeepsBlock
       DEF StartUsingOpenInstance, bindingVars, requestVars, eventVars
<1>3. CASE Cancelled(t)
  <2>1. irp[t].pc = "start" /\ irp[t].req = 0
    BY <1>1, <1>3 DEF Cancelled, At, RequestPcs
  <2>3. Becomes(t, "idle", irp[t].req)
    BY <1>1, <1>3, <2>1, CompleteBecomes DEF Cancelled
  <2>4. /\ Enters("start", "idle", InsidePcs) = 0
        /\ Enters("start", "idle", UserPcs) = 0
        /\ Enters("start", "idle", {"install"}) = 0
        /\ "start" \notin RequestPcs /\ "idle" \notin RequestPcs
        /\ "idle" \in IrpPcs /\ "idle" \notin InsidePcs /\ "idle" \notin UserPcs
    BY PcSets DEF Enters
  <2> QED
    BY <1>1, <1>3, <2>1, <2>3, <2>4, IrpStepKeepsBlock
       DEF Cancelled, bindingVars, irpVars, requestVars, eventVars
<1>4. CASE StopUsingOpenInstance(t)
  <2>1. irp[t].pc = "stop" /\ irp[t].req = 0
    BY <1>1, <1>4 DEF StopUsingOpenInstance, At, RequestPcs
  <2>3. Becomes(t, "idle", irp[t].req)
    BY <1>1, <1>4, <2>1, CompleteBecomes DEF StopUsingOpenInstance
  <2>4. /\ Enters("stop", "idle", InsidePcs) = 0 - 1
        /\ Enters("stop", "idle", UserPcs) = 0
        /\ Enters("stop", "idle", {"install"}) = 0
        /\ "stop" \notin RequestPcs /\ "idle" \notin RequestPcs
        /\ "idle" \in IrpPcs /\ "stop" \in InsidePcs /\ "idle" \notin UserPcs
    BY PcSets DEF Enters
  <2> QED
    BY <1>1, <1>4, <2>1, <2>3, <2>4, IrpStepKeepsBlock
       DEF StopUsingOpenInstance, bindingVars, requestVars, eventVars
<1> QED
  BY <1>2, <1>3, <1>4

(* An IRP that is inside stays inside: the steps of a read and of setting  *)
(* the event.                                                              *)
LEMMA GotoKeeps ==
  ASSUME InstanceAssumption, InstanceInv, NEW t \in Irps,
         NEW q \in InsidePcs, Goto(t, q), irp[t].pc \in InsidePcs,
         UNCHANGED <<AdapterBindingStatus, closer, irpVars, requestVars, life, unbind>>,
         irp[t].pc \in RequestPcs <=> q \in RequestPcs,
         irp[t].pc = "pending" => request[irp[t].req] # "ndis",
         AdapterHandleUsageCounter' =
           AdapterHandleUsageCounter + Enters(irp[t].pc, q, UserPcs),
         irp[t].pc \in UserPcs \/ q \notin UserPcs \/ AdapterBindingStatus = "bound",
         ReadEvent' \in {"null", "clear", "signalled"},
         ReadEvent' = "null" => ReadEvent = "null",
         references' = references + Enters(irp[t].pc, q, {"install"})
                         + (IF ReadEvent' # ReadEvent /\ ReadEvent = "null" THEN 1 ELSE 0),
         q \in {"wait", "clear", "reset"} => ReadEvent' # "null"
  PROVE  InstanceInv'
<1>1. q \in IrpPcs /\ q # "start" /\ irp[t].pc # "idle"
  BY PcSets
<1>2. Becomes(t, q, irp[t].req)
  BY <1>1, GotoBecomes, RequestFacts
<1>3. NumPendingIrps' = NumPendingIrps + Enters(irp[t].pc, q, InsidePcs)
  BY Numbers DEF Enters, irpVars
<1> QED
  BY <1>1, <1>2, <1>3, IrpStepKeepsBlock DEF irpVars

LEMMA ReadKeeps ==
  ASSUME InstanceAssumption, InstanceInv, NEW t \in Irps,
         \/ AdapterGone(t) \/ ReadBind(t) \/ ReadUnbind(t) \/ ReadNow(t)
         \/ ReadWait(t) \/ ReadWake(t) \/ ReadClear(t)
  PROVE  InstanceInv'
<1>1. /\ ReadEvent \in {"null", "clear", "signalled"}
      /\ NumPendingIrps \in Nat /\ AdapterHandleUsageCounter \in Nat /\ references \in Nat
      /\ irp[t].pc \in {"wait", "clear", "reset"} => ReadEvent # "null"
  BY Numbers DEF InstanceInv, StateTypeOK, EventInv
<1>2. ASSUME NEW p, NEW q, p \in UserPcs <=> q \in UserPcs
      PROVE  Enters(p, q, UserPcs) = 0
  BY <1>2 DEF Enters
<1>3. ASSUME NEW p, NEW q, p # "install", q # "install"
      PROVE  Enters(p, q, {"install"}) = 0
  BY <1>3 DEF Enters
<1>4. CASE AdapterGone(t)
  BY <1>1, <1>2, <1>3, <1>4, PcSets, GotoKeeps
     DEF AdapterGone, At, bindingVars, eventVars
<1>5. CASE ReadBind(t)
  <2>1. Enters("read", "tested", UserPcs) = 1
    BY PcSets DEF Enters
  <2> QED
    BY <1>1, <1>3, <1>5, <2>1, PcSets, GotoKeeps
       DEF ReadBind, StartUsingBinding, At, eventVars
<1>6. CASE ReadUnbind(t)
  <2>1. Enters("tested", "buffer", UserPcs) = 0 - 1
    BY PcSets DEF Enters
  <2> QED
    BY <1>1, <1>3, <1>6, <2>1, PcSets, GotoKeeps
       DEF ReadUnbind, StopUsingBinding, At, eventVars
<1>7. CASE ReadNow(t)
  BY <1>1, <1>2, <1>3, <1>7, PcSets, GotoKeeps DEF ReadNow, At, bindingVars, eventVars
<1>8. CASE ReadWait(t)
  BY <1>1, <1>2, <1>3, <1>8, PcSets, GotoKeeps DEF ReadWait, At, bindingVars, eventVars
<1>9. CASE ReadWake(t)
  BY <1>1, <1>2, <1>3, <1>9, PcSets, GotoKeeps DEF ReadWake, At, bindingVars, eventVars
<1>10. CASE ReadClear(t)
  BY <1>1, <1>2, <1>3, <1>10, PcSets, GotoKeeps DEF ReadClear, At, bindingVars
<1> QED
  BY <1>4, <1>5, <1>6, <1>7, <1>8, <1>9, <1>10

LEMMA EventKeeps ==
  ASSUME InstanceAssumption, InstanceInv, NEW t \in Irps,
         \/ EventBad(t) \/ EventReference(t) \/ EventInstall(t) \/ EventRefused(t)
         \/ EventReset(t)
  PROVE  InstanceInv'
<1>1. /\ ReadEvent \in {"null", "clear", "signalled"}
      /\ AdapterHandleUsageCounter \in Nat /\ references \in Nat
      /\ irp[t].pc = "reset" => ReadEvent # "null"
  BY Numbers DEF InstanceInv, StateTypeOK, EventInv
<1>2. ASSUME NEW p \in {"event", "install", "reset"}, NEW q \in {"install", "reset", "stop"}
      PROVE  /\ Enters(p, q, UserPcs) = 0 /\ p \in InsidePcs /\ q \in InsidePcs
             /\ p \notin RequestPcs /\ q \notin RequestPcs /\ q \notin UserPcs
  BY <1>2, PcSets DEF Enters
<1>3. /\ Enters("event", "install", {"install"}) = 1
      /\ Enters("event", "stop", {"install"}) = 0
      /\ Enters("install", "reset", {"install"}) = 0 - 1
      /\ Enters("install", "stop", {"install"}) = 0 - 1
      /\ Enters("reset", "stop", {"install"}) = 0
  BY DEF Enters
<1>4. CASE EventBad(t)
  BY <1>1, <1>2, <1>3, <1>4, GotoKeeps DEF EventBad, At, bindingVars, eventVars
<1>5. CASE EventReference(t)
  BY <1>1, <1>2, <1>3, <1>5, GotoKeeps DEF EventReference, At, bindingVars
<1>6. CASE EventInstall(t)
  BY <1>1, <1>2, <1>3, <1>6, GotoKeeps DEF EventInstall, At, bindingVars
<1>7. CASE EventRefused(t)
  BY <1>1, <1>2, <1>3, <1>7, GotoKeeps DEF EventRefused, At, bindingVars
<1>8. CASE EventReset(t)
  BY <1>1, <1>2, <1>3, <1>8, GotoKeeps DEF EventReset, At, bindingVars
<1> QED
  BY <1>4, <1>5, <1>6, <1>7, <1>8

(* The steps of an OID request: the binding is taken, then a block; the    *)
(* block leaves the list while an IRP has it.                              *)
LEMMA OidKeeps ==
  ASSUME InstanceAssumption, InstanceInv, NEW t \in Irps,
         OidBind(t) \/ OidNoMemory(t) \/ OidDone(t)
  PROVE  InstanceInv'
<1>1. /\ ReadEvent \in {"null", "clear", "signalled"}
      /\ AdapterHandleUsageCounter \in Nat /\ references \in Nat
  BY Numbers DEF InstanceInv, StateTypeOK
<1>2. /\ Enters("oid", "take", UserPcs) = 1
      /\ Enters("take", "stop", UserPcs) = 0 - 1
      /\ Enters("pending", "return", UserPcs) = 0 - 1
      /\ Enters("oid", "take", {"install"}) = 0
      /\ Enters("take", "stop", {"install"}) = 0
      /\ Enters("pending", "return", {"install"}) = 0
  BY PcSets DEF Enters
<1>3. CASE OidBind(t)
  BY <1>1, <1>2, <1>3, PcSets, GotoKeeps DEF OidBind, StartUsingBinding, At, eventVars
<1>4. CASE OidNoMemory(t)
  BY <1>1, <1>2, <1>4, PcSets, GotoKeeps DEF OidNoMemory, StopUsingBinding, At, eventVars
<1>5. CASE OidDone(t)
  BY <1>1, <1>2, <1>5, PcSets, GotoKeeps DEF OidDone, StopUsingBinding, At, eventVars
<1> QED
  BY <1>3, <1>4, <1>5

LEMMA OidBlockKeeps ==
  ASSUME InstanceAssumption, InstanceInv, NEW t \in Irps,
         OidTake(t) \/ OidMalformed(t) \/ OidSubmit(t) \/ OidReturn(t)
  PROVE  InstanceInv'
<1>1. /\ ReadEvent \in {"null", "clear", "signalled"}
      /\ NumPendingIrps \in Nat /\ AdapterHandleUsageCounter \in Nat /\ references \in Nat
      /\ IrpOK(irp) /\ RequestList \subseteq Requests
      /\ request \in [Requests -> {"idle", "ndis", "completed"}]
      /\ 0 \notin Requests
      /\ \A u \in Irps : irp[u].req # 0 <=> irp[u].pc \in RequestPcs
      /\ \A u \in Irps : irp[u].req # 0 =>
           /\ irp[u].req \in Requests /\ irp[u].req \notin RequestList
           /\ \A v \in Irps \ {u} : irp[v].req # irp[u].req
  BY Numbers, RequestFacts DEF InstanceInv, StateTypeOK
<1>2. ASSUME NEW p \in {"take", "check", "pending", "return"},
             NEW q \in {"check", "pending", "return", "stop"}
      PROVE  /\ Enters(p, q, InsidePcs) = 0 /\ Enters(p, q, {"install"}) = 0
             /\ p \in InsidePcs /\ q \in IrpPcs \ {"start"}
             /\ p # "return" /\ q \in {"check", "pending"} =>
                  Enters(p, q, UserPcs) = 0 /\ p \in UserPcs
  BY <1>2, PcSets DEF Enters
<1>3. Enters("check", "stop", UserPcs) = 0 - 1 /\ Enters("return", "stop", UserPcs) = 0
  BY PcSets DEF Enters
<1>4. "stop" \notin RequestPcs /\ {"check", "pending"} \subseteq RequestPcs
      /\ "stop" \notin UserPcs /\ {"take", "return"} \cap {"idle", "check", "pending"} = {}
  BY PcSets
\* what the step leaves to be shown
<1>5. ASSUME NEW pc, NEW req, Becomes(t, pc, req),
             irp[t].pc \in {"take", "check", "pending", "return"},
             pc \in {"check", "pending", "return", "stop"},
             UNCHANGED <<AdapterBindingStatus, closer, irpVars, eventVars, life, unbind>>,
             AdapterHandleUsageCounter' =
               AdapterHandleUsageCounter + Enters(irp[t].pc, pc, UserPcs),
             irp[t].pc \in UserPcs \/ pc \notin UserPcs,
             RequestList' \subseteq Requests,
             request' \in [Requests -> {"idle", "ndis", "completed"}],
             RequestInv'
      PROVE  InstanceInv'
  <2>1. /\ irp[t].pc \in InsidePcs /\ irp[t].pc # "idle"
        /\ Enters(irp[t].pc, pc, InsidePcs) = 0 /\ Enters(irp[t].pc, pc, {"install"}) = 0
    BY <1>2, <1>5
  <2>2. pc \notin {"wait", "clear", "reset"}
    BY <1>5
  <2>3. /\ UNCHANGED <<AdapterBindingStatus, closer, life, ClosePending, unbind>>
        /\ ReadEvent' = ReadEvent
        /\ NumPendingIrps' = NumPendingIrps + Enters(irp[t].pc, pc, InsidePcs)
        /\ references' = references + Enters(irp[t].pc, pc, {"install"})
                         + (IF ReadEvent' # ReadEvent /\ ReadEvent = "null" THEN 1 ELSE 0)
    BY <1>1, <1>5, <2>1 DEF irpVars, eventVars
  <2>4. /\ StateTypeOK' /\ AdapterClosedOnce' /\ CountInv'
        /\ HoldInv' /\ LifeInv' /\ EventInv'
    BY <1>1, <1>5, <2>1, <2>2, <2>3, IrpKeeps
  <2> QED
    BY <1>5, <2>4 DEF InstanceInv
<1>6. CASE OidTake(t)
  <2>1. PICK r \in RequestList :
          /\ RequestList' = RequestList \ {r}
          /\ irp' = [irp EXCEPT ![t].pc = "check", ![t].req = r]
    BY <1>6 DEF OidTake
  <2>2. irp[t].pc = "take" /\ r \in Requests /\ r # 0
    BY <1>1, <1>6 DEF OidTake, At
  <2>3. Becomes(t, "check", r)
    BY <1>1, <1>2, <2>1, <2>2, RequestBecomes
  <2>4. UNCHANGED <<bindingVars, irpVars, request, eventVars, life, unbind>>
    BY <1>6 DEF OidTake
  <2>5. RequestInv'
    BY <1>1, <1>4, <2>1, <2>2, <2>3, <2>4, RequestKept
  <2> QED
    BY <1>1, <1>2, <1>4, <1>5, <2>1, <2>2, <2>3, <2>4, <2>5 DEF bindingVars
<1>7. CASE OidMalformed(t)
  <2>1. irp[t].pc = "check" /\ irp[t].req # 0 /\ irp[t].req \in Requests
    BY <1>1, <1>4, <1>7 DEF OidMalformed, At
  <2>2. Becomes(t, "stop", 0)
    BY <1>1, <1>2, <1>7, <2>1, RequestBecomes DEF OidMalformed
  <2>3. /\ UNCHANGED <<AdapterBindingStatus, closer, irpVars, eventVars, life, unbind>>
        /\ RequestList' = RequestList /\ request' = request
        /\ AdapterHandleUsageCounter' = AdapterHandleUsageCounter - 1
    BY <1>7 DEF OidMalformed, StopUsingBinding, requestVars
  <2>4. RequestInv'
    BY <1>4, <2>1, <2>2, <2>3, RequestKept
  <2> QED
    BY <1>1, <1>2, <1>3, <1>4, <1>5, <2>1, <2>2, <2>3, <2>4
<1>8. CASE OidSubmit(t)
  <2>1. irp[t].pc = "check" /\ irp[t].req # 0 /\ irp[t].req \in Requests
    BY <1>1, <1>4, <1>8 DEF OidSubmit, At
  <2>2. Becomes(t, "pending", irp[t].req)
    BY <1>1, <1>2, <1>8, <2>1, GotoBecomes DEF OidSubmit
  <2>3. /\ UNCHANGED <<bindingVars, irpVars, eventVars, life, unbind>>
        /\ RequestList' = RequestList
    BY <1>8 DEF OidSubmit
  <2>4. PICK s \in {"ndis", "completed"} : request' = [request EXCEPT ![irp[t].req] = s]
    BY <1>8 DEF OidSubmit
  <2>5. RequestInv'
    BY <1>1, <1>4, <2>1, <2>2, <2>3, <2>4, RequestKept
  <2> QED
    BY <1>1, <1>2, <1>4, <1>5, <2>1, <2>2, <2>3, <2>4, <2>5 DEF bindingVars
<1>9. CASE OidReturn(t)
  <2>1. irp[t].pc = "return" /\ irp[t].req # 0 /\ irp[t].req \in Requests
    BY <1>1, <1>9, PcSets DEF OidReturn, At
  <2>2. Becomes(t, "stop", 0)
    BY <1>1, <1>2, <1>9, <2>1, RequestBecomes DEF OidReturn
  <2>3. /\ UNCHANGED <<bindingVars, irpVars, eventVars, life, unbind>>
        /\ RequestList' = RequestList \cup {irp[t].req}
        /\ request' = [request EXCEPT ![irp[t].req] = "idle"]
    BY <1>9 DEF OidReturn
  <2>4. RequestInv'
    BY <1>1, <1>4, <2>1, <2>2, <2>3, RequestKept
  <2> QED
    BY <1>1, <1>2, <1>3, <1>4, <1>5, <2>1, <2>2, <2>3, <2>4 DEF bindingVars
<1> QED
  BY <1>6, <1>7, <1>8, <1>9

LEMMA IrpStepKeeps ==
  ASSUME InstanceAssumption, InstanceInv, NEW t \in Irps, IrpStep(t)
  PROVE  InstanceInv'
BY EnterOrLeaveInstance, ReadKeeps, EventKeeps, OidKeeps, OidBlockKeeps DEF IrpStep

-------------------------------------------------------------------------------
(************************** NPF_Open, NPF_Cleanup, NDIS ********************)
LEMMA OpenKeeps ==
  ASSUME InstanceAssumption, InstanceInv, OpenAdapter \/ OpenFails \/ Cleanup \/ Unbind
  PROVE  InstanceInv'
<1>1. /\ StateTypeOK /\ AdapterClosedOnce /\ CountInv /\ HoldInv /\ LifeInv /\ EventInv
      /\ RequestInv
  BY DEF InstanceInv
<1>2. UNCHANGED <<bindingVars, NumPendingIrps, requestVars, eventVars, irp>>
  BY DEF OpenAdapter, OpenFails, Cleanup, Unbind, irpVars
<1>3. /\ AdapterBindingStatus' = AdapterBindingStatus /\ closer' = closer
      /\ AdapterHandleUsageCounter' = AdapterHandleUsageCounter
      /\ NumPendingIrps' = NumPendingIrps /\ RequestList' = RequestList
      /\ request' = request /\ ReadEvent' = ReadEvent /\ references' = references
      /\ irp' = irp
  BY <1>2 DEF bindingVars, requestVars, eventVars
<1>4. /\ Inside' = Inside /\ Users' = Users /\ Installers' = Installers /\ AllIdle' = AllIdle
      /\ RequestHasOneUser' = RequestHasOneUser
  BY <1>3 DEF Inside, Users, Installers, AllIdle, RequestHasOneUser
<1>5. AdapterClosedOnce' /\ CountInv' /\ HoldInv'
  BY <1>1, <1>3, <1>4 DEF AdapterClosedOnce, CountInv, HoldInv
<1>6. /\ life' \in {"none", "adapter", "mtu", "open", "cleanup", "drained",
                    "closing", "released", "closed"}
      /\ ClosePending' \in BOOLEAN
      /\ unbind' \in {"none", "called", "closing", "returned"}
  BY <1>1 DEF OpenAdapter, OpenFails, Cleanup, Unbind, StateTypeOK, irpVars
<1>7. StateTypeOK'
  BY <1>1, <1>3, <1>6 DEF StateTypeOK, CloserTypeOK
<1>8. CASE OpenAdapter
  BY <1>1, <1>3, <1>4, <1>5, <1>7, <1>8
     DEF OpenAdapter, LifeInv, EventInv, RequestInv, HasRequest, InstanceInv, irpVars
<1>9. CASE OpenFails
  <2>1. LifeInv'
    BY <1>1, <1>3, <1>4, <1>9 DEF OpenFails, LifeInv, irpVars
  <2>2. references = 0
    <3>1. Installers = {} /\ ReadEvent = "null"
      BY <1>1, <1>9 DEF OpenFails, LifeInv, EventInv, AllIdle, Installers
    <3> QED
      BY <1>1, <1>9, <3>1, FS_EmptySet DEF OpenFails, EventInv
  <2>3. EventInv'
    BY <1>1, <1>3, <1>9, <2>2 DEF OpenFails, EventInv
  <2>4. RequestInv'
    BY <1>1, <1>3, <1>4, <1>9 DEF OpenFails, RequestInv, HasRequest
  <2> QED
    BY <1>5, <1>7, <2>1, <2>3, <2>4 DEF InstanceInv
<1>10. CASE Cleanup
  BY <1>1, <1>3, <1>4, <1>5, <1>7, <1>10
     DEF Cleanup, LifeInv, EventInv, RequestInv, HasRequest, InstanceInv
<1>11. CASE Unbind
  BY <1>1, <1>3, <1>4, <1>5, <1>7, <1>11
     DEF Unbind, LifeInv, EventInv, RequestInv, HasRequest, InstanceInv, irpVars
<1> QED
  BY <1>8, <1>9, <1>10, <1>11

LEMMA MtuKeeps ==
  ASSUME InstanceAssumption, InstanceInv, MtuQuery \/ MtuDone
  PROVE  InstanceInv'
<1>1. /\ StateTypeOK /\ AdapterClosedOnce /\ CountInv /\ HoldInv /\ LifeInv /\ EventInv
      /\ RequestInv
  BY DEF InstanceInv
<1>2. UNCHANGED <<bindingVars, irpVars, eventVars, irp, unbind>>
  BY DEF MtuQuery, MtuDone
<1>3. /\ AdapterBindingStatus' = AdapterBindingStatus /\ closer' = closer
      /\ AdapterHandleUsageCounter' = AdapterHandleUsageCounter
      /\ NumPendingIrps' = NumPendingIrps /\ ClosePending' = ClosePending
      /\ ReadEvent' = ReadEvent /\ references' = references
      /\ irp' = irp /\ unbind' = unbind
  BY <1>2 DEF bindingVars, irpVars, eventVars
<1>4. /\ Inside' = Inside /\ Users' = Users /\ Installers' = Installers /\ AllIdle' = AllIdle
  BY <1>3 DEF Inside, Users, Installers, AllIdle
<1>5. AdapterClosedOnce' /\ CountInv' /\ HoldInv'
  BY <1>1, <1>3, <1>4 DEF AdapterClosedOnce, CountInv, HoldInv
<1>6. AllIdle /\ \A t \in Irps : irp[t].req = 0
  <2>1. AllIdle
    BY <1>1 DEF MtuQuery, MtuDone, LifeInv
  <2> QED
    BY <1>1, <2>1 DEF RequestInv, HasRequest, AllIdle
<1>7. RequestHasOneUser'
  BY <1>3, <1>6 DEF RequestHasOneUser
<1>8. CASE MtuQuery
  <2>1. life = "adapter" /\ life' = "mtu"
    BY <1>8 DEF MtuQuery
  <2>2. PICK r \in RequestList : /\ RequestList' = RequestList \ {r}
                                /\ request' = [request EXCEPT ![r] = "ndis"]
    BY <1>8 DEF MtuQuery
  <2>3. /\ RequestList = Requests /\ \A q \in Requests : request[q] = "idle"
    BY <1>1, <2>1 DEF RequestInv
  <2>4. StateTypeOK'
    BY <1>1, <1>3, <2>1, <2>2 DEF StateTypeOK, CloserTypeOK
  <2>5. LifeInv' /\ EventInv'
    BY <1>1, <1>3, <1>4, <1>6, <2>1 DEF LifeInv, EventInv
  <2>6. \A q \in Requests \ {r} : request'[q] = "idle"
    BY <1>1, <2>2, <2>3 DEF StateTypeOK
  <2>7. RequestInv'
    BY <1>1, <1>3, <1>7, <2>1, <2>2, <2>3, <2>6 DEF RequestInv, HasRequest
  <2> QED
    BY <1>5, <2>4, <2>5, <2>7 DEF InstanceInv
<1>9. CASE MtuDone
  <2>1. life = "mtu" /\ life' = "open"
    BY <1>9 DEF MtuDone
  <2>2. PICK r \in Requests \ RequestList :
          /\ request[r] = "completed"
          /\ RequestList' = RequestList \cup {r}
          /\ request' = [request EXCEPT ![r] = "idle"]
    BY <1>9 DEF MtuDone
  <2>3. PICK q \in Requests : /\ RequestList = Requests \ {q}
                             /\ \A s \in Requests \ {q} : request[s] = "idle"
    BY <1>1, <2>1 DEF RequestInv
  <2>4. \A s \in Requests : request'[s] = "idle"
    BY <1>1, <2>2, <2>3 DEF StateTypeOK
  <2>5. StateTypeOK'
    BY <1>1, <1>3, <2>1, <2>2 DEF StateTypeOK, CloserTypeOK
  <2>6. LifeInv' /\ EventInv'
    BY <1>1, <1>3, <1>4, <1>6, <2>1 DEF LifeInv, EventInv
  <2>7. RequestInv'
    BY <1>1, <1>3, <1>7, <2>1, <2>4 DEF RequestInv, HasRequest
  <2> QED
    BY <1>5, <2>5, <2>6, <2>7 DEF InstanceInv
<1> QED
  BY <1>8, <1>9

LEMMA ReleaseKeeps ==
  ASSUME InstanceAssumption, InstanceInv, CleanupDrained \/ Release \/ Close
  PROVE  InstanceInv'
<1>1. /\ StateTypeOK /\ AdapterClosedOnce /\ CountInv /\ HoldInv /\ LifeInv /\ EventInv
      /\ RequestInv
  BY DEF InstanceInv
<1>2. UNCHANGED <<bindingVars, irpVars, requestVars, ReadEvent, irp, unbind>>
  BY DEF CleanupDrained, Release, Close, eventVars
<1>3. /\ AdapterBindingStatus' = AdapterBindingStatus /\ closer' = closer
      /\ AdapterHandleUsageCounter' = AdapterHandleUsageCounter
      /\ NumPendingIrps' = NumPendingIrps /\ ClosePending' = ClosePending
      /\ RequestList' = RequestList /\ request' = request
      /\ ReadEvent' = ReadEvent /\ irp' = irp /\ unbind' = unbind
  BY <1>2 DEF bindingVars, irpVars, requestVars
<1>4. /\ Inside' = Inside /\ Users' = Users /\ Installers' = Installers /\ AllIdle' = AllIdle
      /\ RequestHasOneUser' = RequestHasOneUser
  BY <1>3 DEF Inside, Users, Installers, AllIdle, RequestHasOneUser
<1>5. AdapterClosedOnce' /\ CountInv' /\ HoldInv'
  BY <1>1, <1>3, <1>4 DEF AdapterClosedOnce, CountInv, HoldInv
<1>6. life' \in {"drained", "released", "closed"}
      /\ life \in {"cleanup", "closing", "released"}
  BY DEF CleanupDrained, Release, Close
<1>7. StateTypeOK'
  BY <1>1, <1>3, <1>6 DEF StateTypeOK, CloserTypeOK
<1>8. RequestInv'
  BY <1>1, <1>3, <1>4, <1>6 DEF RequestInv, HasRequest
<1>9. /\ IsFiniteSet(Inside) /\ Cardinality(Inside) \in Nat
  BY FS_Subset, FS_CardinalityType DEF Inside, InstanceAssumption
<1>10. CASE CleanupDrained
  <2>1. Inside = {}
    BY <1>1, <1>9, <1>10, FS_EmptySet DEF CleanupDrained, CountInv
  <2>2. references' = references
    BY <1>10 DEF CleanupDrained, eventVars
  <2>3. LifeInv' /\ EventInv'
    BY <1>1, <1>3, <1>4, <1>10, <2>1, <2>2 DEF CleanupDrained, LifeInv, EventInv
  <2> QED
    BY <1>5, <1>7, <1>8, <2>3 DEF InstanceInv
<1>11. CASE Release
  <2>1. Inside = {}
    BY <1>1, <1>11 DEF Release, LifeInv
  <2>2. Installers = {}
    BY <2>1 DEF Installers, Inside
  <2>3. references' = 0
    BY <1>1, <1>11, <2>2, FS_EmptySet DEF Release, EventInv
  <2>4. LifeInv' /\ EventInv'
    BY <1>1, <1>3, <1>4, <1>11, <2>1, <2>3 DEF Release, LifeInv, EventInv
  <2> QED
    BY <1>5, <1>7, <1>8, <2>4 DEF InstanceInv
<1>12. CASE Close
  <2>1. AllIdle
    BY <1>12 DEF Close, AllIdle, At
  <2>2. references' = references
    BY <1>12 DEF Close, eventVars
  <2>3. LifeInv' /\ EventInv'
    BY <1>1, <1>3, <1>4, <1>12, <2>1, <2>2 DEF Close, LifeInv, EventInv
  <2> QED
    BY <1>5, <1>7, <1>8, <2>3 DEF InstanceInv
<1> QED
  BY <1>10, <1>11, <1>12

(* Waking the reader, and a completion of NDIS.                            *)
LEMMA SignalKeeps ==
  ASSUME InstanceAssumption, InstanceInv,
         TapSignals \/ UnbindReturn
           \/ \E r \in Requests : RequestComplete(r)
  PROVE  InstanceInv'
<1>1. /\ StateTypeOK /\ AdapterClosedOnce /\ CountInv /\ HoldInv /\ LifeInv /\ EventInv
      /\ RequestInv
  BY DEF InstanceInv
<1>2. CASE TapSignals \/ UnbindReturn
  <2>1. UNCHANGED <<bindingVars, irpVars, requestVars, references, life, irp>>
    BY <1>2 DEF TapSignals, UnbindReturn, eventVars
  <2>2. /\ AdapterBindingStatus' = AdapterBindingStatus /\ closer' = closer
        /\ AdapterHandleUsageCounter' = AdapterHandleUsageCounter
        /\ NumPendingIrps' = NumPendingIrps /\ ClosePending' = ClosePending
        /\ RequestList' = RequestList /\ request' = request
        /\ references' = references /\ irp' = irp /\ life' = life
    BY <2>1 DEF bindingVars, irpVars, requestVars
  <2>3. /\ Inside' = Inside /\ Users' = Users /\ Installers' = Installers /\ AllIdle' = AllIdle
        /\ RequestHasOneUser' = RequestHasOneUser
    BY <2>2 DEF Inside, Users, Installers, AllIdle, RequestHasOneUser
  <2>4. /\ ReadEvent' \in {"null", "clear", "signalled"}
        /\ ReadEvent' = "null" <=> ReadEvent = "null"
        /\ unbind' \in {"none", "called", "closing", "returned"}
    BY <1>1, <1>2 DEF TapSignals, UnbindReturn, Signalled, StateTypeOK, eventVars
  <2>5. StateTypeOK'
    BY <1>1, <2>2, <2>4 DEF StateTypeOK, CloserTypeOK
  <2>6. AdapterClosedOnce' /\ CountInv' /\ HoldInv' /\ LifeInv'
    BY <1>1, <2>2, <2>3 DEF AdapterClosedOnce, CountInv, HoldInv, LifeInv
  <2>7. EventInv'
    BY <1>1, <2>2, <2>3, <2>4 DEF EventInv
  <2>8. RequestInv'
    BY <1>1, <2>2, <2>3 DEF RequestInv, HasRequest
  <2> QED
    BY <2>5, <2>6, <2>7, <2>8 DEF InstanceInv
<1>3. ASSUME NEW r \in Requests, RequestComplete(r)
      PROVE  InstanceInv'
  <2>1. UNCHANGED <<bindingVars, irpVars, RequestList, eventVars, life, irp, unbind>>
        /\ request[r] = "ndis" /\ request' = [request EXCEPT ![r] = "completed"]
    BY <1>3 DEF RequestComplete
  <2>2. /\ AdapterBindingStatus' = AdapterBindingStatus /\ closer' = closer
        /\ AdapterHandleUsageCounter' = AdapterHandleUsageCounter
        /\ NumPendingIrps' = NumPendingIrps /\ ClosePending' = ClosePending
        /\ RequestList' = RequestList /\ ReadEvent' = ReadEvent
        /\ references' = references /\ irp' = irp /\ life' = life /\ unbind' = unbind
    BY <2>1 DEF bindingVars, irpVars, eventVars
  <2>3. /\ Inside' = Inside /\ Users' = Users /\ Installers' = Installers /\ AllIdle' = AllIdle
        /\ RequestHasOneUser' = RequestHasOneUser
    BY <2>2 DEF Inside, Users, Installers, AllIdle, RequestHasOneUser
  <2>4. /\ request' \in [Requests -> {"idle", "ndis", "completed"}]
        /\ \A q \in Requests \ {r} : request'[q] = request[q]
        /\ request'[r] = "completed"
    BY <1>1, <2>1 DEF StateTypeOK
  <2>5. StateTypeOK'
    BY <1>1, <2>2, <2>4 DEF StateTypeOK, CloserTypeOK
  <2>6. AdapterClosedOnce' /\ CountInv' /\ HoldInv' /\ LifeInv' /\ EventInv'
    BY <1>1, <2>2, <2>3 DEF AdapterClosedOnce, CountInv, HoldInv, LifeInv, EventInv
  <2>7. RequestInv'
    <3>1. life \notin {"none", "adapter"}
      BY <1>1, <2>1 DEF RequestInv
    <3>2. CASE life = "mtu"
      BY <1>1, <2>1, <2>2, <2>3, <2>4, <3>2 DEF RequestInv, HasRequest
    <3>3. CASE life # "mtu"
      BY <1>1, <2>1, <2>2, <2>3, <2>4, <3>1, <3>3 DEF RequestInv, HasRequest
    <3> QED
      BY <3>2, <3>3
  <2> QED
    BY <2>5, <2>6, <2>7 DEF InstanceInv
<1> QED
  BY <1>2, <1>3

LEMMA IssueKeeps ==
  ASSUME InstanceAssumption, InstanceInv, NEW t \in Irps, NEW call \in Calls,
         Issue(t, call)
  PROVE  InstanceInv'
<1>1. /\ StateTypeOK /\ AdapterClosedOnce /\ CountInv /\ HoldInv /\ LifeInv /\ EventInv
      /\ RequestInv
  BY DEF InstanceInv
<1>2. /\ irp[t].pc = "idle" /\ life = "open" /\ ~ClosePending /\ IrpOK(irp)
      /\ irp[t].req = 0
  BY <1>1, RequestFacts DEF Issue, At, LifeInv, RequestPcs
<1>3. Becomes(t, "start", 0)
  BY <1>2, IssueBecomes
<1>4. UNCHANGED <<bindingVars, irpVars, requestVars, eventVars, life, unbind>>
  BY DEF Issue
<1>5. /\ AdapterBindingStatus' = AdapterBindingStatus /\ closer' = closer
      /\ AdapterHandleUsageCounter' = AdapterHandleUsageCounter
      /\ NumPendingIrps' = NumPendingIrps /\ ClosePending' = ClosePending
      /\ RequestList' = RequestList /\ request' = request /\ ReadEvent' = ReadEvent
      /\ references' = references /\ life' = life /\ unbind' = unbind
  BY <1>4 DEF bindingVars, irpVars, requestVars, eventVars
<1>6. irp'[t].pc = "start" /\ irp'[t].req = 0 /\ \A u \in Irps \ {t} : irp'[u] = irp[u]
  BY <1>3 DEF Becomes
<1>7. /\ Inside' = Inside /\ Users' = Users /\ Installers' = Installers
  BY <1>2, <1>6 DEF Inside, Users, Installers
<1>8. StateTypeOK'
  <2>1. IrpOK(irp') /\ irp'[t].op # "none"
    BY <1>3, <1>6 DEF Becomes
  <2>2. \A u \in Irps : irp'[u].pc = "start" => irp'[u].op # "none"
    BY <1>1, <1>6, <2>1 DEF StateTypeOK
  <2> QED
    BY <1>1, <1>5, <2>1, <2>2 DEF StateTypeOK, CloserTypeOK, IrpOK
<1>9. AdapterClosedOnce' /\ CountInv' /\ HoldInv' /\ LifeInv'
  BY <1>1, <1>2, <1>5, <1>7 DEF AdapterClosedOnce, CountInv, HoldInv, LifeInv
<1>10. EventInv'
  BY <1>1, <1>2, <1>5, <1>6, <1>7 DEF EventInv
<1>11. RequestInv'
  <2>1. RequestHasOneUser'
    BY <1>1, <1>2, <1>5, <1>6 DEF RequestInv, RequestHasOneUser
  <2>2. \A u \in Irps : irp'[u].req # 0 <=> irp'[u].pc \in {"check", "pending", "return"}
    BY <1>1, <1>6 DEF RequestInv, HasRequest
  <2>3. \A r \in Requests : request'[r] = "ndis" =>
          \E u \in Irps : irp'[u].pc = "pending" /\ irp'[u].req = r
    BY <1>1, <1>2, <1>5, <1>6 DEF RequestInv
  <2> QED
    BY <1>2, <1>5, <2>1, <2>2, <2>3 DEF RequestInv, HasRequest
<1> QED
  BY <1>8, <1>9, <1>10, <1>11 DEF InstanceInv

(* A thread that closes the adapter has waited for the IRPs that use it,   *)
(* and a thread that has left NPF_CloseBinding leaves no adapter behind.   *)
LEMMA CloserHolds ==
  ASSUME InstanceAssumption, InstanceInv, NEW c \in Closers,
         CloseBinding(c) \/ CloseBindingStep(c), UNCHANGED irp
  PROVE  HoldInv' /\ (closer[c] = "done" => closer' = closer)
<1>1. HoldInv /\ CountInv /\ CloserTypeOK /\ AdapterClosedOnce
  BY DEF InstanceInv, StateTypeOK
<1>2. Users' = Users
  BY DEF Users
<1>3. AdapterHandleUsageCounter = 0 => Users = {}
  <2>1. IsFiniteSet(Users)
    BY FS_Subset DEF Users, InstanceAssumption
  <2> QED
    BY <1>1, <2>1, FS_EmptySet DEF CountInv
<1>4. CASE CloseBinding(c)
  BY <1>1, <1>2, <1>4 DEF CloseBinding, HoldInv, CloserTypeOK
<1>5. ASSUME Decide(c), Users = {} \/ AdapterBindingStatus # "bound",
             closer[c] = "unused" \/ AdapterBindingStatus # "unbinding"
      PROVE  HoldInv'
  <2>1. CASE AdapterBindingStatus = "unbinding"
    BY <1>1, <1>2, <1>5, <2>1 DEF Decide, HoldInv, CloserTypeOK
  <2>2. CASE AdapterBindingStatus = "unbound"
    BY <1>1, <1>2, <1>5, <2>2 DEF Decide, HoldInv, CloserTypeOK
  <2>3. CASE AdapterBindingStatus = "bound"
    <3>1. closer' = [closer EXCEPT ![c] = "close"] /\ AdapterBindingStatus' = "unbinding"
      BY <1>5, <2>3 DEF Decide
    <3> QED
      BY <1>1, <1>2, <1>5, <2>3, <3>1 DEF HoldInv, CloserTypeOK
  <2> QED
    BY <1>1, <2>1, <2>2, <2>3 DEF CloserTypeOK
<1>6. ASSUME WaitUnused(c) \/ WaitSettled(c)
      PROVE  HoldInv'
  BY <1>1, <1>3, <1>5, <1>6 DEF WaitUnused, WaitSettled, HoldInv
<1>7. CASE CloseAdapter(c)
  BY <1>1, <1>2, <1>7 DEF CloseAdapter, HoldInv, CloserTypeOK
<1>8. CASE Unbound(c)
  <2>1. Users = {}
    BY <1>1, <1>8 DEF Unbound, AdapterClosedOnce, HoldInv
  <2> QED
    BY <1>1, <1>2, <1>8, <2>1 DEF Unbound, HoldInv, CloserTypeOK
<1>9. closer[c] = "done" => closer' = closer
  BY DEF CloseBinding, CloseBindingStep, WaitUnused, WaitSettled, CloseAdapter, Unbound
<1> QED
  BY <1>4, <1>6, <1>7, <1>8, <1>9 DEF CloseBindingStep

LEMMA CloseKeeps ==
  ASSUME InstanceAssumption, InstanceInv,
         CleanupEvent \/ UnbindEvent \/ \E c \in Closers : CloseStep(c)
  PROVE  InstanceInv'
<1>1. /\ StateTypeOK /\ AdapterClosedOnce /\ CountInv /\ HoldInv /\ LifeInv /\ EventInv
      /\ RequestInv
  BY DEF InstanceInv
<1>2. PICK c \in Closers :
        /\ CloseBinding(c) \/ CloseBindingStep(c)
        /\ life' = life \/ (life = "drained" /\ life' = "closing")
  BY InstanceAssumption DEF CleanupEvent, UnbindEvent, CloseStep
<1>3. /\ UNCHANGED <<irpVars, requestVars, references, irp>>
      /\ ReadEvent' \in {"null", "clear", "signalled"}
      /\ ReadEvent' = "null" <=> ReadEvent = "null"
      /\ unbind' \in {"none", "called", "closing", "returned"}
  BY <1>1 DEF CleanupEvent, UnbindEvent, CloseStep, Signalled, StateTypeOK, eventVars
<1>4. /\ NumPendingIrps' = NumPendingIrps /\ ClosePending' = ClosePending
      /\ RequestList' = RequestList /\ request' = request
      /\ references' = references /\ irp' = irp
      /\ AdapterHandleUsageCounter' = AdapterHandleUsageCounter
  <2>1. AdapterHandleUsageCounter' = AdapterHandleUsageCounter
    BY <1>2 DEF CloseBinding, CloseBindingStep, WaitUnused, WaitSettled, CloseAdapter,
                Unbound, Decide
  <2> QED
    BY <1>3, <2>1 DEF irpVars, requestVars
<1>5. /\ Inside' = Inside /\ Users' = Users /\ Installers' = Installers /\ AllIdle' = AllIdle
      /\ RequestHasOneUser' = RequestHasOneUser
  BY <1>4 DEF Inside, Users, Installers, AllIdle, RequestHasOneUser
<1>6. HoldInv' /\ (closer[c] = "done" => closer' = closer)
  BY <1>2, <1>4, CloserHolds
<1>7. CloserTypeOK' /\ AdapterClosedOnce'
  BY <1>1, <1>2, CloseBindingKeeps DEF ClosingInv, StateTypeOK
<1>8. closer["cleanup"] = "done" => closer'["cleanup"] = "done"
  <2>1. \A d \in Closers \ {c} : closer'[d] = closer[d]
    BY <1>1, <1>2 DEF CloseBinding, CloseBindingStep, WaitUnused, WaitSettled, CloseAdapter,
                      Unbound, Decide, StateTypeOK, CloserTypeOK
  <2> QED
    BY <1>6, <2>1, InstanceAssumption
<1>9. StateTypeOK'
  BY <1>1, <1>2, <1>3, <1>4, <1>7 DEF StateTypeOK
<1>10. CountInv' /\ LifeInv'
  BY <1>1, <1>2, <1>4, <1>5, <1>8 DEF CountInv, LifeInv
<1>11. EventInv' /\ RequestInv'
  BY <1>1, <1>2, <1>3, <1>4, <1>5 DEF EventInv, RequestInv, HasRequest
<1> QED
  BY <1>6, <1>7, <1>9, <1>10, <1>11 DEF InstanceInv

-------------------------------------------------------------------------------
(*********************************** theorems ******************************)
LEMMA InstanceInvariance == Spec => []InstanceInv
<1>1. Init => InstanceInv
  <2> SUFFICES ASSUME Init PROVE InstanceInv
    OBVIOUS
  <2>1. \A t \in Irps : irp[t] = IdleIrp
    BY DEF Init
  <2>2. Inside = {} /\ Users = {} /\ Installers = {} /\ AllIdle
    BY <2>1 DEF Inside, Users, Installers, AllIdle, IdleIrp
  <2>3. StateTypeOK
    BY <2>1 DEF Init, BindingInit, StateTypeOK, CloserTypeOK, IdleIrp, IrpPcs, Requests
  <2>4. AdapterClosedOnce /\ CountInv /\ HoldInv
    BY <2>2, FS_EmptySet DEF Init, BindingInit, AdapterClosedOnce, CountInv, HoldInv
  <2>5. LifeInv /\ EventInv
    BY <2>1, <2>2, FS_EmptySet DEF Init, LifeInv, EventInv, IdleIrp
  <2>6. RequestInv
    BY <2>1 DEF Init, RequestInv, RequestHasOneUser, HasRequest, IdleIrp
  <2> QED
    BY <2>3, <2>4, <2>5, <2>6 DEF InstanceInv
<1>2. InstanceInv /\ [Next]_vars => InstanceInv'
  <2> SUFFICES ASSUME InstanceInv, [Next]_vars PROVE InstanceInv'
    OBVIOUS
  <2>1. CASE OpenAdapter \/ OpenFails \/ OpenStep \/ Cleanup \/ Unbind
    BY <2>1, InstanceAssumption, OpenKeeps, MtuKeeps DEF OpenStep
  <2>2. CASE CleanupStep \/ UnbindStep \/ TapSignals
    BY <2>2, InstanceAssumption, ReleaseKeeps, CloseKeeps, SignalKeeps
       DEF CleanupStep, UnbindStep
  <2>3. CASE \E t \in Closers : CloseStep(t)
    BY <2>3, InstanceAssumption, CloseKeeps
  <2>4. ASSUME NEW t \in Irps, NEW call \in Calls, Issue(t, call)
        PROVE  InstanceInv'
    BY <2>4, InstanceAssumption, IssueKeeps
  <2>7. CASE \E r \in Requests : RequestComplete(r)
    BY <2>7, InstanceAssumption, SignalKeeps
  <2>5. CASE \E t \in Irps : IrpStep(t)
    BY <2>5, InstanceAssumption, IrpStepKeeps
  <2>6. CASE UNCHANGED vars
    BY <2>6
       DEF vars, bindingVars, irpVars, requestVars, eventVars, InstanceInv, StateTypeOK,
           CloserTypeOK, AdapterClosedOnce, CountInv, HoldInv, LifeInv, EventInv, RequestInv,
           RequestHasOneUser, HasRequest, AllIdle, Inside, Users, Installers
  <2> QED
    BY <2>1, <2>2, <2>3, <2>4, <2>5, <2>6, <2>7 DEF Next
<1> QED
  BY <1>1, <1>2, PTL DEF Spec

(* The counters of the instance never drop below zero, and every variable  *)
(* has its type (Openclos.c:95-117, 494-504: the ASSERTs on the counters). *)
THEOREM InstanceTypeOK == Spec => []TypeOK
<1>1. InstanceInv => TypeOK
  BY InstanceAssumption, Numbers
     DEF InstanceInv, StateTypeOK, CloserTypeOK, TypeOK, BindingTypeOK
<1> QED
  BY <1>1, InstanceInvariance, PTL

(* The binding taken in NPF_IoControl (Packet.c:1493-1500, 1598-1605) is   *)
(* kept until NDIS has completed the request, so that NPF_CloseBinding     *)
(* waits for it whatever else runs.                                        *)
THEOREM OidHoldsTheAdapter == Spec => []OidHoldsAdapter
<1>1. InstanceInv => OidHoldsAdapter
  <2> SUFFICES ASSUME InstanceInv, NEW t \in Irps,
                      irp[t].req # 0, request[irp[t].req] = "ndis"
               PROVE  AdapterBindingStatus = "bound"
    BY DEF OidHoldsAdapter
  <2>1. irp[t].req \in Requests /\ irp[t].pc # "idle"
    BY RequestFacts DEF RequestPcs
  <2>2. PICK u \in Irps : irp[u].pc = "pending" /\ irp[u].req = irp[t].req
    BY <2>1, RequestFacts
  <2>3. u \in Users
    BY <2>2 DEF Users
  <2> QED
    BY <2>3 DEF InstanceInv, HoldInv
<1> QED
  BY <1>1, InstanceInvariance, PTL

(* NPF_ReleaseOpenInstanceResources (Openclos.c:533-603) runs when nobody  *)
(* uses what it releases.                                                  *)
THEOREM ReleasedInstanceIsUnused == Spec => []ReleasedIsUnused
<1>1. InstanceInv => ReleasedIsUnused
  <2> SUFFICES ASSUME InstanceInv, life = "released"
               PROVE  /\ Inside = {} /\ AdapterBindingStatus = "unbound"
                      /\ AdapterHandleUsageCounter = 0 /\ references = 0
                      /\ \A r \in Requests : request[r] # "ndis"
    BY DEF ReleasedIsUnused
  <2>1. Inside = {} /\ closer["cleanup"] = "done"
    BY DEF InstanceInv, LifeInv
  <2>2. Users = {}
    BY <2>1 DEF Users, Inside
  <2>3. AdapterHandleUsageCounter = 0
    BY <2>2, FS_EmptySet DEF InstanceInv, CountInv
  <2>4. AdapterBindingStatus = "unbound"
    BY <2>1, InstanceAssumption DEF InstanceInv, HoldInv
  <2>5. references = 0
    BY DEF InstanceInv, EventInv
  <2>6. \A r \in Requests : request[r] # "ndis"
    BY <2>2 DEF InstanceInv, RequestInv, Users
  <2> QED
    BY <2>1, <2>3, <2>4, <2>5, <2>6
<1> QED
  BY <1>1, InstanceInvariance, PTL

(* A request block taken from RequestList (Packet.c:1506-1516, 1607-1614)  *)
(* belongs to one IRP until it is put back.                                *)
THEOREM RequestsHaveOneUser == Spec => []RequestHasOneUser
<1>1. InstanceInv => RequestHasOneUser
  BY DEF InstanceInv, RequestInv
<1> QED
  BY <1>1, InstanceInvariance, PTL
===============================================================================
