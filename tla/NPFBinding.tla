------------------------------ MODULE NPFBinding ------------------------------
(***************************************************************************)
(* The binding of an open instance to its adapter (packetNtx/driver/       *)
(* Openclos.c): IRPs use the handle of the adapter between                 *)
(* NPF_StartUsingBinding and NPF_StopUsingBinding; NPF_CloseBinding, which *)
(* both NPF_Cleanup and NPF_UnbindAdapter call, waits for them and closes  *)
(* the adapter once.  Each operator is a critical section of               *)
(* AdapterHandleLock; the waits poll every millisecond.                    *)
(***************************************************************************)
EXTENDS Integers

CONSTANT Closers       \* the threads that call NPF_CloseBinding

VARIABLES
  AdapterBindingStatus, AdapterHandleUsageCounter,
  closer               \* where each closer is in NPF_CloseBinding

bindingVars == <<AdapterBindingStatus, AdapterHandleUsageCounter, closer>>

BindingInit ==
  /\ AdapterBindingStatus = "bound" /\ AdapterHandleUsageCounter = 0
  /\ closer = [t \in Closers |-> "none"]

BindingTypeOK ==
  /\ AdapterBindingStatus \in {"bound", "unbinding", "unbound"}
  /\ AdapterHandleUsageCounter \in Nat
  /\ closer \in [Closers -> {"none", "unused", "settled", "close", "closed", "done"}]

(* TRUE iff the status is ADAPTER_BOUND; the caller holds the handle.      *)
StartUsingBinding ==
  /\ AdapterBindingStatus = "bound"
  /\ AdapterHandleUsageCounter' = AdapterHandleUsageCounter + 1
  /\ UNCHANGED <<AdapterBindingStatus, closer>>

CannotUseBinding == AdapterBindingStatus # "bound"

StopUsingBinding ==
  /\ AdapterHandleUsageCounter' = AdapterHandleUsageCounter - 1
  /\ UNCHANGED <<AdapterBindingStatus, closer>>

-------------------------------------------------------------------------------
CloseBinding(t) ==
  /\ closer[t] = "none"
  /\ closer' = [closer EXCEPT ![t] = "unused"]
  /\ UNCHANGED <<AdapterBindingStatus, AdapterHandleUsageCounter>>

\* mutant: the status stays ADAPTER_BOUND while the adapter is being closed
DecideLate(t) ==
  /\ closer' = [closer EXCEPT ![t] =
                  CASE AdapterBindingStatus = "unbinding" -> "settled"
                    [] AdapterBindingStatus = "unbound" -> "done"
                    [] OTHER -> "close"]
  /\ UNCHANGED <<AdapterBindingStatus, AdapterHandleUsageCounter>>

\* what the lock shows: somebody is closing, has closed, or we close
Decide(t) ==
  /\ closer' = [closer EXCEPT ![t] =
                  CASE AdapterBindingStatus = "unbinding" -> "settled"
                    [] AdapterBindingStatus = "unbound" -> "done"
                    [] OTHER -> "close"]
  /\ AdapterBindingStatus' =
       IF AdapterBindingStatus = "bound" THEN "unbinding" ELSE AdapterBindingStatus
  /\ UNCHANGED AdapterHandleUsageCounter

\* mutant: the users of the handle are not waited for
WaitForNobody(t) == closer[t] = "unused" /\ Decide(t)

(* while(AdapterHandleUsageCounter > 0); the lock is kept when it is 0.    *)
WaitUnused(t) ==
  /\ closer[t] = "unused" /\ AdapterHandleUsageCounter = 0
  /\ Decide(t)

(* while(AdapterBindingStatus == ADAPTER_UNBINDING).                       *)
WaitSettled(t) ==
  /\ closer[t] = "settled" /\ AdapterBindingStatus # "unbinding"
  /\ Decide(t)

(* NdisCloseAdapter, until it has completed.                               *)
CloseAdapter(t) ==
  /\ closer[t] = "close"
  /\ closer' = [closer EXCEPT ![t] = "closed"]
  /\ UNCHANGED <<AdapterBindingStatus, AdapterHandleUsageCounter>>

Unbound(t) ==
  /\ closer[t] = "closed"
  /\ AdapterBindingStatus' = "unbound"
  /\ closer' = [closer EXCEPT ![t] = "done"]
  /\ UNCHANGED AdapterHandleUsageCounter

CloseBindingStep(t) ==
  WaitUnused(t) \/ WaitSettled(t) \/ CloseAdapter(t) \/ Unbound(t)
===============================================================================
