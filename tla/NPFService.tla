----------------------------- MODULE NPFService -----------------------------
(***************************************************************************)
(* The driver as a service of the computer: the entry "NPF" of the service *)
(* control manager (SCM, external to this repository), DriverEntry and     *)
(* NPF_Unload with the device objects they make and delete, and the tool   *)
(* npf_mgm that installs, starts, stops and deletes the service while      *)
(* applications use packet.dll.                                            *)
(***************************************************************************)
EXTENDS Naturals, Sequences, FiniteSets

CONSTANT
  MaxFaults     \* calls of the system that may fail although they need not

ASSUME FaultsAssumption == MaxFaults \in Nat

VARIABLES
  machine,  \* what the registry and the system know of the adapters; constant
  svc,      \* the SCM's entry of the service
  drv,      \* device objects that can be opened by name, and open files
  mgm,      \* npf_mgm: the commands to come, the functions of this one, its place
  faults    \* calls that have failed so far

serviceVars == <<machine, svc, drv, mgm, faults>>

Fault == faults < MaxFaults /\ faults' = faults + 1
NoFault == UNCHANGED faults

NotThere == [there |-> FALSE, marked |-> FALSE, state |-> "stopped", handles |-> 0]
Installed == [NotThere EXCEPT !.there = TRUE]

-----------------------------------------------------------------------------
(* The SCM.  A service marked for deletion goes when it is stopped and     *)
(* nobody holds a handle of it; a driver that is stopping is unloaded when *)
(* its last file is closed.                                                *)

Stopped(s, files) ==
  IF s.state = "stopping" /\ files = 0 THEN [s EXCEPT !.state = "stopped"] ELSE s

Purged(s) ==
  IF s.marked /\ s.state = "stopped" /\ s.handles = 0 THEN NotThere ELSE s

(* NPF_Unload deletes every device object and symbolic link.               *)
NPF_Unload(d, s) == IF s.state = "stopped" THEN [d EXCEPT !.linked = {}] ELSE d

(* The entry becomes s and f files stay open.                              *)
Settle(s, f) ==
  LET now == Stopped(s, f)
  IN /\ svc' = Purged(now)
     /\ drv' = NPF_Unload([drv EXCEPT !.files = f], now)

OpenService == svc.there /\ svc' = [svc EXCEPT !.handles = @ + 1] /\ UNCHANGED drv

CloseServiceHandle == Settle([svc EXCEPT !.handles = @ - 1], drv.files)

CanCreate == ~svc.there

(* CreateService, and CloseServiceHandle of what it returns.               *)
CreateService ==
  IF CanCreate THEN svc' = Installed /\ UNCHANGED drv
               ELSE UNCHANGED <<svc, drv>>

CanStop == svc.state = "running"

ControlStop ==
  IF CanStop THEN Settle([svc EXCEPT !.state = "stopping"], drv.files)
             ELSE UNCHANGED <<svc, drv>>

DeleteService == Settle([svc EXCEPT !.marked = TRUE], drv.files)

(* The file of device n can be opened.                                     *)
CanOpen(n) == svc.state = "running" /\ n \in drv.linked

OpenFile == drv' = [drv EXCEPT !.files = @ + 1] /\ UNCHANGED svc

CloseFile == Settle(svc, drv.files - 1)

-----------------------------------------------------------------------------
(* The driver starts: it reads the adapters of the class key, or else the  *)
(* bindings of TCP/IP, and makes a device object and a link for each.      *)

getAdaptersList == {machine.class[i].name : i \in DOMAIN machine.class}

getTcpBindings == {machine.tcp[i] : i \in DOMAIN machine.tcp}

MacNames == IF getAdaptersList # {} THEN getAdaptersList ELSE getTcpBindings

(* NPF_CreateDevice for each of them; the link of one may fail, and        *)
(* DriverEntry goes on.                                                    *)
NPF_CreateDevice(linked) ==
  \/ linked = MacNames /\ NoFault
  \/ Fault /\ \E m \in MacNames : linked = MacNames \ {m}

DriverEntry(ok) ==
  \/ /\ ok /\ MacNames # {}
     /\ \E linked \in SUBSET MacNames :
          /\ NPF_CreateDevice(linked)
          /\ drv' = [drv EXCEPT !.linked = linked]
     /\ svc' = [svc EXCEPT !.state = "running"]
  \/ ~ok /\ MacNames = {} /\ NoFault /\ UNCHANGED <<svc, drv>>
  \/ ~ok /\ Fault /\ UNCHANGED <<svc, drv>>

(* StartService: "started", "failed", or "already" when it is running or   *)
(* still on its way down.                                                  *)
StartService(how) ==
  CASE svc.marked -> how = "failed" /\ NoFault /\ UNCHANGED <<svc, drv>>
    [] ~svc.marked /\ svc.state # "stopped" ->
         how = "already" /\ NoFault /\ UNCHANGED <<svc, drv>>
    [] OTHER -> \/ how = "started" /\ DriverEntry(TRUE)
                \/ how = "failed" /\ DriverEntry(FALSE)

-----------------------------------------------------------------------------
(* npf_mgm.  Each function opens the SCM and the service, does its one     *)
(* call, whose failure only changes what it returns, and closes both.      *)

Functions(command) ==
  IF command = "reinstall" THEN <<"delete", "create">> ELSE <<command>>

(* main takes the next command.                                            *)
MgmMain ==
  /\ mgm.todo = << >> /\ mgm.cmds # << >>
  /\ mgm' = [mgm EXCEPT !.todo = Functions(Head(mgm.cmds)), !.cmds = Tail(mgm.cmds)]
  /\ UNCHANGED <<machine, svc, drv, faults>>

MgmReturn == [mgm EXCEPT !.todo = Tail(@), !.at = "main"]

MgmAt(place) == mgm.at = place /\ mgm.todo # << >>

(* The service is there and opened, or the function returns -1.            *)
MgmOpen ==
  /\ MgmAt("main") /\ Head(mgm.todo) # "create"
  /\ \/ OpenService /\ mgm' = [mgm EXCEPT !.at = Head(mgm.todo)] /\ NoFault
     \/ ~svc.there /\ mgm' = MgmReturn /\ NoFault /\ UNCHANGED <<svc, drv>>
     \/ Fault /\ mgm' = MgmReturn /\ UNCHANGED <<svc, drv>>
  /\ UNCHANGED machine

create_driver_service ==
  /\ MgmAt("main") /\ Head(mgm.todo) = "create"
  /\ \/ CreateService /\ NoFault
     \/ Fault /\ UNCHANGED <<svc, drv>>
  /\ mgm' = MgmReturn
  /\ UNCHANGED machine

(* delete_service stops the driver first, and deletes whether or not that  *)
(* worked.                                                                 *)
delete_service ==
  /\ MgmAt("delete")
  /\ ControlStop
  /\ mgm' = [mgm EXCEPT !.at = "remove"]
  /\ UNCHANGED <<machine, faults>>

MgmRemove ==
  /\ MgmAt("remove")
  /\ \/ DeleteService /\ NoFault
     \/ Fault /\ UNCHANGED <<svc, drv>>
  /\ mgm' = [mgm EXCEPT !.at = "close"]
  /\ UNCHANGED machine

stop_service ==
  /\ MgmAt("stop")
  /\ ControlStop
  /\ mgm' = [mgm EXCEPT !.at = "close"]
  /\ UNCHANGED <<machine, faults>>

start_service ==
  /\ MgmAt("start")
  /\ \E how \in {"started", "already", "failed"} : StartService(how)
  /\ mgm' = [mgm EXCEPT !.at = "close"]
  /\ UNCHANGED machine

(* The start type matters at the next boot only.                           *)
change_start_type_service ==
  /\ MgmAt("auto")
  /\ mgm' = [mgm EXCEPT !.at = "close"]
  /\ UNCHANGED <<machine, svc, drv, faults>>

MgmClose ==
  /\ MgmAt("close")
  /\ CloseServiceHandle
  /\ mgm' = MgmReturn
  /\ UNCHANGED <<machine, faults>>

MgmHolds == mgm.todo # << >> /\ mgm.at # "main"

ServiceNext ==
  \/ MgmMain \/ MgmOpen \/ create_driver_service \/ delete_service \/ MgmRemove
  \/ stop_service \/ start_service \/ change_start_type_service \/ MgmClose
=============================================================================
