------------------------------ MODULE SriovAgent ------------------------------
(***************************************************************************)
(* The SR-IOV NIC agent of a compute node (sriov_nic_agent.py): a loop     *)
(* that compares the assigned VFs with those it has seen before, asks the  *)
(* neutron plugin for their ports, sets each VF's link state and reports,  *)
(* while RPC notifications add to the set of updated devices.  A device is *)
(* a pair of MAC address and PCI slot.                                     *)
(*                                                                         *)
(* The loop and the notifications are green threads: they take turns at    *)
(* RPC calls and where commands are run, which is where an action ends.    *)
(***************************************************************************)
EXTENDS Naturals

CONSTANTS AgentDevices,
          Fixed,       \* VFs whose driver cannot change the link state
          MaxChanges,  \* bound on what happens outside the agent
          MaxFails,    \* bound on failing commands and RPC calls
          FailPoints   \* the points of the loop at which they fail

ASSUME SriovAgentAssumption ==
    /\ Fixed \subseteq AgentDevices
    /\ MaxChanges \in Nat /\ MaxFails \in Nat

VARIABLES present,  \* devices assigned to a server (get_assigned_devices_info)
          knownPorts, \* devices that are a port of the plugin
          admin,    \* plugin: admin_state_up
          active,   \* plugin: port status ACTIVE
          vf,       \* VFs whose link state is enabled
          notif,    \* port_update notifications on their way
          changes, fails,
          updates,  \* self.updated_devices
          ports,    \* devices in self.network_ports
          devices,  \* devices of the last complete iteration
          sync,     \* everything is to be looked at anew
          pc,
          cur, copy,      \* this iteration: devices found, updates taken
          treat, remove,  \* devices left to treat, to remove
          details,        \* what get_devices_details_list answered
          treated,        \* devices treated without failure
          resync

environment == <<present, knownPorts, admin, notif, changes>>
memory == <<updates, ports, devices, sync>>
iteration == <<cur, copy, treat, remove, details, treated, resync>>
agentVars == <<environment, active, vf, fails, memory, pc, iteration>>

NoDetails == [known |-> {}, up |-> {}]

AgentTypeOK ==
    /\ {present, knownPorts, admin, active, vf, notif, updates, ports, devices,
        cur, copy, treat, remove, treated} \subseteq SUBSET AgentDevices
    /\ details \in [known: SUBSET AgentDevices, up: SUBSET AgentDevices]
    /\ changes \in 0 .. MaxChanges /\ fails \in 0 .. MaxFails
    /\ sync \in BOOLEAN /\ resync \in BOOLEAN
    /\ pc \in {"idle", "scan", "filter", "details", "treat", "report", "remove"}
    /\ pc = "idle" => treat = {} /\ remove = {} /\ treated = {} /\ ~resync

AgentInit ==
    /\ present \in SUBSET AgentDevices
    /\ knownPorts = AgentDevices /\ admin = AgentDevices
    /\ active = {} /\ vf = {} /\ notif = {}
    /\ changes = 0 /\ fails = 0
    /\ updates = {} /\ ports = {} /\ devices = {} /\ sync = TRUE
    /\ pc = "idle"
    /\ cur = {} /\ copy = {} /\ treat = {} /\ remove = {}
    /\ details = NoDetails /\ treated = {} /\ resync = FALSE

-------------------------------------------------------------------------------
(* Outside the agent *)

Toggle(S, d) == IF d \in S THEN S \ {d} ELSE S \cup {d}

Changing ==
    /\ changes < MaxChanges
    /\ changes' = changes + 1
    /\ UNCHANGED <<active, vf, fails, memory, pc, iteration>>

(* A server gets or loses a VF.  The VF keeps its link state. *)
PlugOrUnplug(d) ==
    /\ Changing
    /\ present' = Toggle(present, d)
    /\ UNCHANGED <<knownPorts, admin, notif>>

(* The port's admin_state_up changes; the plugin casts port_update. *)
SetAdminState(d) ==
    /\ Changing
    /\ d \in knownPorts
    /\ admin' = Toggle(admin, d)
    /\ notif' = notif \cup {d}
    /\ UNCHANGED <<present, knownPorts>>

DeletePort(d) ==
    /\ Changing
    /\ d \in knownPorts
    /\ knownPorts' = knownPorts \ {d}
    /\ UNCHANGED <<present, admin, notif>>

(* Notifications reach the agent. *)

PortUpdate(d) ==
    /\ d \in notif
    /\ notif' = notif \ {d}
    /\ updates' = updates \cup {d}
    /\ UNCHANGED <<present, knownPorts, admin, changes, active, vf, fails, ports,
                   devices, sync, pc, iteration>>

NetworkUpdate ==
    /\ changes < MaxChanges
    /\ changes' = changes + 1
    /\ updates' = updates \cup ports
    /\ UNCHANGED <<present, knownPorts, admin, notif, active, vf, fails, ports,
                   devices, sync, pc, iteration>>

-------------------------------------------------------------------------------
(* daemon_loop *)

Goto(from, to) == pc = from /\ pc' = to

(* Mutant of StartIteration: the updates are cleared, not taken. *)
StartIterationForgets ==
    /\ Goto("idle", "scan")
    /\ devices' = IF sync THEN {} ELSE devices
    /\ sync' = FALSE
    /\ copy' = {} /\ updates' = {}
    /\ UNCHANGED <<environment, active, vf, fails, ports, cur, treat, remove,
                   details, treated, resync>>

(* The updates are taken out of the set the notifications add to. *)
StartIteration ==
    /\ Goto("idle", "scan")
    /\ devices' = IF sync THEN {} ELSE devices
    /\ sync' = FALSE
    /\ copy' = updates /\ updates' = {}
    /\ UNCHANGED <<environment, active, vf, fails, ports, cur, treat, remove,
                   details, treated, resync>>

(* scan_devices *)
ScanDevices ==
    LET added == present \ devices
        removed == devices \ present
        again == copy \cap present
    IN  /\ pc = "scan"
        /\ cur' = present
        /\ treat' = added \cup again
        /\ remove' = removed
        /\ pc' = IF treat' \cup remove' = {} THEN "idle" ELSE "filter"
        /\ UNCHANGED <<environment, active, vf, fails, memory, copy, details,
                       treated, resync>>

(* process_network_devices: prepare_devices_filter, refresh_firewall *)
Filter ==
    /\ pc = "filter"
    /\ pc' = IF treat # {} THEN "details" ELSE "remove"
    /\ UNCHANGED <<environment, active, vf, fails, memory, iteration>>

(* The answer is a snapshot of the ports of these devices. *)
GetDetails ==
    /\ Goto("details", "treat")
    /\ details' = [known |-> knownPorts \cap treat, up |-> admin \cap treat]
    /\ treat' = knownPorts \cap treat
    /\ UNCHANGED <<environment, active, vf, fails, memory, cur, copy, remove,
                   treated, resync>>

Failing(point) ==
    /\ pc = point /\ point \in FailPoints
    /\ fails < MaxFails /\ fails' = fails + 1

(* Mutant of DetailsFail: the iteration ends here. *)
DetailsFailAbandons ==
    /\ Failing("details")
    /\ pc' = "idle" /\ resync' = TRUE /\ treat' = {}
    /\ UNCHANGED <<environment, active, vf, memory, cur, copy, remove,
                   details, treated>>

(* No answer: resync, and on to the devices to remove. *)
DetailsFail ==
    /\ Failing("details")
    /\ pc' = "remove" /\ resync' = TRUE /\ treat' = {}
    /\ UNCHANGED <<environment, active, vf, memory, cur, copy, remove,
                   details, treated>>

(* Mutant of TreatVf: a device that is gone is not looked at again. *)
TreatVfNoResync(d) ==
    LET done == d \in present
    IN  /\ pc = "treat" /\ d \in treat
        /\ treat' = treat \ {d}
        /\ vf' = IF ~done \/ d \in Fixed THEN vf
                 ELSE IF d \in details.up THEN vf \cup {d} ELSE vf \ {d}
        /\ treated' = IF done THEN treated \cup {d} ELSE treated
        /\ ports' = ports \cup {d}
        /\ UNCHANGED <<environment, active, fails, updates, devices, sync, pc,
                       cur, copy, remove, details, resync>>

(* treat_device, if the VF is still there: spoofcheck, whose failure is    *)
(* ignored, and the link state; network_ports; the extensions.             *)
TreatVf(d) ==
    LET done == d \in present
    IN  /\ pc = "treat" /\ d \in treat
        /\ treat' = treat \ {d}
        /\ vf' = IF ~done \/ d \in Fixed THEN vf
                 ELSE IF d \in details.up THEN vf \cup {d} ELSE vf \ {d}
        /\ treated' = IF done THEN treated \cup {d} ELSE treated
        /\ resync' = (resync \/ ~done)
        /\ ports' = ports \cup {d}
        /\ UNCHANGED <<environment, active, fails, updates, devices, sync, pc,
                       cur, copy, remove, details>>

(* set_device_state fails. *)
TreatFails(d) ==
    /\ Failing("treat")
    /\ d \in treat
    /\ treat' = treat \ {d}
    /\ resync' = TRUE
    /\ ports' = ports \cup {d}
    /\ UNCHANGED <<environment, active, vf, updates, devices, sync, pc, cur, copy,
                   remove, details, treated>>

TreatDone ==
    /\ treat = {}
    /\ Goto("treat", "report")
    /\ UNCHANGED <<environment, active, vf, fails, memory, iteration>>

(* update_device_list *)
Reported == (active \cup (treated \cap details.up)) \ (treated \ details.up)

Report ==
    /\ Goto("report", "remove")
    /\ active' = Reported
    /\ UNCHANGED <<environment, vf, fails, memory, iteration>>

(* treat_devices_removed: network_ports, the extensions, update_device_down *)
RemoveDevice(d) ==
    /\ pc = "remove" /\ d \in remove
    /\ remove' = remove \ {d}
    /\ ports' = ports \ {d}
    /\ active' = active \ {d}
    /\ UNCHANGED <<environment, vf, fails, updates, devices, sync, pc, cur, copy,
                   treat, details, treated, resync>>

(* An extension fails, or the answer of the plugin is lost. *)
RemoveFails(d) ==
    /\ Failing("remove")
    /\ d \in remove
    /\ remove' = remove \ {d}
    /\ ports' = ports \ {d}
    /\ active' \in {active, active \ {d}}
    /\ resync' = TRUE
    /\ UNCHANGED <<environment, vf, updates, devices, sync, pc, cur, copy,
                   treat, details, treated>>

(* The iteration is over; what it kept for itself is forgotten. *)
Forget ==
    /\ pc' = "idle"
    /\ cur' = {} /\ copy' = {} /\ treat' = {} /\ remove' = {}
    /\ details' = NoDetails /\ treated' = {} /\ resync' = FALSE

LoopEnd ==
    /\ pc = "remove" /\ remove = {}
    /\ sync' = resync
    /\ devices' = cur
    /\ Forget
    /\ UNCHANGED <<environment, active, vf, fails, updates, ports>>

(* An exception in the iteration: a resync, with the updates put back. *)
LoopError ==
    /\ \E point \in {"scan", "filter", "treat", "report"} : Failing(point)
    /\ sync' = TRUE
    /\ updates' = updates \cup copy
    /\ active' \in IF pc = "report" THEN {active, Reported} ELSE {active}
    /\ Forget
    /\ UNCHANGED <<environment, vf, ports, devices>>

-------------------------------------------------------------------------------
Outside ==
    \/ \E d \in AgentDevices : PlugOrUnplug(d) \/ SetAdminState(d) \/ DeletePort(d)
    \/ NetworkUpdate

Loop ==
    \/ StartIteration \/ ScanDevices \/ Filter \/ GetDetails \/ DetailsFail
    \/ \E d \in AgentDevices : TreatVf(d) \/ TreatFails(d)
                          \/ RemoveDevice(d) \/ RemoveFails(d)
    \/ TreatDone \/ Report \/ LoopEnd \/ LoopError

AgentNext == Outside \/ (\E d \in AgentDevices : PortUpdate(d)) \/ Loop

(* The loop runs forever, and every notification arrives. *)
AgentSpec ==
    /\ AgentInit /\ [][AgentNext]_agentVars
    /\ WF_agentVars(Loop) /\ WF_agentVars(\E d \in AgentDevices : PortUpdate(d))

-------------------------------------------------------------------------------
(* Properties *)

(* Between two iterations, a VF the agent will not look at again of its    *)
(* own accord has the state its port asks for, or the news is on its way.  *)
NoUpdateLost ==
    pc = "idle" /\ ~sync =>
        \A d \in (devices \cap present \cap knownPorts) \ (updates \cup notif \cup Fixed) :
            d \in vf <=> d \in admin

(* When things calm down, the VFs of this node are in the state their      *)
(* ports ask for, and the plugin has been told so.                         *)
Converges ==
    <>[](\A d \in present \cap knownPorts :
            /\ d \in active <=> d \in admin
            /\ d \notin Fixed => (d \in vf <=> d \in admin))

(* "If one of the above operations fails => resync with plugin"            *)
(* (sriov_nic_agent.py:235): once a device is gone for good, the plugin no *)
(* longer shows its port as ACTIVE.                                        *)
GoneReported == <>[](\A d \in AgentDevices \ present : d \notin active)

===============================================================================
