------------------------------- MODULE MechAster -------------------------------
(***************************************************************************)
(* The ML2 mechanism driver (mech_aster.py) together with the two driver   *)
(* calls of the L3 plugin that change the same switches                    *)
(* (AFCL3Driver.add_router_interface / remove_router_interface), for one   *)
(* network, its one subnet, and one router.                                *)
(*                                                                         *)
(* A port worker is a thread of a neutron-server process; its hooks take   *)
(* the lock 'aster-cx-port', which excludes the threads of one process     *)
(* only.  A router worker serves the L3 API and takes no lock.  An action  *)
(* is one database transaction or one call to AFC.                         *)
(***************************************************************************)
EXTENDS FiniteSets

CONSTANTS PortWorkers, RouterWorkers,
          Process,     \* the neutron-server process of each port worker
          Ports,       \* ports of the network
          DhcpPorts,   \* those with device_owner network:dhcp
          Hosts,
          Switches,
          HostsOf,     \* switch -> hosts in its host_ports_mapping
          Physnet,     \* switch -> its physical network
          None,        \* no physical network, host, switch or port
          Circumstances  \* what may happen in a behaviour: sets of Kinds

Kinds == {"overlap",   \* port and router requests run at the same time
          "afcFails",  \* AFC refuses a request
          "crashes"}   \* a neutron-server process dies

Workers == PortWorkers \cup RouterWorkers
Physnets == {Physnet[s] : s \in Switches}

ASSUME MechAsterAssumption ==
    /\ PortWorkers \cap RouterWorkers = {}
    /\ DhcpPorts \subseteq Ports
    /\ HostsOf \in [Switches -> SUBSET Hosts]
    /\ DOMAIN Process = PortWorkers /\ DOMAIN Physnet = Switches
    /\ None \notin Hosts \cup Switches \cup Physnets \cup Ports
    /\ Circumstances \subseteq SUBSET Kinds

VARIABLES may,       \* the circumstances of this behaviour; never changes
          pstat,     \* neutron: "absent", "unbound", "down" or "active"
          phost,     \* neutron: binding:host_id of each port
          pnet,      \* neutron: physical network of the bound VLAN segment
          attached,  \* neutron: the subnet has a router interface
          row,       \* AsterPortBinding of (switch, subnet): "none", "new"
                     \* (is_config_l2 = False) or "done" (True)
          rvrf,      \* that row records a router_id
          l2,        \* AFC: the subnet's VLAN and VNI are on the switch
          vrf,       \* AFC: the subnet's VRF interface is on the switch
          pc, todo, cur,  \* each worker: point, switches left, current switch
          job        \* the port of a worker inside a port transaction;
                     \* None once another transaction has changed that port

neutron == <<pstat, phost, pnet>>
vars == <<may, pstat, phost, pnet, attached, row, rvrf, l2, vrf,
          pc, todo, cur, job>>

Configuring == {"cNext", "cSend", "cLook", "cVrf", "cRec", "cMark"}
Deleting == {"dNext", "dLook", "dVrf", "dL2", "dRow"}
Locked == Configuring \cup Deleting
Adding == {"aList", "aNext", "aRec"}
Removing == {"rList", "rNext", "rRec"}
Points == {"idle", "upTx", "upPost", "delPost"} \cup Locked \cup Adding \cup Removing

TypeOK ==
    /\ may \in Circumstances
    /\ pstat \in [Ports -> {"absent", "unbound", "down", "active"}]
    /\ phost \in [Ports -> Hosts \cup {None}]
    /\ pnet \in [Ports -> Physnets \cup {None}]
    /\ \A p \in Ports : pnet[p] # None <=> pstat[p] \in {"down", "active"}
    /\ attached \in BOOLEAN
    /\ row \in [Switches -> {"none", "new", "done"}]
    /\ {rvrf, l2, vrf} \subseteq [Switches -> BOOLEAN]
    /\ pc \in [Workers -> Points]
    /\ todo \in [Workers -> SUBSET Switches]
    /\ cur \in [Workers -> Switches \cup {None}]
    /\ job \in [PortWorkers -> Ports \cup {None}]

Init ==
    /\ may \in Circumstances
    /\ pstat = [p \in Ports |-> "absent"]
    /\ phost = [p \in Ports |-> None]
    /\ pnet = [p \in Ports |-> None]
    /\ attached = FALSE
    /\ row = [s \in Switches |-> "none"]
    /\ rvrf = [s \in Switches |-> FALSE]
    /\ l2 = [s \in Switches |-> FALSE]
    /\ vrf = [s \in Switches |-> FALSE]
    /\ pc = [w \in Workers |-> "idle"]
    /\ todo = [w \in Workers |-> {}]
    /\ cur = [w \in Workers |-> None]
    /\ job = [w \in PortWorkers |-> None]

-------------------------------------------------------------------------------
(* Helpers *)

(* Mutant: The hooks are not synchronized. *)
NoLock(w) == TRUE

(* @lockutils.synchronized('aster-cx-port'), without external=True *)
LockFree(w) ==
    \A u \in PortWorkers \ {w} : Process[u] = Process[w] => pc[u] \notin Locked

MayStart(w) ==
    /\ pc[w] = "idle"
    /\ "overlap" \in may \/ \A u \in Workers :
                               (u \in PortWorkers) # (w \in PortWorkers) => pc[u] = "idle"

(* The switches a port's hooks visit: _get_port_connections, filtered by   *)
(* the physical network of the bound segment (none if unbound).            *)
ServedBy(p) ==
    {s \in Switches : phost[p] \in HostsOf[s] /\ Physnet[s] = pnet[p]}

(* Mutant: only active ports keep a switch configured. *)
ActivePortsOn(s) ==
    {p \in Ports \ DhcpPorts : pstat[p] = "active" /\ phost[p] \in HostsOf[s]}

(* get_ports_by_subnet on the hosts of a switch: bound or not, up or down, *)
(* but no DHCP port.                                                       *)
PortsOn(s) ==
    {p \in Ports \ DhcpPorts : pstat[p] # "absent" /\ phost[p] \in HostsOf[s]}

Go(w, point) == pc' = [pc EXCEPT ![w] = point]

At(w, point, s) == pc[w] = point /\ cur[w] = s

(* A worker takes the next switch of its loop, or skips it. *)
Take(w, s, point) ==
    /\ s \in todo[w]
    /\ todo' = [todo EXCEPT ![w] = @ \ {s}]
    /\ cur' = [cur EXCEPT ![w] = s]
    /\ Go(w, point)

Skip(w, s) ==
    /\ s \in todo[w]
    /\ todo' = [todo EXCEPT ![w] = @ \ {s}]
    /\ UNCHANGED <<pc, cur>>

Abort(w) ==
    /\ Go(w, "idle")
    /\ todo' = [todo EXCEPT ![w] = {}]
    /\ cur' = [cur EXCEPT ![w] = None]

(* An AFC request that sets the switch's part of f to value, or fails. *)
Push(f, s, value) == f' = [f EXCEPT ![s] = value]

Loop(w, point) ==
    /\ Go(w, point)
    /\ cur' = [cur EXCEPT ![w] = None]
    /\ UNCHANGED todo

(* A committed change of port p: neutron's revision number makes every     *)
(* other transaction that has read p fail when it commits.                 *)
Changed(p) == job' = [u \in PortWorkers |-> IF job[u] = p THEN None ELSE job[u]]

-------------------------------------------------------------------------------
(* ML2: what happens to ports, and the hook each event runs into *)

CreatePort(w, p, h) ==
    /\ MayStart(w)
    /\ pstat[p] = "absent"
    /\ pstat' = [pstat EXCEPT ![p] = "unbound"]
    /\ phost' = [phost EXCEPT ![p] = h]
    /\ UNCHANGED <<pnet, attached, row, rvrf, l2, vrf, pc, todo, cur, job>>

(* Mutant: a host no switch is connected to is bound all the same. *)
BindPortWithoutPhysnet(w, p, s) ==
    /\ MayStart(w)
    /\ pstat[p] = "unbound"
    /\ pstat' = [pstat EXCEPT ![p] = "down"]
    /\ pnet' = [pnet EXCEPT ![p] = IF phost[p] \in HostsOf[s] THEN Physnet[s]
                                                             ELSE None]
    /\ UNCHANGED <<phost, attached, row, rvrf, l2, vrf, pc, todo, cur, job>>

(* bind_port: the physical network of a switch the host is connected to,   *)
(* none raises PhysnetNotConfigured.  The port is still DOWN and was not   *)
(* bound before, so both update hooks do nothing.                          *)
BindPort(w, p, s) ==
    /\ MayStart(w)
    /\ pstat[p] = "unbound"
    /\ phost[p] \in HostsOf[s]
    /\ pstat' = [pstat EXCEPT ![p] = "down"]
    /\ pnet' = [pnet EXCEPT ![p] = Physnet[s]]
    /\ UNCHANGED <<phost, attached, row, rvrf, l2, vrf, pc, todo, cur, job>>

(* The status becomes (or an update leaves it) BUILD or ACTIVE:            *)
(* update_port_precommit runs inside the port transaction, but adds its    *)
(* rows in a session of its own.                                           *)
UpPrecommit(w, p) ==
    /\ MayStart(w) /\ LockFree(w)
    /\ pstat[p] \in {"down", "active"}
    /\ row' = [s \in Switches |-> IF s \in ServedBy(p) /\ row[s] = "none"
                                  THEN "new" ELSE row[s]]
    /\ todo' = [todo EXCEPT ![w] = ServedBy(p)]
    /\ Go(w, "upTx") /\ job' = [job EXCEPT ![w] = p]
    /\ UNCHANGED <<neutron, attached, rvrf, l2, vrf, cur>>

(* The transaction commits, unless the port changed under it. *)
UpCommit(w, p) ==
    /\ pc[w] = "upTx" /\ job[w] = p
    /\ pstat' = [pstat EXCEPT ![p] = "active"]
    /\ Go(w, "upPost") /\ Changed(p)
    /\ UNCHANGED <<phost, pnet, attached, row, rvrf, l2, vrf, todo, cur>>

(* It is rolled back; the rows of the precommit hook are not. *)
UpRollback(w) ==
    /\ pc[w] = "upTx"
    /\ Abort(w) /\ job' = [job EXCEPT ![w] = None]
    /\ UNCHANGED <<neutron, attached, row, rvrf, l2, vrf>>

(* A port event whose postcommit hook takes the delete path, for the       *)
(* switches of the port as it was.                                         *)
Leaves(w, p) ==
    /\ MayStart(w)
    /\ todo' = [todo EXCEPT ![w] = ServedBy(p)]
    /\ Go(w, "delPost") /\ Changed(p)
    /\ UNCHANGED <<attached, row, rvrf, l2, vrf, cur>>

(* The status becomes, or an update leaves it, DOWN or ERROR. *)
PortDown(w, p) ==
    /\ pstat[p] \in {"down", "active"}
    /\ Leaves(w, p)
    /\ pstat' = [pstat EXCEPT ![p] = "down"]
    /\ UNCHANGED <<phost, pnet>>

(* A new host: ML2 unbinds the port and sets it DOWN. *)
Migrate(w, p, h) ==
    /\ pstat[p] # "absent" /\ phost[p] # h
    /\ Leaves(w, p)
    /\ pstat' = [pstat EXCEPT ![p] = "unbound"]
    /\ phost' = [phost EXCEPT ![p] = h]
    /\ pnet' = [pnet EXCEPT ![p] = None]

DeletePort(w, p) ==
    /\ pstat[p] # "absent"
    /\ Leaves(w, p)
    /\ pstat' = [pstat EXCEPT ![p] = "absent"]
    /\ phost' = [phost EXCEPT ![p] = None]
    /\ pnet' = [pnet EXCEPT ![p] = None]

(* The postcommit hook gets the lock. *)
EnterHook(w) ==
    /\ LockFree(w)
    /\ \/ pc[w] = "upPost" /\ Go(w, "cNext")
       \/ pc[w] = "delPost" /\ Go(w, "dNext")
    /\ UNCHANGED <<neutron, attached, row, rvrf, l2, vrf, todo, cur, job>>

(* A loop over switches has come to its end. *)
Finish(w) ==
    /\ pc[w] \in {"cNext", "dNext", "aNext", "rNext"} /\ todo[w] = {}
    /\ Abort(w)
    /\ UNCHANGED <<neutron, attached, row, rvrf, l2, vrf, job>>

-------------------------------------------------------------------------------
(* _configure_physical_switch, for each switch s of the port *)

(* Mutant: The row is marked before the configuration is sent. *)
MarksFirst(w, s) ==
    /\ pc[w] = "cNext"
    /\ IF row[s] = "new"
       THEN Take(w, s, "cSend") /\ row' = [row EXCEPT ![s] = "done"]
       ELSE Skip(w, s) /\ UNCHANGED row
    /\ UNCHANGED <<neutron, attached, rvrf, l2, vrf, job>>

ConfigureSwitch(w, s) ==
    /\ pc[w] = "cNext"
    /\ IF row[s] = "new" THEN Take(w, s, "cSend") ELSE Skip(w, s)
    /\ UNCHANGED <<neutron, attached, row, rvrf, l2, vrf, job>>

SendConfig(w, s) ==
    /\ At(w, "cSend", s)
    /\ Push(l2, s, TRUE) /\ Go(w, "cLook")
    /\ UNCHANGED <<neutron, attached, row, rvrf, vrf, todo, cur, job>>

(* Mutant: A refused configuration takes the row along. *)
FailureDropsRow(w) ==
    /\ "afcFails" \in may
    /\ pc[w] \in {"cSend", "cVrf"}
    /\ row' = [row EXCEPT ![cur[w]] = "none"]
    /\ Abort(w)
    /\ UNCHANGED <<neutron, attached, rvrf, l2, vrf, job>>

(* AFC refuses the configuration or the VRF: the hook raises, the row      *)
(* stays unconfigured for the next port event to try.                      *)
ConfigureFails(w) ==
    /\ "afcFails" \in may
    /\ pc[w] \in {"cSend", "cVrf"}
    /\ Abort(w)
    /\ UNCHANGED <<neutron, attached, row, rvrf, l2, vrf, job>>

LookupInterface(w, s) ==
    /\ At(w, "cLook", s)
    /\ Go(w, IF attached THEN "cVrf" ELSE "cMark")
    /\ UNCHANGED <<neutron, attached, row, rvrf, l2, vrf, todo, cur, job>>

SendVrf(w, s) ==
    /\ At(w, "cVrf", s)
    /\ Push(vrf, s, TRUE) /\ Go(w, "cRec")
    /\ UNCHANGED <<neutron, attached, row, rvrf, l2, todo, cur, job>>

RecordVrf(w, s) ==
    /\ At(w, "cRec", s)
    /\ rvrf' = [rvrf EXCEPT ![s] = @ \/ row[s] = "new"]
    /\ Go(w, "cMark")
    /\ UNCHANGED <<neutron, attached, row, l2, vrf, todo, cur, job>>

MarkConfigured(w, s) ==
    /\ At(w, "cMark", s)
    /\ row' = [row EXCEPT ![s] = IF @ = "new" THEN "done" ELSE @]
    /\ Loop(w, "cNext")
    /\ UNCHANGED <<neutron, attached, rvrf, l2, vrf, job>>

-------------------------------------------------------------------------------
(* _delete_physical_switch_config, for each switch s of the port *)

CheckUnused(w, s) ==
    /\ pc[w] = "dNext"
    /\ IF PortsOn(s) = {} /\ row[s] # "none"
       THEN Take(w, s, "dLook") ELSE Skip(w, s)
    /\ UNCHANGED <<neutron, attached, row, rvrf, l2, vrf, job>>

(* A port that is not bound has no bottom segment for get_ports_by_subnet  *)
(* to read: the hook may raise instead of going on to the next switch.     *)
CheckRaises(w, s) ==
    /\ pc[w] = "dNext" /\ s \in todo[w]
    /\ \E p \in PortsOn(s) : pstat[p] = "unbound"
    /\ Abort(w)
    /\ UNCHANGED <<neutron, attached, row, rvrf, l2, vrf, job>>

(* Mutant: The delete path never looks for a router interface. *)
DeletesL2Only(w, s) ==
    /\ At(w, "dLook", s)
    /\ Go(w, "dL2")
    /\ UNCHANGED <<neutron, attached, row, rvrf, l2, vrf, todo, cur, job>>

LookupForDelete(w, s) ==
    /\ At(w, "dLook", s)
    /\ Go(w, IF attached THEN "dVrf" ELSE "dL2")
    /\ UNCHANGED <<neutron, attached, row, rvrf, l2, vrf, todo, cur, job>>

(* A failure of either request is logged only. *)
DeleteVrf(w, s) ==
    /\ At(w, "dVrf", s)
    /\ Push(vrf, s, FALSE) \/ ("afcFails" \in may /\ UNCHANGED vrf)
    /\ Go(w, "dL2")
    /\ UNCHANGED <<neutron, attached, row, rvrf, l2, todo, cur, job>>

DeleteConfig(w, s) ==
    /\ At(w, "dL2", s)
    /\ Push(l2, s, FALSE) \/ ("afcFails" \in may /\ UNCHANGED l2)
    /\ Go(w, "dRow")
    /\ UNCHANGED <<neutron, attached, row, rvrf, vrf, todo, cur, job>>

DeleteRow(w, s) ==
    /\ At(w, "dRow", s)
    /\ row' = [row EXCEPT ![s] = "none"]
    /\ rvrf' = [rvrf EXCEPT ![s] = FALSE]
    /\ Loop(w, "dNext")
    /\ UNCHANGED <<neutron, attached, l2, vrf, job>>

-------------------------------------------------------------------------------
(* The L3 plugin: add_router_interface and remove_router_interface *)

AttachInterface(w) ==
    /\ MayStart(w)
    /\ ~attached /\ attached' = TRUE
    /\ Go(w, "aList")
    /\ UNCHANGED <<neutron, row, rvrf, l2, vrf, todo, cur, job>>

DetachInterface(w) ==
    /\ MayStart(w)
    /\ attached /\ attached' = FALSE
    /\ Go(w, "rList")
    /\ UNCHANGED <<neutron, row, rvrf, l2, vrf, todo, cur, job>>

(* Mutant: Adding an interface skips the switches still being configured. *)
ListsConfigured(w) ==
    /\ \/ pc[w] = "aList" /\ Go(w, "aNext")
       \/ pc[w] = "rList" /\ Go(w, "rNext")
    /\ todo' = [todo EXCEPT ![w] = {s \in Switches : row[s] = "done"}]
    /\ UNCHANGED <<neutron, attached, row, rvrf, l2, vrf, cur, job>>

(* Both read the rows of the subnet, configured or not, once. *)
ListSwitches(w) ==
    /\ \/ pc[w] = "aList" /\ Go(w, "aNext")
       \/ pc[w] = "rList" /\ Go(w, "rNext")
    /\ todo' = [todo EXCEPT ![w] = {s \in Switches : row[s] # "none"}]
    /\ UNCHANGED <<neutron, attached, row, rvrf, l2, vrf, cur, job>>

AddVrf(w, s) ==
    /\ pc[w] = "aNext" /\ Take(w, s, "aRec")
    /\ Push(vrf, s, TRUE)
    /\ UNCHANGED <<neutron, attached, row, rvrf, l2, job>>

RemoveVrf(w, s) ==
    /\ pc[w] = "rNext" /\ Take(w, s, "rRec")
    /\ Push(vrf, s, FALSE)
    /\ UNCHANGED <<neutron, attached, row, rvrf, l2, job>>

(* AFC refuses: an add is undone in neutron, a remove is only logged;      *)
(* neither goes on to the other switches.                                  *)
InterfaceFails(w) ==
    /\ "afcFails" \in may
    /\ pc[w] \in {"aNext", "rNext"} /\ todo[w] # {}
    /\ attached' = IF pc[w] = "aNext" THEN FALSE ELSE attached
    /\ Abort(w)
    /\ UNCHANGED <<neutron, row, rvrf, l2, vrf, job>>

RecordInterface(w, s) ==
    /\ \/ At(w, "aRec", s) /\ Loop(w, "aNext")
          /\ rvrf' = [rvrf EXCEPT ![s] = row[s] # "none"]
       \/ At(w, "rRec", s) /\ Loop(w, "rNext")
          /\ rvrf' = [rvrf EXCEPT ![s] = FALSE]
    /\ UNCHANGED <<neutron, attached, row, l2, vrf, job>>

-------------------------------------------------------------------------------
(* A neutron-server process dies: the hooks its threads were in are lost.  *)
Crash(q) ==
    /\ "crashes" \in may
    /\ \E w \in PortWorkers : Process[w] = q /\ pc[w] # "idle"
    /\ pc' = [w \in Workers |-> IF w \in PortWorkers /\ Process[w] = q
                                THEN "idle" ELSE pc[w]]
    /\ todo' = [w \in Workers |-> IF w \in PortWorkers /\ Process[w] = q
                                  THEN {} ELSE todo[w]]
    /\ cur' = [w \in Workers |-> IF w \in PortWorkers /\ Process[w] = q
                                 THEN None ELSE cur[w]]
    /\ job' = [w \in PortWorkers |-> IF Process[w] = q THEN None ELSE job[w]]
    /\ UNCHANGED <<neutron, attached, row, rvrf, l2, vrf>>

PortEvent(w) ==
    \E p \in Ports :
        \/ \E h \in Hosts : CreatePort(w, p, h) \/ Migrate(w, p, h)
        \/ \E s \in Switches : BindPort(w, p, s)
        \/ UpPrecommit(w, p) \/ UpCommit(w, p) \/ PortDown(w, p) \/ DeletePort(w, p)

PortHook(w) ==
    \/ UpRollback(w) \/ EnterHook(w) \/ Finish(w) \/ ConfigureFails(w)
    \/ \E s \in Switches :
          \/ ConfigureSwitch(w, s) \/ SendConfig(w, s) \/ LookupInterface(w, s)
          \/ SendVrf(w, s) \/ RecordVrf(w, s) \/ MarkConfigured(w, s)
          \/ CheckUnused(w, s) \/ CheckRaises(w, s) \/ LookupForDelete(w, s)
          \/ DeleteVrf(w, s) \/ DeleteConfig(w, s) \/ DeleteRow(w, s)

RouterRequest(w) ==
    \/ AttachInterface(w) \/ DetachInterface(w) \/ ListSwitches(w)
    \/ InterfaceFails(w) \/ Finish(w)
    \/ \E s \in Switches : AddVrf(w, s) \/ RemoveVrf(w, s) \/ RecordInterface(w, s)

Next ==
    /\ \/ \E w \in PortWorkers : PortEvent(w) \/ PortHook(w)
       \/ \E w \in RouterWorkers : RouterRequest(w)
       \/ \E w \in PortWorkers : Crash(Process[w])
    /\ UNCHANGED may

Spec == Init /\ [][Next]_vars

-------------------------------------------------------------------------------
(* Properties *)

Quiet == \A w \in Workers : pc[w] = "idle"

NoFailure == may \cap {"afcFails", "crashes"} = {}

UserPorts == Ports \ DhcpPorts

(* With no hook running, the switches of every active port of a server are *)
(* configured and recorded as such: no event of another port, however it   *)
(* overlaps, leaves a port without network.                                *)
ActivePortConfigured ==
    NoFailure /\ Quiet =>
        \A p \in UserPorts : pstat[p] = "active" =>
            \A s \in ServedBy(p) : row[s] = "done" /\ l2[s]

(* Whatever AFC refuses and whenever the server dies, such a switch has a  *)
(* row all along, for the next port event to work from: no hook of another *)
(* port deletes it, not even one that found the switch unused before.      *)
ActivePortRecorded ==
    \A p \in UserPorts : pstat[p] = "active" =>
        \A s \in ServedBy(p) : row[s] # "none"

(* "Record had config": a row with is_config_l2 = True stands for a        *)
(* configured switch, except on the way to deleting that row.  A server    *)
(* that dies on that way leaves a row that claims too much.                *)
DoneMeansConfigured ==
    "crashes" \notin may =>
        \A s \in Switches :
            row[s] = "done" /\ (\A w \in Workers : ~At(w, "dRow", s)) => l2[s]

(* The configuration of a switch is never withdrawn under an active port.  *)
NeverPulledFromActive ==
    [][\A s \in Switches : l2[s] /\ ~l2'[s]
         => \A p \in UserPorts : pstat[p] = "active" => s \notin ServedBy(p)]_vars

(* Once no request is running, every configured switch of a subnet with a  *)
(* router interface has the VRF, whether the interface or the port came    *)
(* first: no interleaving of add_router_interface and the port hook misses *)
(* a switch.                                                               *)
VrfServed ==
    NoFailure /\ Quiet /\ attached =>
        \A s \in Switches : row[s] = "done" => vrf[s]

(* Once the interface is removed, or the row is deleted, so is the VRF, if *)
(* the port hooks and the requests for interfaces keep out of each other's *)
(* way: nothing but luck orders a hook's look-up of the interface before   *)
(* or after its removal.                                                   *)
VrfOnlyWhereUsed ==
    may = {} /\ Quiet => \A s \in Switches : vrf[s] => attached /\ row[s] # "none"

===============================================================================
