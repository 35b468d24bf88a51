-------------------------------- MODULE ESwitch --------------------------------
(***************************************************************************)
(* The ESwitchManager of the SR-IOV agent (eswitch_manager.py, pci_lib.py) *)
(* and the QoS driver on top of it (extension_drivers/qos_driver.py), for  *)
(* one network device (PF) and its virtual functions (VFs).                *)
(*                                                                         *)
(* Two threads use it: the agent's loop, which discovers the device, scans *)
(* the assigned VFs, and has limits set for added ports and cleared for    *)
(* removed ones; and the thread in which changed QoS policies arrive.      *)
(* Nova, libvirt and the host's administrator change the hardware at any   *)
(* point. A command or a look at the hardware is one action.               *)
(*                                                                         *)
(* What makes the loop resync, and so forget its devices, is here too; the *)
(* link state and the server's record of it are left to SriovAgent. The    *)
(* two rates of a VF are treated alike; one is modelled. ip link sets the  *)
(* rate of a VF that is there without fail.                                *)
(***************************************************************************)
EXTENDS Integers, FiniteSets

CONSTANTS Slots,     \* PCI slots the VFs of the device can have
          Excluded,  \* exclude_devices
          Ports,     \* ports, by their MAC addresses
          Limits,    \* limits of policies in kbps; 0: no policy
          Setups,    \* see Circumstances
          None

(* counts: the device has a file sriov_numvfs.                             *)
(* late: VFs are configured for a device the agent already manages, or it  *)
(*   comes back with others before the agent has missed it.                *)
(* rough: a VF is assigned again before the agent has seen it released; or *)
(*   a port loses its policy and its VF at the same time.                  *)
(* leaves: the device is given to a VM as a whole, with all its VFs.       *)
(* fails: a call of the loop to the server or for a link state may fail.   *)
(* most, ports: how many VFs there are, and the ports that get one.        *)
Circumstances == [counts: BOOLEAN, late: BOOLEAN, rough: BOOLEAN, leaves: BOOLEAN,
                  fails: BOOLEAN, most: 0 .. Cardinality(Slots), ports: SUBSET Ports]

ASSUME ESwitchAssumption ==
    /\ Excluded \subseteq Slots /\ IsFiniteSet(Slots)
    /\ Limits \subseteq Nat /\ 0 \in Limits
    /\ None \notin Slots \cup Ports
    /\ Setups \subseteq Circumstances

Unknown == {None}    \* in place of the VFs of a device that is not managed

VARIABLES setup,       \* what may happen in this deployment
          pf,          \* is the device there, not given to a VM?
          numvfs,      \* sriov_numvfs
          vfs,         \* VFs that have come up
          owner,       \* MAC of each VF that is assigned, or None
          rate,        \* limit of each VF in Mbps, 0 for none
          bound,       \* neutron: pci_slot in the binding profile of a port
          want,        \* neutron: limit of the policy of a port
          told,        \* ports whose changed policy is on its way
          updated,     \* updated_devices
          switch,      \* VFs of the device's EmbSwitch, or Unknown
          slotMap,     \* keys of pci_slot_map
          skipped,     \* is the device in skipped_devices?
          registered,  \* the devices of the last scan; {} after a resync
          policed,     \* the VF a port had when the QoS extension was last handed
                       \* it with a policy, or None: it has no policy of the port
          loop,        \* where the loop is
          op,          \* the call to the driver of each thread
          overlooked   \* see ForgetDevices; no action depends on it

host == <<pf, numvfs, vfs>>
neutron == <<bound, want>>
known == <<switch, slotMap, skipped>>
agent == <<registered, policed, loop, op, overlooked>>
vars == <<setup, host, owner, rate, neutron, told, updated, known, agent>>

Threads == {"loop", "rpc"}
Devices == (Ports \cup {None}) \X Slots

Points == {"look", "scan", "count", "assigned", "macs", "treat"}

AtPoint(point) ==
    [pc |-> point, news |-> {}, seen |-> {}, curr |-> {}, todo |-> {}, gone |-> {},
     resync |-> FALSE]

Loops == [pc: Points,
          news: SUBSET Ports,      \* updated_devices_copy
          seen: SUBSET Slots,      \* VFs found by the last look at them
          curr: SUBSET Devices,    \* devices of this scan
          todo: SUBSET Devices,    \* added and updated ones still to treat
          gone: SUBSET Devices,    \* removed ones still to treat
          resync: BOOLEAN]         \* did a step fail?

Idle == [pc |-> "idle", port |-> None, slot |-> None, kbps |-> 0]

Ops == [pc: {"idle", "exists", "check", "set", "clear", "reset"},
        port: Ports \cup {None}, slot: Slots \cup {None}, kbps: Limits]

-------------------------------------------------------------------------------
(* What set_device_rate hands to ip link: 0 would be no limit. *)
Mbps(kbps) == IF 0 < kbps /\ kbps < 1000 THEN 1 ELSE (kbps + 500) \div 1000

TypeOK ==
    /\ setup \in Circumstances
    /\ pf \in BOOLEAN /\ numvfs \in 0 .. Cardinality(Slots)
    /\ vfs \subseteq Slots /\ Cardinality(vfs) <= numvfs
    /\ owner \in [Slots -> Ports \cup {None}]
    /\ \A s \in Slots : s \notin vfs => owner[s] = None /\ rate[s] = 0
    /\ rate \in [Slots -> {Mbps(l) : l \in Limits}]
    /\ bound \in [Ports -> Slots \cup {None}]
    /\ want \in [Ports -> Limits]
    /\ told \subseteq Ports /\ updated \subseteq Ports
    /\ switch = Unknown \/ switch \subseteq Slots
    /\ slotMap \subseteq Slots /\ skipped \in BOOLEAN
    /\ switch # Unknown => switch \subseteq slotMap
    /\ registered \subseteq Devices /\ overlooked \subseteq Devices
    /\ policed \in [Ports -> Slots \cup {None}]
    /\ loop \in Loops /\ op \in [Threads -> Ops]

Init ==
    /\ setup \in Setups
    /\ pf = TRUE /\ numvfs = 0 /\ vfs = {}
    /\ owner = [s \in Slots |-> None] /\ rate = [s \in Slots |-> 0]
    /\ bound = [p \in Ports |-> None] /\ want = [p \in Ports |-> 0]
    /\ told = {} /\ updated = {}
    /\ switch = Unknown /\ slotMap = {} /\ skipped = FALSE
    /\ registered = {} /\ overlooked = {} /\ policed = [p \in Ports |-> None]
    /\ loop = AtPoint("look") /\ op = [t \in Threads |-> Idle]

-------------------------------------------------------------------------------
(* The host *)

SetNumvfs(n) ==
    /\ pf /\ numvfs = 0 /\ n \in 1 .. setup.most
    /\ setup.late \/ switch = Unknown
    /\ numvfs' = n
    /\ UNCHANGED <<setup, pf, vfs, owner, rate, neutron, told, updated, known, agent>>

VfComesUp(s) ==
    /\ s \notin vfs /\ Cardinality(vfs) < numvfs
    /\ vfs' = vfs \cup {s}
    /\ UNCHANGED <<setup, pf, numvfs, owner, rate, neutron, told, updated, known,
                   agent>>

(* Devices the agent knows, or is about to. *)
Seen == registered \cup loop.curr

(* The device is given to a VM as a whole, and later given back: not so    *)
(* soon that the agent takes it for the same one, unless it is late.       *)
PfLeaves ==
    /\ setup.leaves
    /\ pf /\ \A s \in Slots : owner[s] = None
    /\ Seen = {}
    /\ pf' = FALSE /\ numvfs' = 0 /\ vfs' = {}
    /\ rate' = [s \in Slots |-> 0]
    /\ UNCHANGED <<setup, owner, neutron, told, updated, known, agent>>

PfReturns ==
    /\ ~pf
    /\ setup.late \/ (switch = Unknown /\ loop.pc \notin {"scan", "count"})
    /\ pf' = TRUE
    /\ UNCHANGED <<setup, numvfs, vfs, owner, rate, neutron, told, updated, known,
                   agent>>

Held(p) == \E s \in Slots : owner[s] = p

(* A port gets another VF, or the same one again, only after the agent has *)
(* noticed that it gave up the last one, and all commands for it are done. *)
Plug(p, s) ==
    /\ p \in setup.ports
    /\ s \in vfs \ Excluded /\ owner[s] = None
    /\ Cardinality(vfs) = numvfs
    /\ \A d \in Seen : d[1] # p /\ (d[2] = s => setup.rough)
    /\ ~Held(p)
    /\ \A t \in Threads : op[t].port # p
    /\ owner' = [owner EXCEPT ![s] = p]
    /\ bound' = [bound EXCEPT ![p] = s]
    /\ UNCHANGED <<setup, host, rate, want, told, updated, known, agent>>

(* Ports the next scan takes up because of an update. *)
Awaited == updated \cup (IF loop.pc = "treat" THEN {} ELSE loop.news)

LosesPolicy(p, s) ==
    \/ want[p] = 0 /\ (p \in Awaited \/ <<p, s>> \in loop.todo)
    \/ op["loop"].port = p /\ op["loop"].kbps = 0

(* The limit stays on the VF. A command that has been issued is carried    *)
(* out before the VF changes hands.                                        *)
Unplug(p) ==
    /\ \E s \in Slots :
          /\ owner[s] = p
          /\ \A t \in Threads : op[t].pc = "set" => op[t].slot # s
          /\ setup.rough \/ ~LosesPolicy(p, s)
          /\ owner' = [owner EXCEPT ![s] = None]
    /\ UNCHANGED <<setup, host, rate, neutron, told, updated, known, agent>>

(* A changed rule is pushed to the agent, a policy that is attached or     *)
(* detached is an update of the port.                                      *)
SetLimit(p, limit) ==
    /\ p \in setup.ports
    /\ limit # want[p] /\ p \notin told
    /\ limit = 0 => setup.rough \/ Held(p) \/ p \notin {d[1] : d \in Seen}
    /\ want' = [want EXCEPT ![p] = limit]
    /\ IF limit > 0 /\ want[p] > 0
       THEN told' = told \cup {p} /\ UNCHANGED updated
       ELSE updated' = updated \cup {p} /\ UNCHANGED told
    /\ UNCHANGED <<setup, host, owner, rate, bound, known, agent>>

-------------------------------------------------------------------------------
(* discover_devices *)

(* An iteration begins, and _process_emb_switch_map. The slots of a device *)
(* that is gone stay in pci_slot_map.                                      *)
LookForDevice ==
    /\ loop.pc = "look"
    /\ loop' = [loop EXCEPT !.pc = IF switch = Unknown /\ pf THEN "scan"
                                   ELSE "assigned",
                            !.news = updated]
    /\ updated' = {}
    /\ switch' = IF pf THEN switch ELSE Unknown
    /\ UNCHANGED <<setup, host, owner, rate, neutron, told, slotMap, skipped,
                   registered, policed, op, overlooked>>

ScanVfs ==
    /\ loop.pc = "scan" /\ pf
    /\ loop' = [loop EXCEPT !.pc = "count", !.seen = vfs]
    /\ UNCHANGED <<setup, host, owner, rate, neutron, told, updated, known,
                   registered, policed, op, overlooked>>

NumvfsRead == IF pf /\ setup.counts THEN numvfs ELSE -1

(* Mutant of Incomplete: the VFs that have come up are not counted. *)
NeverIncomplete(n, scanned) == FALSE

Incomplete(n, scanned) == n >= 0 /\ n > Cardinality(scanned)

(* Mutant of Manage: pci_slot_map is not filled. *)
ManageOnly(slots) == switch' = slots /\ UNCHANGED slotMap

Manage(slots) == switch' = slots /\ slotMap' = slotMap \cup slots

(* _create_emb_switch, from get_numvfs on: a device without VFs is let     *)
(* pass on the second look, one with VFs to come never.                    *)
CountVfs ==
    /\ loop.pc = "count"
    /\ IF (NumvfsRead = 0 /\ ~skipped) \/ Incomplete(NumvfsRead, loop.seen)
       THEN skipped' = TRUE /\ UNCHANGED <<switch, slotMap>>
       ELSE skipped' = FALSE /\ Manage(loop.seen \ Excluded)
    /\ loop' = [loop EXCEPT !.pc = "assigned", !.seen = {}]
    /\ UNCHANGED <<setup, host, owner, rate, neutron, told, updated, registered,
                   policed, op, overlooked>>

-------------------------------------------------------------------------------
(* get_assigned_devices_info and scan_devices *)

(* is_assigned_vf: a VF without a network interface counts as assigned,    *)
(* also when there is no such VF at all.                                   *)
Assigned(s) == pf /\ (s \notin vfs \/ owner[s] # None)

ReadAssigned ==
    /\ loop.pc = "assigned"
    /\ loop' = [loop EXCEPT !.pc = "macs",
                    !.seen = {s \in switch \ Unknown : Assigned(s)}]
    /\ UNCHANGED <<setup, host, owner, rate, neutron, told, updated, known,
                   registered, policed, op, overlooked>>

Failed == IF setup.fails THEN BOOLEAN ELSE {FALSE}

WithPolicy(devices) == {d \in devices : d[1] # None /\ policed[d[1]] = d[2]}

(* The MAC addresses are read later: a VF released meanwhile is a device   *)
(* without port. No added or updated device is treated if the server does  *)
(* not send their details.                                                 *)
ReadMacs ==
    /\ loop.pc = "macs" /\ (pf \/ loop.seen = {})
    /\ LET curr == {<<owner[s], s>> : s \in loop.seen \cap vfs}
           todo == {d \in curr : d \notin registered \/ d[1] \in loop.news}
       IN  /\ \E lost \in Failed :
                 loop' = [AtPoint("treat") EXCEPT
                            !.news = loop.news,
                            !.curr = curr,
                            !.todo = IF lost THEN {} ELSE todo,
                            !.gone = registered \ curr,
                            !.resync = lost /\ todo # {}]
           /\ overlooked' = overlooked \ WithPolicy(curr)
    /\ UNCHANGED <<setup, host, owner, rate, neutron, told, updated, known,
                   registered, policed, op>>

(* devices.clear(): nothing is compared with the devices before the next   *)
(* iteration clears them. Until a scan finds them again, the devices with  *)
(* a policy are on record as overlooked: one that goes before the scan is  *)
(* never treated as removed.                                               *)
ForgetDevices ==
    /\ registered' = {}
    /\ overlooked' = overlooked \cup WithPolicy(Seen)

(* The iteration ends with an exception: the device is gone, or a port's   *)
(* policy is not to be had, or the report of link states is lost.          *)
IterationError ==
    /\ \/ ~pf /\ (loop.pc = "scan" \/ (loop.pc = "macs" /\ loop.seen # {}))
       \/ /\ setup.fails /\ loop.pc = "treat" /\ op["loop"] = Idle
          /\ \E d \in loop.curr : d \notin registered \/ d[1] \in loop.news
          /\ loop.gone = registered \ loop.curr
    /\ loop' = AtPoint("look")
    /\ updated' = updated \cup loop.news
    /\ ForgetDevices
    /\ UNCHANGED <<setup, host, owner, rate, neutron, told, known, policed, op>>

-------------------------------------------------------------------------------
(* The calls of the agent's threads *)

(* handle_port and notifications of the QoS extension exclude each other.  *)
LockFree == \A t \in Threads : op[t].pc \in {"idle", "clear", "reset"}

Call(t, call) == op' = [op EXCEPT ![t] = call]

SetCall(p, s, kbps) == [pc |-> "exists", port |-> p, slot |-> s, kbps |-> kbps]

(* get_pci_device. *)
PciDevice(s) == IF s \in slotMap /\ s \in vfs THEN owner[s] ELSE None

(* treat_device: the port does not have its VF any more, or its link state *)
(* cannot be set.                                                          *)
ResyncNeeded(p, failed) == failed \/ PciDevice(bound[p]) # p

(* treat_device, and whatever it says, handle_port: update_bandwidth_limit *)
(* or, of a port that has lost its policy, delete_bandwidth_limit. Neutron *)
(* knows no port of a device without port.                                 *)
TreatDevice(d) ==
    /\ loop.pc = "treat" /\ op["loop"] = Idle
    /\ d \in loop.todo /\ LockFree
    /\ LET p == d[1]
       IN  /\ \E failed \in Failed :
                 loop' = [loop EXCEPT !.todo = @ \ {d},
                            !.resync = @ \/ (p # None /\ ResyncNeeded(p, failed))]
           /\ IF p # None /\ (want[p] > 0 \/ policed[p] # None)
              THEN /\ Call("loop", SetCall(p, bound[p], want[p]))
                   /\ policed' = [policed EXCEPT
                                    ![p] = IF want[p] > 0 THEN bound[p] ELSE None]
              ELSE UNCHANGED <<op, policed>>
    /\ UNCHANGED <<setup, host, owner, rate, neutron, told, updated, known,
                   registered, overlooked>>

(* delete_port: delete_bandwidth_limit without device_owner; then the port *)
(* is reported down.                                                       *)
TreatRemoved(d) ==
    /\ loop.pc = "treat" /\ op["loop"] = Idle
    /\ loop.todo = {} /\ d \in loop.gone
    /\ \E failed \in Failed :
          loop' = [loop EXCEPT !.gone = @ \ {d}, !.resync = @ \/ failed]
    /\ IF d[1] # None /\ policed[d[1]] # None
       THEN /\ Call("loop", [Idle EXCEPT !.pc = "clear", !.slot = d[2]])
            /\ policed' = [policed EXCEPT ![d[1]] = None]
       ELSE UNCHANGED <<op, policed>>
    /\ UNCHANGED <<setup, host, owner, rate, neutron, told, updated, known,
                   registered, overlooked>>

EndIteration ==
    /\ loop.pc = "treat" /\ op["loop"] = Idle
    /\ loop.todo = {} /\ loop.gone = {}
    /\ IF loop.resync THEN ForgetDevices ELSE registered' = loop.curr /\ UNCHANGED overlooked
    /\ loop' = AtPoint("look")
    /\ UNCHANGED <<setup, host, owner, rate, neutron, told, updated, known,
                   policed, op>>

(* A changed policy arrives: update_bandwidth_limit of the ports that have *)
(* it as far as the extension knows, on the VF it knows of.                *)
PolicyChanged(p) ==
    /\ p \in told /\ op["rpc"] = Idle /\ LockFree
    /\ told' = told \ {p}
    /\ IF policed[p] # None
       THEN Call("rpc", SetCall(p, policed[p], want[p]))
       ELSE UNCHANGED op
    /\ UNCHANGED <<setup, host, owner, rate, neutron, updated, known, registered,
                   policed, loop, overlooked>>

-------------------------------------------------------------------------------
(* ESwitchManager *)

Quietly == UNCHANGED <<setup, host, owner, neutron, told, updated, known,
                       registered, policed, loop, overlooked>>

(* _get_emb_eswitch: does the VF still have this MAC address? It is asked  *)
(* twice, by device_exists and by set_device_max_rate.                     *)
CheckDevice(t) ==
    /\ op[t].pc \in {"exists", "check"}
    /\ IF PciDevice(op[t].slot) = op[t].port
       THEN op' = [op EXCEPT ![t].pc = IF @ = "exists" THEN "check" ELSE "set"]
       ELSE Call(t, Idle)
    /\ UNCHANGED rate /\ Quietly

(* Mutant of MayClear: the VF may have a new port by now. *)
ClearAnyway(s) == s \in slotMap

MayClear(s) == s \in slotMap /\ PciDevice(s) = None

(* _clear_rate: not if the VF has been assigned to another port. *)
CheckReleased(t) ==
    /\ op[t].pc = "clear"
    /\ IF MayClear(op[t].slot)
       THEN op' = [op EXCEPT ![t].pc = "reset"]
       ELSE Call(t, Idle)
    /\ UNCHANGED rate /\ Quietly

(* set_device_rate; a VF that does not exist makes the command fail, which *)
(* is logged.                                                              *)
SetRate(t) ==
    /\ op[t].pc \in {"set", "reset"}
    /\ rate' = IF op[t].slot \in vfs
               THEN [rate EXCEPT ![op[t].slot] = Mbps(op[t].kbps)]
               ELSE rate
    /\ Call(t, Idle)
    /\ Quietly

-------------------------------------------------------------------------------
Host == \/ \E n \in 1 .. Cardinality(Slots) : SetNumvfs(n)
        \/ \E s \in Slots : VfComesUp(s)
        \/ PfLeaves \/ PfReturns

Discover == LookForDevice \/ ScanVfs \/ CountVfs \/ IterationError
Scan == ReadAssigned \/ ReadMacs
Treat == \/ \E d \in Devices : TreatDevice(d) \/ TreatRemoved(d)
         \/ EndIteration
Command(t) == CheckDevice(t) \/ CheckReleased(t) \/ SetRate(t)

Port(p) == \/ \E s \in Slots : Plug(p, s)
           \/ Unplug(p)
           \/ \E l \in Limits : SetLimit(p, l)
           \/ PolicyChanged(p)

Next == \/ Host \/ Discover \/ Scan \/ Treat
        \/ \E p \in Ports : Port(p)
        \/ \E t \in Threads : Command(t)

Spec == Init /\ [][Next]_vars

-------------------------------------------------------------------------------
(* Properties *)

(* A device that can tell how many VFs it has, and gets them before the    *)
(* agent manages it, is managed with all of them, however they come up     *)
(* between the agent's looks, and again after it was given away.           *)
EveryVfManaged ==
    setup.counts /\ ~setup.late =>
        (pf /\ switch # Unknown => switch = vfs \ Excluded)

Obeys(mbps, kbps) ==
    IF kbps = 0 THEN mbps = 0
    ELSE mbps > 0 /\ (mbps = 1 \/ mbps * 1000 - kbps \in -500 .. 500)

Settled(p) == /\ loop.pc = "look" /\ p \notin told \cup updated
              /\ op["rpc"].port # p

(* Once the agent has treated a port, and policy changes have been dealt   *)
(* with, its VF has the limit of its policy -- also when the VF was taken  *)
(* from a port with another limit before the agent saw it, and the removal *)
(* of that port is treated last, and when the loop has resynced. A port    *)
(* without policy has no limit, unless the agent overlooks that an earlier *)
(* port with a limit has left the VF: a resync between the two scans makes *)
(* it forget the device, and the limit stays. VFs that change hands very   *)
(* fast are not counted either (rough).                                    *)
LimitsObeyed ==
    \A p \in Ports, s \in Slots :
        /\ owner[s] = p /\ <<p, s>> \in registered /\ Settled(p)
        /\ want[p] > 0 \/ (~setup.rough /\ \A d \in overlooked : d[2] # s)
        => Obeys(rate[s], want[p])

===============================================================================
