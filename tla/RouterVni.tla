------------------------------ MODULE RouterVni ------------------------------
(***************************************************************************)
(* The life of a virtual router and of its L3 VNI: AsterL3ServicePlugin    *)
(* (l3_afc.py) calling AFCL3Driver (afc_l3_driver.py) calling L3VniManager *)
(* (l3_vni_manager.py), with the VRFs the AFC controller is told to set up *)
(* and the second place that sets them up, the ML2 mechanism driver when a *)
(* port comes up (mech_aster.py).                                          *)
(*                                                                         *)
(* A worker is a neutron-server process that serves one request at a time; *)
(* every action is one database transaction or one call to AFC, so the     *)
(* requests of several workers interleave exactly where the code commits.  *)
(* Routers are never re-created: Neutron gives each a fresh uuid.          *)
(***************************************************************************)
EXTENDS AllocTable

CONSTANTS Workers,       \* neutron-server processes
          Vnis,          \* L3 VNIs that may be configured or stored
          NoVni,         \* -1, what get_l3_vni_by_route_id returns without row
          NoVrf,         \* the fabric carries no VRF of the router
          NoRouter,      \* a worker that serves no request
          RangeChoices,  \* values of the option l3_vni_ranges, as sets
          InUseDeletes,  \* clients also ask to delete a router in use
          CrashPoints    \* program points at which a worker may die

ASSUME RouterVniAssumption ==
    /\ NoRouter \notin Routers
    /\ NoVni \notin Vnis /\ NoVrf \notin Vnis
    /\ RangeChoices \subseteq SUBSET Vnis
    /\ InUseDeletes \in BOOLEAN

VARIABLES life,   \* the neutron database: "unborn", "alive" or "gone"
          intf,   \* the neutron database: the router has an interface
          tab,    \* the table ml2_aster_l3_vni_allocations
          range,  \* l3_vni_ranges as each worker read it when it started
          pc,     \* where each worker is
          job,    \* the router of the request it serves
          vni,    \* the L3 VNI it read from the table
          vrf     \* the L3 VNI of each router's VRF on the fabric

vars == <<life, intf, tab, range, pc, job, vni, vrf>>

Points == {"idle", "down",
           "pick", "write", "hw",            \* create_router
           "release", "unrow",               \* delete_router
           "addLook", "addSend",             \* add_router_interface
           "delLook", "delSend",             \* remove_router_interface
           "portIntf", "portSend"}           \* update_port_postcommit

TypeOK ==
    /\ life \in [Routers -> {"unborn", "alive", "gone"}]
    /\ intf \in [Routers -> BOOLEAN]
    /\ tab \in Tables(Vnis)
    /\ range \in [Workers -> SUBSET Vnis]
    /\ pc \in [Workers -> Points]
    /\ job \in [Workers -> Routers \cup {NoRouter}]
    /\ \A w \in Workers : job[w] = NoRouter <=> pc[w] \in {"idle", "down"}
    /\ vni \in [Workers -> Vnis \cup {NoVni}]
    /\ vrf \in [Routers -> Vnis \cup {NoVni, NoVrf}]

(* A new deployment: no router, an empty table, no server running yet. *)
Init ==
    /\ life = [r \in Routers |-> "unborn"]
    /\ intf = [r \in Routers |-> FALSE]
    /\ tab = EmptyTable
    /\ range = [w \in Workers |-> {}]
    /\ pc = [w \in Workers |-> "down"]
    /\ job = [w \in Workers |-> NoRouter]
    /\ vni = [w \in Workers |-> NoVni]
    /\ vrf = [r \in Routers |-> NoVrf]

(* Control of a worker: it takes a request, moves on, or answers. *)
Accept(w, r, point) ==
    /\ pc[w] = "idle"
    /\ pc' = [pc EXCEPT ![w] = point]
    /\ job' = [job EXCEPT ![w] = r]

Move(w, from, to) ==
    /\ pc[w] = from
    /\ pc' = [pc EXCEPT ![w] = to]
    /\ UNCHANGED job

Answer(w, points) ==
    /\ pc[w] \in points
    /\ pc' = [pc EXCEPT ![w] = "idle"]
    /\ job' = [job EXCEPT ![w] = NoRouter]
    /\ vni' = [vni EXCEPT ![w] = NoVni]

(* The parent plugin's delete_router: it refuses a router in use. *)
DeleteRow(r) ==
    life' = IF life[r] = "alive" /\ ~intf[r]
            THEN [life EXCEPT ![r] = "gone"] ELSE life

(* Neutron's lookup of the router's L3 VNI by whoever needs it. *)
ReadVni(w, r) ==
    \E v \in Lookups(tab, r, NoVni) : vni' = [vni EXCEPT ![w] = v]

-------------------------------------------------------------------------------
(* create_router *)

(* super().create_router commits the router row. *)
CreateRouter(w, r) ==
    /\ life[r] = "unborn"
    /\ Accept(w, r, "pick")
    /\ life' = [life EXCEPT ![r] = "alive"]
    /\ UNCHANGED <<intf, tab, range, vni, vrf>>

(* allocation_l3_vni reads the free rows, without a lock, and takes one. *)
PickVni(w) ==
    /\ Move(w, "pick", "write")
    /\ \E v \in FreeIds(tab) : vni' = [vni EXCEPT ![w] = v]
    /\ UNCHANGED <<life, intf, tab, range, vrf>>

(* It updates the row of the VNI it took, whatever the row now says. *)
WriteVni(w) ==
    /\ Move(w, "write", "hw")
    /\ tab' = Assigned(tab, vni[w], job[w])
    /\ UNCHANGED <<life, intf, range, vni, vrf>>

(* The driver is done: create_router returns the router. *)
CreateDone(w) ==
    /\ Answer(w, {"hw"})
    /\ UNCHANGED <<life, intf, tab, range, vrf>>

(* Mutant of CreateFails: the router row is left behind. *)
CreateFailsKeepsRow(w) ==
    /\ Answer(w, {"pick", "hw"})
    /\ pc[w] = "pick" => FreeIds(tab) = {}
    /\ UNCHANGED <<life, intf, tab, range, vrf>>

(* No free row, or the external gateway could not be set up: create_router *)
(* deletes the router row again and does not release the VNI.              *)
CreateFails(w) ==
    /\ Answer(w, {"pick", "hw"})
    /\ pc[w] = "pick" => FreeIds(tab) = {}
    /\ DeleteRow(job[w])
    /\ UNCHANGED <<intf, tab, range, vrf>>

-------------------------------------------------------------------------------
(* delete_router *)

DeleteRouter(w, r) ==
    /\ life[r] = "alive"
    /\ InUseDeletes \/ ~intf[r]
    /\ Accept(w, r, "release")
    /\ UNCHANGED <<life, intf, tab, range, vni, vrf>>

(* release_l3_vni, with the ranges this worker was configured with. *)
ReleaseVni(w) ==
    /\ Move(w, "release", "unrow")
    /\ tab' \in Released(tab, range[w], {job[w]})
    /\ UNCHANGED <<life, intf, range, vni, vrf>>

(* The driver raised before it: delete_router logs that and carries on. *)
ReleaseFails(w) ==
    /\ Move(w, "release", "unrow")
    /\ UNCHANGED <<life, intf, tab, range, vni, vrf>>

(* super().delete_router, which raises RouterInUse or RouterNotFound. *)
DeleteRouterRow(w) ==
    /\ Answer(w, {"unrow"})
    /\ DeleteRow(job[w])
    /\ UNCHANGED <<intf, tab, range, vrf>>

-------------------------------------------------------------------------------
(* add_router_interface, remove_router_interface *)

AddInterface(w, r) ==
    /\ life[r] = "alive" /\ ~intf[r]
    /\ Accept(w, r, "addLook")
    /\ intf' = [intf EXCEPT ![r] = TRUE]
    /\ UNCHANGED <<life, tab, range, vni, vrf>>

RemoveInterface(w, r) ==
    /\ life[r] = "alive" /\ intf[r]
    /\ Accept(w, r, "delLook")
    /\ intf' = [intf EXCEPT ![r] = FALSE]
    /\ UNCHANGED <<life, tab, range, vni, vrf>>

LookupForAdd(w) ==
    /\ Move(w, "addLook", "addSend")
    /\ ReadVni(w, job[w])
    /\ UNCHANGED <<life, intf, tab, range, vrf>>

LookupForRemove(w) ==
    /\ Move(w, "delLook", "delSend")
    /\ life[job[w]] = "alive"
    /\ ReadVni(w, job[w])
    /\ UNCHANGED <<life, intf, tab, range, vrf>>

(* get_router raises RouterNotFound: the router was deleted meanwhile. *)
RemoveAborts(w) ==
    /\ Answer(w, {"delLook"})
    /\ life[job[w]] # "alive"
    /\ UNCHANGED <<life, intf, tab, range, vrf>>

(* The driver sends the VRF to each switch that carries the subnet; there  *)
(* may be none.                                                            *)
SendVrf(w) ==
    /\ Answer(w, {"addSend", "portSend"})
    /\ vrf' \in {vrf, [vrf EXCEPT ![job[w]] = vni[w]]}
    /\ UNCHANGED <<life, intf, tab, range>>

(* AFC fails, maybe after some switches accepted: the interface is removed *)
(* from the database again, the switches are left as they are.             *)
AddFails(w) ==
    /\ Answer(w, {"addSend"})
    /\ intf' = [intf EXCEPT ![job[w]] = FALSE]
    /\ vrf' \in {vrf, [vrf EXCEPT ![job[w]] = vni[w]]}
    /\ UNCHANGED <<life, tab, range>>

RemoveVrf(w) ==
    /\ Answer(w, {"delSend"})
    /\ vrf' = [vrf EXCEPT ![job[w]] = NoVrf]
    /\ UNCHANGED <<life, intf, tab, range>>

(* AFC fails: remove_router_interface logs it. *)
RemoveVrfFails(w) ==
    /\ Answer(w, {"delSend"})
    /\ UNCHANGED <<life, intf, tab, range, vrf>>

-------------------------------------------------------------------------------
(* A port comes up: get_routers_and_interfaces reads the router's L3 VNI   *)
(* first and its interfaces after that.                                    *)

PortUp(w, r) ==
    /\ life[r] = "alive"
    /\ Accept(w, r, "portIntf")
    /\ ReadVni(w, r)
    /\ UNCHANGED <<life, intf, tab, range, vrf>>

PortSeesInterface(w) ==
    /\ Move(w, "portIntf", "portSend")
    /\ intf[job[w]]
    /\ UNCHANGED <<life, intf, tab, range, vni, vrf>>

PortSeesNone(w) ==
    /\ Answer(w, {"portIntf"})
    /\ ~intf[job[w]]
    /\ UNCHANGED <<life, intf, tab, range, vrf>>

-------------------------------------------------------------------------------
(* A worker dies, its request with it, and is started again: L3VniManager  *)
(* reads the configured ranges and synchronises the table, locking it.     *)

Crash(w) ==
    /\ pc[w] \in CrashPoints \ {"down"}
    /\ pc' = [pc EXCEPT ![w] = "down"]
    /\ job' = [job EXCEPT ![w] = NoRouter]
    /\ vni' = [vni EXCEPT ![w] = NoVni]
    /\ UNCHANGED <<life, intf, tab, range, vrf>>

Vanished == {r \in Routers : life[r] # "alive"}

(* Mutant of Restart: rows of vanished routers stay, as L2VniManager does. *)
RestartKeepsVanished(w) ==
    /\ Move(w, "down", "idle")
    /\ \E c \in RangeChoices :
          /\ range' = [range EXCEPT ![w] = c]
          /\ tab' = Synced(tab, c)
    /\ UNCHANGED <<life, intf, vni, vrf>>

Restart(w) ==
    /\ Move(w, "down", "idle")
    /\ \E c \in RangeChoices :
          /\ range' = [range EXCEPT ![w] = c]
          /\ tab' \in Released(Synced(tab, c), c, Vanished)
    /\ UNCHANGED <<life, intf, vni, vrf>>

-------------------------------------------------------------------------------
Create(w) == \/ \E r \in Routers : CreateRouter(w, r)
             \/ PickVni(w) \/ WriteVni(w) \/ CreateDone(w) \/ CreateFails(w)

Delete(w) == \/ \E r \in Routers : DeleteRouter(w, r)
             \/ ReleaseVni(w) \/ ReleaseFails(w) \/ DeleteRouterRow(w)

Interface(w) == \/ \E r \in Routers : AddInterface(w, r) \/ RemoveInterface(w, r)
                \/ LookupForAdd(w) \/ LookupForRemove(w) \/ RemoveAborts(w)
                \/ SendVrf(w) \/ AddFails(w) \/ RemoveVrf(w) \/ RemoveVrfFails(w)

Port(w) == \/ \E r \in Routers : PortUp(w, r)
           \/ PortSeesInterface(w) \/ PortSeesNone(w)

Next == \E w \in Workers :
            Create(w) \/ Delete(w) \/ Interface(w) \/ Port(w)
            \/ Crash(w) \/ Restart(w)

Spec == Init /\ [][Next]_vars

-------------------------------------------------------------------------------
(* Properties *)

(* A router never owns two L3 VNIs, however requests, crashes and restarts *)
(* interleave: release_l3_vni and the startup synchronisation look at the  *)
(* first row of a router only and would leak the second one.               *)
AtMostOneVni ==
    \A i, j \in DOMAIN tab : tab[i] = tab[j] /\ tab[i] # Free => i = j

(* The VNI of an existing router becomes free, or loses its row, only by   *)
(* release_l3_vni of a delete_router of that very router: no other router's *)
(* release and no restart, under whatever new l3_vni_ranges, takes it away. *)
VniFreedOnlyByItsRouter ==
    [][\A i \in DOMAIN tab :
         (tab[i] # Free /\ (i \in DOMAIN tab' => tab'[i] = Free))
            => \/ life[tab[i]] # "alive"
               \/ \E w \in Workers : pc[w] = "release" /\ job[w] = tab[i]]_vars

(* The synchronisation of a restarting server reclaims every VNI a failed  *)
(* or interrupted request left with a router that no longer exists.        *)
RestartReclaims ==
    [][\A w \in Workers : pc[w] = "down" /\ pc'[w] = "idle"
         => \A i \in DOMAIN tab' :
              tab'[i] # Free => life[tab'[i]] = "alive"]_vars

(* "Allocations one l3 vni to VRouter" (l3_vni_manager.py:119): a router    *)
(* no request is working on owns a row.                                    *)
KeepsVni ==
    \A r \in Routers :
        life[r] = "alive" /\ (\A w \in Workers : job[w] # r)
            => HeldBy(tab, r) # {}

(* The fabric serves a router that has a row under the VNI of that row, or *)
(* under none (a request that found no row sends -1, NoVni), whatever      *)
(* overlaps, dies or is refused, and however stale the VNI a request sends *)
(* may be: two routers are served under one VNI only after one of them has *)
(* lost its row.                                                           *)
ServedUnderOwn ==
    \A r \in Routers : HeldBy(tab, r) # {} =>
        vrf[r] \in HeldBy(tab, r) \cup {NoVni, NoVrf}

(* A router that has a row, or whose creation is still to write it.        *)
Provided(r) ==
    \/ HeldBy(tab, r) # {}
    \/ \E w \in Workers : job[w] = r /\ pc[w] \in {"pick", "write"}

(* Why a step of w may leave a router of the database without a VNI: its   *)
(* own deletion releases it, its creation dies, or finds no free row when  *)
(* an interface has been added already, or the row it picked is gone when  *)
(* it writes, or another creation that read the same free row takes it.    *)
TakesVni(w, r) ==
    \/ pc[w] = "release" /\ job[w] = r
    \/ pc[w] \in {"pick", "write"} /\ pc'[w] = "down" /\ job[w] = r
    \/ pc[w] = "pick" /\ FreeIds(tab) = {} /\ intf[r] /\ job[w] = r
    \/ pc[w] = "write" /\ vni[w] \notin DOMAIN tab /\ job[w] = r
    \/ pc[w] = "write" /\ vni[w] \in HeldBy(tab, r) /\ job[w] # r

(* There is no other way: a router gets a VNI with its row in the database *)
(* and keeps it through every other request, crash and restart.            *)
VniLostOnly ==
    [][\A r \in Routers :
         (life[r] = "unborn" \/ Provided(r)) /\ life'[r] = "alive" =>
             Provided(r)' \/ \E w \in Workers : TakesVni(w, r)]_vars

(* The pool as its users see it: an identifier without a row is not owned. *)
VniOwner == [i \in Vnis |-> IF i \in DOMAIN tab THEN tab[i] ELSE Free]

Pool == INSTANCE IdPool WITH Ids <- Vnis, Users <- Routers, owner <- VniOwner

(* allocation_l3_vni, release_l3_vni and sync_allocations implement the    *)
(* identifier pool.                                                        *)
PoolSpec == Pool!Spec

(* Environment assumptions some properties need. *)
Serialized == \A v, w \in Workers : v = w

===============================================================================
