----------------------------- MODULE RouterGateway -----------------------------
(***************************************************************************)
(* External gateways of routers: the part of AFCL3Driver that gives a      *)
(* router an L2 VNI and, on each border leaf that serves the external      *)
(* network, a VLAN, a configuration and a default route, and the           *)
(* L3 plugin requests that lead to it.  The router's L3 VNI is the subject *)
(* of RouterVni and is left out.                                           *)
(*                                                                         *)
(* A worker serves one API request; none takes a lock.  An action is one   *)
(* database transaction, a query of one that reads without locking, or one *)
(* request to AFC.                                                         *)
(***************************************************************************)
EXTENDS AllocTable, Naturals

CONSTANTS Workers,
          Nets,      \* external networks
          Foreign,   \* those whose network type is not aster_ext_net
          Ipv6,      \* those whose gateway ports have an IPv6 address
          Leaves,    \* border_switches
          L2Vnis, Vlans,
          None,      \* no network, router, leaf, VNI or VLAN
          Setups     \* deployments, see Deployments

FaultKinds == {"addFails",    \* AFC refuses a configuration or a route
               "delFails",    \* AFC refuses to delete one
               "createGw",    \* a router is created with a gateway
               "replace",     \* an update replaces one network by another
               "inUse",       \* neutron refuses to delete a router in use
               "overlap",     \* requests for different routers overlap
               "sameRouter",  \* requests for one router overlap
               "crashes",     \* a server dies, except while it clears a gateway
               "clearCrash",  \* it dies while it clears a gateway
               "delRaises"}   \* the database fails a removal

(* What is configured and what may happen: the external networks in use,   *)
(* the physical network ports of each leaf as the leaves that serve a      *)
(* network, the VLANs of every leaf, and the values l2_vni_ranges may have *)
(* whenever the server starts.                                             *)
Deployments ==
    [may: SUBSET FaultKinds, nets: SUBSET Nets, leavesOf: [Nets -> SUBSET Leaves],
     vlans: SUBSET Vlans, ranges: SUBSET SUBSET L2Vnis]

ASSUME RouterGatewayAssumption ==
    /\ Foreign \subseteq Nets /\ Ipv6 \subseteq Nets
    /\ Setups \subseteq Deployments
    /\ None \notin Nets \cup Routers \cup Leaves \cup L2Vnis \cup Vlans
    /\ Free \notin Leaves \X Routers

VARIABLES setup,    \* the deployment, chosen in Init and constant
          l2range,  \* l2_vni_ranges of the running server
          life,     \* neutron: "absent", "alive", "deleted" or, taken out
                    \* again by its own creation, "failed"
          gw,       \* neutron: external network of each router, or None
          l2tab,    \* AsterL2VNIAllocation
          vlantab,  \* AsterLeafVlanAllocation, by leaf
          conf,     \* AFC: configurations on border leaves
          route,    \* AFC: default routes on border leaves
          at        \* where each worker is in its request

config == <<setup, l2range>>
neutron == <<life, gw, config>>
fabric == <<conf, route>>
vars == <<setup, l2range, life, gw, l2tab, vlantab, conf, route, at>>

May(kind) == kind \in setup.may
Served(net) == setup.leavesOf[net]

Adding == {"l2Pick", "l2Write", "l2Look", "addLeaf", "vlanWrite", "vlanLook",
           "sendConf", "sendRoute"}
Removing == {"delLook", "delLeaf", "delRoute", "delConf", "delVlan"}

Idle == [pc |-> "idle", op |-> "none", r |-> None, net |-> None, todo |-> {},
         leaf |-> None, vni |-> None, id |-> None]

Requests ==
    [pc: {"idle", "upDb", "delDb"} \cup Adding \cup Removing,
     op: {"none", "create", "update", "delete"},
     r: Routers \cup {None}, net: Nets \cup {None}, todo: SUBSET Leaves,
     leaf: Leaves \cup {None}, vni: L2Vnis \cup {None},
     id: L2Vnis \cup Vlans \cup {None}]

Config(leaf, r, i, v) == [leaf |-> leaf, router |-> r, vni |-> i, vlan |-> v]
Route(leaf, r, v) == [leaf |-> leaf, router |-> r, vlan |-> v]

TypeOK ==
    /\ setup \in Setups
    /\ l2range \in setup.ranges
    /\ life \in [Routers -> {"absent", "alive", "deleted", "failed"}]
    /\ gw \in [Routers -> Nets \cup {None}]
    /\ \A r \in Routers : gw[r] # None => life[r] = "alive"
    /\ l2tab \in Tables(L2Vnis)
    /\ vlantab \in [Leaves -> Tables(Vlans)]
    /\ conf \subseteq [leaf: Leaves, router: Routers, vni: L2Vnis \cup {None},
                       vlan: Vlans \cup {None}]
    /\ route \subseteq [leaf: Leaves, router: Routers, vlan: Vlans \cup {None}]
    /\ at \in [Workers -> Requests]
    /\ \A w \in Workers : at[w].pc = "idle" <=> at[w].r = None

Init ==
    /\ setup \in Setups
    /\ l2range \in setup.ranges
    /\ life = [r \in Routers |-> "absent"]
    /\ gw = [r \in Routers |-> None]
    /\ l2tab = Synced(EmptyTable, l2range)
    /\ vlantab = [leaf \in Leaves |-> Synced(EmptyTable, setup.vlans)]
    /\ conf = {} /\ route = {}
    /\ at = [w \in Workers |-> Idle]

-------------------------------------------------------------------------------
(* Helpers *)

External(net) == net \in Nets \ Foreign

(* The worker's request ends. *)
Answer(w) == at' = [at EXCEPT ![w] = Idle]

Step(w, point) == at' = [at EXCEPT ![w].pc = point]

MayStart(w, r) ==
    /\ at[w].pc = "idle"
    /\ \A u \in Workers : at[u].pc # "idle" =>
           May(IF at[u].r = r THEN "sameRouter" ELSE "overlap")

Begin(w, op, r, net, point) ==
    at' = [at EXCEPT ![w] = [Idle EXCEPT !.pc = point, !.op = op, !.r = r,
                                         !.net = net]]

(* A worker at a point of the loop over border leaves takes a leaf. *)
TakeLeaf(w, leaf, id, point) ==
    at' = [at EXCEPT ![w].pc = point, ![w].leaf = leaf, ![w].id = id,
                     ![w].todo = @ \ {leaf}]

-------------------------------------------------------------------------------
(* The L3 plugin's requests *)

CreateRouter(w, r, net) ==
    /\ MayStart(w, r)
    /\ life[r] = "absent"
    /\ net = None \/ May("createGw")
    /\ life' = [life EXCEPT ![r] = "alive"]
    /\ gw' = [gw EXCEPT ![r] = net]
    /\ IF External(net) THEN Begin(w, "create", r, net, "l2Pick") ELSE UNCHANGED at
    /\ UNCHANGED <<config, l2tab, vlantab, fabric>>

(* update_router and delete_router first read the router. *)
ReadRouter(w, r) ==
    /\ MayStart(w, r)
    /\ life[r] = "alive"
    /\ \/ Begin(w, "update", r, gw[r], "upDb")
       \/ Begin(w, "delete", r, gw[r],
                IF External(gw[r]) THEN "delLook" ELSE "delDb")
    /\ UNCHANGED <<neutron, l2tab, vlantab, fabric>>

(* The neutron transaction of update_router, and the driver's choice: a    *)
(* gateway cleared, a gateway set, or nothing to do -- which is also what  *)
(* it does when one network replaces another.                              *)
UpdateRouter(w, net) ==
    LET r == at[w].r
        old == at[w].net
    IN  /\ at[w].pc = "upDb"
        /\ life[r] = "alive"
        /\ old = None \/ net \in {None, old} \/ May("replace")
        /\ gw' = [gw EXCEPT ![r] = net]
        /\ at' = [at EXCEPT ![w] =
                     CASE External(old) /\ net = None -> [@ EXCEPT !.pc = "delLook"]
                       [] old = None /\ External(net) ->
                              [@ EXCEPT !.pc = "l2Pick", !.net = net]
                       [] OTHER -> Idle]
        /\ UNCHANGED <<config, life, l2tab, vlantab, fabric>>

(* Neutron's part of the request raises: RouterNotFound or RouterInUse. *)
RequestRaises(w) ==
    /\ \/ at[w].pc \in {"upDb", "delDb"} /\ life[at[w].r] # "alive"
       \/ at[w].pc = "delDb" /\ May("inUse")
    /\ Answer(w)
    /\ UNCHANGED <<neutron, l2tab, vlantab, fabric>>

DeleteRouter(w) ==
    /\ at[w].pc = "delDb"
    /\ life[at[w].r] = "alive"
    /\ life' = [life EXCEPT ![at[w].r] = "deleted"]
    /\ gw' = [gw EXCEPT ![at[w].r] = None]
    /\ Answer(w)
    /\ UNCHANGED <<config, l2tab, vlantab, fabric>>

-------------------------------------------------------------------------------
(* _add_network_default_gateway *)

PickL2Vni(w) ==
    /\ at[w].pc = "l2Pick" /\ at[w].net \notin Ipv6
    /\ \E i \in FreeIds(l2tab) :
           at' = [at EXCEPT ![w].pc = "l2Write", ![w].id = i]
    /\ UNCHANGED <<neutron, l2tab, vlantab, fabric>>

WriteL2Vni(w) ==
    /\ at[w].pc = "l2Write"
    /\ l2tab' = Assigned(l2tab, at[w].id, at[w].r)
    /\ Step(w, "l2Look")
    /\ UNCHANGED <<neutron, vlantab, fabric>>

LookUpL2Vni(w) ==
    /\ at[w].pc = "l2Look"
    /\ \E i \in Lookups(l2tab, at[w].r, None) :
           at' = [at EXCEPT ![w].pc = "addLeaf", ![w].vni = i,
                            ![w].todo = Served(at[w].net)]
    /\ UNCHANGED <<neutron, l2tab, vlantab, fabric>>

PickVlan(w, leaf) ==
    /\ at[w].pc = "addLeaf" /\ leaf \in at[w].todo
    /\ \E v \in FreeIds(vlantab[leaf]) : TakeLeaf(w, leaf, v, "vlanWrite")
    /\ UNCHANGED <<neutron, l2tab, vlantab, fabric>>

WriteVlan(w) ==
    /\ at[w].pc = "vlanWrite"
    /\ vlantab' = [vlantab EXCEPT ![at[w].leaf] = Assigned(@, at[w].id, at[w].r)]
    /\ Step(w, "vlanLook")
    /\ UNCHANGED <<neutron, l2tab, fabric>>

LookUpVlan(w) ==
    /\ at[w].pc = "vlanLook"
    /\ \E v \in Lookups(vlantab[at[w].leaf], at[w].r, None) :
           at' = [at EXCEPT ![w].pc = "sendConf", ![w].id = v]
    /\ UNCHANGED <<neutron, l2tab, vlantab, fabric>>

ConfigOf(w) == Config(at[w].leaf, at[w].r, at[w].vni, at[w].id)
RouteOf(w) == Route(at[w].leaf, at[w].r, at[w].id)

SendConfig(w) ==
    /\ at[w].pc = "sendConf"
    /\ conf' = conf \cup {ConfigOf(w)}
    /\ Step(w, "sendRoute")
    /\ UNCHANGED <<neutron, l2tab, vlantab, route>>

SendRoute(w) ==
    /\ at[w].pc = "sendRoute"
    /\ route' = route \cup {RouteOf(w)}
    /\ Step(w, "addLeaf")
    /\ UNCHANGED <<neutron, l2tab, vlantab, conf>>

(* An IPv6 gateway port leaves the driver without the addresses it reads   *)
(* next.                                                                   *)
Ipv6Gateway(w) == at[w].pc = "l2Pick" /\ at[w].net \in Ipv6

NoneFree(w) ==
    \/ at[w].pc = "l2Pick" /\ FreeIds(l2tab) = {}
    \/ /\ at[w].pc = "addLeaf"
       /\ \E leaf \in at[w].todo : FreeIds(vlantab[leaf]) = {}

Refused(w) == May("addFails") /\ at[w].pc \in {"sendConf", "sendRoute"}

(* Mutant of AddFails: a failed update takes the gateway back in neutron. *)
AddFailsUndoesGateway(w) ==
    /\ Ipv6Gateway(w) \/ NoneFree(w) \/ Refused(w)
    /\ gw' = [gw EXCEPT ![at[w].r] = None]
    /\ Answer(w)
    /\ UNCHANGED <<config, life, l2tab, vlantab, fabric>>

(* No identifier is free, AFC refuses, or the gateway is an IPv6 one:      *)
(* create_router takes the router out of neutron again, update_router logs *)
(* the error.  Neither gives up what was allocated.                        *)
AddFails(w) ==
    /\ Ipv6Gateway(w) \/ NoneFree(w) \/ Refused(w)
    /\ IF at[w].op = "create"
       THEN /\ life' = [life EXCEPT ![at[w].r] = "failed"]
            /\ gw' = [gw EXCEPT ![at[w].r] = None]
       ELSE UNCHANGED <<life, gw>>
    /\ Answer(w)
    /\ UNCHANGED <<config, l2tab, vlantab, fabric>>

(* Mutant of AddDone: the request is not forgotten. *)
AddDoneKeepsRequest(w) ==
    /\ at[w].pc = "addLeaf" /\ at[w].todo = {}
    /\ Step(w, "idle")
    /\ UNCHANGED <<neutron, l2tab, vlantab, fabric>>

AddDone(w) ==
    /\ at[w].pc = "addLeaf" /\ at[w].todo = {}
    /\ Answer(w)
    /\ UNCHANGED <<neutron, l2tab, vlantab, fabric>>

-------------------------------------------------------------------------------
(* _del_network_default_gateway *)

LookUpForDelete(w) ==
    /\ at[w].pc = "delLook"
    /\ \E i \in Lookups(l2tab, at[w].r, None) :
           at' = [at EXCEPT ![w].pc = "delLeaf", ![w].vni = i,
                            ![w].todo = Served(at[w].net)]
    /\ UNCHANGED <<neutron, l2tab, vlantab, fabric>>

LookUpLeaf(w, leaf) ==
    /\ at[w].pc = "delLeaf" /\ leaf \in at[w].todo
    /\ \E v \in Lookups(vlantab[leaf], at[w].r, None) :
           TakeLeaf(w, leaf, v, "delRoute")
    /\ UNCHANGED <<neutron, l2tab, vlantab, fabric>>

(* Mutant of DeleteRoute: every default route of the leaf is deleted. *)
DeleteRoutesOfLeaf(w) ==
    /\ at[w].pc = "delRoute"
    /\ route' = {x \in route : x.leaf # at[w].leaf}
    /\ Step(w, "delConf")
    /\ UNCHANGED <<neutron, l2tab, vlantab, conf>>

(* A failure of either request is logged only. *)
DeleteRoute(w) ==
    /\ at[w].pc = "delRoute"
    /\ \/ route' = route \ {RouteOf(w)}
       \/ May("delFails") /\ UNCHANGED route
    /\ Step(w, "delConf")
    /\ UNCHANGED <<neutron, l2tab, vlantab, conf>>

(* Mutant of DeleteConfig: only deleting the router removes it. *)
DeleteConfigOnDelete(w) ==
    /\ at[w].pc = "delConf"
    /\ conf' = IF at[w].op = "delete" THEN conf \ {ConfigOf(w)} ELSE conf
    /\ Step(w, "delVlan")
    /\ UNCHANGED <<neutron, l2tab, vlantab, route>>

DeleteConfig(w) ==
    /\ at[w].pc = "delConf"
    /\ \/ conf' = conf \ {ConfigOf(w)}
       \/ May("delFails") /\ UNCHANGED conf
    /\ Step(w, "delVlan")
    /\ UNCHANGED <<neutron, l2tab, vlantab, route>>

(* Mutant of ReleaseVlan: frees the VLAN looked up, whoever owns it now. *)
ReleaseVlanById(w) ==
    /\ at[w].pc = "delVlan"
    /\ vlantab' = [vlantab EXCEPT ![at[w].leaf] = Assigned(@, at[w].id, Free)]
    /\ Step(w, "delLeaf")
    /\ UNCHANGED <<neutron, l2tab, fabric>>

ReleaseVlan(w) ==
    /\ at[w].pc = "delVlan"
    /\ \E t \in Released(vlantab[at[w].leaf], setup.vlans, {at[w].r}) :
           vlantab' = [vlantab EXCEPT ![at[w].leaf] = t]
    /\ Step(w, "delLeaf")
    /\ UNCHANGED <<neutron, l2tab, fabric>>

(* Mutant of ReleaseL2Vni: clearing the gateway keeps the L2 VNI. *)
ReleaseL2VniOnDelete(w) ==
    /\ at[w].pc = "delLeaf" /\ at[w].todo = {}
    /\ IF at[w].op = "delete"
       THEN Step(w, "delDb") /\ l2tab' \in Released(l2tab, l2range, {at[w].r})
       ELSE Answer(w) /\ UNCHANGED l2tab
    /\ UNCHANGED <<neutron, vlantab, fabric>>

ReleaseL2Vni(w) ==
    /\ at[w].pc = "delLeaf" /\ at[w].todo = {}
    /\ l2tab' \in Released(l2tab, l2range, {at[w].r})
    /\ IF at[w].op = "delete" THEN Step(w, "delDb") ELSE Answer(w)
    /\ UNCHANGED <<neutron, vlantab, fabric>>

(* A query or a transaction fails, and the removal with it.  That is       *)
(* logged: delete_router goes on and has neutron delete the router.        *)
RemovalRaises(w) ==
    /\ May("delRaises") /\ at[w].pc \in {"delLook", "delLeaf", "delVlan"}
    /\ IF at[w].op = "delete" THEN Step(w, "delDb") ELSE Answer(w)
    /\ UNCHANGED <<neutron, l2tab, vlantab, fabric>>

-------------------------------------------------------------------------------
(* The server process *)

Crash(w) ==
    /\ at[w].pc # "idle"
    /\ May(IF at[w].op = "update" /\ at[w].pc \in Removing
           THEN "clearCrash" ELSE "crashes")
    /\ Answer(w)
    /\ UNCHANGED <<neutron, l2tab, vlantab, fabric>>

(* The server starts again, perhaps with other ranges; sync_allocations of *)
(* the L2 VNI manager runs before any request.                             *)
Restart(range) ==
    /\ \A w \in Workers : at[w].pc = "idle"
    /\ l2range' = range
    /\ l2tab' = Synced(l2tab, range)
    /\ UNCHANGED <<setup, life, gw, vlantab, fabric, at>>

-------------------------------------------------------------------------------
Request(w) ==
    \/ \E r \in Routers :
          ReadRouter(w, r) \/ \E net \in setup.nets \cup {None} : CreateRouter(w, r, net)
    \/ \E net \in setup.nets \cup {None} : UpdateRouter(w, net)
    \/ RequestRaises(w) \/ DeleteRouter(w)

AddGateway(w) ==
    \/ PickL2Vni(w) \/ WriteL2Vni(w) \/ LookUpL2Vni(w)
    \/ \E leaf \in Leaves : PickVlan(w, leaf)
    \/ WriteVlan(w) \/ LookUpVlan(w) \/ SendConfig(w) \/ SendRoute(w)
    \/ AddFails(w) \/ AddDone(w)

RemoveGateway(w) ==
    \/ LookUpForDelete(w)
    \/ \E leaf \in Leaves : LookUpLeaf(w, leaf)
    \/ DeleteRoute(w) \/ DeleteConfig(w) \/ ReleaseVlan(w) \/ ReleaseL2Vni(w)
    \/ RemovalRaises(w)

Next == \/ \E w \in Workers : Request(w) \/ AddGateway(w) \/ RemoveGateway(w)
                              \/ Crash(w)
        \/ \E range \in setup.ranges : Restart(range)

Spec == Init /\ [][Next]_vars

-------------------------------------------------------------------------------
(* Properties *)

Settled(r) == \A w \in Workers : at[w].r # r

Undisturbed == setup.may \subseteq {"createGw"}

(* There is an L2 VNI for every router, and a VLAN of every leaf. *)
Plenty ==
    /\ Cardinality(Routers) <= Cardinality(setup.vlans)
    /\ \A range \in setup.ranges : Cardinality(Routers) <= Cardinality(range)

(* While no request is refused, overlaps or dies: a settled router with an *)
(* external gateway owns an L2 VNI and, on every leaf that serves the      *)
(* network, a VLAN, and is configured and routed there with exactly these. *)
GatewayReady ==
    Undisturbed /\ Plenty => \A r \in Routers :
        Settled(r) /\ External(gw[r]) /\ gw[r] \notin Ipv6 =>
            \A leaf \in Served(gw[r]) :
                \E i \in HeldBy(l2tab, r), v \in HeldBy(vlantab[leaf], r) :
                    Config(leaf, r, i, v) \in conf /\ Route(leaf, r, v) \in route

NoRows(r) ==
    HeldBy(l2tab, r) = {} /\ \A leaf \in Leaves : HeldBy(vlantab[leaf], r) = {}

(* Each removal runs to its end, or its deletion of the router is tried    *)
(* again after a crash; requests for one router do not overlap, and no     *)
(* network replaces another.                                               *)
Orderly == setup.may \cap {"sameRouter", "replace", "clearCrash", "delRaises"} = {}

(* Whatever AFC refuses, wherever a creation or deletion dies, whichever   *)
(* routers' requests overlap and however the ranges move: a settled router *)
(* without a gateway, deleted ones included, owns no identifier, unless    *)
(* its own creation failed.  What a dead request leaves behind, the next   *)
(* removal of the gateway finds by the router's id.                        *)
RowsReleased ==
    Orderly => \A r \in Routers :
        Settled(r) /\ gw[r] = None /\ life[r] # "failed" => NoRows(r)

(* Moreover, AFC refuses nothing and no two requests overlap, not even for *)
(* different routers: two that overlap may both pick the VLAN that is free *)
(* and the second write takes it from the first router, which has it       *)
(* configured and will not find it again.                                  *)
UnrefusedInTurn == setup.may \subseteq {"createGw", "inUse", "crashes"}

(* As long as requests follow one another and AFC refuses nothing, such a  *)
(* router has nothing left on a border leaf either, although a repeated    *)
(* removal looks up identifiers that the dead one may have released        *)
(* already.                                                                *)
LeavesCleaned ==
    UnrefusedInTurn => \A r \in Routers :
        Settled(r) /\ gw[r] = None /\ life[r] # "failed" =>
            \A x \in conf \cup route : x.router # r

(* As long as requests follow one another and AFC refuses nothing, a VLAN  *)
(* of a border leaf leads to one router: no two have a configuration there *)
(* under the same VLAN, not even while one is leaving or has died leaving, *)
(* and the other is taking over the identifier.                            *)
NoSharedVlan ==
    UnrefusedInTurn => \A c, d \in conf :
        c.leaf = d.leaf /\ c.vlan = d.vlan => c.router = d.router

(* "Allocations one l2 vni to VRouter" (l2_vni_manager.py:102) and the     *)
(* VLAN of a leaf: a router owns no second one, however its creations and  *)
(* its additions of a gateway fail half way (Orderly).                     *)
(* utils.get_l2_vni_by_route_id and the release operations take the first  *)
(* row they find.                                                          *)
AtMostOneEach ==
    Orderly => \A r \in Routers :
        /\ \A i, j \in HeldBy(l2tab, r) : i = j
        /\ \A leaf \in Leaves : \A u, v \in HeldBy(vlantab[leaf], r) : u = v

(* A VLAN or L2 VNI is taken from a router only by a request for that      *)
(* router -- or overwritten by an overlapping request that picked the same *)
(* identifier, but never made free by one, nor by a restart.               *)
FreedOnlyByItsRouter ==
    [][\A r \in Routers :
          /\ (\E i \in HeldBy(l2tab, r) :
                 i \notin DOMAIN l2tab' \/ l2tab'[i] = Free)
                => \E w \in Workers : at[w].r = r
          /\ (\E leaf \in Leaves : \E v \in HeldBy(vlantab[leaf], r) :
                 v \notin DOMAIN vlantab'[leaf] \/ vlantab'[leaf][v] = Free)
                => \E w \in Workers : at[w].r = r]_vars

(* As long as requests follow one another, the L2 VNIs, whatever part of   *)
(* them is configured, and the VLANs of each leaf, whose user is the       *)
(* router on that leaf, form identifier pools: one owner each, owned until *)
(* given up.  (With overlapping requests nothing is claimed: the mapping   *)
(* is constant.)                                                           *)
OneAtATime == Orderly /\ ~May("overlap")

L2Owner ==
    [i \in L2Vnis |->
        IF OneAtATime /\ i \in DOMAIN l2tab THEN l2tab[i] ELSE Free]

VlanOwner ==
    [x \in Leaves \X Vlans |->
        LET tab == vlantab[x[1]]
        IN  IF OneAtATime /\ x[2] \in DOMAIN tab \ FreeIds(tab)
            THEN <<x[1], tab[x[2]]>> ELSE Free]

L2Pool == INSTANCE IdPool WITH Ids <- L2Vnis, Users <- Routers, owner <- L2Owner

VlanPool == INSTANCE IdPool
    WITH Ids <- Leaves \X Vlans, Users <- Leaves \X Routers, owner <- VlanOwner

PoolsSpec == L2Pool!Spec /\ VlanPool!Spec

===============================================================================
