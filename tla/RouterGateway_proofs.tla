------------------------- MODULE RouterGateway_proofs -------------------------
(***************************************************************************)
(* Proofs about RouterGateway for any number of workers, routers, networks *)
(* and border leaves, and for pools of any size.                           *)
(***************************************************************************)
EXTENDS RouterGateway, AllocTable_proofs, FiniteSetTheorems

-------------------------------------------------------------------------------
(* The parts of the inductive invariant *)

AtLeaf == {"vlanWrite", "vlanLook", "sendConf", "sendRoute",
           "delRoute", "delConf", "delVlan"}

(* What a request carries at each point. *)
Carries(x) ==
    /\ x.pc = "idle" => x = Idle
    /\ x.pc # "idle" => x.r \in Routers
    /\ x.pc = "upDb" => x.op = "update"
    /\ x.pc = "delDb" => x.op = "delete"
    /\ x.pc \in Adding => x.op \in {"create", "update"}
    /\ x.pc \in Removing => x.op \in {"update", "delete"}
    /\ x.pc \in Adding \cup Removing => External(x.net)
    /\ x.pc = "l2Write" => x.id \in L2Vnis
    /\ x.pc \in AtLeaf => x.leaf \in Leaves
    /\ x.pc = "vlanWrite" => x.id \in Vlans
    /\ x.pc \in AtLeaf => x.id \in Vlans \cup {None}
    /\ x.pc = "upDb" => x.todo = {}
    /\ x.pc \in Adding \cup Removing => x.todo \subseteq Served(x.net)
    /\ x.pc \in AtLeaf => x.leaf \in Served(x.net) \ x.todo

RequestInv == \A w \in Workers : Carries(at[w])

TypeInv == TypeOK /\ RequestInv

OnePerRouter ==
    \A u, w \in Workers :
        at[u].pc # "idle" /\ at[w].pc # "idle" /\ at[u].r = at[w].r => u = w

(* Neutron's record of the router while a request for it runs. *)
NeutronInv ==
    \A w \in Workers : at[w].pc # "idle" =>
        /\ life[at[w].r] = "alive"
        /\ gw[at[w].r] = IF at[w].op = "update" /\ at[w].pc \in Removing
                         THEN None ELSE at[w].net

(* A request in the middle of removing the gateway that neutron no longer  *)
(* knows of.                                                               *)
Clearing(r) ==
    \E w \in Workers : at[w].r = r /\ at[w].op = "update" /\ at[w].pc \in Removing

NoVlan(leaf, r) == HeldBy(vlantab[leaf], r) = {}

(* A router without a gateway on a VXLAN of ours owns nothing, one with a  *)
(* gateway owns VLANs of the network's leaves only ...                     *)
RouterRows ==
    \A r \in Routers :
        /\ life[r] # "failed" /\ ~ External(gw[r]) /\ ~ Clearing(r) => NoRows(r)
        /\ External(gw[r]) => \A leaf \in Leaves \ Served(gw[r]) : NoVlan(leaf, r)

(* ... and what a request is about to allocate, or has released, the       *)
(* router does not own.                                                    *)
Rows(x) ==
    /\ x.pc \in {"l2Pick", "l2Write", "delDb"} => NoRows(x.r)
    /\ x.pc = "l2Look" => \A leaf \in Leaves : NoVlan(leaf, x.r)
    /\ x.pc \in Adding => \A leaf \in x.todo : NoVlan(leaf, x.r)
    /\ x.pc = "vlanWrite" => NoVlan(x.leaf, x.r)
    /\ x.pc = "delLook" => \A leaf \in Leaves \ Served(x.net) : NoVlan(leaf, x.r)
    /\ x.pc = "delLeaf" => \A leaf \in Leaves \ x.todo : NoVlan(leaf, x.r)
    /\ x.pc \in {"delRoute", "delConf", "delVlan"} =>
           \A leaf \in Leaves \ (x.todo \cup {x.leaf}) : NoVlan(leaf, x.r)

RequestRows == \A w \in Workers : Rows(at[w])

OneEach ==
    \A r \in Routers :
        /\ \A i, j \in HeldBy(l2tab, r) : i = j
        /\ \A leaf \in Leaves : \A u, v \in HeldBy(vlantab[leaf], r) : u = v

OrderInv ==
    Orderly => OnePerRouter /\ NeutronInv /\ RouterRows /\ RequestRows /\ OneEach

-------------------------------------------------------------------------------
(* ... for requests that follow one another *)

Alone == \A u, w \in Workers : at[u].pc # "idle" /\ at[w].pc # "idle" => u = w

(* What a request has chosen is still free, what it has written its own. *)
Chosen(x) ==
    /\ x.pc = "l2Write" => x.id \in FreeIds(l2tab)
    /\ x.pc = "l2Look" => HeldBy(l2tab, x.r) # {}
    /\ x.pc \in Adding \ {"l2Pick", "l2Write", "l2Look"} => x.vni \in HeldBy(l2tab, x.r)
    /\ x.pc = "vlanWrite" => x.id \in FreeIds(vlantab[x.leaf])
    /\ x.pc = "vlanLook" => HeldBy(vlantab[x.leaf], x.r) # {}
    /\ x.pc \in {"sendConf", "sendRoute"} => x.id \in HeldBy(vlantab[x.leaf], x.r)

ChosenInv == \A w \in Workers : Chosen(at[w])

PoolInv == OneAtATime => Alone /\ ChosenInv

(* What is configured uses identifiers of its router. *)
FabricOwned ==
    /\ \A x \in conf : /\ x.vni \in HeldBy(l2tab, x.router)
                       /\ x.vlan \in HeldBy(vlantab[x.leaf], x.router)
    /\ \A x \in route : x.vlan \in HeldBy(vlantab[x.leaf], x.router)

(* A removal finds what it has to delete. *)
Finds(x) ==
    /\ x.pc \in Removing \ {"delLook"} => x.vni \in Lookups(l2tab, x.r, None)
    /\ x.pc \in {"delRoute", "delConf"} => x.id \in Lookups(vlantab[x.leaf], x.r, None)
    /\ x.pc \in {"delConf", "delVlan"} =>
           \A y \in route : ~ (y.leaf = x.leaf /\ y.router = x.r)
    /\ x.pc = "delVlan" => \A y \in conf : ~ (y.leaf = x.leaf /\ y.router = x.r)

RemovalInv == \A w \in Workers : Finds(at[w])

FabricInv == UnrefusedInTurn => FabricOwned /\ RemovalInv

-------------------------------------------------------------------------------
(* ... and for those of which none fails *)

(* Every configured identifier has a row. *)
Configured == Orderly =>
    /\ l2range \subseteq DOMAIN l2tab
    /\ \A leaf \in Leaves : setup.vlans \subseteq DOMAIN vlantab[leaf]

Ready(leaf, r) ==
    \E i \in HeldBy(l2tab, r), v \in HeldBy(vlantab[leaf], r) :
        Config(leaf, r, i, v) \in conf /\ Route(leaf, r, v) \in route

(* The leaves a request has yet to set up, is setting up, or empties. *)
Missing(x) ==
    {leaf \in Leaves :
        \/ x.pc \in {"l2Pick", "l2Write", "l2Look", "delDb"} \cup Removing
        \/ x.pc \in Adding /\ leaf \in x.todo
        \/ x.pc \in Adding \cap AtLeaf /\ leaf = x.leaf}

(* A request sends the route of a leaf it has configured, and the leaves   *)
(* that serve a router's network are ready or a request is at them.        *)
Sent == \A w \in Workers : at[w].pc = "sendRoute" => ConfigOf(w) \in conf

AllReady ==
    \A r \in Routers : External(gw[r]) /\ gw[r] \notin Ipv6 =>
        \A leaf \in Served(gw[r]) :
            Ready(leaf, r) \/ \E w \in Workers : at[w].r = r /\ leaf \in Missing(at[w])

ReadyInv == Undisturbed /\ Plenty => Sent /\ AllReady

-------------------------------------------------------------------------------
(* The steps of a worker *)

Act(w) == Request(w) \/ AddGateway(w) \/ RemoveGateway(w) \/ Crash(w)

LEMMA NextCases ==
    ASSUME [Next]_vars
    PROVE  \/ \E w \in Workers : Act(w)
           \/ \E range \in setup.ranges : Restart(range)
           \/ UNCHANGED vars
BY DEF Next, Act

(* What a worker's step changes. *)
LEMMA ActFrame ==
    ASSUME NEW w \in Workers, Act(w)
    PROVE  /\ UNCHANGED <<setup, l2range>>
           /\ l2tab' = l2tab \/ WriteL2Vni(w) \/ ReleaseL2Vni(w)
           /\ vlantab' = vlantab \/ WriteVlan(w) \/ ReleaseVlan(w)
           /\ conf' = conf \/ SendConfig(w) \/ DeleteConfig(w)
           /\ route' = route \/ SendRoute(w) \/ DeleteRoute(w)
BY DEF Act, Request, ReadRouter, CreateRouter, UpdateRouter, RequestRaises, DeleteRouter,
       AddGateway, PickL2Vni, WriteL2Vni, LookUpL2Vni, PickVlan, WriteVlan, LookUpVlan,
       SendConfig, SendRoute, AddFails, AddDone, RemoveGateway, LookUpForDelete,
       LookUpLeaf, DeleteRoute, DeleteConfig, ReleaseVlan, ReleaseL2Vni, RemovalRaises,
       Crash,
       neutron, config, fabric

LEMMA NeutronFrame ==
    ASSUME NEW w \in Workers, Act(w)
    PROVE  \/ UNCHANGED <<life, gw>>
           \/ \E r \in Routers, net \in setup.nets \cup {None} : CreateRouter(w, r, net)
           \/ \E net \in setup.nets \cup {None} : UpdateRouter(w, net)
           \/ DeleteRouter(w)
           \/ AddFails(w)
BY DEF Act, Request, ReadRouter, RequestRaises, AddGateway, PickL2Vni, WriteL2Vni,
       LookUpL2Vni, PickVlan, WriteVlan, LookUpVlan, SendConfig, SendRoute, AddDone,
       RemoveGateway, LookUpForDelete, LookUpLeaf, DeleteRoute, DeleteConfig,
       ReleaseVlan, ReleaseL2Vni, RemovalRaises,
       Crash, neutron, config, fabric

Fresh(op, r, net, point) ==
    [Idle EXCEPT !.pc = point, !.op = op, !.r = r, !.net = net]

LEMMA FreshFields ==
    ASSUME NEW op, NEW r, NEW net, NEW point
    PROVE  LET x == Fresh(op, r, net, point)
           IN  /\ x.pc = point /\ x.op = op /\ x.r = r /\ x.net = net
               /\ x.todo = {} /\ x.leaf = None /\ x.vni = None /\ x.id = None
BY DEF Fresh, Idle

(* The steps that lead to a point, and what the request carries there. *)
Arrival(w, x, y) ==
    /\ y.pc \in {"idle", "upDb", "delDb"} \cup Adding \cup Removing
    /\ y.pc = "idle" => y = Idle
    /\ y.pc = "upDb" =>
          \E r \in Routers : ReadRouter(w, r) /\ y = Fresh("update", r, gw[r], "upDb")
    /\ y.pc = "delDb" =>
          \/ \E r \in Routers : /\ ReadRouter(w, r) /\ ~ External(gw[r])
                                /\ y = Fresh("delete", r, gw[r], "delDb")
          \/ /\ ReleaseL2Vni(w) \/ RemovalRaises(w)
             /\ x.op = "delete" /\ y = [x EXCEPT !.pc = "delDb"]
    /\ y.pc = "l2Pick" =>
          \E net \in setup.nets : External(net) /\
             \/ \E r \in Routers : /\ CreateRouter(w, r, net)
                                   /\ y = Fresh("create", r, net, "l2Pick")
             \/ /\ UpdateRouter(w, net) /\ x.net = None
                /\ y = [x EXCEPT !.pc = "l2Pick", !.net = net]
    /\ y.pc = "l2Write" =>
          \E i \in FreeIds(l2tab) :
             PickL2Vni(w) /\ y = [x EXCEPT !.pc = "l2Write", !.id = i]
    /\ y.pc = "l2Look" => WriteL2Vni(w) /\ y = [x EXCEPT !.pc = "l2Look"]
    /\ y.pc = "addLeaf" =>
          \/ /\ LookUpL2Vni(w)
             /\ \E i \in Lookups(l2tab, x.r, None) :
                   y = [x EXCEPT !.pc = "addLeaf", !.vni = i, !.todo = Served(x.net)]
          \/ SendRoute(w) /\ y = [x EXCEPT !.pc = "addLeaf"]
    /\ y.pc = "vlanWrite" =>
          \E leaf \in x.todo \cap Leaves : \E v \in FreeIds(vlantab[leaf]) :
             /\ PickVlan(w, leaf)
             /\ y = [x EXCEPT !.pc = "vlanWrite", !.leaf = leaf, !.id = v,
                              !.todo = @ \ {leaf}]
    /\ y.pc = "vlanLook" => WriteVlan(w) /\ y = [x EXCEPT !.pc = "vlanLook"]
    /\ y.pc = "sendConf" =>
          \E v \in Lookups(vlantab[x.leaf], x.r, None) :
             LookUpVlan(w) /\ y = [x EXCEPT !.pc = "sendConf", !.id = v]
    /\ y.pc = "sendRoute" => SendConfig(w) /\ y = [x EXCEPT !.pc = "sendRoute"]
    /\ y.pc = "delLook" =>
          \/ \E r \in Routers : /\ ReadRouter(w, r) /\ External(gw[r])
                                /\ y = Fresh("delete", r, gw[r], "delLook")
          \/ UpdateRouter(w, None) /\ External(x.net) /\ y = [x EXCEPT !.pc = "delLook"]
    /\ y.pc = "delLeaf" =>
          \/ /\ LookUpForDelete(w)
             /\ \E i \in Lookups(l2tab, x.r, None) :
                   y = [x EXCEPT !.pc = "delLeaf", !.vni = i, !.todo = Served(x.net)]
          \/ ReleaseVlan(w) /\ y = [x EXCEPT !.pc = "delLeaf"]
    /\ y.pc = "delRoute" =>
          \E leaf \in x.todo \cap Leaves : \E v \in Lookups(vlantab[leaf], x.r, None) :
             /\ LookUpLeaf(w, leaf)
             /\ y = [x EXCEPT !.pc = "delRoute", !.leaf = leaf, !.id = v,
                              !.todo = @ \ {leaf}]
    /\ y.pc = "delConf" => DeleteRoute(w) /\ y = [x EXCEPT !.pc = "delConf"]
    /\ y.pc = "delVlan" => DeleteConfig(w) /\ y = [x EXCEPT !.pc = "delVlan"]

LEMMA RequestArrives ==
    ASSUME TypeInv, NEW w \in Workers, Request(w)
    PROVE  /\ \A u \in Workers \ {w} : at'[u] = at[u]
           /\ Arrival(w, at[w], at'[w])
<1> USE DEF TypeInv, TypeOK, Begin, Step, Answer, Adding, Removing
<1> Idle.pc = "idle"
  BY DEF Idle
<1>1. ASSUME NEW r \in Routers, ReadRouter(w, r)
      PROVE  /\ \A u \in Workers \ {w} : at'[u] = at[u]
             /\ \/ at'[w] = Fresh("update", r, gw[r], "upDb")
                \/ at'[w] = Fresh("delete", r, gw[r], "delLook") /\ External(gw[r])
                \/ at'[w] = Fresh("delete", r, gw[r], "delDb") /\ ~ External(gw[r])
  BY <1>1 DEF ReadRouter, Fresh
<1>2. ASSUME NEW r \in Routers, NEW net \in setup.nets \cup {None},
             CreateRouter(w, r, net)
      PROVE  /\ \A u \in Workers \ {w} : at'[u] = at[u]
             /\ \/ at'[w] = at[w] /\ at[w] = Idle
                \/ at'[w] = Fresh("create", r, net, "l2Pick") /\ External(net)
  BY <1>2 DEF CreateRouter, MayStart, Fresh, RequestInv, Carries
<1>3. ASSUME NEW net \in setup.nets \cup {None}, UpdateRouter(w, net)
      PROVE  /\ \A u \in Workers \ {w} : at'[u] = at[u]
             /\ \/ at'[w] = Idle
                \/ /\ at'[w] = [at[w] EXCEPT !.pc = "delLook"]
                   /\ External(at[w].net) /\ net = None
                \/ /\ at'[w] = [at[w] EXCEPT !.pc = "l2Pick", !.net = net]
                   /\ External(net) /\ at[w].net = None
  BY <1>3 DEF UpdateRouter
<1>4. ASSUME RequestRaises(w) \/ DeleteRouter(w)
      PROVE  (\A u \in Workers \ {w} : at'[u] = at[u]) /\ at'[w] = Idle
  BY <1>4 DEF RequestRaises, DeleteRouter
<1>5. None \notin Nets
  BY RouterGatewayAssumption
<1>6. CASE \E r \in Routers : ReadRouter(w, r)
  <2>1. PICK r \in Routers : ReadRouter(w, r)
    BY <1>6
  <2>2. CASE at'[w] = Fresh("update", r, gw[r], "upDb")
    <3>1. at'[w].pc = "upDb"
      BY <2>2, FreshFields
    <3>2. QED
      BY <1>1, <2>1, <2>2, <3>1 DEF Arrival
  <2>3. CASE at'[w] = Fresh("delete", r, gw[r], "delLook") /\ External(gw[r])
    <3>1. at'[w].pc = "delLook"
      BY <2>3, FreshFields
    <3>2. QED
      BY <1>1, <2>1, <2>3, <3>1 DEF Arrival
  <2>4. CASE at'[w] = Fresh("delete", r, gw[r], "delDb") /\ ~ External(gw[r])
    <3>1. at'[w].pc = "delDb"
      BY <2>4, FreshFields
    <3>2. QED
      BY <1>1, <2>1, <2>4, <3>1 DEF Arrival
  <2>5. QED
    BY <1>1, <2>1, <2>2, <2>3, <2>4
<1>7. CASE \E r \in Routers, net \in setup.nets \cup {None} : CreateRouter(w, r, net)
  <2>1. PICK r \in Routers, net \in setup.nets \cup {None} : CreateRouter(w, r, net)
    BY <1>7
  <2>2. CASE at'[w] = Idle
    BY <1>2, <2>1, <2>2 DEF Arrival
  <2>3. CASE at'[w] = Fresh("create", r, net, "l2Pick") /\ External(net)
    <3>1. at'[w].pc = "l2Pick" /\ net \in setup.nets
      BY <1>5, <2>3, FreshFields DEF External
    <3>2. QED
      BY <1>2, <2>1, <2>3, <3>1 DEF Arrival
  <2>4. QED
    BY <1>2, <2>1, <2>2, <2>3
<1>8. CASE \E net \in setup.nets \cup {None} : UpdateRouter(w, net)
  <2>1. PICK net \in setup.nets \cup {None} : UpdateRouter(w, net)
    BY <1>8
  <2>2. CASE at'[w] = Idle
    BY <1>3, <2>1, <2>2 DEF Arrival
  <2>3. CASE at'[w] = [at[w] EXCEPT !.pc = "delLook"]
    <3>1. at'[w].pc = "delLook"
      BY <2>3
    <3>2. CASE External(at[w].net) /\ net = None
      BY <1>3, <2>1, <2>3, <3>1, <3>2 DEF Arrival
    <3>3. at'[w] # Idle /\ at'[w].pc # "l2Pick"
      BY <3>1
    <3>4. CASE at'[w] = [at[w] EXCEPT !.pc = "l2Pick", !.net = net]
      <4>1. at'[w].pc = "l2Pick"
        BY <3>4
      <4>2. QED
        BY <4>1, <3>3
    <3>5. QED
      BY <1>3, <2>1, <3>2, <3>3, <3>4
  <2>4. CASE /\ at'[w] = [at[w] EXCEPT !.pc = "l2Pick", !.net = net]
             /\ External(net) /\ at[w].net = None
    <3>1. at'[w].pc = "l2Pick" /\ net \in setup.nets
      BY <1>5, <2>4 DEF External
    <3>2. QED
      BY <1>3, <2>1, <2>4, <3>1 DEF Arrival
  <2>5. QED
    BY <1>3, <2>1, <2>2, <2>3, <2>4
<1>9. CASE RequestRaises(w) \/ DeleteRouter(w)
  BY <1>4, <1>9 DEF Arrival
<1>10. QED
  BY <1>6, <1>7, <1>8, <1>9 DEF Request

LEMMA AddArrives ==
    ASSUME TypeInv, NEW w \in Workers, AddGateway(w)
    PROVE  /\ \A u \in Workers \ {w} : at'[u] = at[u]
           /\ Arrival(w, at[w], at'[w])
<1> USE DEF TypeInv, TypeOK, Step, Answer, TakeLeaf, Adding, Removing
<1> Idle.pc = "idle"
  BY DEF Idle
<1> at[w] \in Requests
  OBVIOUS
<1>1. CASE PickL2Vni(w)
  <2>1. PICK i \in FreeIds(l2tab) : at' = [at EXCEPT ![w].pc = "l2Write", ![w].id = i]
    BY <1>1 DEF PickL2Vni
  <2>2. at'[w] = [at[w] EXCEPT !.pc = "l2Write", !.id = i] /\ at'[w].pc = "l2Write"
    BY <2>1 DEF Requests
  <2>3. QED
    BY <1>1, <2>1, <2>2 DEF Arrival
<1>2. CASE WriteL2Vni(w)
  <2>1. at'[w] = [at[w] EXCEPT !.pc = "l2Look"] /\ at'[w].pc = "l2Look"
    BY <1>2 DEF WriteL2Vni, Requests
  <2>2. QED
    BY <1>2, <2>1 DEF WriteL2Vni, Arrival
<1>3. CASE LookUpL2Vni(w)
  <2>1. PICK i \in Lookups(l2tab, at[w].r, None) :
           at' = [at EXCEPT ![w].pc = "addLeaf", ![w].vni = i,
                            ![w].todo = Served(at[w].net)]
    BY <1>3 DEF LookUpL2Vni
  <2>2. /\ at'[w] = [at[w] EXCEPT !.pc = "addLeaf", !.vni = i,
                                  !.todo = Served(at[w].net)]
        /\ at'[w].pc = "addLeaf"
    BY <2>1 DEF Requests
  <2>3. QED
    BY <1>3, <2>1, <2>2 DEF Arrival
<1>4. CASE \E leaf \in Leaves : PickVlan(w, leaf)
  <2>1. PICK leaf \in Leaves : PickVlan(w, leaf)
    BY <1>4
  <2>2. PICK v \in FreeIds(vlantab[leaf]) : TakeLeaf(w, leaf, v, "vlanWrite")
    BY <2>1 DEF PickVlan
  <2>3. leaf \in at[w].todo
    BY <2>1 DEF PickVlan
  <2>4. /\ at'[w] = [at[w] EXCEPT !.pc = "vlanWrite", !.leaf = leaf, !.id = v,
                                  !.todo = @ \ {leaf}]
        /\ at'[w].pc = "vlanWrite"
    BY <2>2 DEF Requests
  <2>5. QED
    BY <2>1, <2>2, <2>3, <2>4 DEF Arrival
<1>5. CASE WriteVlan(w)
  <2>1. at'[w] = [at[w] EXCEPT !.pc = "vlanLook"] /\ at'[w].pc = "vlanLook"
    BY <1>5 DEF WriteVlan, Requests
  <2>2. QED
    BY <1>5, <2>1 DEF WriteVlan, Arrival
<1>6. CASE LookUpVlan(w)
  <2>1. PICK v \in Lookups(vlantab[at[w].leaf], at[w].r, None) :
           at' = [at EXCEPT ![w].pc = "sendConf", ![w].id = v]
    BY <1>6 DEF LookUpVlan
  <2>2. at'[w] = [at[w] EXCEPT !.pc = "sendConf", !.id = v] /\ at'[w].pc = "sendConf"
    BY <2>1 DEF Requests
  <2>3. QED
    BY <1>6, <2>1, <2>2 DEF Arrival
<1>7. CASE SendConfig(w)
  <2>1. at'[w] = [at[w] EXCEPT !.pc = "sendRoute"] /\ at'[w].pc = "sendRoute"
    BY <1>7 DEF SendConfig, Requests
  <2>2. QED
    BY <1>7, <2>1 DEF SendConfig, Arrival
<1>8. CASE SendRoute(w)
  <2>1. at'[w] = [at[w] EXCEPT !.pc = "addLeaf"] /\ at'[w].pc = "addLeaf"
    BY <1>8 DEF SendRoute, Requests
  <2>2. QED
    BY <1>8, <2>1 DEF SendRoute, Arrival
<1>9. CASE AddFails(w) \/ AddDone(w)
  <2>1. (\A u \in Workers \ {w} : at'[u] = at[u]) /\ at'[w] = Idle
    BY <1>9 DEF AddFails, AddDone
  <2>2. QED
    BY <2>1 DEF Arrival
<1>10. QED
  BY <1>1, <1>2, <1>3, <1>4, <1>5, <1>6, <1>7, <1>8, <1>9 DEF AddGateway

LEMMA RemoveArrives ==
    ASSUME TypeInv, NEW w \in Workers, RemoveGateway(w)
    PROVE  /\ \A u \in Workers \ {w} : at'[u] = at[u]
           /\ Arrival(w, at[w], at'[w])
<1> USE DEF TypeInv, TypeOK, Step, Answer, TakeLeaf, Adding, Removing
<1> Idle.pc = "idle"
  BY DEF Idle
<1> at[w] \in Requests
  OBVIOUS
<1>1. CASE LookUpForDelete(w)
  <2>1. PICK i \in Lookups(l2tab, at[w].r, None) :
           at' = [at EXCEPT ![w].pc = "delLeaf", ![w].vni = i,
                            ![w].todo = Served(at[w].net)]
    BY <1>1 DEF LookUpForDelete
  <2>2. /\ at'[w] = [at[w] EXCEPT !.pc = "delLeaf", !.vni = i,
                                  !.todo = Served(at[w].net)]
        /\ at'[w].pc = "delLeaf"
    BY <2>1 DEF Requests
  <2>3. QED
    BY <1>1, <2>1, <2>2 DEF Arrival
<1>2. CASE \E leaf \in Leaves : LookUpLeaf(w, leaf)
  <2>1. PICK leaf \in Leaves : LookUpLeaf(w, leaf)
    BY <1>2
  <2>2. PICK v \in Lookups(vlantab[leaf], at[w].r, None) :
           TakeLeaf(w, leaf, v, "delRoute")
    BY <2>1 DEF LookUpLeaf
  <2>3. leaf \in at[w].todo
    BY <2>1 DEF LookUpLeaf
  <2>4. /\ at'[w] = [at[w] EXCEPT !.pc = "delRoute", !.leaf = leaf, !.id = v,
                                  !.todo = @ \ {leaf}]
        /\ at'[w].pc = "delRoute"
    BY <2>2 DEF Requests
  <2>5. QED
    BY <2>1, <2>2, <2>3, <2>4 DEF Arrival
<1>3. CASE DeleteRoute(w)
  <2>1. at'[w] = [at[w] EXCEPT !.pc = "delConf"] /\ at'[w].pc = "delConf"
    BY <1>3 DEF DeleteRoute, Requests
  <2>2. QED
    BY <1>3, <2>1 DEF DeleteRoute, Arrival
<1>4. CASE DeleteConfig(w)
  <2>1. at'[w] = [at[w] EXCEPT !.pc = "delVlan"] /\ at'[w].pc = "delVlan"
    BY <1>4 DEF DeleteConfig, Requests
  <2>2. QED
    BY <1>4, <2>1 DEF DeleteConfig, Arrival
<1>5. CASE ReleaseVlan(w)
  <2>1. at'[w] = [at[w] EXCEPT !.pc = "delLeaf"] /\ at'[w].pc = "delLeaf"
    BY <1>5 DEF ReleaseVlan, Requests
  <2>2. QED
    BY <1>5, <2>1 DEF ReleaseVlan, Arrival
<1>6. CASE ReleaseL2Vni(w)
  <2>1. CASE at[w].op = "delete"
    <3>1. at'[w] = [at[w] EXCEPT !.pc = "delDb"] /\ at'[w].pc = "delDb"
      BY <1>6, <2>1 DEF ReleaseL2Vni, Requests
    <3>2. QED
      BY <1>6, <2>1, <3>1 DEF ReleaseL2Vni, Arrival
  <2>2. CASE at[w].op # "delete"
    <3>1. (\A u \in Workers \ {w} : at'[u] = at[u]) /\ at'[w] = Idle
      BY <1>6, <2>2 DEF ReleaseL2Vni
    <3>2. QED
      BY <3>1 DEF Arrival
  <2>3. QED
    BY <2>1, <2>2
<1>7. CASE RemovalRaises(w)
  <2>1. CASE at[w].op = "delete"
    <3>1. at'[w] = [at[w] EXCEPT !.pc = "delDb"] /\ at'[w].pc = "delDb"
      BY <1>7, <2>1 DEF RemovalRaises, Requests
    <3>2. QED
      BY <1>7, <2>1, <3>1 DEF RemovalRaises, Arrival
  <2>2. CASE at[w].op # "delete"
    <3>1. (\A u \in Workers \ {w} : at'[u] = at[u]) /\ at'[w] = Idle
      BY <1>7, <2>2 DEF RemovalRaises
    <3>2. QED
      BY <3>1 DEF Arrival
  <2>3. QED
    BY <2>1, <2>2
<1>8. QED
  BY <1>1, <1>2, <1>3, <1>4, <1>5, <1>6, <1>7 DEF RemoveGateway

LEMMA Arrives ==
    ASSUME TypeInv, NEW w \in Workers, Act(w)
    PROVE  /\ \A u \in Workers \ {w} : at'[u] = at[u]
           /\ Arrival(w, at[w], at'[w])
<1>1. CASE Crash(w)
  <2>1. (\A u \in Workers \ {w} : at'[u] = at[u]) /\ at'[w] = Idle
    BY <1>1 DEF TypeInv, TypeOK, Crash, Answer
  <2>2. Idle.pc = "idle"
    BY DEF Idle
  <2>3. QED
    BY <2>1, <2>2 DEF Arrival
<1>2. QED
  BY <1>1, RequestArrives, AddArrives, RemoveArrives DEF Act

-------------------------------------------------------------------------------
(* Every request and table stays what its type says *)

LEMMA TableReads ==
    ASSUME NEW ids, NEW tab \in Tables(ids), NEW r
    PROVE  /\ FreeIds(tab) \subseteq ids
           /\ HeldBy(tab, r) \subseteq ids
           /\ Lookups(tab, r, None) \subseteq ids \cup {None}
BY TableIsFunction DEF FreeIds, HeldBy, Lookups

LEMMA FreshCarries ==
    ASSUME NEW op \in {"create", "update", "delete"}, NEW r \in Routers,
           NEW net \in Nets \cup {None},
           NEW point \in {"upDb", "delDb", "delLook", "l2Pick"},
           point = "upDb" => op = "update",
           point = "delDb" => op = "delete",
           point = "l2Pick" => op = "create" /\ External(net),
           point = "delLook" => op = "delete" /\ External(net)
    PROVE  Fresh(op, r, net, point) \in Requests /\ Carries(Fresh(op, r, net, point))
BY DEF Fresh, Idle, Requests, Carries, Adding, Removing, AtLeaf

LEMMA IdleCarries == Idle \in Requests /\ Carries(Idle)
BY DEF Idle, Requests, Carries, Adding, Removing, AtLeaf

LEMMA ArrivalCarries ==
    ASSUME TypeInv, NEW w \in Workers, NEW x, NEW y, x = at[w], Arrival(w, x, y)
    PROVE  y \in Requests /\ Carries(y)
<1>1. Arrival(w, x, y) /\ x = at[w]
  OBVIOUS
<1>2. x \in Requests /\ Carries(x)
  BY DEF TypeInv, TypeOK, RequestInv
<1>3. setup \in Deployments /\ l2tab \in Tables(L2Vnis) /\ gw \in [Routers -> Nets \cup {None}]
  BY RouterGatewayAssumption DEF TypeInv, TypeOK
<1>4. \A leaf \in Leaves : vlantab[leaf] \in Tables(Vlans)
  BY DEF TypeInv, TypeOK
<1>5. \A net \in Nets : Served(net) \in SUBSET Leaves
  BY <1>3 DEF Served, Deployments
<1>6. setup.nets \subseteq Nets
  BY <1>3 DEF Deployments
<1>7. CASE y.pc \in {"idle", "upDb"}
  <2>1. CASE y.pc = "idle"
    BY <1>1, <2>1, IdleCarries DEF Arrival
  <2>2. CASE y.pc = "upDb"
    <3>1. PICK r \in Routers : y = Fresh("update", r, gw[r], "upDb")
      BY <1>1, <2>2 DEF Arrival
    <3>2. gw[r] \in Nets \cup {None}
      BY <1>3
    <3>3. QED
      BY <3>1, <3>2, FreshCarries
  <2>3. QED
    BY <1>7, <2>1, <2>2
<1>8. CASE y.pc = "delDb"
  <2>1. CASE \E r \in Routers : y = Fresh("delete", r, gw[r], "delDb")
    BY <1>3, <2>1, FreshCarries
  <2>2. CASE /\ x.op = "delete" /\ y = [x EXCEPT !.pc = "delDb"]
             /\ ReleaseL2Vni(w) \/ RemovalRaises(w)
    <3>1. x.pc \in {"delLook", "delLeaf", "delVlan"}
      BY <1>1, <2>2 DEF ReleaseL2Vni, RemovalRaises
    <3>2. QED
      BY <1>2, <2>2, <3>1 DEF Requests, Carries, Adding, Removing, AtLeaf
  <2>3. QED
    BY <1>1, <1>8, <2>1, <2>2 DEF Arrival
<1>9. CASE y.pc = "l2Pick"
  <2>1. PICK net \in setup.nets :
           External(net) /\
             \/ \E r \in Routers : y = Fresh("create", r, net, "l2Pick")
             \/ /\ UpdateRouter(w, net) /\ y = [x EXCEPT !.pc = "l2Pick", !.net = net]
    BY <1>1, <1>9 DEF Arrival
  <2>2. CASE \E r \in Routers : y = Fresh("create", r, net, "l2Pick")
    BY <1>6, <2>1, <2>2, FreshCarries
  <2>3. CASE UpdateRouter(w, net) /\ y = [x EXCEPT !.pc = "l2Pick", !.net = net]
    <3>1. x.pc = "upDb"
      BY <1>1, <2>3 DEF UpdateRouter
    <3>2. QED
      BY <1>2, <1>6, <2>1, <2>3, <3>1 DEF Requests, Carries, Adding, Removing, AtLeaf
  <2>4. QED
    BY <2>1, <2>2, <2>3
<1>10. CASE y.pc = "l2Write"
  <2>1. PICK i \in FreeIds(l2tab) :
           PickL2Vni(w) /\ y = [x EXCEPT !.pc = "l2Write", !.id = i]
    BY <1>1, <1>10 DEF Arrival
  <2>2. x.pc = "l2Pick" /\ i \in L2Vnis
    BY <1>1, <1>3, <2>1, TableReads DEF PickL2Vni
  <2>3. QED
    BY <1>2, <2>1, <2>2 DEF Requests, Carries, Adding, Removing, AtLeaf
<1>11. CASE y.pc = "l2Look"
  <2>1. x.pc = "l2Write" /\ y = [x EXCEPT !.pc = "l2Look"]
    BY <1>1, <1>11 DEF Arrival, WriteL2Vni
  <2>2. QED
    BY <1>2, <2>1 DEF Requests, Carries, Adding, Removing, AtLeaf
<1>12. CASE y.pc = "addLeaf"
  <2>1. CASE LookUpL2Vni(w) /\ \E i \in Lookups(l2tab, x.r, None) :
                y = [x EXCEPT !.pc = "addLeaf", !.vni = i, !.todo = Served(x.net)]
    <3>1. x.pc = "l2Look"
      BY <1>1, <2>1 DEF LookUpL2Vni
    <3>2. Served(x.net) \in SUBSET Leaves
      BY <1>2, <1>5, <3>1 DEF Carries, Adding, External
    <3>3. PICK i \in L2Vnis \cup {None} :
             y = [x EXCEPT !.pc = "addLeaf", !.vni = i, !.todo = Served(x.net)]
      <4>1. Lookups(l2tab, x.r, None) \subseteq L2Vnis \cup {None}
        BY <1>3, TableReads
      <4>2. QED
        BY <2>1, <4>1
    <3>4. QED
      BY <1>2, <3>1, <3>2, <3>3 DEF Requests, Carries, Adding, Removing, AtLeaf
  <2>2. CASE SendRoute(w) /\ y = [x EXCEPT !.pc = "addLeaf"]
    <3>1. x.pc = "sendRoute"
      BY <1>1, <2>2 DEF SendRoute
    <3>2. QED
      BY <1>2, <2>2, <3>1 DEF Requests, Carries, Adding, Removing, AtLeaf
  <2>3. QED
    BY <1>1, <1>12, <2>1, <2>2 DEF Arrival
<1>13. CASE y.pc = "vlanWrite"
  <2>1. PICK leaf \in x.todo \cap Leaves : \E v \in FreeIds(vlantab[leaf]) :
           /\ PickVlan(w, leaf)
           /\ y = [x EXCEPT !.pc = "vlanWrite", !.leaf = leaf, !.id = v,
                            !.todo = @ \ {leaf}]
    BY <1>1, <1>13 DEF Arrival
  <2>2. x.pc = "addLeaf"
    BY <1>1, <2>1 DEF PickVlan
  <2>3. PICK v \in Vlans :
           y = [x EXCEPT !.pc = "vlanWrite", !.leaf = leaf, !.id = v,
                         !.todo = @ \ {leaf}]
    BY <1>4, <2>1, TableReads
  <2>4. QED
    BY <1>2, <2>1, <2>2, <2>3 DEF Requests, Carries, Adding, Removing, AtLeaf
<1>14. CASE y.pc = "vlanLook"
  <2>1. x.pc = "vlanWrite" /\ y = [x EXCEPT !.pc = "vlanLook"]
    BY <1>1, <1>14 DEF Arrival, WriteVlan
  <2>2. QED
    BY <1>2, <2>1 DEF Requests, Carries, Adding, Removing, AtLeaf
<1>15. CASE y.pc = "sendConf"
  <2>1. PICK v \in Lookups(vlantab[x.leaf], x.r, None) :
           LookUpVlan(w) /\ y = [x EXCEPT !.pc = "sendConf", !.id = v]
    BY <1>1, <1>15 DEF Arrival
  <2>2. x.pc = "vlanLook"
    BY <1>1, <2>1 DEF LookUpVlan
  <2>3. v \in Vlans \cup {None}
    BY <1>2, <1>4, <2>1, <2>2, TableReads DEF Carries, AtLeaf
  <2>4. QED
    BY <1>2, <2>1, <2>2, <2>3 DEF Requests, Carries, Adding, Removing, AtLeaf
<1>16. CASE y.pc = "sendRoute"
  <2>1. x.pc = "sendConf" /\ y = [x EXCEPT !.pc = "sendRoute"]
    BY <1>1, <1>16 DEF Arrival, SendConfig
  <2>2. QED
    BY <1>2, <2>1 DEF Requests, Carries, Adding, Removing, AtLeaf
<1>17. CASE y.pc = "delLook"
  <2>1. CASE \E r \in Routers : External(gw[r]) /\ y = Fresh("delete", r, gw[r], "delLook")
    BY <1>3, <2>1, FreshCarries
  <2>2. CASE UpdateRouter(w, None) /\ External(x.net) /\ y = [x EXCEPT !.pc = "delLook"]
    <3>1. x.pc = "upDb"
      BY <1>1, <2>2 DEF UpdateRouter
    <3>2. QED
      BY <1>2, <2>2, <3>1 DEF Requests, Carries, Adding, Removing, AtLeaf
  <2>3. QED
    BY <1>1, <1>17, <2>1, <2>2 DEF Arrival
<1>18. CASE y.pc = "delLeaf"
  <2>1. CASE LookUpForDelete(w) /\ \E i \in Lookups(l2tab, x.r, None) :
                y = [x EXCEPT !.pc = "delLeaf", !.vni = i, !.todo = Served(x.net)]
    <3>1. x.pc = "delLook"
      BY <1>1, <2>1 DEF LookUpForDelete
    <3>2. Served(x.net) \in SUBSET Leaves
      BY <1>2, <1>5, <3>1 DEF Carries, Removing, External
    <3>3. PICK i \in L2Vnis \cup {None} :
             y = [x EXCEPT !.pc = "delLeaf", !.vni = i, !.todo = Served(x.net)]
      <4>1. Lookups(l2tab, x.r, None) \subseteq L2Vnis \cup {None}
        BY <1>3, TableReads
      <4>2. QED
        BY <2>1, <4>1
    <3>4. QED
      BY <1>2, <3>1, <3>2, <3>3 DEF Requests, Carries, Adding, Removing, AtLeaf
  <2>2. CASE ReleaseVlan(w) /\ y = [x EXCEPT !.pc = "delLeaf"]
    <3>1. x.pc = "delVlan"
      BY <1>1, <2>2 DEF ReleaseVlan
    <3>2. QED
      BY <1>2, <2>2, <3>1 DEF Requests, Carries, Adding, Removing, AtLeaf
  <2>3. QED
    BY <1>1, <1>18, <2>1, <2>2 DEF Arrival
<1>19. CASE y.pc = "delRoute"
  <2>1. PICK leaf \in x.todo \cap Leaves : \E v \in Lookups(vlantab[leaf], x.r, None) :
           /\ LookUpLeaf(w, leaf)
           /\ y = [x EXCEPT !.pc = "delRoute", !.leaf = leaf, !.id = v,
                            !.todo = @ \ {leaf}]
    BY <1>1, <1>19 DEF Arrival
  <2>2. x.pc = "delLeaf"
    BY <1>1, <2>1 DEF LookUpLeaf
  <2>3. PICK v \in Vlans \cup {None} :
           y = [x EXCEPT !.pc = "delRoute", !.leaf = leaf, !.id = v,
                         !.todo = @ \ {leaf}]
    BY <1>4, <2>1, TableReads
  <2>4. QED
    BY <1>2, <2>1, <2>2, <2>3 DEF Requests, Carries, Adding, Removing, AtLeaf
<1>20. CASE y.pc = "delConf"
  <2>1. x.pc = "delRoute" /\ y = [x EXCEPT !.pc = "delConf"]
    BY <1>1, <1>20 DEF Arrival, DeleteRoute
  <2>2. QED
    BY <1>2, <2>1 DEF Requests, Carries, Adding, Removing, AtLeaf
<1>21. CASE y.pc = "delVlan"
  <2>1. x.pc = "delConf" /\ y = [x EXCEPT !.pc = "delVlan"]
    BY <1>1, <1>21 DEF Arrival, DeleteConfig
  <2>2. QED
    BY <1>2, <2>1 DEF Requests, Carries, Adding, Removing, AtLeaf
<1>22. y.pc \in {"idle", "upDb", "delDb"} \cup Adding \cup Removing
  BY <1>1 DEF Arrival
<1>23. QED
  BY <1>7, <1>8, <1>9, <1>10, <1>11, <1>12, <1>13, <1>14, <1>15, <1>16, <1>17, <1>18,
     <1>19, <1>20, <1>21, <1>22 DEF Adding, Removing

LEMMA RequestStep ==
    ASSUME TypeInv, NEW w \in Workers, Act(w)
    PROVE  at'[w] \in Requests /\ Carries(at'[w])
BY Arrives, ArrivalCarries

(* No request changes another one's. *)
LEMMA OneMoves ==
    ASSUME TypeInv, NEW w \in Workers, Act(w)
    PROVE  at' = [at EXCEPT ![w] = at'[w]]
<1> USE DEF TypeInv, TypeOK, Begin, Step, Answer, TakeLeaf
<1>1. CASE Request(w)
  BY <1>1 DEF Request, ReadRouter, CreateRouter, UpdateRouter, RequestRaises, DeleteRouter
<1>2. CASE AddGateway(w)
  <2>1. CASE PickL2Vni(w) \/ WriteL2Vni(w) \/ LookUpL2Vni(w)
    BY <2>1 DEF PickL2Vni, WriteL2Vni, LookUpL2Vni
  <2>2. CASE \E leaf \in Leaves : PickVlan(w, leaf)
    BY <2>2 DEF PickVlan
  <2>3. CASE WriteVlan(w) \/ LookUpVlan(w) \/ SendConfig(w) \/ SendRoute(w)
    BY <2>3 DEF WriteVlan, LookUpVlan, SendConfig, SendRoute
  <2>4. CASE AddFails(w) \/ AddDone(w)
    BY <2>4 DEF AddFails, AddDone
  <2>5. QED
    BY <1>2, <2>1, <2>2, <2>3, <2>4 DEF AddGateway
<1>3. CASE RemoveGateway(w)
  <2>1. CASE LookUpForDelete(w)
    BY <2>1 DEF LookUpForDelete
  <2>2. CASE \E leaf \in Leaves : LookUpLeaf(w, leaf)
    BY <2>2 DEF LookUpLeaf
  <2>3. CASE DeleteRoute(w) \/ DeleteConfig(w) \/ ReleaseVlan(w) \/ ReleaseL2Vni(w)
             \/ RemovalRaises(w)
    BY <2>3 DEF DeleteRoute, DeleteConfig, ReleaseVlan, ReleaseL2Vni, RemovalRaises
  <2>4. QED
    BY <1>3, <2>1, <2>2, <2>3 DEF RemoveGateway
<1>4. CASE Crash(w)
  BY <1>4 DEF Crash
<1>5. QED
  BY <1>1, <1>2, <1>3, <1>4 DEF Act

LEMMA NeutronTypes ==
    ASSUME TypeInv, NEW w \in Workers, Act(w)
    PROVE  /\ life' \in [Routers -> {"absent", "alive", "deleted", "failed"}]
           /\ gw' \in [Routers -> Nets \cup {None}]
           /\ \A r \in Routers : gw'[r] # None => life'[r] = "alive"
<1> USE DEF TypeInv, TypeOK
<1>1. setup.nets \subseteq Nets
  BY RouterGatewayAssumption DEF Deployments
<1>2. CASE UNCHANGED <<life, gw>>
  BY <1>2
<1>3. CASE \E r \in Routers, net \in setup.nets \cup {None} : CreateRouter(w, r, net)
  BY <1>1, <1>3 DEF CreateRouter
<1>4. at[w].pc # "idle" => at[w].r \in Routers
  BY DEF RequestInv, Carries
<1>5. CASE \E net \in setup.nets \cup {None} : UpdateRouter(w, net)
  BY <1>1, <1>4, <1>5 DEF UpdateRouter
<1>6. CASE DeleteRouter(w)
  BY <1>4, <1>6 DEF DeleteRouter
<1>7. CASE AddFails(w)
  BY <1>4, <1>7 DEF AddFails
<1>8. QED
  BY <1>2, <1>3, <1>5, <1>6, <1>7, NeutronFrame

LEMMA FabricTypes ==
    ASSUME TypeInv, NEW w \in Workers, Act(w)
    PROVE  /\ conf' \subseteq [leaf: Leaves, router: Routers, vni: L2Vnis \cup {None},
                               vlan: Vlans \cup {None}]
           /\ route' \subseteq [leaf: Leaves, router: Routers, vlan: Vlans \cup {None}]
<1> USE DEF TypeInv, TypeOK
<1>1. at[w] \in Requests /\ Carries(at[w])
  BY DEF RequestInv
<1>2. CASE SendConfig(w)
  <2>1. /\ at[w].leaf \in Leaves /\ at[w].r \in Routers
        /\ at[w].vni \in L2Vnis \cup {None} /\ at[w].id \in Vlans \cup {None}
    BY <1>1, <1>2 DEF SendConfig, Carries, AtLeaf, Requests
  <2>2. QED
    BY <1>2, <2>1 DEF SendConfig, ConfigOf, Config
<1>3. CASE SendRoute(w)
  <2>1. /\ at[w].leaf \in Leaves /\ at[w].r \in Routers
        /\ at[w].id \in Vlans \cup {None}
    BY <1>1, <1>3 DEF SendRoute, Carries, AtLeaf, Requests
  <2>2. QED
    BY <1>3, <2>1 DEF SendRoute, RouteOf, Route
<1>4. conf' \subseteq conf \/ SendConfig(w)
  BY ActFrame DEF DeleteConfig
<1>5. route' \subseteq route \/ SendRoute(w)
  BY ActFrame DEF DeleteRoute
<1>6. SendConfig(w) => route' = route
  BY DEF SendConfig
<1>7. SendRoute(w) => conf' = conf
  BY DEF SendRoute
<1>8. QED
  BY <1>2, <1>3, <1>4, <1>5

LEMMA TableTypes ==
    ASSUME TypeInv, NEW w \in Workers, Act(w)
    PROVE  l2tab' \in Tables(L2Vnis) /\ vlantab' \in [Leaves -> Tables(Vlans)]
<1> USE DEF TypeInv, TypeOK
<1>1. at[w] \in Requests /\ Carries(at[w])
  BY DEF RequestInv
<1>2. CASE WriteL2Vni(w)
  <2>1. at[w].r \in Routers
    BY <1>1, <1>2 DEF WriteL2Vni, Carries
  <2>2. QED
    BY <1>2, <2>1, AssignedFacts DEF WriteL2Vni
<1>3. CASE ReleaseL2Vni(w)
  BY <1>3, ReleasedFacts DEF ReleaseL2Vni, neutron, config
<1>4. CASE WriteVlan(w)
  <2>1. at[w].r \in Routers /\ at[w].leaf \in Leaves
    BY <1>1, <1>4 DEF WriteVlan, Carries, AtLeaf
  <2>2. vlantab[at[w].leaf] \in Tables(Vlans)
    BY <2>1
  <2>3. Assigned(vlantab[at[w].leaf], at[w].id, at[w].r) \in Tables(Vlans)
    BY <2>1, <2>2, AssignedFacts
  <2>4. QED
    BY <1>4, <2>3 DEF WriteVlan
<1>5. CASE ReleaseVlan(w)
  <2>1. at[w].leaf \in Leaves
    BY <1>1, <1>5 DEF ReleaseVlan, Carries, AtLeaf
  <2>2. vlantab[at[w].leaf] \in Tables(Vlans)
    BY <2>1
  <2>3. \A t \in Released(vlantab[at[w].leaf], setup.vlans, {at[w].r}) :
           t \in Tables(Vlans)
    BY <2>2, ReleasedFacts
  <2>4. QED
    BY <1>5, <2>3 DEF ReleaseVlan
<1>6. QED
  BY <1>2, <1>3, <1>4, <1>5, ActFrame

LEMMA TypeStep ==
    ASSUME TypeInv, [Next]_vars
    PROVE  TypeInv'
<1>1. CASE UNCHANGED vars
  BY <1>1 DEF TypeInv, TypeOK, RequestInv, Carries, Served, vars
<1>2. CASE \E range \in setup.ranges : Restart(range)
  <2>1. PICK range \in setup.ranges : Restart(range)
    BY <1>2
  <2>2. range \in SUBSET L2Vnis
    BY <2>1, RouterGatewayAssumption DEF TypeInv, TypeOK, Deployments
  <2>3. l2tab' \in Tables(L2Vnis)
    BY <2>1, <2>2, SyncedFacts DEF TypeInv, TypeOK, Restart
  <2>4. QED
    BY <2>1, <2>3 DEF TypeInv, TypeOK, RequestInv, Carries, Served, Restart, fabric
<1>3. ASSUME NEW w \in Workers, Act(w)
      PROVE  TypeInv'
  <2>1. at'[w] \in Requests /\ Carries(at'[w]) /\ at' = [at EXCEPT ![w] = at'[w]]
    BY <1>3, RequestStep, OneMoves
  <2>2. at' \in [Workers -> Requests] /\ \A u \in Workers : Carries(at'[u])
    BY <2>1 DEF TypeInv, TypeOK, RequestInv
  <2>3. \A x \in Requests : Carries(x) => (x.pc = "idle" <=> x.r = None)
    BY RouterGatewayAssumption DEF Carries, Idle
  <2>4. \A u \in Workers : at'[u].pc = "idle" <=> at'[u].r = None
    BY <2>2, <2>3
  <2>5. setup' = setup /\ l2range' = l2range
    BY <1>3, ActFrame
  <2>6. RequestInv'
    BY <2>2, <2>5 DEF RequestInv, Carries, Served
  <2>7. QED
    BY <1>3, <2>2, <2>4, <2>5, <2>6, NeutronTypes, FabricTypes, TableTypes
       DEF TypeInv, TypeOK
<1>4. QED
  BY <1>1, <1>2, <1>3, NextCases

LEMMA TypeInit ==
    ASSUME Init
    PROVE  TypeInv
<1>1. setup \in Deployments
  BY RouterGatewayAssumption DEF Init
<1>2. EmptyTable \in Tables(L2Vnis) /\ EmptyTable \in Tables(Vlans)
  BY EmptyTableType
<1>3. l2tab \in Tables(L2Vnis)
  BY <1>1, <1>2, SyncedFacts DEF Init, Deployments
<1>4. Synced(EmptyTable, setup.vlans) \in Tables(Vlans)
  BY <1>1, <1>2, SyncedFacts DEF Deployments
<1>5. vlantab \in [Leaves -> Tables(Vlans)]
  BY <1>4 DEF Init
<1>6. at \in [Workers -> Requests] /\ RequestInv
  BY IdleCarries DEF Init, RequestInv
<1>7. \A w \in Workers : at[w].pc = "idle" <=> at[w].r = None
  BY DEF Init, Idle
<1>8. QED
  BY <1>3, <1>5, <1>6, <1>7 DEF Init, TypeInv, TypeOK

(* Requests carry the routers, networks, leaves and identifiers that the   *)
(* next step of theirs needs, and every table and configuration speaks of  *)
(* known ones only, however the requests interleave and fail.              *)
THEOREM TypeCorrect == Spec => []TypeOK
<1>1. Init => TypeInv
  BY TypeInit
<1>2. TypeInv /\ [Next]_vars => TypeInv'
  BY TypeStep
<1>3. TypeInv => TypeOK
  BY DEF TypeInv
<1>4. QED
  BY <1>1, <1>2, <1>3, PTL DEF Spec

-------------------------------------------------------------------------------
(* Rows change hands by way of their router only *)

(* What a worker's step does to the rows of a table: it may write one row  *)
(* of its router's, free rows of its router's, or leave the table alone.   *)
LEMMA L2Rows ==
    ASSUME TypeInv, NEW w \in Workers, Act(w)
    PROVE  \/ l2tab' = l2tab
           \/ /\ WriteL2Vni(w) /\ at[w].r \in Routers
              /\ DOMAIN l2tab' = DOMAIN l2tab
              /\ \A i \in DOMAIN l2tab :
                    l2tab'[i] = IF i = at[w].id THEN at[w].r ELSE l2tab[i]
           \/ /\ ReleaseL2Vni(w) /\ at[w].r \in Routers
              /\ \A i \in DOMAIN l2tab' :
                    i \in DOMAIN l2tab /\ l2tab'[i] \in {l2tab[i], Free}
              /\ \A i \in DOMAIN l2tab : l2tab[i] # at[w].r =>
                    i \in DOMAIN l2tab' /\ l2tab'[i] = l2tab[i]
<1> USE DEF TypeInv, TypeOK
<1>1. at[w].pc # "idle" => at[w].r \in Routers
  BY DEF RequestInv, Carries
<1>2. CASE WriteL2Vni(w)
  <2>1. at[w].r \in Routers /\ l2tab' = Assigned(l2tab, at[w].id, at[w].r)
    BY <1>1, <1>2 DEF WriteL2Vni
  <2>2. QED
    BY <1>2, <2>1, AssignedFacts
<1>3. CASE ReleaseL2Vni(w)
  <2>1. at[w].r \in Routers /\ l2tab' \in Released(l2tab, l2range, {at[w].r})
    BY <1>1, <1>3 DEF ReleaseL2Vni
  <2>2. QED
    BY <1>3, <2>1, ReleasedFacts
<1>4. QED
  BY <1>2, <1>3, ActFrame

LEMMA VlanRows ==
    ASSUME TypeInv, NEW w \in Workers, Act(w)
    PROVE  \/ vlantab' = vlantab
           \/ /\ WriteVlan(w) \/ ReleaseVlan(w)
              /\ at[w].r \in Routers /\ at[w].leaf \in Leaves
              /\ \A leaf \in Leaves \ {at[w].leaf} : vlantab'[leaf] = vlantab[leaf]
              /\ LET tab == vlantab[at[w].leaf]
                     new == vlantab'[at[w].leaf]
                 IN  \/ /\ WriteVlan(w)
                        /\ DOMAIN new = DOMAIN tab
                        /\ \A v \in DOMAIN tab :
                              new[v] = IF v = at[w].id THEN at[w].r ELSE tab[v]
                     \/ /\ ReleaseVlan(w)
                        /\ \A v \in DOMAIN new :
                              v \in DOMAIN tab /\ new[v] \in {tab[v], Free}
                        /\ \A v \in DOMAIN tab : tab[v] # at[w].r =>
                              v \in DOMAIN new /\ new[v] = tab[v]
<1> USE DEF TypeInv, TypeOK
<1>1. at[w].pc # "idle" => at[w].r \in Routers
  BY DEF RequestInv, Carries
<1>2. at[w].pc \in AtLeaf => at[w].leaf \in Leaves
  BY DEF RequestInv, Carries
<1> DEFINE tab == vlantab[at[w].leaf]
           new == vlantab'[at[w].leaf]
<1>3. CASE WriteVlan(w)
  <2>1. at[w].r \in Routers /\ at[w].leaf \in Leaves
    BY <1>1, <1>2, <1>3 DEF WriteVlan, AtLeaf
  <2>2. tab \in Tables(Vlans) /\ new = Assigned(tab, at[w].id, at[w].r)
    BY <1>3, <2>1 DEF WriteVlan
  <2>3. /\ DOMAIN new = DOMAIN tab
        /\ \A v \in DOMAIN tab : new[v] = IF v = at[w].id THEN at[w].r ELSE tab[v]
    BY <2>1, <2>2, AssignedFacts
  <2>4. \A leaf \in Leaves \ {at[w].leaf} : vlantab'[leaf] = vlantab[leaf]
    BY <1>3 DEF WriteVlan
  <2>5. QED
    BY <1>3, <2>1, <2>3, <2>4
<1>4. CASE ReleaseVlan(w)
  <2>1. at[w].r \in Routers /\ at[w].leaf \in Leaves
    BY <1>1, <1>2, <1>4 DEF ReleaseVlan, AtLeaf
  <2>2. tab \in Tables(Vlans) /\ new \in Released(tab, setup.vlans, {at[w].r})
    BY <1>4, <2>1 DEF ReleaseVlan
  <2>3. /\ \A v \in DOMAIN new : v \in DOMAIN tab /\ new[v] \in {tab[v], Free}
        /\ \A v \in DOMAIN tab : tab[v] # at[w].r => v \in DOMAIN new /\ new[v] = tab[v]
    BY <2>2, ReleasedFacts
  <2>4. \A leaf \in Leaves \ {at[w].leaf} : vlantab'[leaf] = vlantab[leaf]
    BY <1>4 DEF ReleaseVlan
  <2>5. QED
    BY <1>4, <2>1, <2>3, <2>4
<1>5. QED
  BY <1>3, <1>4, ActFrame

LEMMA RestartRows ==
    ASSUME TypeInv, NEW range \in setup.ranges, Restart(range)
    PROVE  /\ range \subseteq DOMAIN l2tab'
           /\ \A i \in DOMAIN l2tab : l2tab[i] # Free =>
                 i \in DOMAIN l2tab' /\ l2tab'[i] = l2tab[i]
           /\ \A i \in DOMAIN l2tab' : l2tab'[i] # Free =>
                 i \in DOMAIN l2tab /\ l2tab[i] = l2tab'[i]
<1>1. range \in SUBSET L2Vnis
  BY RouterGatewayAssumption DEF TypeInv, TypeOK, Deployments
<1>2. l2tab \in Tables(L2Vnis) /\ l2tab' = Synced(l2tab, range)
  BY DEF TypeInv, TypeOK, Restart
<1>3. QED
  BY <1>1, <1>2, SyncedFacts

LEMMA FreeingStep ==
    ASSUME TypeInv, Next, NEW r \in Routers
    PROVE  /\ (\E i \in HeldBy(l2tab, r) :
                  i \notin DOMAIN l2tab' \/ l2tab'[i] = Free)
                 => \E w \in Workers : at[w].r = r
           /\ (\E leaf \in Leaves : \E v \in HeldBy(vlantab[leaf], r) :
                  v \notin DOMAIN vlantab'[leaf] \/ vlantab'[leaf][v] = Free)
                 => \E w \in Workers : at[w].r = r
<1>1. r # Free
  BY FreeAssumption
<1>2. CASE \E range \in setup.ranges : Restart(range)
  <2>1. vlantab' = vlantab
    BY <1>2 DEF Restart
  <2>2. QED
    BY <1>1, <1>2, <2>1, RestartRows DEF HeldBy
<1>3. ASSUME NEW w \in Workers, Act(w), at[w].r # r
      PROVE  /\ \A i \in HeldBy(l2tab, r) : i \in DOMAIN l2tab' /\ l2tab'[i] # Free
             /\ \A leaf \in Leaves : \A v \in HeldBy(vlantab[leaf], r) :
                   v \in DOMAIN vlantab'[leaf] /\ vlantab'[leaf][v] # Free
  <2>1. \A i \in HeldBy(l2tab, r) : i \in DOMAIN l2tab' /\ l2tab'[i] # Free
    BY <1>1, <1>3, L2Rows, FreeAssumption DEF HeldBy
  <2>2. ASSUME NEW leaf \in Leaves, NEW v \in HeldBy(vlantab[leaf], r)
        PROVE  v \in DOMAIN vlantab'[leaf] /\ vlantab'[leaf][v] # Free
    BY <1>1, <1>3, <2>2, VlanRows, FreeAssumption DEF HeldBy
  <2>3. QED
    BY <2>1, <2>2
<1>4. QED
  BY <1>2, <1>3 DEF Next, Act

(* Whatever fails, dies or overlaps, and however the ranges move: a row is *)
(* freed or deleted only while a request for its router runs.              *)
THEOREM FreedByItsRouter == Spec => FreedOnlyByItsRouter
<1>1. Init => TypeInv
  BY TypeInit
<1>2. TypeInv /\ [Next]_vars => TypeInv'
  BY TypeStep
<1>3. TypeInv /\ [Next]_vars =>
         [\A r \in Routers :
             /\ (\E i \in HeldBy(l2tab, r) :
                    i \notin DOMAIN l2tab' \/ l2tab'[i] = Free)
                   => \E w \in Workers : at[w].r = r
             /\ (\E leaf \in Leaves : \E v \in HeldBy(vlantab[leaf], r) :
                    v \notin DOMAIN vlantab'[leaf] \/ vlantab'[leaf][v] = Free)
                   => \E w \in Workers : at[w].r = r]_vars
  BY FreeingStep
<1>4. QED
  BY <1>1, <1>2, <1>3, PTL DEF Spec, FreedOnlyByItsRouter

-------------------------------------------------------------------------------
(* Requests for one router that follow one another *)

(* A request begins for a router as neutron knows it ... *)
Starts(w, r, x, y) ==
    /\ x.pc = "idle" /\ MayStart(w, r)
    /\ \/ ReadRouter(w, r) /\ y = Fresh("update", r, gw[r], "upDb")
       \/ /\ ReadRouter(w, r) /\ External(gw[r])
          /\ y = Fresh("delete", r, gw[r], "delLook")
       \/ /\ ReadRouter(w, r) /\ ~ External(gw[r])
          /\ y = Fresh("delete", r, gw[r], "delDb")
       \/ \E net \in setup.nets : /\ CreateRouter(w, r, net) /\ External(net)
                                  /\ y = Fresh("create", r, net, "l2Pick")

(* ... an update chooses between adding and removing ... *)
Chooses(w, x, y) ==
    /\ x.pc = "upDb" /\ y.r = x.r /\ y.op = x.op /\ y.todo = x.todo
    /\ \/ /\ UpdateRouter(w, None) /\ External(x.net)
          /\ y.pc = "delLook" /\ y.net = x.net
       \/ \E net \in setup.nets : /\ UpdateRouter(w, net) /\ x.net = None /\ External(net)
                                  /\ y.pc = "l2Pick" /\ y.net = net

(* ... and the request goes on with it, for the same router and network. *)
Continues(w, x, y) ==
    /\ y.r = x.r /\ y.op = x.op /\ y.net = x.net
    /\ UNCHANGED <<life, gw>>
    /\ \/ x.pc \in Adding /\ y.pc \in Adding
       \/ x.pc \in Removing /\ y.pc \in Removing
       \/ /\ ReleaseL2Vni(w) \/ RemovalRaises(w)
          /\ x.op = "delete" /\ y.pc = "delDb"

LEMMA GoesOn ==
    ASSUME TypeInv, NEW w \in Workers, NEW x, NEW y, x = at[w], Arrival(w, x, y),
           y.pc # "idle"
    PROVE  (\E r \in Routers : Starts(w, r, x, y)) \/ Chooses(w, x, y) \/ Continues(w, x, y)
<1>1. Arrival(w, x, y) /\ x = at[w] /\ x \in Requests
  BY DEF TypeInv, TypeOK
<1>2. \A r \in Routers :
         /\ ReadRouter(w, r) => x.pc = "idle" /\ MayStart(w, r)
         /\ \A net \in setup.nets : CreateRouter(w, r, net) => x.pc = "idle" /\ MayStart(w, r)
  BY <1>1 DEF ReadRouter, CreateRouter, MayStart
<1>3. CASE y.pc = "upDb"
  BY <1>1, <1>2, <1>3 DEF Arrival, Starts
<1>4. CASE y.pc = "delDb"
  <2>1. CASE /\ ReleaseL2Vni(w) \/ RemovalRaises(w)
             /\ x.op = "delete" /\ y = [x EXCEPT !.pc = "delDb"]
    <3>1. UNCHANGED <<life, gw>>
      BY <2>1 DEF ReleaseL2Vni, RemovalRaises, neutron
    <3>2. QED
      BY <1>1, <1>4, <2>1, <3>1 DEF Continues, Requests
  <2>2. QED
    BY <1>1, <1>2, <1>4, <2>1 DEF Arrival, Starts
<1>5. CASE y.pc = "l2Pick"
  <2>1. CASE \E net \in setup.nets :
                /\ External(net) /\ UpdateRouter(w, net) /\ x.net = None
                /\ y = [x EXCEPT !.pc = "l2Pick", !.net = net]
    <3>1. PICK net \in setup.nets :
             /\ External(net) /\ UpdateRouter(w, net) /\ x.net = None
             /\ y = [x EXCEPT !.pc = "l2Pick", !.net = net]
      BY <2>1
    <3>2. x.pc = "upDb"
      BY <1>1, <3>1 DEF UpdateRouter
    <3>3. y.r = x.r /\ y.op = x.op /\ y.net = net /\ y.todo = x.todo
      BY <1>1, <3>1 DEF Requests
    <3>4. QED
      BY <1>5, <3>1, <3>2, <3>3 DEF Chooses
  <2>2. QED
    BY <1>1, <1>2, <1>5, <2>1 DEF Arrival, Starts
<1>6. CASE y.pc = "delLook"
  <2>1. CASE /\ UpdateRouter(w, None) /\ External(x.net)
             /\ y = [x EXCEPT !.pc = "delLook"]
    <3>1. x.pc = "upDb"
      BY <1>1, <2>1 DEF UpdateRouter
    <3>2. y.r = x.r /\ y.op = x.op /\ y.net = x.net /\ y.todo = x.todo
      BY <1>1, <2>1 DEF Requests
    <3>3. QED
      BY <1>6, <2>1, <3>1, <3>2 DEF Chooses
  <2>2. QED
    BY <1>1, <1>2, <1>6, <2>1 DEF Arrival, Starts
<1> USE DEF Adding, Removing, Continues, neutron
<1>7. CASE y.pc \in {"l2Write", "l2Look"}
  BY <1>1, <1>7 DEF Arrival, Requests, PickL2Vni, WriteL2Vni
<1>8. CASE y.pc = "addLeaf"
  BY <1>1, <1>8 DEF Arrival, Requests, LookUpL2Vni, SendRoute
<1>9. CASE y.pc \in {"vlanWrite", "vlanLook"}
  BY <1>1, <1>9 DEF Arrival, Requests, PickVlan, WriteVlan
<1>10. CASE y.pc \in {"sendConf", "sendRoute"}
  BY <1>1, <1>10 DEF Arrival, Requests, LookUpVlan, SendConfig
<1>11. CASE y.pc = "delLeaf"
  BY <1>1, <1>11 DEF Arrival, Requests, LookUpForDelete, ReleaseVlan
<1>12. CASE y.pc \in {"delRoute", "delConf", "delVlan"}
  BY <1>1, <1>12 DEF Arrival, Requests, LookUpLeaf, DeleteRoute, DeleteConfig
<1>13. y.pc \in {"upDb", "delDb"} \cup Adding \cup Removing
  BY <1>1 DEF Arrival
<1>14. QED
  BY <1>3, <1>4, <1>5, <1>6, <1>7, <1>8, <1>9, <1>10, <1>11, <1>12, <1>13

LEMMA NothingRaises == Orderly => \A w \in Workers : ~ RemovalRaises(w)
BY DEF Orderly, RemovalRaises, May

LEMMA ActGoesOn ==
    ASSUME TypeInv, NEW w \in Workers, Act(w), at'[w].pc # "idle"
    PROVE  \/ \E r \in Routers : Starts(w, r, at[w], at'[w]) /\ at'[w].r = r
           \/ at[w].pc # "idle" /\ at'[w].r = at[w].r /\ at'[w].op = at[w].op
<1> DEFINE x == at[w]
           y == at'[w]
<1>1. (\E r \in Routers : Starts(w, r, x, y)) \/ Chooses(w, x, y) \/ Continues(w, x, y)
  BY Arrives, GoesOn
<1>2. \A r \in Routers : Starts(w, r, x, y) => y.r = r
  BY FreshFields DEF Starts
<1>3. Chooses(w, x, y) => x.pc # "idle" /\ y.r = x.r /\ y.op = x.op
  BY DEF Chooses
<1>4. ReleaseL2Vni(w) \/ RemovalRaises(w) => x.pc \in Removing
  BY DEF ReleaseL2Vni, RemovalRaises, Removing
<1>5. Continues(w, x, y) => x.pc # "idle" /\ y.r = x.r /\ y.op = x.op
  BY <1>4 DEF Continues, Adding, Removing
<1>6. QED
  BY <1>1, <1>2, <1>3, <1>5

LEMMA OnePerRouterStep ==
    ASSUME TypeInv, Orderly, OnePerRouter, NEW w \in Workers, Act(w)
    PROVE  OnePerRouter'
<1>1. SUFFICES ASSUME NEW u \in Workers, u # w, at[u].pc # "idle",
                      at'[w].pc # "idle", at[u].r = at'[w].r
               PROVE  FALSE
  BY Arrives DEF OnePerRouter
<1>2. ~ May("sameRouter")
  BY DEF Orderly, May
<1>3. CASE at[w].pc = "idle"
  BY <1>1, <1>2, <1>3, ActGoesOn DEF Starts, MayStart
<1>4. CASE at[w].pc # "idle"
  BY <1>1, <1>4, ActGoesOn DEF OnePerRouter, Starts
<1>5. QED
  BY <1>3, <1>4

(* The rows of other routers only become fewer ... *)
LEMMA OthersRows ==
    ASSUME TypeInv, NEW w \in Workers, Act(w), NEW r \in Routers, r # at[w].r
    PROVE  /\ HeldBy(l2tab', r) \subseteq HeldBy(l2tab, r)
           /\ \A leaf \in Leaves :
                 HeldBy(vlantab'[leaf], r) \subseteq HeldBy(vlantab[leaf], r)
<1>1. HeldBy(l2tab', r) \subseteq HeldBy(l2tab, r)
  BY L2Rows, FreeAssumption DEF HeldBy
<1>2. ASSUME NEW leaf \in Leaves
      PROVE  HeldBy(vlantab'[leaf], r) \subseteq HeldBy(vlantab[leaf], r)
  BY VlanRows, FreeAssumption DEF HeldBy
<1>3. QED
  BY <1>1, <1>2

(* ... and the request's own router gains one row, or loses its only one. *)
LEMMA OwnL2Rows ==
    ASSUME TypeInv, NEW w \in Workers, Act(w), at[w].pc # "idle"
    PROVE  LET r == at[w].r IN
           \/ HeldBy(l2tab', r) \subseteq HeldBy(l2tab, r)
           \/ /\ WriteL2Vni(w)
              /\ HeldBy(l2tab', r) \subseteq HeldBy(l2tab, r) \cup {at[w].id}
BY L2Rows, FreeAssumption DEF HeldBy

LEMMA OwnVlanRows ==
    ASSUME TypeInv, NEW w \in Workers, Act(w), at[w].pc # "idle", NEW leaf \in Leaves
    PROVE  LET r == at[w].r IN
           \/ HeldBy(vlantab'[leaf], r) \subseteq HeldBy(vlantab[leaf], r)
           \/ /\ WriteVlan(w) /\ leaf = at[w].leaf
              /\ HeldBy(vlantab'[leaf], r)
                    \subseteq HeldBy(vlantab[leaf], r) \cup {at[w].id}
BY VlanRows, FreeAssumption DEF HeldBy

LEMMA ReleasedOnly ==
    ASSUME NEW ids, NEW tab \in Tables(ids), NEW range, NEW r \in Routers,
           NEW new \in Released(tab, range, {r}),
           \A s \in Routers : \A i, j \in HeldBy(tab, s) : i = j
    PROVE  HeldBy(new, r) = {}
<1>1. \A i, j \in DOMAIN tab : tab[i] = tab[j] /\ tab[i] # Free => i = j
  BY TableIsFunction DEF HeldBy
<1>2. {r} \in SUBSET Routers
  OBVIOUS
<1>3. \A i \in DOMAIN new : new[i] \notin {r}
  BY <1>1, <1>2, ReleasedGivesUpAll
<1>4. QED
  BY <1>3 DEF HeldBy

LEMMA ReleasesEmpty ==
    ASSUME TypeInv, OneEach, NEW w \in Workers
    PROVE  /\ ReleaseL2Vni(w) => HeldBy(l2tab', at[w].r) = {}
           /\ ReleaseVlan(w) => HeldBy(vlantab'[at[w].leaf], at[w].r) = {}
<1>1. Carries(at[w])
  BY DEF TypeInv, RequestInv
<1>2. ASSUME ReleaseL2Vni(w)
      PROVE  HeldBy(l2tab', at[w].r) = {}
  <2>1. /\ at[w].r \in Routers /\ l2tab \in Tables(L2Vnis)
        /\ l2tab' \in Released(l2tab, l2range, {at[w].r})
    BY <1>1, <1>2 DEF ReleaseL2Vni, Carries, TypeInv, TypeOK
  <2>2. QED
    BY <2>1, ReleasedOnly DEF OneEach
<1>3. ASSUME ReleaseVlan(w)
      PROVE  HeldBy(vlantab'[at[w].leaf], at[w].r) = {}
  <2>1. at[w].r \in Routers /\ at[w].leaf \in Leaves
    BY <1>1, <1>3 DEF ReleaseVlan, Carries, AtLeaf
  <2>2. /\ vlantab[at[w].leaf] \in Tables(Vlans)
        /\ vlantab'[at[w].leaf]
              \in Released(vlantab[at[w].leaf], setup.vlans, {at[w].r})
    BY <1>3, <2>1 DEF ReleaseVlan, TypeInv, TypeOK
  <2>3. \A s \in Routers : \A u, v \in HeldBy(vlantab[at[w].leaf], s) : u = v
    BY <2>1 DEF OneEach
  <2>4. QED
    BY <2>1, <2>2, <2>3, ReleasedOnly
<1>4. QED
  BY <1>2, <1>3

(* A request changes what neutron knows of its own router only. *)
LEMMA OthersNeutron ==
    ASSUME TypeInv, Orderly, OnePerRouter, NeutronInv, NEW w \in Workers, Act(w),
           NEW u \in Workers, u # w, at[u].pc # "idle"
    PROVE  /\ at'[u] = at[u] /\ at[u].r \in Routers
           /\ life'[at[u].r] = life[at[u].r] /\ gw'[at[u].r] = gw[at[u].r]
<1>1. at'[u] = at[u]
  BY Arrives
<1>2. at[u].r \in Routers /\ life[at[u].r] = "alive"
  BY DEF TypeInv, RequestInv, Carries, NeutronInv
<1>3. at[w].pc # "idle" => at[u].r # at[w].r
  BY DEF OnePerRouter
<1>4. life \in [Routers -> {"absent", "alive", "deleted", "failed"}]
      /\ gw \in [Routers -> Nets \cup {None}]
  BY DEF TypeInv, TypeOK
<1>5. CASE \E r \in Routers, net \in setup.nets \cup {None} : CreateRouter(w, r, net)
  BY <1>1, <1>2, <1>4, <1>5 DEF CreateRouter
<1>6. CASE \E net \in setup.nets \cup {None} : UpdateRouter(w, net)
  BY <1>1, <1>2, <1>3, <1>4, <1>6 DEF UpdateRouter
<1>7. CASE DeleteRouter(w)
  BY <1>1, <1>2, <1>3, <1>4, <1>7 DEF DeleteRouter
<1>8. CASE AddFails(w)
  <2>1. at[w].pc # "idle"
    BY <1>8 DEF AddFails, Ipv6Gateway, NoneFree, Refused
  <2>2. QED
    BY <1>1, <1>2, <1>3, <1>4, <1>8, <2>1 DEF AddFails
<1>9. QED
  BY <1>1, <1>2, <1>5, <1>6, <1>7, <1>8, NeutronFrame

LEMMA NeutronStep ==
    ASSUME TypeInv, Orderly, OnePerRouter, NeutronInv, NEW w \in Workers, Act(w)
    PROVE  NeutronInv'
<1> DEFINE x == at[w]
           y == at'[w]
<1>1. ASSUME NEW u \in Workers, u # w, at'[u].pc # "idle"
      PROVE  /\ life'[at'[u].r] = "alive"
             /\ gw'[at'[u].r] = IF at'[u].op = "update" /\ at'[u].pc \in Removing
                                THEN None ELSE at'[u].net
  <2>1. at'[u] = at[u] /\ at[u].pc # "idle"
    BY <1>1, Arrives
  <2>2. QED
    BY <1>1, <2>1, OthersNeutron DEF NeutronInv
<1>2. life \in [Routers -> {"absent", "alive", "deleted", "failed"}]
      /\ gw \in [Routers -> Nets \cup {None}]
  BY DEF TypeInv, TypeOK
<1>3. Carries(x)
  BY DEF TypeInv, RequestInv
<1>4. x.pc # "idle" =>
         /\ life[x.r] = "alive" /\ x.r \in Routers
         /\ gw[x.r] = IF x.op = "update" /\ x.pc \in Removing THEN None ELSE x.net
  BY <1>3 DEF NeutronInv, Carries
<1>5. ASSUME y.pc # "idle"
      PROVE  /\ life'[y.r] = "alive"
             /\ gw'[y.r] = IF y.op = "update" /\ y.pc \in Removing THEN None ELSE y.net
  <2>1. CASE \E r \in Routers : Starts(w, r, x, y)
    <3>1. PICK r \in Routers : Starts(w, r, x, y)
      BY <2>1
    <3>2. CASE ReadRouter(w, r) /\ y.r = r /\ y.net = gw[r]
                  /\ (y.op = "update" => y.pc = "upDb")
      BY <3>2 DEF ReadRouter, neutron, Removing
    <3>3. CASE \E net \in setup.nets : CreateRouter(w, r, net) /\ y.r = r
                                          /\ y.net = net /\ y.op = "create"
      BY <1>2, <3>3 DEF CreateRouter
    <3>4. QED
      BY <3>1, <3>2, <3>3, FreshFields DEF Starts
  <2>2. CASE Chooses(w, x, y)
    <3>1. x.op = "update" /\ x.pc = "upDb"
      BY <1>3, <2>2 DEF Chooses, Carries
    <3>2. QED
      BY <1>2, <1>4, <2>2, <3>1 DEF Chooses, UpdateRouter, Removing
  <2>3. CASE Continues(w, x, y)
    <3>1. x.pc # "idle" /\ (x.op = "update" => (x.pc \in Removing <=> y.pc \in Removing))
      BY <2>3 DEF Continues, Adding, Removing, ReleaseL2Vni, RemovalRaises
    <3>2. QED
      BY <1>4, <2>3, <3>1 DEF Continues
  <2>4. QED
    BY <1>5, <2>1, <2>2, <2>3, Arrives, GoesOn
<1>6. QED
  BY <1>1, <1>5 DEF NeutronInv

(* No removal that neutron no longer knows of runs for a router ...        *)
LEMMA NotClearing ==
    ASSUME OnePerRouter, NEW w \in Workers, at[w].pc # "idle",
           ~ (at[w].op = "update" /\ at[w].pc \in Removing)
    PROVE  ~ Clearing(at[w].r)
<1>1. ASSUME NEW u \in Workers, at[u].r = at[w].r, at[u].pc \in Removing
      PROVE  u = w
  BY <1>1 DEF OnePerRouter, Removing
<1>2. QED
  BY <1>1 DEF Clearing

(* ... that another request begins for.                                    *)
LEMMA StartsAlone ==
    ASSUME TypeInv, Orderly, NEW w \in Workers, NEW r \in Routers, MayStart(w, r)
    PROVE  ~ Clearing(r) /\ \A u \in Workers : at[u].r # r
<1>1. ~ May("sameRouter")
  BY DEF Orderly, May
<1>2. \A u \in Workers : at[u].pc # "idle" => at[u].r # r
  BY <1>1 DEF MayStart
<1>3. \A u \in Workers : at[u].r = r => at[u].pc # "idle"
  BY RouterGatewayAssumption DEF TypeInv, TypeOK
<1>4. QED
  BY <1>2, <1>3 DEF Clearing

LEMMA BusyRouter ==
    ASSUME TypeInv, NEW w \in Workers
    PROVE  at[w].r \in Routers <=> at[w].pc # "idle"
BY RouterGatewayAssumption DEF TypeInv, TypeOK, RequestInv, Carries

LEMMA OneEachStep ==
    ASSUME TypeInv, RequestRows, OneEach, NEW w \in Workers, Act(w)
    PROVE  OneEach'
<1>1. SUFFICES ASSUME NEW r \in Routers
               PROVE  /\ \A i, j \in HeldBy(l2tab', r) : i = j
                      /\ \A leaf \in Leaves :
                            \A u, v \in HeldBy(vlantab'[leaf], r) : u = v
  BY DEF OneEach
<1>2. /\ \A i, j \in HeldBy(l2tab, r) : i = j
      /\ \A leaf \in Leaves : \A u, v \in HeldBy(vlantab[leaf], r) : u = v
  BY DEF OneEach
<1>3. CASE r # at[w].r
  BY <1>2, <1>3, OthersRows
<1>4. CASE r = at[w].r
  <2>1. at[w].pc # "idle" /\ Rows(at[w])
    BY <1>4, BusyRouter DEF RequestRows
  <2>2. WriteL2Vni(w) => HeldBy(l2tab, r) = {}
    BY <1>4, <2>1 DEF WriteL2Vni, Rows, NoRows
  <2>3. \A i, j \in HeldBy(l2tab', r) : i = j
    BY <1>2, <1>4, <2>1, <2>2, OwnL2Rows
  <2>4. WriteVlan(w) => HeldBy(vlantab[at[w].leaf], r) = {}
    BY <1>4, <2>1 DEF WriteVlan, Rows, NoVlan
  <2>5. ASSUME NEW leaf \in Leaves
        PROVE  \A u, v \in HeldBy(vlantab'[leaf], r) : u = v
    BY <1>2, <1>4, <2>1, <2>4, OwnVlanRows
  <2>6. QED
    BY <2>3, <2>5
<1>5. QED
  BY <1>3, <1>4

(* What the router of a request does not own when it moves on. *)
LEMMA RowsOnArrival ==
    ASSUME TypeInv, Orderly, OnePerRouter, NeutronInv, RouterRows, RequestRows, OneEach,
           NEW w \in Workers, Act(w)
    PROVE  Rows(at[w])'
<1> DEFINE x == at[w]
           y == at'[w]
<1>1. Carries(x) /\ Rows(x) /\ x \in Requests
  BY DEF TypeInv, TypeOK, RequestInv, RequestRows
<1>2. \A net : Served(net)' = Served(net)
  BY ActFrame DEF Served
<1>3. CASE y.pc \in {"idle", "upDb"}
  BY <1>3 DEF Rows, Adding
<1>4. ASSUME NEW r \in Routers, Starts(w, r, x, y)
      PROVE  Rows(at[w])'
  <2>1. UNCHANGED <<l2tab, vlantab>> /\ ~ Clearing(r)
    BY <1>4, StartsAlone DEF Starts, ReadRouter, CreateRouter
  <2>2. CASE ReadRouter(w, r)
    <3>1. /\ ~ External(gw[r]) => NoRows(r)
          /\ External(gw[r]) => \A leaf \in Leaves \ Served(gw[r]) : NoVlan(leaf, r)
      BY <2>1, <2>2 DEF ReadRouter, RouterRows
    <3>2. CASE y.pc = "delDb" /\ y.r = r /\ ~ External(gw[r])
      BY <2>1, <3>1, <3>2 DEF Rows, NoRows, Adding
    <3>3. CASE y.pc = "delLook" /\ y.r = r /\ y.net = gw[r] /\ External(gw[r])
      BY <1>2, <2>1, <3>1, <3>3 DEF Rows, NoVlan, Adding
    <3>4. QED
      BY <1>3, <1>4, <2>2, <3>2, <3>3, FreshFields DEF Starts, ReadRouter, CreateRouter
  <2>3. CASE \E net \in setup.nets : CreateRouter(w, r, net) /\ y = Fresh("create", r, net, "l2Pick")
    <3>1. life[r] = "absent" /\ gw[r] = None
      BY <2>3 DEF CreateRouter, TypeInv, TypeOK
    <3>2. NoRows(r)
      BY <2>1, <3>1, RouterGatewayAssumption DEF RouterRows, External
    <3>3. y.pc = "l2Pick" /\ y.r = r /\ y.todo = {}
      BY <2>3, FreshFields
    <3>4. QED
      BY <2>1, <3>2, <3>3 DEF Rows, NoRows
  <2>4. QED
    BY <1>4, <2>2, <2>3 DEF Starts
<1>5. CASE Chooses(w, x, y)
  <2>1. UNCHANGED <<l2tab, vlantab>>
    BY <1>5 DEF Chooses, UpdateRouter
  <2>2. life[x.r] = "alive" /\ gw[x.r] = x.net /\ ~ Clearing(x.r) /\ x.r \in Routers
    BY <1>1, <1>5, NotClearing DEF Chooses, NeutronInv, Removing, Carries
  <2>3. /\ ~ External(x.net) => NoRows(x.r)
        /\ External(x.net) => \A leaf \in Leaves \ Served(x.net) : NoVlan(leaf, x.r)
    BY <2>2 DEF RouterRows
  <2>4. CASE y.pc = "delLook" /\ y.net = x.net /\ External(x.net)
    BY <1>2, <1>5, <2>1, <2>3, <2>4 DEF Chooses, Rows, NoVlan, Adding
  <2>5. CASE y.pc = "l2Pick" /\ x.net = None
    <3>1. NoRows(x.r)
      BY <2>3, <2>5, RouterGatewayAssumption DEF External
    <3>2. y.todo = {}
      BY <1>1, <1>5 DEF Chooses, Carries
    <3>3. QED
      BY <1>5, <2>1, <2>5, <3>1, <3>2 DEF Chooses, Rows, NoRows
  <2>6. QED
    BY <1>5, <2>4, <2>5 DEF Chooses
<1>6. CASE Continues(w, x, y)
  <2>1. /\ Arrival(w, x, y) /\ y.r = x.r /\ y.net = x.net /\ x.r \in Routers
        /\ x.pc # "idle"
    BY <1>1, <1>6, Arrives
       DEF Continues, Carries, Adding, Removing, ReleaseL2Vni, RemovalRaises
  <2>2. CASE y.pc = "l2Write"
    <3>1. /\ x.pc = "l2Pick" /\ UNCHANGED <<l2tab, vlantab>>
          /\ y.todo = x.todo
      BY <1>1, <2>1, <2>2 DEF Arrival, PickL2Vni, Requests
    <3>2. QED
      BY <1>1, <2>1, <2>2, <3>1 DEF Rows, NoRows, NoVlan, Adding
  <2>3. CASE y.pc = "l2Look"
    <3>1. x.pc = "l2Write" /\ UNCHANGED vlantab /\ y.todo = x.todo
      BY <1>1, <2>1, <2>3 DEF Arrival, WriteL2Vni, Requests
    <3>2. QED
      BY <1>1, <2>1, <2>3, <3>1 DEF Rows, NoRows, NoVlan, Adding
  <2>4. CASE y.pc = "addLeaf"
    <3>1. CASE /\ x.pc = "l2Look" /\ UNCHANGED vlantab
      <4>1. y.todo \subseteq Leaves
        BY <2>1, RequestStep DEF Requests
      <4>2. QED
        BY <1>1, <2>1, <2>4, <3>1, <4>1 DEF Rows, NoVlan
    <3>2. CASE x.pc = "sendRoute" /\ UNCHANGED vlantab /\ y.todo = x.todo
      BY <1>1, <2>1, <2>4, <3>2 DEF Rows, NoVlan, Adding
    <3>3. QED
      BY <1>1, <2>1, <2>4, <3>1, <3>2 DEF Arrival, LookUpL2Vni, SendRoute, Requests
  <2>5. CASE y.pc = "vlanWrite"
    <3>1. /\ x.pc = "addLeaf" /\ UNCHANGED vlantab
          /\ y.todo \subseteq x.todo /\ y.leaf \in x.todo
      <4>1. PICK leaf \in x.todo \cap Leaves : \E v \in FreeIds(vlantab[leaf]) :
               /\ PickVlan(w, leaf)
               /\ y = [x EXCEPT !.pc = "vlanWrite", !.leaf = leaf, !.id = v,
                                !.todo = @ \ {leaf}]
        BY <2>1, <2>5 DEF Arrival
      <4>2. y.todo = x.todo \ {leaf} /\ y.leaf = leaf
        BY <1>1, <4>1 DEF Requests
      <4>3. QED
        BY <4>1, <4>2 DEF PickVlan
    <3>2. QED
      BY <1>1, <2>1, <2>5, <3>1 DEF Rows, NoVlan, Adding
  <2>6. CASE y.pc = "vlanLook"
    <3>1. x.pc = "vlanWrite" /\ y.todo = x.todo
      BY <1>1, <2>1, <2>6 DEF Arrival, WriteVlan, Requests
    <3>2. x.leaf \notin x.todo /\ x.todo \subseteq Leaves
      BY <1>1, <3>1 DEF Carries, AtLeaf, Requests
    <3>3. \A leaf \in x.todo : HeldBy(vlantab'[leaf], x.r) = {}
      BY <1>1, <2>1, <3>1, <3>2, OwnVlanRows DEF Rows, NoVlan, Adding
    <3>4. QED
      BY <2>1, <2>6, <3>1, <3>3 DEF Rows, NoVlan
  <2>7. CASE y.pc = "sendConf"
    <3>1. x.pc = "vlanLook" /\ UNCHANGED vlantab /\ y.todo = x.todo
      BY <1>1, <2>1, <2>7 DEF Arrival, LookUpVlan, Requests
    <3>2. QED
      BY <1>1, <2>1, <2>7, <3>1 DEF Rows, NoVlan, Adding
  <2>8. CASE y.pc = "sendRoute"
    <3>1. x.pc = "sendConf" /\ UNCHANGED vlantab /\ y.todo = x.todo
      BY <1>1, <2>1, <2>8 DEF Arrival, SendConfig, Requests
    <3>2. QED
      BY <1>1, <2>1, <2>8, <3>1 DEF Rows, NoVlan, Adding
  <2>9. CASE y.pc = "delLeaf"
    <3>1. CASE x.pc = "delLook" /\ UNCHANGED vlantab /\ y.todo = Served(x.net)
      BY <1>1, <2>1, <2>9, <3>1 DEF Rows, NoVlan, Adding
    <3>2. CASE ReleaseVlan(w) /\ y.todo = x.todo
      <4>1. x.pc = "delVlan"
        BY <3>2 DEF ReleaseVlan
      <4>2. HeldBy(vlantab'[x.leaf], x.r) = {}
        BY <3>2, ReleasesEmpty
      <4>3. \A leaf \in Leaves \ (x.todo \cup {x.leaf}) :
               HeldBy(vlantab'[leaf], x.r) = {}
        BY <1>1, <2>1, <4>1, OwnVlanRows DEF Rows, NoVlan, WriteVlan
      <4>4. QED
        BY <2>1, <2>9, <3>2, <4>2, <4>3 DEF Rows, NoVlan, Adding
    <3>3. QED
      BY <1>1, <2>1, <2>9, <3>1, <3>2 DEF Arrival, LookUpForDelete, ReleaseVlan, Requests
  <2>10. CASE y.pc = "delRoute"
    <3>1. /\ x.pc = "delLeaf" /\ UNCHANGED vlantab
          /\ y.todo = x.todo \ {y.leaf}
      BY <1>1, <2>1, <2>10 DEF Arrival, LookUpLeaf, Requests
    <3>2. QED
      BY <1>1, <2>1, <2>10, <3>1 DEF Rows, NoVlan, Adding
  <2>11. CASE y.pc = "delConf"
    <3>1. /\ x.pc = "delRoute" /\ UNCHANGED vlantab
          /\ y.todo = x.todo /\ y.leaf = x.leaf
      BY <1>1, <2>1, <2>11 DEF Arrival, DeleteRoute, Requests
    <3>2. QED
      BY <1>1, <2>1, <2>11, <3>1 DEF Rows, NoVlan, Adding
  <2>12. CASE y.pc = "delVlan"
    <3>1. /\ x.pc = "delConf" /\ UNCHANGED vlantab
          /\ y.todo = x.todo /\ y.leaf = x.leaf
      BY <1>1, <2>1, <2>12 DEF Arrival, DeleteConfig, Requests
    <3>2. QED
      BY <1>1, <2>1, <2>12, <3>1 DEF Rows, NoVlan, Adding
  <2>13. CASE y.pc = "delDb"
    <3>1. /\ ReleaseL2Vni(w) /\ x.pc = "delLeaf" /\ UNCHANGED vlantab
          /\ x.todo = {}
      BY <1>6, <2>13, NothingRaises DEF Continues, ReleaseL2Vni, Adding, Removing
    <3>2. HeldBy(l2tab', x.r) = {}
      BY <3>1, ReleasesEmpty
    <3>3. QED
      BY <1>1, <2>1, <2>13, <3>1, <3>2 DEF Rows, NoRows, NoVlan, Adding
  <2>14. y.pc \in {"l2Write", "l2Look", "addLeaf", "vlanWrite", "vlanLook", "sendConf",
                   "sendRoute", "delLeaf", "delRoute", "delConf", "delVlan", "delDb"}
    <3>1. y.pc # "l2Pick" /\ y.pc # "delLook"
      BY <1>6, <2>1, FreshFields DEF Arrival, Continues, Adding, Removing,
         CreateRouter, UpdateRouter, ReadRouter, MayStart
    <3>2. QED
      BY <1>6, <3>1 DEF Continues, Adding, Removing
  <2>15. QED
    BY <2>2, <2>3, <2>4, <2>5, <2>6, <2>7, <2>8, <2>9, <2>10, <2>11, <2>12, <2>13, <2>14
<1>7. QED
  BY <1>3, <1>4, <1>5, <1>6, Arrives, GoesOn

LEMMA RequestRowsStep ==
    ASSUME TypeInv, Orderly, OnePerRouter, NeutronInv, RouterRows, RequestRows, OneEach,
           NEW w \in Workers, Act(w)
    PROVE  RequestRows'
<1>1. SUFFICES ASSUME NEW u \in Workers
               PROVE  Rows(at[u])'
  BY DEF RequestRows
<1>2. CASE u = w
  BY <1>2, RowsOnArrival
<1>3. CASE u # w /\ at[u].pc = "idle"
  <2>1. at'[u].pc = "idle"
    BY <1>3, Arrives
  <2>2. QED
    BY <2>1 DEF Rows, Adding
<1>4. CASE u # w /\ at[u].pc # "idle"
  <2>1. at'[u] = at[u] /\ at[u].r \in Routers /\ at[u].r # at[w].r
    BY <1>4, Arrives, BusyRouter DEF OnePerRouter
  <2>2. /\ NoRows(at[u].r) => NoRows(at[u].r)'
        /\ \A leaf \in Leaves : NoVlan(leaf, at[u].r) => NoVlan(leaf, at[u].r)'
    BY <2>1, OthersRows DEF NoRows, NoVlan
  <2>3. \A net : Served(net)' = Served(net)
    BY ActFrame DEF Served
  <2>4. /\ Rows(at[u]) /\ at[u].todo \subseteq Leaves
        /\ at[u].pc = "vlanWrite" => at[u].leaf \in Leaves
    BY DEF RequestRows, TypeInv, TypeOK, Requests, RequestInv, Carries, AtLeaf
  <2>5. QED
    BY <2>1, <2>2, <2>3, <2>4 DEF Rows
<1>5. QED
  BY <1>2, <1>3, <1>4

LEMMA ClearingOthers ==
    ASSUME TypeInv, NEW w \in Workers, Act(w), NEW r \in Routers, r # at[w].r
    PROVE  Clearing(r)' <=> Clearing(r)
<1>1. \A u \in Workers : u # w => at'[u] = at[u]
  BY Arrives
<1>2. ASSUME at'[w].r = r
      PROVE  ~ (at'[w].op = "update" /\ at'[w].pc \in Removing)
  <2>1. CASE at'[w].pc = "idle"
    BY <2>1 DEF Removing
  <2>2. CASE at'[w].pc # "idle"
    <3>1. PICK s \in Routers : Starts(w, s, at[w], at'[w])
      BY <1>2, <2>2, ActGoesOn
    <3>2. QED
      BY <3>1, FreshFields DEF Starts, Removing
  <2>3. QED
    BY <2>1, <2>2
<1>3. QED
  BY <1>1, <1>2 DEF Clearing

(* The router of a request that ends. *)
LEMMA EndsWithRows ==
    ASSUME TypeInv, Orderly, OnePerRouter, NeutronInv, RouterRows, RequestRows, OneEach,
           NEW w \in Workers, Act(w), at[w].pc # "idle", at'[w].pc = "idle",
           NEW r \in Routers, at[w].r = r, life'[r] # "failed", ~ External(gw'[r])
    PROVE  NoRows(r)'
<1>1. Carries(at[w]) /\ Rows(at[w]) /\ life[r] = "alive"
  BY BusyRouter DEF TypeInv, RequestInv, RequestRows, NeutronInv
<1>2. gw[r] = IF at[w].op = "update" /\ at[w].pc \in Removing THEN None ELSE at[w].net
  BY DEF NeutronInv
<1>3. ASSUME gw'[r] = gw[r], UNCHANGED <<l2tab, vlantab>>,
             ~ (at[w].op = "update" /\ at[w].pc \in Removing)
      PROVE  NoRows(r)'
  <2>1. ~ Clearing(r)
    BY <1>3, NotClearing
  <2>2. QED
    BY <1>1, <1>3, <2>1 DEF RouterRows, NoRows
<1>4. CASE \E net \in setup.nets \cup {None} : UpdateRouter(w, net)
  <2>1. PICK net \in setup.nets \cup {None} : UpdateRouter(w, net)
    BY <1>4
  <2>2. at[w].pc = "upDb" /\ UNCHANGED <<l2tab, vlantab>> /\ gw'[r] = net
    BY <1>1, <2>1 DEF UpdateRouter, TypeInv, TypeOK
  <2>3. ~ May("replace")
    BY DEF Orderly, May
  <2>4. External(at[w].net) => net = at[w].net
    <3>1. [at[w] EXCEPT !.pc = "delLook"].pc # "idle"
      BY DEF TypeInv, TypeOK, Requests
    <3>2. at \in [Workers -> Requests] /\ ~ External(None)
      BY RouterGatewayAssumption DEF TypeInv, TypeOK, External
    <3>3. ~ (External(at[w].net) /\ net = None)
      BY <2>1, <3>1, <3>2 DEF UpdateRouter
    <3>4. at[w].net = None \/ net \in {None, at[w].net}
      BY <2>1, <2>3 DEF UpdateRouter
    <3>5. QED
      BY <3>2, <3>3, <3>4
  <2>5. ~ External(at[w].net) /\ ~ Clearing(r) /\ gw[r] = at[w].net
    BY <1>2, <2>2, <2>4, NotClearing DEF Removing
  <2>6. QED
    BY <1>1, <2>2, <2>5 DEF RouterRows, NoRows
<1>5. CASE RequestRaises(w)
  BY <1>3, <1>5 DEF RequestRaises, neutron, Removing
<1>6. CASE DeleteRouter(w)
  BY <1>1, <1>6 DEF DeleteRouter, Rows, NoRows
<1>7. CASE AddGateway(w)
  <2>1. at[w].pc \in Adding
    BY <1>7 DEF AddGateway, PickL2Vni, WriteL2Vni, LookUpL2Vni, PickVlan, WriteVlan,
       LookUpVlan, SendConfig, SendRoute, AddFails, AddDone, Ipv6Gateway, NoneFree,
       Refused, Adding
  <2>2. External(gw[r])
    BY <1>1, <1>2, <2>1 DEF Carries, Adding, Removing
  <2>3. gw'[r] = gw[r] \/ AddFails(w)
    BY <1>7 DEF AddGateway, PickL2Vni, WriteL2Vni, LookUpL2Vni, PickVlan, WriteVlan,
       LookUpVlan, SendConfig, SendRoute, AddDone, neutron
  <2>4. AddFails(w) => gw'[r] = gw[r] \/ life'[r] = "failed"
    BY <1>1 DEF AddFails, TypeInv, TypeOK
  <2>5. QED
    BY <2>2, <2>3, <2>4
<1>8. CASE RemoveGateway(w)
  <2>1. ReleaseL2Vni(w)
    <3> USE DEF TypeInv, TypeOK, Requests
    <3>1. LookUpForDelete(w) => at'[w].pc = "delLeaf"
      BY DEF LookUpForDelete
    <3>2. \A leaf \in Leaves : LookUpLeaf(w, leaf) => at'[w].pc = "delRoute"
      BY DEF LookUpLeaf, TakeLeaf
    <3>3. /\ DeleteRoute(w) => at'[w].pc = "delConf"
          /\ DeleteConfig(w) => at'[w].pc = "delVlan"
          /\ ReleaseVlan(w) => at'[w].pc = "delLeaf"
      BY DEF DeleteRoute, DeleteConfig, ReleaseVlan, Step
    <3>4. QED
      BY <1>8, <3>1, <3>2, <3>3, NothingRaises DEF RemoveGateway
  <2>2. /\ at[w].pc = "delLeaf" /\ at[w].todo = {} /\ UNCHANGED vlantab
    BY <2>1 DEF ReleaseL2Vni
  <2>3. HeldBy(l2tab', r) = {}
    BY <2>1, ReleasesEmpty
  <2>4. \A leaf \in Leaves : HeldBy(vlantab'[leaf], r) = {}
    BY <1>1, <2>2 DEF Rows, NoVlan
  <2>5. QED
    BY <2>3, <2>4 DEF NoRows
<1>9. CASE Crash(w)
  <2>1. ~ May("clearCrash")
    BY DEF Orderly, May
  <2>2. QED
    BY <1>3, <1>9, <2>1 DEF Crash, neutron
<1>10. CASE \E q \in Routers : ReadRouter(w, q) \/ \E net \in setup.nets \cup {None} :
               CreateRouter(w, q, net)
  BY <1>10 DEF ReadRouter, CreateRouter, MayStart
<1>11. QED
  BY <1>4, <1>5, <1>6, <1>7, <1>8, <1>9, <1>10 DEF Act, Request

(* The router of a request that goes on. *)
LEMMA MovesWithRows ==
    ASSUME TypeInv, Orderly, OnePerRouter, NeutronInv, RouterRows, RequestRows, OneEach,
           NEW w \in Workers, Act(w), at[w].pc # "idle", at'[w].pc # "idle",
           NEW r \in Routers, at[w].r = r, ~ External(gw'[r])
    PROVE  Clearing(r)'
<1>1. Carries(at[w]) /\ ~ External(None)
  BY RouterGatewayAssumption DEF TypeInv, RequestInv, External
<1>2. gw[r] = IF at[w].op = "update" /\ at[w].pc \in Removing THEN None ELSE at[w].net
  BY DEF NeutronInv
<1>3. CASE Chooses(w, at[w], at'[w])
  <2>1. at[w].op = "update"
    BY <1>1, <1>3 DEF Chooses, Carries
  <2>2. \A net : UpdateRouter(w, net) => gw'[r] = net
    BY DEF UpdateRouter, TypeInv, TypeOK
  <2>3. at'[w].pc = "delLook" /\ at'[w].r = r /\ at'[w].op = "update"
    BY <1>3, <2>1, <2>2 DEF Chooses
  <2>4. QED
    BY <2>3 DEF Clearing, Removing
<1>4. CASE Continues(w, at[w], at'[w])
  <2>1. ~ External(gw[r]) /\ at'[w].op = at[w].op /\ at'[w].r = r
    BY <1>4 DEF Continues
  <2>2. at[w].pc \in Adding \cup Removing
    BY <1>4 DEF Continues, ReleaseL2Vni, RemovalRaises, Adding, Removing
  <2>3. at[w].op = "update" /\ at[w].pc \in Removing
    BY <1>1, <1>2, <2>1, <2>2 DEF Carries
  <2>4. at'[w].pc \in Removing
    BY <1>4, <2>3 DEF Continues, Adding, Removing
  <2>5. QED
    BY <2>1, <2>3, <2>4 DEF Clearing
<1>5. ~ \E s \in Routers : Starts(w, s, at[w], at'[w])
  BY DEF Starts
<1>6. QED
  BY <1>3, <1>4, <1>5, Arrives, GoesOn

(* A router's VLANs stay on the leaves that serve its network. *)
LEMMA VlansServed ==
    ASSUME TypeInv, Orderly, OnePerRouter, NeutronInv, RouterRows, RequestRows,
           NEW w \in Workers, Act(w), NEW r \in Routers, at[w].r = r, External(gw'[r]),
           NEW leaf \in Leaves \ Served(gw'[r])
    PROVE  HeldBy(vlantab'[leaf], r) = {}
<1>1. at[w].pc # "idle" /\ Carries(at[w]) /\ life[r] = "alive" /\ ~ External(None)
  BY BusyRouter, RouterGatewayAssumption
     DEF NeutronInv, TypeInv, RequestInv, External
<1>2. gw[r] = IF at[w].op = "update" /\ at[w].pc \in Removing THEN None ELSE at[w].net
  BY <1>1 DEF NeutronInv
<1>3. CASE gw'[r] = gw[r]
  <2>1. HeldBy(vlantab[leaf], r) = {}
    BY <1>3 DEF RouterRows, NoVlan
  <2>2. WriteVlan(w) => leaf # at[w].leaf
    BY <1>1, <1>2, <1>3 DEF WriteVlan, Carries, Adding, Removing, AtLeaf
  <2>3. QED
    BY <1>1, <2>1, <2>2, OwnVlanRows
<1>4. CASE \E net \in setup.nets \cup {None} : UpdateRouter(w, net) /\ gw'[r] # gw[r]
  <2>1. PICK net \in setup.nets \cup {None} : UpdateRouter(w, net) /\ gw'[r] # gw[r]
    BY <1>4
  <2>2. at[w].pc = "upDb" /\ gw'[r] = net /\ UNCHANGED vlantab
    BY <2>1 DEF UpdateRouter, TypeInv, TypeOK
  <2>3. ~ May("replace")
    BY DEF Orderly, May
  <2>4. gw[r] = None
    BY <1>1, <1>2, <2>1, <2>2, <2>3 DEF UpdateRouter, Removing
  <2>5. ~ Clearing(r)
    BY <2>2, NotClearing DEF Removing
  <2>6. NoRows(r)
    BY <1>1, <2>4, <2>5 DEF RouterRows
  <2>7. QED
    BY <2>2, <2>6 DEF NoRows
<1>5. CASE \E q \in Routers, net \in setup.nets \cup {None} : CreateRouter(w, q, net)
  BY <1>1, <1>5 DEF CreateRouter, MayStart
<1>6. CASE DeleteRouter(w) \/ AddFails(w)
  BY <1>1, <1>3, <1>6 DEF DeleteRouter, AddFails, TypeInv, TypeOK
<1>7. QED
  BY <1>3, <1>4, <1>5, <1>6, NeutronFrame

LEMMA RouterRowsStep ==
    ASSUME TypeInv, Orderly, OnePerRouter, NeutronInv, RouterRows, RequestRows, OneEach,
           NEW w \in Workers, Act(w)
    PROVE  RouterRows'
<1>1. \A net : Served(net)' = Served(net)
  BY ActFrame DEF Served
<1>2. SUFFICES ASSUME NEW r \in Routers
               PROVE  /\ life'[r] # "failed" /\ ~ External(gw'[r]) /\ ~ Clearing(r)'
                             => NoRows(r)'
                      /\ External(gw'[r]) =>
                            \A leaf \in Leaves \ Served(gw'[r]) :
                               HeldBy(vlantab'[leaf], r) = {}
  BY <1>1 DEF RouterRows, NoVlan, External
<1>3. CASE at[w].r = r
  <2>1. at[w].pc # "idle"
    BY <1>3, BusyRouter
  <2>2. QED
    BY <1>3, <2>1, EndsWithRows, MovesWithRows, VlansServed
<1>4. CASE at[w].r # r
  <2>1. Clearing(r)' <=> Clearing(r)
    BY <1>4, ClearingOthers
  <2>2. NoRows(r) => NoRows(r)' /\ \A leaf \in Leaves : HeldBy(vlantab'[leaf], r) = {}
    BY <1>4, OthersRows DEF NoRows
  <2>3. \A leaf \in Leaves : NoVlan(leaf, r) => HeldBy(vlantab'[leaf], r) = {}
    BY <1>4, OthersRows DEF NoVlan
  <2>4. CASE life'[r] = life[r] /\ gw'[r] = gw[r]
    BY <2>1, <2>2, <2>3, <2>4 DEF RouterRows
  <2>5. CASE \E net \in setup.nets \cup {None} : CreateRouter(w, r, net)
    <3>1. life[r] = "absent" /\ gw[r] = None /\ MayStart(w, r)
      BY <2>5 DEF CreateRouter, TypeInv, TypeOK
    <3>2. ~ Clearing(r) /\ ~ External(None)
      BY <3>1, StartsAlone, RouterGatewayAssumption DEF External
    <3>3. NoRows(r)
      BY <3>1, <3>2 DEF RouterRows
    <3>4. QED
      BY <2>2, <3>3
  <2>6. CASE \E q \in Routers \ {r}, net \in setup.nets \cup {None} : CreateRouter(w, q, net)
    BY <2>4, <2>6 DEF CreateRouter, TypeInv, TypeOK
  <2>7. at[w].pc # "idle" => at[w].r \in Routers
    BY BusyRouter
  <2>8. CASE DeleteRouter(w) \/ \E net \in setup.nets \cup {None} : UpdateRouter(w, net)
    BY <1>4, <2>4, <2>7, <2>8 DEF DeleteRouter, UpdateRouter, TypeInv, TypeOK
  <2>9. CASE AddFails(w)
    <3>1. at[w].pc # "idle"
      BY <2>9 DEF AddFails, Ipv6Gateway, NoneFree, Refused
    <3>2. QED
      BY <1>4, <2>4, <2>7, <2>9, <3>1 DEF AddFails, TypeInv, TypeOK
  <2>10. QED
    BY <2>4, <2>5, <2>6, <2>8, <2>9, NeutronFrame
<1>5. QED
  BY <1>3, <1>4

LEMMA RestartHeld ==
    ASSUME TypeInv, NEW range \in setup.ranges, Restart(range), NEW r \in Routers
    PROVE  HeldBy(l2tab', r) = HeldBy(l2tab, r)
BY RestartRows, FreeAssumption DEF HeldBy

LEMMA OrderRestart ==
    ASSUME TypeInv, OnePerRouter, NeutronInv, RouterRows, RequestRows, OneEach,
           NEW range \in setup.ranges, Restart(range)
    PROVE  OnePerRouter' /\ NeutronInv' /\ RouterRows' /\ RequestRows' /\ OneEach'
<1>1. UNCHANGED <<setup, life, gw, vlantab, at>>
  BY DEF Restart
<1>2. \A r \in Routers : HeldBy(l2tab', r) = HeldBy(l2tab, r)
  BY RestartHeld
<1>3. OnePerRouter' /\ NeutronInv'
  BY <1>1 DEF OnePerRouter, NeutronInv
<1>4. RouterRows'
  BY <1>1, <1>2 DEF RouterRows, NoRows, NoVlan, Clearing, Served, External
<1>5. \A w \in Workers : at'[w].pc = "idle"
  BY <1>1 DEF Restart
<1>6. RequestRows'
  BY <1>5 DEF RequestRows, Rows, Adding
<1>7. OneEach'
  BY <1>1, <1>2 DEF OneEach
<1>8. QED
  BY <1>3, <1>4, <1>6, <1>7

LEMMA OrderStep ==
    ASSUME TypeInv, OrderInv, [Next]_vars
    PROVE  OrderInv'
<1>1. setup' = setup
  BY NextCases, ActFrame DEF Restart, vars
<1>2. SUFFICES ASSUME Orderly
               PROVE  OnePerRouter' /\ NeutronInv' /\ RouterRows' /\ RequestRows' /\ OneEach'
  BY <1>1 DEF OrderInv, Orderly
<1>3. OnePerRouter /\ NeutronInv /\ RouterRows /\ RequestRows /\ OneEach
  BY <1>2 DEF OrderInv
<1>4. CASE UNCHANGED vars
  <2>1. UNCHANGED <<setup, life, gw, l2tab, vlantab, at>>
    BY <1>4 DEF vars
  <2>2. OnePerRouter' /\ NeutronInv' /\ OneEach'
    BY <1>3, <2>1 DEF OnePerRouter, NeutronInv, OneEach
  <2>3. RouterRows'
    BY <1>3, <2>1 DEF RouterRows, NoRows, NoVlan, Clearing, Served
  <2>4. RequestRows'
    BY <1>3, <2>1 DEF RequestRows, Rows, NoRows, NoVlan, Served
  <2>5. QED
    BY <2>2, <2>3, <2>4
<1>5. CASE \E range \in setup.ranges : Restart(range)
  BY <1>3, <1>5, OrderRestart
<1>6. CASE \E w \in Workers : Act(w)
  BY <1>2, <1>3, <1>6, OnePerRouterStep, NeutronStep, RouterRowsStep, RequestRowsStep,
     OneEachStep
<1>7. QED
  BY <1>4, <1>5, <1>6, NextCases

LEMMA OrderInit ==
    ASSUME Init
    PROVE  OrderInv
<1>1. setup \in Deployments
  BY RouterGatewayAssumption DEF Init
<1>2. \A r \in Routers : HeldBy(l2tab, r) = {}
  <2>1. EmptyTable \in Tables(L2Vnis) /\ DOMAIN EmptyTable = {}
    BY EmptyTableType
  <2>2. l2range \in SUBSET L2Vnis /\ l2tab = Synced(EmptyTable, l2range)
    BY <1>1 DEF Init, Deployments
  <2>3. QED
    BY <2>1, <2>2, SyncedFacts, FreeAssumption DEF HeldBy
<1>3. \A r \in Routers, leaf \in Leaves : HeldBy(vlantab[leaf], r) = {}
  <2>1. EmptyTable \in Tables(Vlans) /\ DOMAIN EmptyTable = {}
    BY EmptyTableType
  <2>2. setup.vlans \in SUBSET Vlans
    BY <1>1 DEF Deployments
  <2>3. \A leaf \in Leaves : vlantab[leaf] = Synced(EmptyTable, setup.vlans)
    BY DEF Init
  <2>4. QED
    BY <2>1, <2>2, <2>3, SyncedFacts, FreeAssumption DEF HeldBy
<1>4. \A w \in Workers : at[w] = Idle /\ at[w].pc = "idle"
  BY DEF Init, Idle
<1>5. OnePerRouter /\ NeutronInv
  BY <1>4 DEF OnePerRouter, NeutronInv
<1>6. RequestRows
  BY <1>4 DEF RequestRows, Rows, Adding
<1>7. RouterRows /\ OneEach
  BY <1>2, <1>3 DEF RouterRows, OneEach, NoRows, NoVlan
<1>8. QED
  BY <1>5, <1>6, <1>7 DEF OrderInv

(* Whatever AFC refuses, whichever creations and deletions die and however *)
(* the ranges move, a router owns at most one L2 VNI and one VLAN of a     *)
(* leaf: requests for one router follow one another, and each allocates    *)
(* only what the router was seen not to own.                               *)
THEOREM OneIdentifierEach == Spec => []AtMostOneEach
<1>1. Init => TypeInv /\ OrderInv
  BY TypeInit, OrderInit
<1>2. TypeInv /\ OrderInv /\ [Next]_vars => (TypeInv /\ OrderInv)'
  BY TypeStep, OrderStep
<1>3. TypeInv /\ OrderInv => AtMostOneEach
  BY DEF OrderInv, Orderly, OneEach, AtMostOneEach
<1>4. QED
  BY <1>1, <1>2, <1>3, PTL DEF Spec

(* ... and once its requests are over, a router without a gateway owns     *)
(* none, unless its own creation failed.                                   *)
THEOREM RowsAreReleased == Spec => []RowsReleased
<1>1. Init => TypeInv /\ OrderInv
  BY TypeInit, OrderInit
<1>2. TypeInv /\ OrderInv /\ [Next]_vars => (TypeInv /\ OrderInv)'
  BY TypeStep, OrderStep
<1>3. TypeInv /\ OrderInv => RowsReleased
  <2>1. ~ External(None)
    BY RouterGatewayAssumption DEF External
  <2>2. ASSUME NEW r \in Routers, Settled(r)
        PROVE  ~ Clearing(r)
    BY <2>2 DEF Settled, Clearing
  <2>3. QED
    BY <2>1, <2>2 DEF OrderInv, Orderly, RouterRows, RowsReleased
<1>4. QED
  BY <1>1, <1>2, <1>3, PTL DEF Spec

-------------------------------------------------------------------------------
(* Requests that follow one another *)

LEMMA OneIsOrderly == OneAtATime => Orderly
BY DEF OneAtATime, Orderly

LEMMA AloneStep ==
    ASSUME TypeInv, OneAtATime, Alone, NEW w \in Workers, Act(w)
    PROVE  Alone'
<1>1. SUFFICES ASSUME NEW u \in Workers, u # w, at[u].pc # "idle", at'[w].pc # "idle"
               PROVE  FALSE
  BY Arrives DEF Alone
<1>2. ~ May("sameRouter") /\ ~ May("overlap")
  BY DEF OneAtATime, Orderly, May
<1>3. at[w].pc = "idle"
  BY <1>1 DEF Alone
<1>4. \E r \in Routers : MayStart(w, r)
  BY <1>1, <1>3, ActGoesOn DEF Starts
<1>5. QED
  BY <1>1, <1>2, <1>4 DEF MayStart

LEMMA AssignedHeld ==
    ASSUME NEW ids, NEW tab \in Tables(ids), NEW i \in DOMAIN tab, NEW r \in Routers
    PROVE  i \in HeldBy(Assigned(tab, i, r), r)
BY AssignedFacts DEF HeldBy

(* The step of the only request keeps what it has chosen. *)
LEMMA ChosenStep ==
    ASSUME TypeInv, Alone, ChosenInv, NEW w \in Workers, Act(w)
    PROVE  Chosen(at[w])'
<1> DEFINE x == at[w]
           y == at'[w]
<1>1. Carries(x) /\ Chosen(x) /\ x \in Requests /\ Arrival(w, x, y)
  BY Arrives DEF TypeInv, TypeOK, RequestInv, ChosenInv
<1>2. CASE y.pc \notin Adding \ {"l2Pick"}
  BY <1>2 DEF Chosen, Adding
<1>3. CASE y.pc = "l2Write"
  <2>1. PICK i \in FreeIds(l2tab) : PickL2Vni(w) /\ y = [x EXCEPT !.pc = "l2Write", !.id = i]
    BY <1>1, <1>3 DEF Arrival
  <2>2. y.id \in FreeIds(l2tab) /\ l2tab' = l2tab
    BY <1>1, <2>1 DEF PickL2Vni, Requests
  <2>3. QED
    BY <1>3, <2>2 DEF Chosen, FreeIds
<1>4. CASE y.pc = "l2Look"
  <2>1. /\ x.pc = "l2Write" /\ y.r = x.r
        /\ l2tab' = Assigned(l2tab, x.id, x.r)
    BY <1>1, <1>4 DEF Arrival, WriteL2Vni, Requests
  <2>2. x.id \in DOMAIN l2tab /\ x.r \in Routers /\ l2tab \in Tables(L2Vnis)
    BY <1>1, <2>1 DEF Chosen, FreeIds, Carries, TypeInv, TypeOK
  <2>3. HeldBy(l2tab', y.r) # {}
    BY <2>1, <2>2, AssignedHeld
  <2>4. QED
    BY <1>4, <2>3 DEF Chosen
<1>5. CASE y.pc = "addLeaf"
  <2>1. CASE LookUpL2Vni(w) /\ \E i \in Lookups(l2tab, x.r, None) :
                y = [x EXCEPT !.pc = "addLeaf", !.vni = i, !.todo = Served(x.net)]
    <3>1. y.vni \in Lookups(l2tab, x.r, None) /\ y.r = x.r
      BY <1>1, <2>1 DEF Requests
    <3>2. HeldBy(l2tab, x.r) # {} /\ l2tab' = l2tab
      BY <1>1, <2>1 DEF LookUpL2Vni, Chosen
    <3>3. QED
      BY <1>5, <3>1, <3>2 DEF Chosen, Lookups
  <2>2. CASE SendRoute(w) /\ y = [x EXCEPT !.pc = "addLeaf"]
    <3>1. x.pc = "sendRoute" /\ l2tab' = l2tab /\ y.vni = x.vni /\ y.r = x.r
      BY <1>1, <2>2 DEF SendRoute, Requests
    <3>2. QED
      BY <1>1, <1>5, <3>1 DEF Chosen, Adding
  <2>3. QED
    BY <1>1, <1>5, <2>1, <2>2 DEF Arrival
<1>6. CASE y.pc = "vlanWrite"
  <2>1. PICK leaf \in x.todo \cap Leaves : \E v \in FreeIds(vlantab[leaf]) :
           /\ PickVlan(w, leaf)
           /\ y = [x EXCEPT !.pc = "vlanWrite", !.leaf = leaf, !.id = v,
                            !.todo = @ \ {leaf}]
    BY <1>1, <1>6 DEF Arrival
  <2>2. /\ y.leaf = leaf /\ y.id \in FreeIds(vlantab[leaf])
        /\ y.vni = x.vni /\ y.r = x.r
    BY <1>1, <2>1 DEF Requests
  <2>3. x.pc = "addLeaf" /\ l2tab' = l2tab /\ vlantab' = vlantab
    BY <2>1 DEF PickVlan
  <2>4. QED
    BY <1>1, <1>6, <2>2, <2>3 DEF Chosen, Adding
<1>7. CASE y.pc = "vlanLook"
  <2>1. /\ x.pc = "vlanWrite" /\ l2tab' = l2tab
        /\ vlantab' = [vlantab EXCEPT ![x.leaf] = Assigned(@, x.id, x.r)]
        /\ y.vni = x.vni /\ y.r = x.r /\ y.leaf = x.leaf
    BY <1>1, <1>7 DEF Arrival, WriteVlan, Requests
  <2>2. /\ x.r \in Routers /\ x.leaf \in Leaves /\ vlantab[x.leaf] \in Tables(Vlans)
        /\ x.id \in DOMAIN vlantab[x.leaf]
    BY <1>1, <2>1 DEF Chosen, FreeIds, Carries, AtLeaf, TypeInv, TypeOK
  <2>3. HeldBy(vlantab'[y.leaf], y.r) # {}
    BY <2>1, <2>2, AssignedHeld DEF TypeInv, TypeOK
  <2>4. QED
    BY <1>1, <1>7, <2>1, <2>3 DEF Chosen, Adding
<1>8. CASE y.pc = "sendConf"
  <2>1. PICK v \in Lookups(vlantab[x.leaf], x.r, None) :
           LookUpVlan(w) /\ y = [x EXCEPT !.pc = "sendConf", !.id = v]
    BY <1>1, <1>8 DEF Arrival
  <2>2. y.id = v /\ y.vni = x.vni /\ y.r = x.r /\ y.leaf = x.leaf
    BY <1>1, <2>1 DEF Requests
  <2>3. x.pc = "vlanLook" /\ l2tab' = l2tab /\ vlantab' = vlantab
    BY <2>1 DEF LookUpVlan
  <2>4. HeldBy(vlantab[x.leaf], x.r) # {}
    BY <1>1, <2>3 DEF Chosen
  <2>5. QED
    BY <1>1, <1>8, <2>1, <2>2, <2>3, <2>4 DEF Chosen, Lookups, Adding
<1>9. CASE y.pc = "sendRoute"
  <2>1. /\ x.pc = "sendConf" /\ l2tab' = l2tab /\ vlantab' = vlantab
        /\ y.vni = x.vni /\ y.r = x.r /\ y.leaf = x.leaf /\ y.id = x.id
    BY <1>1, <1>9 DEF Arrival, SendConfig, Requests
  <2>2. QED
    BY <1>1, <1>9, <2>1 DEF Chosen, Adding
<1>10. QED
  BY <1>2, <1>3, <1>4, <1>5, <1>6, <1>7, <1>8, <1>9 DEF Adding

LEMMA PoolInvStep ==
    ASSUME TypeInv, PoolInv, [Next]_vars
    PROVE  PoolInv'
<1>1. setup' = setup
  BY NextCases, ActFrame DEF Restart, vars
<1>2. SUFFICES ASSUME OneAtATime
               PROVE  Alone' /\ ChosenInv'
  BY <1>1 DEF PoolInv, OneAtATime, Orderly, May
<1>3. Alone /\ ChosenInv
  BY <1>2 DEF PoolInv
<1>4. CASE UNCHANGED vars
  BY <1>3, <1>4 DEF vars, Alone, ChosenInv, Chosen
<1>5. CASE \E range \in setup.ranges : Restart(range)
  BY <1>5 DEF Restart, Alone, ChosenInv, Chosen, Adding
<1>6. ASSUME NEW w \in Workers, Act(w)
      PROVE  Alone' /\ ChosenInv'
  <2>1. Alone'
    BY <1>2, <1>3, <1>6, AloneStep
  <2>2. Chosen(at[w])'
    BY <1>3, <1>6, ChosenStep
  <2>3. ASSUME NEW u \in Workers, u # w
        PROVE  Chosen(at[u])'
    <3>1. CASE at'[u].pc = "idle"
      BY <3>1 DEF Chosen, Adding
    <3>2. CASE at'[u].pc # "idle"
      <4>1. at[u].pc # "idle" /\ at[w].pc = "idle" /\ at'[u] = at[u]
        BY <1>3, <1>6, <2>3, <3>2, Arrives DEF Alone
      <4>2. at'[w].pc = "idle"
        BY <2>1, <2>3, <3>2 DEF Alone
      <4>3. UNCHANGED <<l2tab, vlantab>>
        BY <1>6, <4>1, ActFrame DEF WriteL2Vni, ReleaseL2Vni, WriteVlan, ReleaseVlan
      <4>4. QED
        BY <1>3, <4>1, <4>3 DEF ChosenInv, Chosen
    <3>3. QED
      BY <3>1, <3>2
  <2>4. QED
    BY <2>1, <2>2, <2>3 DEF ChosenInv
<1>7. QED
  BY <1>4, <1>5, <1>6, NextCases

LEMMA PoolInvInit ==
    ASSUME Init
    PROVE  PoolInv
BY DEF Init, PoolInv, Alone, ChosenInv, Chosen, Idle, Adding

(* Only a worker's step on the L2 VNIs concerns the first pool ... *)
LEMMA L2PoolStep ==
    ASSUME TypeInv, OrderInv, PoolInv, [Next]_vars
    PROVE  [L2Pool!Next]_L2Owner
<1>1. OneAtATime' <=> OneAtATime
  BY NextCases, ActFrame DEF Restart, vars, OneAtATime, Orderly, May
<1>2. CASE ~ OneAtATime
  BY <1>1, <1>2 DEF L2Owner
<1> USE DEF TypeInv, TypeOK
<1>3. CASE OneAtATime
  <2>1. RequestRows /\ OneEach /\ ChosenInv
    BY <1>3, OneIsOrderly DEF OrderInv, PoolInv
  <2>2. /\ L2Owner = [i \in L2Vnis |-> IF i \in DOMAIN l2tab THEN l2tab[i] ELSE Free]
        /\ L2Owner' = [i \in L2Vnis |-> IF i \in DOMAIN l2tab' THEN l2tab'[i] ELSE Free]
    BY <1>1, <1>3 DEF L2Owner
  <2>3. CASE l2tab' = l2tab
    BY <2>2, <2>3
  <2>4. CASE \E range \in setup.ranges : Restart(range)
    <3>1. \A i \in L2Vnis : L2Owner'[i] = L2Owner[i]
      BY <2>2, <2>4, RestartRows
    <3>2. L2Owner' = L2Owner
      BY <2>2, <3>1
    <3>3. QED
      BY <3>2
  <2>5. ASSUME NEW w \in Workers, Act(w), WriteL2Vni(w)
        PROVE  L2Pool!Next
    <3>1. /\ at[w].pc = "l2Write" /\ at[w].id \in L2Vnis /\ at[w].r \in Routers
          /\ at[w].id \in FreeIds(l2tab) /\ HeldBy(l2tab, at[w].r) = {}
      BY <2>1, <2>5 DEF WriteL2Vni, RequestInv, Carries, ChosenInv, Chosen,
         RequestRows, Rows, NoRows
    <3>2. l2tab' = Assigned(l2tab, at[w].id, at[w].r)
      BY <2>5 DEF WriteL2Vni
    <3>3. /\ DOMAIN l2tab' = DOMAIN l2tab
          /\ \A j \in DOMAIN l2tab :
                l2tab'[j] = IF j = at[w].id THEN at[w].r ELSE l2tab[j]
      BY <3>1, <3>2, AssignedFacts
    <3>4. L2Owner[at[w].id] = Free /\ at[w].id \in DOMAIN l2tab
      BY <2>2, <3>1 DEF FreeIds
    <3>5. \A j \in L2Vnis : L2Owner[j] # at[w].r
      BY <2>2, <3>1, FreeAssumption DEF HeldBy
    <3>6. L2Owner' = [L2Owner EXCEPT ![at[w].id] = at[w].r]
      BY <2>2, <3>1, <3>3, <3>4
    <3>7. L2Pool!Grant(at[w].id, at[w].r)
      BY <3>4, <3>5, <3>6 DEF L2Pool!Grant
    <3>8. QED
      BY <3>1, <3>7 DEF L2Pool!Next
  <2>6. ASSUME NEW w \in Workers, Act(w), ReleaseL2Vni(w)
        PROVE  L2Pool!Next
    <3>1. /\ at[w].r \in Routers /\ HeldBy(l2tab', at[w].r) = {}
          /\ l2tab' \in Released(l2tab, l2range, {at[w].r})
      BY <2>1, <2>6, ReleasesEmpty DEF ReleaseL2Vni, RequestInv, Carries
    <3>2. /\ \A i \in DOMAIN l2tab' :
                i \in DOMAIN l2tab /\ l2tab'[i] \in {l2tab[i], Free}
          /\ \A i \in DOMAIN l2tab : l2tab[i] # at[w].r =>
                i \in DOMAIN l2tab' /\ l2tab'[i] = l2tab[i]
      BY <3>1, ReleasedFacts
    <3>3. ASSUME NEW i \in L2Vnis
          PROVE  L2Owner'[i] = IF L2Owner[i] \in {at[w].r} THEN Free ELSE L2Owner[i]
      BY <2>2, <3>1, <3>2, FreeAssumption DEF HeldBy
    <3>4. L2Owner' = [i \in L2Vnis |->
                         IF L2Owner[i] \in {at[w].r} THEN Free ELSE L2Owner[i]]
      BY <2>2, <3>3
    <3>5. L2Pool!Reclaim({at[w].r})
      BY <3>4 DEF L2Pool!Reclaim
    <3>6. QED
      BY <3>1, <3>5 DEF L2Pool!Next
  <2>7. QED
    BY <2>3, <2>4, <2>5, <2>6, NextCases, ActFrame DEF vars
<1>4. QED
  BY <1>2, <1>3

(* ... and one on the VLANs of a leaf the second. *)
LEMMA VlanPoolStep ==
    ASSUME TypeInv, OrderInv, PoolInv, [Next]_vars
    PROVE  [VlanPool!Next]_VlanOwner
<1>1. OneAtATime' <=> OneAtATime
  BY NextCases, ActFrame DEF Restart, vars, OneAtATime, Orderly, May
<1>2. CASE ~ OneAtATime
  BY <1>1, <1>2 DEF VlanOwner
<1> USE DEF TypeInv, TypeOK
<1> DEFINE Ids == Leaves \X Vlans
           Owner(tab, x) == IF x[2] \in DOMAIN tab[x[1]] /\ tab[x[1]][x[2]] # Free
                            THEN <<x[1], tab[x[1]][x[2]]>> ELSE Free
<1>3. CASE OneAtATime
  <2>1. RequestRows /\ OneEach /\ ChosenInv
    BY <1>3, OneIsOrderly DEF OrderInv, PoolInv
  <2>2. /\ VlanOwner = [x \in Ids |-> Owner(vlantab, x)]
        /\ VlanOwner' = [x \in Ids |-> Owner(vlantab', x)]
    BY <1>1, <1>3 DEF VlanOwner, FreeIds
  <2>3. CASE vlantab' = vlantab
    BY <2>2, <2>3
  <2>4. ASSUME NEW w \in Workers, Act(w), WriteVlan(w)
        PROVE  VlanPool!Next
    <3>1. /\ at[w].pc = "vlanWrite" /\ at[w].id \in Vlans /\ at[w].r \in Routers
          /\ at[w].leaf \in Leaves /\ at[w].id \in FreeIds(vlantab[at[w].leaf])
          /\ HeldBy(vlantab[at[w].leaf], at[w].r) = {}
      BY <2>1, <2>4 DEF WriteVlan, RequestInv, Carries, ChosenInv, Chosen,
         RequestRows, Rows, NoVlan, AtLeaf
    <3> DEFINE id == <<at[w].leaf, at[w].id>>
               user == <<at[w].leaf, at[w].r>>
    <3>2. /\ \A leaf \in Leaves \ {at[w].leaf} : vlantab'[leaf] = vlantab[leaf]
          /\ DOMAIN vlantab'[at[w].leaf] = DOMAIN vlantab[at[w].leaf]
          /\ \A v \in DOMAIN vlantab[at[w].leaf] :
                vlantab'[at[w].leaf][v] =
                   IF v = at[w].id THEN at[w].r ELSE vlantab[at[w].leaf][v]
      <4>1. /\ vlantab[at[w].leaf] \in Tables(Vlans)
            /\ vlantab' = [vlantab EXCEPT
                              ![at[w].leaf] = Assigned(@, at[w].id, at[w].r)]
        BY <2>4, <3>1 DEF WriteVlan
      <4>2. QED
        BY <3>1, <4>1, AssignedFacts
    <3>3. Owner(vlantab, id) = Free /\ id \in Ids /\ user \in Leaves \X Routers
      BY <3>1 DEF FreeIds
    <3>4. \A x \in Ids : Owner(vlantab, x) # user
      BY <3>1, RouterGatewayAssumption DEF HeldBy
    <3>5. \A x \in Ids : Owner(vlantab', x) = IF x = id THEN user ELSE Owner(vlantab, x)
      <4>1. at[w].id \in DOMAIN vlantab[at[w].leaf] /\ at[w].r # Free
        BY <3>1, FreeAssumption DEF FreeIds
      <4>2. ASSUME NEW leaf \in Leaves, NEW v \in Vlans
            PROVE  Owner(vlantab', <<leaf, v>>) =
                      IF leaf = at[w].leaf /\ v = at[w].id THEN user
                      ELSE Owner(vlantab, <<leaf, v>>)
        BY <3>2, <4>1
      <4>3. QED
        BY <4>2
    <3> HIDE DEF Owner
    <3>6. VlanOwner' = [VlanOwner EXCEPT ![id] = user]
      BY <2>2, <3>3, <3>5
    <3>7. VlanOwner[id] = Free /\ \A x \in Ids : VlanOwner[x] # user
      BY <2>2, <3>3, <3>4
    <3>8. VlanPool!Grant(id, user)
      BY <3>6, <3>7 DEF VlanPool!Grant
    <3>9. QED
      BY <3>3, <3>8 DEF VlanPool!Next
  <2>5. ASSUME NEW w \in Workers, Act(w), ReleaseVlan(w)
        PROVE  VlanPool!Next
    <3>1. /\ at[w].r \in Routers /\ at[w].leaf \in Leaves
          /\ HeldBy(vlantab'[at[w].leaf], at[w].r) = {}
      BY <2>1, <2>5, ReleasesEmpty DEF ReleaseVlan, RequestInv, Carries, AtLeaf
    <3> DEFINE user == <<at[w].leaf, at[w].r>>
    <3>2. /\ \A leaf \in Leaves \ {at[w].leaf} : vlantab'[leaf] = vlantab[leaf]
          /\ \A v \in DOMAIN vlantab'[at[w].leaf] :
                /\ v \in DOMAIN vlantab[at[w].leaf]
                /\ vlantab'[at[w].leaf][v] \in {vlantab[at[w].leaf][v], Free}
          /\ \A v \in DOMAIN vlantab[at[w].leaf] :
                vlantab[at[w].leaf][v] # at[w].r =>
                   /\ v \in DOMAIN vlantab'[at[w].leaf]
                   /\ vlantab'[at[w].leaf][v] = vlantab[at[w].leaf][v]
      <4>1. /\ vlantab[at[w].leaf] \in Tables(Vlans)
            /\ \E t \in Released(vlantab[at[w].leaf], setup.vlans, {at[w].r}) :
                  vlantab' = [vlantab EXCEPT ![at[w].leaf] = t]
        BY <2>5, <3>1 DEF ReleaseVlan
      <4>2. QED
        BY <3>1, <4>1, ReleasedFacts
    <3>3. ASSUME NEW leaf \in Leaves, NEW v \in Vlans
          PROVE  Owner(vlantab', <<leaf, v>>) =
                    IF Owner(vlantab, <<leaf, v>>) \in {user} THEN Free
                    ELSE Owner(vlantab, <<leaf, v>>)
      <4>1. Free \notin {user}
        BY <3>1, RouterGatewayAssumption
      <4>2. CASE leaf # at[w].leaf
        BY <3>2, <4>1, <4>2
      <4>3. CASE leaf = at[w].leaf
        BY <3>1, <3>2, <4>1, <4>3, FreeAssumption DEF HeldBy
      <4>4. QED
        BY <4>2, <4>3
    <3>4. \A x \in Ids : Owner(vlantab', x) =
             IF Owner(vlantab, x) \in {user} THEN Free ELSE Owner(vlantab, x)
      <4> HIDE DEF Owner
      <4>1. QED
        BY <3>3
    <3> HIDE DEF Owner
    <3>5. VlanOwner' = [x \in Ids |->
                           IF VlanOwner[x] \in {user} THEN Free ELSE VlanOwner[x]]
      BY <2>2, <3>4
    <3>6. VlanPool!Reclaim({user})
      BY <3>5 DEF VlanPool!Reclaim
    <3>7. {user} \in SUBSET (Leaves \X Routers)
      BY <3>1
    <3>8. QED
      BY <3>6, <3>7 DEF VlanPool!Next
  <2>6. QED
    BY <2>3, <2>4, <2>5, NextCases, ActFrame DEF vars, Restart
<1>4. QED
  BY <1>2, <1>3

LEMMA PoolsInit ==
    ASSUME Init
    PROVE  L2Pool!Init /\ VlanPool!Init
<1>1. setup \in Deployments
  BY RouterGatewayAssumption DEF Init
<1>2. /\ EmptyTable \in Tables(L2Vnis) /\ EmptyTable \in Tables(Vlans)
      /\ DOMAIN EmptyTable = {}
  BY EmptyTableType
<1>3. \A i \in DOMAIN l2tab : l2tab[i] = Free
  <2>1. l2range \in SUBSET L2Vnis /\ l2tab = Synced(EmptyTable, l2range)
    BY <1>1 DEF Init, Deployments
  <2>2. QED
    BY <1>2, <2>1, SyncedFacts
<1>4. \A leaf \in Leaves : \A v \in DOMAIN vlantab[leaf] : vlantab[leaf][v] = Free
  <2>1. setup.vlans \in SUBSET Vlans
    BY <1>1 DEF Deployments
  <2>2. \A leaf \in Leaves : vlantab[leaf] = Synced(EmptyTable, setup.vlans)
    BY DEF Init
  <2>3. QED
    BY <1>2, <2>1, <2>2, SyncedFacts
<1>5. L2Owner = [i \in L2Vnis |-> Free]
  BY <1>3 DEF L2Owner
<1>6. VlanOwner = [x \in Leaves \X Vlans |-> Free]
  BY <1>4 DEF VlanOwner, FreeIds
<1>7. QED
  BY <1>5, <1>6 DEF L2Pool!Init, VlanPool!Init

(* While requests follow one another, the two tables are identifier pools: *)
(* an identifier is handed out only while nobody owns it, and only to a    *)
(* router that owns none.                                                  *)
THEOREM ImplementPools == Spec => PoolsSpec
<1>1. Init => TypeInv /\ OrderInv /\ PoolInv
  BY TypeInit, OrderInit, PoolInvInit
<1>2. TypeInv /\ OrderInv /\ PoolInv /\ [Next]_vars => (TypeInv /\ OrderInv /\ PoolInv)'
  BY TypeStep, OrderStep, PoolInvStep
<1>3. Init => L2Pool!Init /\ VlanPool!Init
  BY PoolsInit
<1>4. TypeInv /\ OrderInv /\ PoolInv /\ [Next]_vars =>
         [L2Pool!Next]_L2Owner /\ [VlanPool!Next]_VlanOwner
  BY L2PoolStep, VlanPoolStep
<1>5. QED
  BY <1>1, <1>2, <1>3, <1>4, PTL DEF Spec, PoolsSpec, L2Pool!Spec, VlanPool!Spec

-------------------------------------------------------------------------------
(* What is left on the border leaves *)

LEMMA InTurnIsOrderly ==
    UnrefusedInTurn => /\ Orderly /\ OneAtATime
                      /\ ~ May("addFails") /\ ~ May("delFails")
BY DEF UnrefusedInTurn, Orderly, OneAtATime, May

(* Rows are lost by a release only. *)
LEMMA KeptRows ==
    ASSUME TypeInv, ChosenInv, NEW w \in Workers, Act(w), NEW r \in Routers
    PROVE  /\ (ReleaseL2Vni(w) /\ r = at[w].r) \/ HeldBy(l2tab, r) \subseteq HeldBy(l2tab', r)
           /\ \A leaf \in Leaves :
                 \/ ReleaseVlan(w) /\ r = at[w].r /\ leaf = at[w].leaf
                 \/ HeldBy(vlantab[leaf], r) \subseteq HeldBy(vlantab'[leaf], r)
<1>1. Chosen(at[w])
  BY DEF ChosenInv
<1>2. WriteL2Vni(w) => l2tab[at[w].id] = Free
  BY <1>1 DEF WriteL2Vni, Chosen, FreeIds
<1>3. WriteVlan(w) => vlantab[at[w].leaf][at[w].id] = Free
  BY <1>1 DEF WriteVlan, Chosen, FreeIds
<1>4. (ReleaseL2Vni(w) /\ r = at[w].r) \/ HeldBy(l2tab, r) \subseteq HeldBy(l2tab', r)
  BY <1>2, L2Rows, FreeAssumption DEF HeldBy
<1>5. ASSUME NEW leaf \in Leaves
      PROVE  \/ ReleaseVlan(w) /\ r = at[w].r /\ leaf = at[w].leaf
             \/ HeldBy(vlantab[leaf], r) \subseteq HeldBy(vlantab'[leaf], r)
  BY <1>3, VlanRows, FreeAssumption DEF HeldBy
<1>6. QED
  BY <1>4, <1>5

LEMMA FabricOwnedStep ==
    ASSUME TypeInv, RequestRows, ChosenInv, FabricOwned, RemovalInv,
           NEW w \in Workers, Act(w)
    PROVE  FabricOwned'
<1> DEFINE x == at[w]
<1>1. Carries(x) /\ Rows(x) /\ Chosen(x) /\ Finds(x) /\ TypeOK /\ TypeOK'
  BY TypeStep DEF TypeInv, RequestInv, RequestRows, ChosenInv, RemovalInv, Act, Next
<1>2. \A c \in conf : c.router \in Routers /\ c.leaf \in Leaves
  BY <1>1 DEF TypeOK
<1>3. \A c \in route : c.router \in Routers /\ c.leaf \in Leaves
  BY <1>1 DEF TypeOK
<1>4. ASSUME NEW r \in Routers, NEW leaf \in Leaves,
             NEW v \in HeldBy(vlantab[leaf], r), v \notin HeldBy(vlantab'[leaf], r)
      PROVE  /\ \A c \in conf : ~ (c.leaf = leaf /\ c.router = r)
             /\ \A c \in route : ~ (c.leaf = leaf /\ c.router = r)
             /\ UNCHANGED <<conf, route, l2tab>>
  <2>1. ReleaseVlan(w) /\ r = x.r /\ leaf = x.leaf
    BY <1>4, KeptRows
  <2>2. QED
    BY <1>1, <2>1 DEF ReleaseVlan, Finds, fabric
<1>5. ASSUME NEW r \in Routers, NEW i \in HeldBy(l2tab, r), i \notin HeldBy(l2tab', r)
      PROVE  (\A c \in conf : c.router # r) /\ UNCHANGED <<conf, route, vlantab>>
  <2>1. ReleaseL2Vni(w) /\ r = x.r
    BY <1>5, KeptRows
  <2>2. \A leaf \in Leaves : HeldBy(vlantab[leaf], r) = {}
    BY <1>1, <2>1 DEF ReleaseL2Vni, Rows, NoVlan
  <2>3. QED
    BY <1>2, <2>1, <2>2 DEF FabricOwned, ReleaseL2Vni, fabric
<1>6. ASSUME NEW c \in conf'
      PROVE  c.vni \in HeldBy(l2tab', c.router) /\ c.vlan \in HeldBy(vlantab'[c.leaf], c.router)
  <2>1. CASE c \in conf
    BY <1>2, <1>4, <1>5, <2>1 DEF FabricOwned
  <2>2. CASE c \notin conf
    <3>1. SendConfig(w)
      BY <1>6, <2>2, ActFrame DEF DeleteConfig
    <3>2. c = ConfigOf(w) /\ UNCHANGED <<l2tab, vlantab>> /\ x.pc = "sendConf"
      BY <1>6, <2>2, <3>1 DEF SendConfig
    <3>3. c.leaf = x.leaf /\ c.router = x.r /\ c.vni = x.vni /\ c.vlan = x.id
      BY <3>2 DEF ConfigOf, Config
    <3>4. QED
      BY <1>1, <3>2, <3>3 DEF Chosen, Adding
  <2>3. QED
    BY <2>1, <2>2
<1>7. ASSUME NEW c \in route'
      PROVE  c.vlan \in HeldBy(vlantab'[c.leaf], c.router)
  <2>1. CASE c \in route
    BY <1>3, <1>4, <2>1 DEF FabricOwned
  <2>2. CASE c \notin route
    <3>1. SendRoute(w)
      BY <1>7, <2>2, ActFrame DEF DeleteRoute
    <3>2. c = RouteOf(w) /\ UNCHANGED vlantab /\ x.pc = "sendRoute"
      BY <1>7, <2>2, <3>1 DEF SendRoute
    <3>3. c.leaf = x.leaf /\ c.router = x.r /\ c.vlan = x.id
      BY <3>2 DEF RouteOf, Route
    <3>4. QED
      BY <1>1, <3>2, <3>3 DEF Chosen
  <2>3. QED
    BY <2>1, <2>2
<1>8. QED
  BY <1>6, <1>7 DEF FabricOwned

(* The only row of a router is the one it is found to own. *)
LEMMA FindsTheOnlyRow ==
    ASSUME NEW tab, NEW r, NEW i, i \in Lookups(tab, r, None), NEW j \in HeldBy(tab, r),
           \A u, v \in HeldBy(tab, r) : u = v
    PROVE  i = j
BY DEF Lookups

LEMMA FindsStep ==
    ASSUME TypeInv, UnrefusedInTurn, OneEach, ChosenInv, FabricOwned, RemovalInv,
           NEW w \in Workers, Act(w)
    PROVE  Finds(at[w])'
<1> DEFINE x == at[w]
           y == at'[w]
<1>1. /\ Carries(x) /\ Finds(x) /\ x \in Requests /\ Arrival(w, x, y)
  BY Arrives DEF TypeInv, TypeOK, RequestInv, RemovalInv
<1>2. CASE y.pc \notin Removing \ {"delLook"}
  BY <1>2 DEF Finds, Removing
<1>3. CASE y.pc = "delLeaf"
  <2>1. CASE LookUpForDelete(w) /\ \E i \in Lookups(l2tab, x.r, None) :
                y = [x EXCEPT !.pc = "delLeaf", !.vni = i, !.todo = Served(x.net)]
    <3>1. y.vni \in Lookups(l2tab, x.r, None) /\ y.r = x.r /\ l2tab' = l2tab
      BY <1>1, <2>1 DEF Requests, LookUpForDelete
    <3>2. QED
      BY <1>3, <3>1 DEF Finds
  <2>2. CASE ReleaseVlan(w) /\ y = [x EXCEPT !.pc = "delLeaf"]
    <3>1. x.pc = "delVlan" /\ y.vni = x.vni /\ y.r = x.r /\ l2tab' = l2tab
      BY <1>1, <2>2 DEF Requests, ReleaseVlan
    <3>2. QED
      BY <1>1, <1>3, <3>1 DEF Finds, Removing
  <2>3. QED
    BY <1>1, <1>3, <2>1, <2>2 DEF Arrival
<1>4. CASE y.pc = "delRoute"
  <2>1. PICK leaf \in x.todo \cap Leaves : \E v \in Lookups(vlantab[leaf], x.r, None) :
           /\ LookUpLeaf(w, leaf)
           /\ y = [x EXCEPT !.pc = "delRoute", !.leaf = leaf, !.id = v,
                            !.todo = @ \ {leaf}]
    BY <1>1, <1>4 DEF Arrival
  <2>2. /\ y.leaf = leaf /\ y.id \in Lookups(vlantab[leaf], x.r, None)
        /\ y.vni = x.vni /\ y.r = x.r
    BY <1>1, <2>1 DEF Requests
  <2>3. x.pc = "delLeaf" /\ l2tab' = l2tab /\ vlantab' = vlantab
    BY <2>1 DEF LookUpLeaf
  <2>4. QED
    BY <1>1, <1>4, <2>2, <2>3 DEF Finds, Removing
<1>5. CASE y.pc = "delConf"
  <2>1. /\ x.pc = "delRoute" /\ l2tab' = l2tab /\ vlantab' = vlantab
        /\ route' = route \ {RouteOf(w)}
        /\ y.vni = x.vni /\ y.r = x.r /\ y.leaf = x.leaf /\ y.id = x.id
    BY <1>1, <1>5, InTurnIsOrderly DEF Arrival, DeleteRoute, Requests
  <2>2. x.leaf \in Leaves /\ x.r \in Routers
    BY <1>1, <2>1 DEF Carries, AtLeaf
  <2>3. ASSUME NEW c \in route', c.leaf = x.leaf, c.router = x.r
        PROVE  FALSE
    <3>1. c \in route /\ c # RouteOf(w)
      BY <2>1, <2>3
    <3>2. c.vlan \in HeldBy(vlantab[x.leaf], x.r)
      BY <2>3, <3>1 DEF FabricOwned
    <3>3. x.id \in Lookups(vlantab[x.leaf], x.r, None)
      BY <1>1, <2>1 DEF Finds
    <3>4. \A u, v \in HeldBy(vlantab[x.leaf], x.r) : u = v
      BY <2>2 DEF OneEach
    <3>5. c.vlan = x.id
      BY <3>2, <3>3, <3>4, FindsTheOnlyRow
    <3>6. c = [leaf |-> c.leaf, router |-> c.router, vlan |-> c.vlan]
      BY <3>1 DEF TypeInv, TypeOK
    <3>7. QED
      BY <2>3, <3>1, <3>5, <3>6 DEF RouteOf, Route
  <2>4. QED
    BY <1>1, <1>5, <2>1, <2>3 DEF Finds, Removing
<1>6. CASE y.pc = "delVlan"
  <2>1. /\ x.pc = "delConf" /\ l2tab' = l2tab /\ route' = route
        /\ conf' = conf \ {ConfigOf(w)}
        /\ y.vni = x.vni /\ y.r = x.r /\ y.leaf = x.leaf
    BY <1>1, <1>6, InTurnIsOrderly DEF Arrival, DeleteConfig, Requests
  <2>2. x.leaf \in Leaves /\ x.r \in Routers
    BY <1>1, <2>1 DEF Carries, AtLeaf
  <2>3. ASSUME NEW c \in conf', c.leaf = x.leaf, c.router = x.r
        PROVE  FALSE
    <3>1. c \in conf /\ c # ConfigOf(w)
      BY <2>1, <2>3
    <3>2. c.vni \in HeldBy(l2tab, x.r) /\ c.vlan \in HeldBy(vlantab[x.leaf], x.r)
      BY <2>3, <3>1 DEF FabricOwned
    <3>3. x.vni \in Lookups(l2tab, x.r, None) /\ x.id \in Lookups(vlantab[x.leaf], x.r, None)
      BY <1>1, <2>1 DEF Finds, Removing
    <3>4. /\ \A i, j \in HeldBy(l2tab, x.r) : i = j
          /\ \A u, v \in HeldBy(vlantab[x.leaf], x.r) : u = v
      BY <2>2 DEF OneEach
    <3>5. c.vni = x.vni /\ c.vlan = x.id
      BY <3>2, <3>3, <3>4, FindsTheOnlyRow
    <3>6. c = [leaf |-> c.leaf, router |-> c.router, vni |-> c.vni, vlan |-> c.vlan]
      BY <3>1 DEF TypeInv, TypeOK
    <3>7. QED
      BY <2>3, <3>1, <3>5, <3>6 DEF ConfigOf, Config
  <2>4. QED
    BY <1>1, <1>6, <2>1, <2>3 DEF Finds, Removing
<1>7. QED
  BY <1>2, <1>3, <1>4, <1>5, <1>6 DEF Removing

LEMMA FabricRestart ==
    ASSUME TypeInv, FabricOwned, NEW range \in setup.ranges, Restart(range)
    PROVE  FabricOwned' /\ RemovalInv'
<1>1. UNCHANGED <<vlantab, conf, route>> /\ \A w \in Workers : at'[w].pc = "idle"
  BY DEF Restart, fabric
<1>2. \A c \in conf : HeldBy(l2tab', c.router) = HeldBy(l2tab, c.router)
  BY RestartHeld DEF TypeInv, TypeOK
<1>3. FabricOwned'
  BY <1>1, <1>2 DEF FabricOwned
<1>4. RemovalInv'
  BY <1>1 DEF RemovalInv, Finds, Removing
<1>5. QED
  BY <1>3, <1>4

LEMMA FabricStep ==
    ASSUME TypeInv, OrderInv, PoolInv, FabricInv, [Next]_vars
    PROVE  FabricInv'
<1>1. setup' = setup
  BY NextCases, ActFrame DEF Restart, vars
<1>2. SUFFICES ASSUME UnrefusedInTurn
               PROVE  FabricOwned' /\ RemovalInv'
  BY <1>1 DEF FabricInv, UnrefusedInTurn
<1>3. FabricOwned /\ RemovalInv /\ RequestRows /\ OneEach /\ Alone /\ ChosenInv
  BY <1>2, InTurnIsOrderly DEF FabricInv, OrderInv, PoolInv
<1>4. CASE UNCHANGED vars
  BY <1>3, <1>4 DEF vars, FabricOwned, RemovalInv, Finds
<1>5. CASE \E range \in setup.ranges : Restart(range)
  BY <1>3, <1>5, FabricRestart
<1>6. ASSUME NEW w \in Workers, Act(w)
      PROVE  FabricOwned' /\ RemovalInv'
  <2>1. FabricOwned'
    BY <1>3, <1>6, FabricOwnedStep
  <2>2. Finds(at[w])'
    BY <1>2, <1>3, <1>6, FindsStep
  <2>3. ASSUME NEW u \in Workers, u # w
        PROVE  Finds(at[u])'
    <3>1. CASE at'[u].pc = "idle"
      BY <3>1 DEF Finds, Removing
    <3>2. CASE at'[u].pc # "idle"
      <4>1. at[w].pc = "idle" /\ at'[u] = at[u]
        BY <1>3, <1>6, <2>3, <3>2, Arrives DEF Alone
      <4>2. UNCHANGED <<l2tab, vlantab, conf, route>>
        BY <1>6, <4>1, ActFrame
           DEF WriteL2Vni, ReleaseL2Vni, WriteVlan, ReleaseVlan, SendConfig, SendRoute,
               DeleteConfig, DeleteRoute
      <4>3. QED
        BY <1>3, <4>1, <4>2 DEF RemovalInv, Finds
    <3>3. QED
      BY <3>1, <3>2
  <2>4. QED
    BY <2>1, <2>2, <2>3 DEF RemovalInv
<1>7. QED
  BY <1>4, <1>5, <1>6, NextCases

FullInv == TypeInv /\ OrderInv /\ PoolInv /\ FabricInv

LEMMA FullInvariant == Spec => []FullInv
<1>1. Init => FullInv
  <2>1. Init => FabricInv
    BY DEF Init, FabricInv, FabricOwned, RemovalInv, Finds, Idle, Removing
  <2>2. QED
    BY <2>1, TypeInit, OrderInit, PoolInvInit DEF FullInv
<1>2. FullInv /\ [Next]_vars => FullInv'
  BY TypeStep, OrderStep, PoolInvStep, FabricStep DEF FullInv
<1>3. QED
  BY <1>1, <1>2, PTL DEF Spec

(* Unless AFC refuses or requests overlap, a settled router without a      *)
(* gateway has nothing left on a border leaf, although a removal that      *)
(* follows a dead one looks up identifiers that the dead one may have      *)
(* released already.                                                       *)
THEOREM LeavesAreCleaned == Spec => []LeavesCleaned
<1>1. FullInv => LeavesCleaned
  <2>1. SUFFICES ASSUME FullInv, UnrefusedInTurn, NEW r \in Routers, Settled(r),
                        gw[r] = None, life[r] # "failed"
                 PROVE  \A x \in conf \cup route : x.router # r
    BY DEF LeavesCleaned, UnrefusedInTurn
  <2>2. RouterRows /\ FabricOwned /\ TypeOK
    BY <2>1, InTurnIsOrderly DEF FullInv, OrderInv, FabricInv, TypeInv
  <2>3. ~ External(None) /\ ~ Clearing(r)
    BY <2>1, RouterGatewayAssumption DEF External, Settled, Clearing
  <2>4. NoRows(r)
    BY <2>1, <2>2, <2>3 DEF RouterRows
  <2>5. \A x \in conf \cup route : x.leaf \in Leaves
    BY <2>2 DEF TypeOK
  <2>6. QED
    BY <2>2, <2>4, <2>5 DEF FabricOwned, NoRows
<1>2. QED
  BY <1>1, FullInvariant, PTL

(* Under the same conditions no VLAN of a border leaf leads to two         *)
(* routers: two requests that overlap may write one row (no lock is held   *)
(* between the reading and the update), and both routers would use it.     *)
THEOREM NoVlanShared == Spec => []NoSharedVlan
<1>1. FullInv => NoSharedVlan
  BY DEF FullInv, FabricInv, UnrefusedInTurn, FabricOwned, NoSharedVlan, HeldBy
<1>2. QED
  BY <1>1, FullInvariant, PTL

-------------------------------------------------------------------------------
(* Gateways that are ready *)

LEMMA UndisturbedIsOrderly ==
    Undisturbed => /\ UnrefusedInTurn /\ Orderly /\ OneAtATime
                   /\ \A kind \in FaultKinds \ {"createGw"} : ~ May(kind)
BY DEF Undisturbed, UnrefusedInTurn, Orderly, OneAtATime, May

(* A release keeps the row of every identifier in the range, when each     *)
(* owner has one row.                                                      *)
LEMMA ReleasedKeepsRange ==
    ASSUME NEW tab, NEW range, NEW owners \in SUBSET Routers,
           NEW new \in Released(tab, range, owners),
           \A s \in Routers : \A i, j \in HeldBy(tab, s) : i = j,
           NEW i \in DOMAIN tab, i \in range
    PROVE  i \in DOMAIN new
<1> DEFINE gone == owners \cap Holders(tab)
<1>1. PICK f \in FirstRows(tab, gone) : new = GivenUp(tab, range, gone, f)
  BY DEF Released
<1>2. ASSUME tab[i] \in gone
      PROVE  f[tab[i]] = i
  BY <1>1, <1>2 DEF FirstRows, HeldBy
<1>3. QED
  BY <1>1, <1>2 DEF GivenUp

LEMMA ConfiguredStep ==
    ASSUME TypeInv, OrderInv, Configured, [Next]_vars
    PROVE  Configured'
<1>1. setup' = setup
  BY NextCases, ActFrame DEF Restart, vars
<1>2. SUFFICES ASSUME Orderly
               PROVE  /\ l2range' \subseteq DOMAIN l2tab'
                      /\ \A leaf \in Leaves : setup.vlans \subseteq DOMAIN vlantab'[leaf]
  BY <1>1 DEF Configured, Orderly
<1>3. /\ l2range \subseteq DOMAIN l2tab /\ OneEach
      /\ \A leaf \in Leaves : setup.vlans \subseteq DOMAIN vlantab[leaf]
  BY <1>2 DEF Configured, OrderInv
<1>4. CASE UNCHANGED vars
  BY <1>3, <1>4 DEF vars
<1>5. CASE \E range \in setup.ranges : Restart(range)
  BY <1>3, <1>5, RestartRows DEF Restart
<1>6. ASSUME NEW w \in Workers, Act(w)
      PROVE  /\ l2range' \subseteq DOMAIN l2tab'
             /\ \A leaf \in Leaves : setup.vlans \subseteq DOMAIN vlantab'[leaf]
  <2>1. l2range' = l2range
    BY <1>6, ActFrame
  <2>2. l2range \subseteq DOMAIN l2tab'
    <3>1. CASE ReleaseL2Vni(w)
      <4>1. at[w].r \in Routers /\ l2tab' \in Released(l2tab, l2range, {at[w].r})
        BY <3>1, BusyRouter DEF ReleaseL2Vni
      <4>2. {at[w].r} \in SUBSET Routers
            /\ \A s \in Routers : \A i, j \in HeldBy(l2tab, s) : i = j
        BY <1>3, <4>1 DEF OneEach
      <4>3. QED
        BY <1>3, <4>1, <4>2, ReleasedKeepsRange
    <3>2. CASE ~ ReleaseL2Vni(w)
      BY <1>3, <1>6, <3>2, L2Rows
    <3>3. QED
      BY <3>1, <3>2
  <2>3. ASSUME NEW leaf \in Leaves
        PROVE  setup.vlans \subseteq DOMAIN vlantab'[leaf]
    <3>1. CASE ReleaseVlan(w) /\ leaf = at[w].leaf
      <4>1. /\ at[w].r \in Routers
            /\ vlantab'[leaf] \in Released(vlantab[leaf], setup.vlans, {at[w].r})
        BY <3>1, BusyRouter DEF ReleaseVlan, TypeInv, TypeOK
      <4>2. {at[w].r} \in SUBSET Routers
            /\ \A s \in Routers : \A i, j \in HeldBy(vlantab[leaf], s) : i = j
        BY <1>3, <4>1 DEF OneEach
      <4>3. QED
        BY <1>3, <4>1, <4>2, ReleasedKeepsRange
    <3>2. CASE ~ (ReleaseVlan(w) /\ leaf = at[w].leaf)
      BY <1>3, <1>6, <3>2, VlanRows
    <3>3. QED
      BY <3>1, <3>2
  <2>4. QED
    BY <2>1, <2>2, <2>3
<1>7. QED
  BY <1>4, <1>5, <1>6, NextCases

LEMMA ConfiguredInit ==
    ASSUME Init
    PROVE  Configured
<1>1. setup \in Deployments
  BY RouterGatewayAssumption DEF Init
<1>2. EmptyTable \in Tables(L2Vnis) /\ EmptyTable \in Tables(Vlans)
  BY EmptyTableType
<1>3. l2range \in SUBSET L2Vnis /\ setup.vlans \in SUBSET Vlans
  BY <1>1 DEF Init, Deployments
<1>4. QED
  BY <1>2, <1>3, SyncedFacts DEF Init, Configured

(* With an identifier for every router, one that owns none finds one free. *)
LEMMA EnoughIdentifiers ==
    ASSUME IsFiniteSet(Routers), NEW ids, NEW tab \in Tables(ids), NEW range,
           range \subseteq DOMAIN tab, Cardinality(Routers) <= Cardinality(range),
           NEW r \in Routers, HeldBy(tab, r) = {},
           \A s \in Routers : \A i, j \in HeldBy(tab, s) : i = j
    PROVE  FreeIds(tab) # {}
<1>1. SUFFICES ASSUME FreeIds(tab) = {}
               PROVE  FALSE
  OBVIOUS
<1> DEFINE f == [i \in range |-> tab[i]]
<1>2. \A i \in range : tab[i] \in Routers \ {r}
  BY <1>1, TableIsFunction DEF FreeIds, HeldBy
<1>3. \A i, j \in range : tab[i] = tab[j] => i = j
  BY <1>2 DEF HeldBy
<1>4. f \in Injection(range, Routers \ {r})
  BY <1>2, <1>3 DEF Injection, IsInjective
<1>5. /\ IsFiniteSet(Routers \ {r})
      /\ Cardinality(Routers \ {r}) = Cardinality(Routers) - 1
  BY FS_RemoveElement
<1>6. Cardinality(range) <= Cardinality(Routers \ {r})
  BY <1>4, <1>5, FS_Injection
<1>7. IsFiniteSet(range)
  BY <1>4, <1>5, FS_Injection
<1>8. Cardinality(range) \in Nat /\ Cardinality(Routers) \in Nat
  BY <1>7, FS_CardinalityType
<1>9. QED
  BY <1>5, <1>6, <1>8

(* ... so nothing but an IPv6 gateway makes an addition fail.              *)
LEMMA NothingFails ==
    ASSUME IsFiniteSet(Routers), TypeInv, OrderInv, Configured, Undisturbed, Plenty,
           NEW w \in Workers, AddFails(w)
    PROVE  at[w].net \in Ipv6
<1>1. /\ Orderly /\ ~ May("addFails") /\ OneEach /\ Rows(at[w]) /\ Carries(at[w])
      /\ l2range \subseteq DOMAIN l2tab
      /\ \A leaf \in Leaves : setup.vlans \subseteq DOMAIN vlantab[leaf]
  BY UndisturbedIsOrderly
     DEF FaultKinds, OrderInv, RequestRows, TypeInv, RequestInv, Configured
<1>2. at[w].pc = "l2Pick" => FreeIds(l2tab) # {}
  <2>1. SUFFICES ASSUME at[w].pc = "l2Pick"
                 PROVE  FreeIds(l2tab) # {}
    OBVIOUS
  <2>2. at[w].r \in Routers /\ HeldBy(l2tab, at[w].r) = {}
    BY <1>1, <2>1 DEF Carries, Rows, NoRows
  <2>3. l2tab \in Tables(L2Vnis) /\ Cardinality(Routers) <= Cardinality(l2range)
    BY DEF TypeInv, TypeOK, Plenty
  <2>4. QED
    BY <1>1, <2>2, <2>3, EnoughIdentifiers DEF OneEach
<1>3. ASSUME at[w].pc = "addLeaf", NEW leaf \in at[w].todo
      PROVE  FreeIds(vlantab[leaf]) # {}
  <2>1. /\ at[w].r \in Routers /\ leaf \in Leaves
        /\ HeldBy(vlantab[leaf], at[w].r) = {}
    BY <1>1, <1>3 DEF Carries, Rows, NoVlan, Adding, TypeInv, TypeOK, Requests
  <2>2. vlantab[leaf] \in Tables(Vlans) /\ Cardinality(Routers) <= Cardinality(setup.vlans)
    BY <2>1 DEF TypeInv, TypeOK, Plenty
  <2>3. \A s \in Routers : \A u, v \in HeldBy(vlantab[leaf], s) : u = v
    BY <1>1, <2>1 DEF OneEach
  <2>4. QED
    BY <1>1, <2>1, <2>2, <2>3, EnoughIdentifiers
<1>4. QED
  BY <1>1, <1>2, <1>3 DEF AddFails, Ipv6Gateway, NoneFree, Refused

(* What another router has ready stays so. *)
LEMMA OthersReady ==
    ASSUME TypeInv, ChosenInv, NEW w \in Workers, Act(w), NEW r \in Routers,
           r # at[w].r, NEW leaf \in Leaves, Ready(leaf, r)
    PROVE  Ready(leaf, r)'
<1>1. PICK i \in HeldBy(l2tab, r), v \in HeldBy(vlantab[leaf], r) :
         Config(leaf, r, i, v) \in conf /\ Route(leaf, r, v) \in route
  BY DEF Ready
<1>2. i \in HeldBy(l2tab', r) /\ v \in HeldBy(vlantab'[leaf], r)
  BY KeptRows
<1>3. Config(leaf, r, i, v) # ConfigOf(w) /\ Route(leaf, r, v) # RouteOf(w)
  BY DEF ConfigOf, RouteOf, Config, Route
<1>4. Config(leaf, r, i, v) \in conf'
  BY <1>1, <1>3, ActFrame DEF SendConfig, DeleteConfig
<1>5. Route(leaf, r, v) \in route'
  BY <1>1, <1>3, ActFrame DEF SendRoute, DeleteRoute
<1>6. QED
  BY <1>2, <1>4, <1>5 DEF Ready

(* What a request that adds has ready stays so, too. *)
LEMMA OwnReady ==
    ASSUME TypeInv, ChosenInv, NEW w \in Workers, Act(w), at[w].pc \notin Removing,
           NEW r \in Routers, NEW leaf \in Leaves, Ready(leaf, r)
    PROVE  Ready(leaf, r)'
<1>1. PICK i \in HeldBy(l2tab, r), v \in HeldBy(vlantab[leaf], r) :
         Config(leaf, r, i, v) \in conf /\ Route(leaf, r, v) \in route
  BY DEF Ready
<1>2. i \in HeldBy(l2tab', r) /\ v \in HeldBy(vlantab'[leaf], r)
  BY KeptRows DEF ReleaseL2Vni, ReleaseVlan, Removing
<1>3. conf \subseteq conf' /\ route \subseteq route'
  BY ActFrame DEF SendConfig, SendRoute, DeleteConfig, DeleteRoute, Removing
<1>4. QED
  BY <1>1, <1>2, <1>3 DEF Ready

(* A request leaves a leaf behind only when it is ready. *)
LEMMA LeafDone ==
    ASSUME TypeInv, ChosenInv, Sent, NEW w \in Workers, Act(w),
           NEW r \in Routers, at[w].r = r,
           at[w].pc \in Adding, Continues(w, at[w], at'[w]),
           NEW leaf \in Served(at[w].net), leaf \in Missing(at[w])
    PROVE  Ready(leaf, r)' \/ leaf \in Missing(at'[w])
<1> DEFINE x == at[w]
           y == at'[w]
<1>1. /\ Arrival(w, x, y) /\ x \in Requests /\ y \in Requests /\ Carries(x) /\ Chosen(x)
      /\ y.pc \in Adding /\ leaf \in Leaves
  <2>1. y.pc \in Adding
    BY DEF Continues, Adding, Removing, ReleaseL2Vni, RemovalRaises
  <2>2. Served(x.net) \subseteq Leaves
    BY RouterGatewayAssumption
       DEF TypeInv, TypeOK, RequestInv, Carries, External, Served, Deployments
  <2>3. QED
    BY <2>1, <2>2, Arrives, RequestStep DEF TypeInv, TypeOK, RequestInv, ChosenInv
<1>2. CASE y.pc \in {"l2Pick", "l2Write", "l2Look"}
  BY <1>1, <1>2 DEF Missing, Adding
<1>3. CASE y.pc = "addLeaf"
  <2>1. CASE y.todo = Served(x.net)
    BY <1>3, <2>1 DEF Missing, Adding
  <2>2. CASE SendRoute(w) /\ y.todo = x.todo
    <3>1. x.pc = "sendRoute" /\ route' = route \cup {RouteOf(w)}
          /\ UNCHANGED <<l2tab, vlantab, conf>>
      BY <2>2 DEF SendRoute
    <3>2. leaf \in x.todo \cup {x.leaf}
      BY <3>1 DEF Missing, Adding, Removing, AtLeaf
    <3>3. CASE leaf \in x.todo
      BY <1>3, <2>2, <3>3 DEF Missing, Adding
    <3>4. CASE leaf = x.leaf
      <4>1. x.vni \in HeldBy(l2tab, r) /\ x.id \in HeldBy(vlantab[leaf], r)
        BY <1>1, <3>1, <3>4 DEF Chosen, Adding
      <4>2. Config(leaf, r, x.vni, x.id) \in conf'
        BY <3>1, <3>4 DEF Sent, ConfigOf
      <4>3. Route(leaf, r, x.id) \in route'
        BY <3>1, <3>4 DEF RouteOf
      <4>4. QED
        BY <3>1, <4>1, <4>2, <4>3 DEF Ready
    <3>5. QED
      BY <3>2, <3>3, <3>4
  <2>3. QED
    BY <1>1, <1>3, <2>1, <2>2 DEF Arrival, Requests
<1>4. CASE y.pc = "vlanWrite"
  <2>1. PICK lf \in x.todo \cap Leaves : \E v \in FreeIds(vlantab[lf]) :
           /\ PickVlan(w, lf)
           /\ y = [x EXCEPT !.pc = "vlanWrite", !.leaf = lf, !.id = v,
                            !.todo = @ \ {lf}]
    BY <1>1, <1>4 DEF Arrival
  <2>2. y.todo = x.todo \ {lf} /\ y.leaf = lf /\ x.pc = "addLeaf"
    BY <1>1, <2>1 DEF Requests, PickVlan
  <2>3. QED
    BY <1>4, <2>2 DEF Missing, Adding, Removing, AtLeaf
<1>5. CASE y.pc = "vlanLook"
  <2>1. x.pc = "vlanWrite" /\ y.todo = x.todo /\ y.leaf = x.leaf
    BY <1>1, <1>5 DEF Arrival, WriteVlan, Requests
  <2>2. QED
    BY <1>5, <2>1 DEF Missing, Adding, Removing, AtLeaf
<1>6. CASE y.pc = "sendConf"
  <2>1. x.pc = "vlanLook" /\ y.todo = x.todo /\ y.leaf = x.leaf
    BY <1>1, <1>6 DEF Arrival, LookUpVlan, Requests
  <2>2. QED
    BY <1>6, <2>1 DEF Missing, Adding, Removing, AtLeaf
<1>7. CASE y.pc = "sendRoute"
  <2>1. x.pc = "sendConf" /\ y.todo = x.todo /\ y.leaf = x.leaf
    BY <1>1, <1>7 DEF Arrival, SendConfig, Requests
  <2>2. QED
    BY <1>7, <2>1 DEF Missing, Adding, Removing, AtLeaf
<1>8. QED
  BY <1>1, <1>2, <1>3, <1>4, <1>5, <1>6, <1>7 DEF Adding

(* The steps that end a request. *)
LEMMA EndingSteps ==
    ASSUME TypeInv, NEW w \in Workers, Act(w), at[w].pc # "idle", at'[w].pc = "idle"
    PROVE  \/ \E net \in setup.nets \cup {None} : UpdateRouter(w, net)
           \/ RequestRaises(w) \/ DeleteRouter(w) \/ AddFails(w) \/ AddDone(w)
           \/ ReleaseL2Vni(w) \/ RemovalRaises(w) \/ Crash(w)
<1> USE DEF TypeInv, TypeOK, Requests
<1>1. \A r \in Routers :
         ~ ReadRouter(w, r) /\ \A net \in setup.nets \cup {None} : ~ CreateRouter(w, r, net)
  BY DEF ReadRouter, CreateRouter, MayStart
<1>2. ~ PickL2Vni(w) /\ ~ LookUpL2Vni(w) /\ ~ LookUpVlan(w) /\ ~ LookUpForDelete(w)
  <2>1. ASSUME NEW i, at' = [at EXCEPT ![w].pc = "l2Write", ![w].id = i]
        PROVE  FALSE
    BY <2>1
  <2>2. ASSUME NEW i, at' = [at EXCEPT ![w].pc = "sendConf", ![w].id = i]
        PROVE  FALSE
    BY <2>2
  <2>3. ASSUME NEW i, at' = [at EXCEPT ![w].pc = "addLeaf", ![w].vni = i,
                                       ![w].todo = Served(at[w].net)]
        PROVE  FALSE
    BY <2>3
  <2>4. ASSUME NEW i, at' = [at EXCEPT ![w].pc = "delLeaf", ![w].vni = i,
                                       ![w].todo = Served(at[w].net)]
        PROVE  FALSE
    BY <2>4
  <2>5. ~ PickL2Vni(w)
    BY <2>1 DEF PickL2Vni
  <2>6. ~ LookUpVlan(w)
    BY <2>2 DEF LookUpVlan
  <2>7. ~ LookUpL2Vni(w)
    BY <2>3 DEF LookUpL2Vni
  <2>8. ~ LookUpForDelete(w)
    BY <2>4 DEF LookUpForDelete
  <2>9. QED
    BY <2>5, <2>6, <2>7, <2>8
<1>3. \A leaf \in Leaves : ~ PickVlan(w, leaf) /\ ~ LookUpLeaf(w, leaf)
  <2>1. ASSUME NEW leaf, NEW i, NEW point \in {"vlanWrite", "delRoute"},
               TakeLeaf(w, leaf, i, point)
        PROVE  FALSE
    BY <2>1 DEF TakeLeaf
  <2>2. QED
    BY <2>1 DEF PickVlan, LookUpLeaf
<1>4. ~ WriteL2Vni(w) /\ ~ WriteVlan(w) /\ ~ SendConfig(w) /\ ~ SendRoute(w)
  BY DEF WriteL2Vni, WriteVlan, SendConfig, SendRoute, Step
<1>5. ~ DeleteRoute(w) /\ ~ DeleteConfig(w) /\ ~ ReleaseVlan(w)
  BY DEF DeleteRoute, DeleteConfig, ReleaseVlan, Step
<1>6. QED
  BY <1>1, <1>2, <1>3, <1>4, <1>5 DEF Act, Request, AddGateway, RemoveGateway

(* Neutron changes a gateway only for the request that asked for it, and   *)
(* nothing of it is then set up yet.                                       *)
LEMMA AllReadyStep ==
    ASSUME IsFiniteSet(Routers), FullInv, Configured, Undisturbed, Plenty, Sent, AllReady,
           NEW w \in Workers, Act(w)
    PROVE  AllReady'
<1> DEFINE x == at[w]
           y == at'[w]
<1>1. /\ TypeInv /\ OrderInv /\ Orderly /\ OnePerRouter /\ NeutronInv /\ ChosenInv
      /\ \A kind \in FaultKinds \ {"createGw"} : ~ May(kind)
  BY UndisturbedIsOrderly DEF FullInv, OrderInv, PoolInv
<1>2. \A net : Served(net)' = Served(net) /\ External(net)' = External(net)
  BY <1>1, ActFrame DEF Served, External
<1>3. gw \in [Routers -> Nets \cup {None}] /\ ~ External(None)
  BY <1>1, RouterGatewayAssumption DEF TypeInv, TypeOK, External
<1>4. SUFFICES ASSUME NEW r \in Routers, External(gw'[r]), gw'[r] \notin Ipv6,
                      NEW leaf \in Served(gw'[r])
               PROVE  Ready(leaf, r)' \/ \E u \in Workers : at'[u].r = r /\ leaf \in Missing(at'[u])
  BY <1>2 DEF AllReady, Missing
<1>5. leaf \in Leaves
  BY <1>1, <1>4, RouterGatewayAssumption
     DEF TypeInv, TypeOK, External, Served, Deployments
<1>6. ASSUME gw'[r] = gw[r]
      PROVE  \/ Ready(leaf, r)
             \/ \E u \in Workers : at[u].r = r /\ leaf \in Missing(at[u])
  BY <1>4, <1>6 DEF AllReady
<1>7. CASE x.r # r
  <2>1. CASE gw'[r] = gw[r]
    <3>1. CASE Ready(leaf, r)
      BY <1>1, <1>5, <1>7, <3>1, OthersReady
    <3>2. CASE \E u \in Workers : at[u].r = r /\ leaf \in Missing(at[u])
      BY <1>1, <1>7, <3>2, Arrives
    <3>3. QED
      BY <1>6, <2>1, <3>1, <3>2
  <2>2. CASE gw'[r] # gw[r]
    <3>1. \E net \in setup.nets \cup {None} : CreateRouter(w, r, net)
      <4>1. CASE \E q \in Routers, net \in setup.nets \cup {None} : CreateRouter(w, q, net)
        BY <1>3, <2>2, <4>1 DEF CreateRouter
      <4>2. CASE DeleteRouter(w) \/ AddFails(w)
                    \/ \E net \in setup.nets \cup {None} : UpdateRouter(w, net)
        BY <1>3, <1>7, <2>2, <4>2 DEF DeleteRouter, AddFails, UpdateRouter
      <4>3. QED
        BY <2>2, <4>1, <4>2, NeutronFrame
    <3>2. y = Fresh("create", r, gw'[r], "l2Pick")
      BY <1>1, <1>3, <1>4, <3>1 DEF CreateRouter, Begin, Fresh, TypeInv, TypeOK
    <3>3. y.r = r /\ y.pc = "l2Pick"
      BY <3>2, FreshFields
    <3>4. QED
      BY <1>5, <3>3 DEF Missing
  <2>3. QED
    BY <2>1, <2>2
<1>8. CASE x.r = r
  <2>1. /\ x.pc # "idle" /\ Carries(x) /\ life[r] = "alive"
        /\ gw[r] = IF x.op = "update" /\ x.pc \in Removing THEN None ELSE x.net
        /\ \A u \in Workers : at[u].r = r => u = w
    <3>1. x.pc # "idle" /\ Carries(x)
      BY <1>1, <1>8, BusyRouter DEF TypeInv, RequestInv
    <3>2. \A u \in Workers : at[u].r = r => at[u].pc # "idle"
      BY <1>1, BusyRouter
    <3>3. QED
      BY <1>1, <1>8, <3>1, <3>2 DEF NeutronInv, OnePerRouter
  <2>2. CASE Chooses(w, x, y)
    <3>1. \A net : UpdateRouter(w, net) => gw'[r] = net
      BY <1>3, <1>8 DEF UpdateRouter
    <3>2. y.pc = "l2Pick" /\ y.r = r
      BY <1>3, <1>4, <1>8, <2>2, <3>1 DEF Chooses
    <3>3. QED
      BY <1>5, <3>2 DEF Missing
  <2>3. CASE Continues(w, x, y) /\ x.pc \in Adding
    <3>1. gw'[r] = gw[r] /\ gw[r] = x.net /\ y.r = r
      BY <1>8, <2>1, <2>3 DEF Continues, Adding, Removing
    <3>2. CASE Ready(leaf, r)
      BY <1>1, <1>5, <2>3, <3>2, OwnReady DEF Adding, Removing
    <3>3. CASE leaf \in Missing(x)
      BY <1>1, <1>4, <1>8, <2>3, <3>1, <3>3, LeafDone
    <3>4. QED
      BY <1>6, <2>1, <3>1, <3>2, <3>3, LeafDone
  <2>4. CASE Continues(w, x, y) /\ x.pc \notin Adding
    <3>1. y.pc \in Removing \cup {"delDb"} /\ y.r = r
      BY <1>8, <2>4 DEF Continues
    <3>2. QED
      BY <1>5, <3>1 DEF Missing
  <2>5. CASE y.pc = "idle"
    <3>1. CASE gw'[r] = gw[r] /\ x.pc \notin Removing /\ leaf \notin Missing(x)
      BY <1>1, <1>5, <1>6, <2>1, <3>1, OwnReady
    <3>2. CASE \E net \in setup.nets \cup {None} : UpdateRouter(w, net)
      <4>1. PICK net \in setup.nets \cup {None} : UpdateRouter(w, net)
        BY <3>2
      <4>2. x.pc = "upDb" /\ gw'[r] = net /\ gw[r] = x.net
        BY <1>3, <1>8, <2>1, <4>1 DEF UpdateRouter, Removing
      <4>3. leaf \notin Missing(x) /\ x.pc \notin Removing
        BY <4>2 DEF Missing, Adding, Removing
      <4>4. [x EXCEPT !.pc = "l2Pick", !.net = net].pc = "l2Pick"
        BY <1>1 DEF TypeInv, TypeOK, Requests
      <4>5. x.net # None
        BY <1>1, <1>3, <1>4, <2>5, <4>1, <4>2, <4>4 DEF UpdateRouter, TypeInv, TypeOK
      <4>6. net = x.net
        BY <1>1, <1>3, <1>4, <4>1, <4>2, <4>5 DEF UpdateRouter, FaultKinds
      <4>7. QED
        BY <3>1, <4>2, <4>3, <4>6
    <3>3. CASE RequestRaises(w)
      BY <1>1, <1>8, <2>1, <3>3 DEF RequestRaises, FaultKinds
    <3>4. CASE DeleteRouter(w)
      BY <1>3, <1>4, <1>8, <3>4 DEF DeleteRouter
    <3>5. CASE AddFails(w)
      <4>1. x.net \in Ipv6 /\ x.pc \in Adding
        BY <1>1, <3>5, NothingFails
           DEF AddFails, Ipv6Gateway, NoneFree, Refused, Adding
      <4>2. gw[r] = x.net /\ (gw'[r] = None \/ gw'[r] = gw[r])
        BY <1>3, <1>8, <2>1, <3>5, <4>1 DEF AddFails, Adding, Removing
      <4>3. QED
        BY <1>3, <1>4, <4>1, <4>2
    <3>6. CASE AddDone(w)
      BY <3>1, <3>6 DEF AddDone, neutron, Missing, Adding, Removing, AtLeaf
    <3>7. CASE ReleaseL2Vni(w)
      <4>1. gw'[r] = gw[r] /\ x.op = "update" /\ x.pc \in Removing
        <5>1. x.op # "delete"
          BY <1>1, <2>5, <3>7 DEF ReleaseL2Vni, Step, TypeInv, TypeOK, Requests
        <5>2. QED
          BY <2>1, <3>7, <5>1 DEF ReleaseL2Vni, neutron, Carries, Removing
      <4>2. QED
        BY <1>3, <1>4, <2>1, <4>1
    <3>8. CASE Crash(w) \/ RemovalRaises(w)
      BY <1>1, <3>8 DEF Crash, RemovalRaises, FaultKinds
    <3>9. QED
      BY <1>1, <2>1, <2>5, <3>2, <3>3, <3>4, <3>5, <3>6, <3>7, <3>8, EndingSteps
  <2>6. QED
    BY <1>1, <2>1, <2>2, <2>3, <2>4, <2>5, Arrives, GoesOn DEF Starts
<1>9. QED
  BY <1>7, <1>8

LEMMA SentStep ==
    ASSUME TypeInv, Undisturbed, Alone, Sent, NEW w \in Workers, Act(w)
    PROVE  Sent'
<1>1. SUFFICES ASSUME NEW u \in Workers, at'[u].pc = "sendRoute"
               PROVE  Config(at'[u].leaf, at'[u].r, at'[u].vni, at'[u].id) \in conf'
  BY DEF Sent, ConfigOf
<1>2. CASE u = w
  <2>1. SendConfig(w) /\ at'[w] = [at[w] EXCEPT !.pc = "sendRoute"]
    BY <1>1, <1>2, Arrives DEF Arrival
  <2>2. /\ at'[w].leaf = at[w].leaf /\ at'[w].r = at[w].r
        /\ at'[w].vni = at[w].vni /\ at'[w].id = at[w].id
    BY <2>1 DEF TypeInv, TypeOK, Requests
  <2>3. QED
    BY <1>2, <2>1, <2>2 DEF SendConfig, ConfigOf
<1>3. CASE u # w
  <2>1. at'[u] = at[u] /\ at[w].pc = "idle"
    BY <1>1, <1>3, Arrives DEF Alone
  <2>2. conf' = conf
    BY <2>1, ActFrame DEF SendConfig, DeleteConfig
  <2>3. QED
    BY <1>1, <2>1, <2>2 DEF Sent, ConfigOf
<1>4. QED
  BY <1>2, <1>3

LEMMA ReadyStep ==
    ASSUME IsFiniteSet(Routers), FullInv, Configured, ReadyInv, [Next]_vars
    PROVE  ReadyInv'
<1>1. setup' = setup
  BY NextCases, ActFrame DEF Restart, vars
<1>2. SUFFICES ASSUME Undisturbed, Plenty
               PROVE  Sent' /\ AllReady'
  BY <1>1 DEF ReadyInv, Undisturbed, Plenty
<1>3. Sent /\ AllReady /\ Alone /\ TypeInv
  BY <1>2, UndisturbedIsOrderly DEF ReadyInv, FullInv, PoolInv
<1>4. CASE UNCHANGED vars
  <2>1. UNCHANGED <<setup, gw, l2tab, vlantab, conf, route, at>>
    BY <1>4 DEF vars
  <2>2. Sent'
    BY <1>3, <2>1 DEF Sent, ConfigOf
  <2>3. AllReady'
    BY <1>3, <2>1 DEF AllReady, Ready, Served
  <2>4. QED
    BY <2>2, <2>3
<1>5. CASE \E range \in setup.ranges : Restart(range)
  <2>1. UNCHANGED <<setup, gw, vlantab, conf, route, at>>
    BY <1>5 DEF Restart, fabric
  <2>2. \A r \in Routers : HeldBy(l2tab', r) = HeldBy(l2tab, r)
    BY <1>3, <1>5, RestartHeld
  <2>3. Sent'
    BY <1>3, <2>1 DEF Sent, ConfigOf
  <2>4. AllReady'
    BY <1>3, <2>1, <2>2 DEF AllReady, Ready, Served
  <2>5. QED
    BY <2>3, <2>4
<1>6. CASE \E w \in Workers : Act(w)
  BY <1>2, <1>3, <1>6, AllReadyStep, SentStep
<1>7. QED
  BY <1>4, <1>5, <1>6, NextCases

(* While no request is refused, overlaps or dies, and there is an          *)
(* identifier for each of the finitely many routers: a settled router with *)
(* an IPv4 gateway owns identifiers on every leaf that serves its network, *)
(* and is configured and routed there with exactly these.                  *)
THEOREM GatewaysAreReady ==
    ASSUME IsFiniteSet(Routers)
    PROVE  Spec => []GatewayReady
<1>1. Init => Configured /\ ReadyInv
  <2>1. ASSUME Init
        PROVE  ReadyInv
    <3>1. /\ \A w \in Workers : at[w].pc = "idle"
          /\ \A r \in Routers : ~ External(gw[r])
      BY <2>1, RouterGatewayAssumption DEF Init, Idle, External
    <3>2. QED
      BY <3>1 DEF ReadyInv, Sent, AllReady
  <2>2. QED
    BY <2>1, ConfiguredInit
<1>2. FullInv /\ Configured /\ ReadyInv /\ [Next]_vars => Configured' /\ ReadyInv'
  BY ConfiguredStep, ReadyStep DEF FullInv
<1>3. ReadyInv => GatewayReady
  <2>1. SUFFICES ASSUME ReadyInv, Undisturbed, Plenty, NEW r \in Routers, Settled(r),
                        External(gw[r]), gw[r] \notin Ipv6, NEW leaf \in Served(gw[r])
                 PROVE  Ready(leaf, r)
    BY DEF GatewayReady, Ready
  <2>2. QED
    BY <2>1 DEF ReadyInv, AllReady, Settled
<1>4. QED
  BY <1>1, <1>2, <1>3, FullInvariant, PTL DEF Spec

===============================================================================
