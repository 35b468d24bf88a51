------------------------------ MODULE TypeDrivers ------------------------------
(***************************************************************************)
(* The two type drivers: AsterCXVxlanTypeDriver (type_aster_vxlan.py) with *)
(* its table AsterVxlanAllocation, and AsterExtNetTypeDriver               *)
(* (type_aster_ext_net.py), in several neutron-server processes.           *)
(*                                                                         *)
(* Unlike the tables of the L3 plugin this one has a flag in place of an   *)
(* owner, is allocated from by neutron's helper with a compare-and-swap    *)
(* that is retried, and holds rows outside the configured ranges: those of *)
(* provider networks whose VNI the operator chose.                         *)
(*                                                                         *)
(* An action is a transaction, or a query whose result is used later.  The *)
(* synchronisation locks the rows it reads, so it is one action -- unless  *)
(* the table is empty and there is no row to lock.                         *)
(***************************************************************************)
EXTENDS Integers, FiniteSets

CONSTANTS Procs,     \* neutron-server processes, one request at a time each
          Networks,
          Vnis,      \* VNIs that are configured or asked for
          Physnets,
          Configs,   \* contents the configuration files may have
          MaxTries,  \* attempts of a request whose row is taken meanwhile
          None

MinAsterVni == 4096          \* MAX_VLAN_TAG + 2
MaxVxlanVni == 16777215

(* vni_ranges as a set of pairs, aster_ext_net_networks as a set.          *)
ASSUME TypeDriversAssumption ==
    /\ Vnis \subseteq Int
    /\ \A c \in Configs : /\ \A e \in c.vni : e[1] \in Int /\ e[2] \in Int
                          /\ c.ext \subseteq Physnets
    /\ MaxTries \in Nat \ {0}
    /\ None \notin Vnis \cup Physnets \cup Networks

VARIABLES rolling,  \* may processes with different configurations coexist?
          conf,     \* the configuration files
          range,    \* tunnel_ranges of each process, as a set of VNIs
          allowed,  \* aster_ext_net_networks of each process
          tab,      \* AsterVxlanAllocation: vxlan_vni -> allocated
          seg,      \* neutron: VNI of each VXLAN network, or None
          ext,      \* neutron: physical network of each external one, or None
          at        \* where each process is

vars == <<rolling, conf, range, allowed, tab, seg, ext, at>>
files == <<rolling, conf>>
process == <<range, allowed>>
neutron == <<seg, ext>>

Resting(point) ==
    [pc |-> point, net |-> None, vni |-> None, from |-> "pick", tries |-> 0]

Down == Resting("down")
Idle == Resting("idle")

Requests ==
    [pc: {"down", "inserting", "idle", "pick", "look", "take", "insert"},
     net: Networks \cup {None}, vni: Vnis \cup {None},
     from: {"pick", "look"},   \* where a retry begins: any VNI, or this one
     tries: 0 .. MaxTries]

Tables == UNION {[D -> BOOLEAN] : D \in SUBSET Vnis}

EmptyTable == [v \in {} |-> FALSE]

-------------------------------------------------------------------------------
(* Configuration *)

(* Mutant of ValidVni: the first valid VNI taken for MAX_VLAN_TAG + 1. *)
ValidVniOffByOne(v) == MinAsterVni - 1 <= v /\ v <= MaxVxlanVni

ValidVni(v) == MinAsterVni <= v /\ v <= MaxVxlanVni

ValidEntry(e) == ValidVni(e[1]) /\ ValidVni(e[2]) /\ e[1] <= e[2]

(* The driver refuses to start with an entry that is not valid. *)
Accepted(ranges) == \A e \in ranges : ValidEntry(e)

Configured(ranges) == UNION {e[1] .. e[2] : e \in ranges}

ASSUME ConfiguredAssumption ==
    \A c \in Configs : Accepted(c.vni) => Configured(c.vni) \subseteq Vnis

-------------------------------------------------------------------------------
(* The table *)

FreeRows(t) == {v \in DOMAIN t : ~t[v]}

(* Mutant of Synced: the table is made what the configuration says. *)
SyncedAnew(t, r) == [v \in r |-> FALSE]

(* Rows neither configured nor allocated are deleted, missing ones added. *)
Synced(t, r) ==
    [v \in (DOMAIN t \ (FreeRows(t) \ r)) \cup r |->
        v \in DOMAIN t /\ t[v]]

(* Mutants of ReleaseRow: the branches are not told apart; one is missing. *)
ReleaseRowInPlace(t, v, r) == [u \in DOMAIN t |-> t[u] /\ u # v]
ReleaseRowInside(t, v, r) == [u \in DOMAIN t |-> t[u] /\ (u = v => v \notin r)]

(* A row inside the ranges of the releasing process becomes free, another  *)
(* is deleted; a row that does not exist is logged.                        *)
ReleaseRow(t, v, r) ==
    IF v \in r THEN [u \in DOMAIN t |-> t[u] /\ u # v]
               ELSE [u \in DOMAIN t \ {v} |-> t[u]]

(* The rows of r are inserted, as free ones. *)
Filled(t, r) == [v \in DOMAIN t \cup r |-> v \in DOMAIN t /\ t[v]]

Inserted(t, v, value) == [u \in DOMAIN t \cup {v} |-> IF u = v THEN value ELSE t[u]]

-------------------------------------------------------------------------------
TypeOK ==
    /\ rolling \in BOOLEAN /\ conf \in Configs
    /\ range \in [Procs -> SUBSET Vnis]
    /\ \A p \in Procs : range[p] \subseteq MinAsterVni .. MaxVxlanVni
    /\ allowed \in [Procs -> SUBSET Physnets]
    /\ tab \in Tables
    /\ seg \in [Networks -> Vnis \cup {None}]
    /\ ext \in [Networks -> Physnets \cup {None}]
    /\ at \in [Procs -> Requests]

Init ==
    /\ rolling \in BOOLEAN /\ conf \in Configs
    /\ range = [p \in Procs |-> {}]
    /\ allowed = [p \in Procs |-> {}]
    /\ tab = EmptyTable
    /\ seg = [n \in Networks |-> None]
    /\ ext = [n \in Networks |-> None]
    /\ at = [p \in Procs |-> Down]

Goto(p, point) == at' = [at EXCEPT ![p].pc = point]
Answer(p) == at' = [at EXCEPT ![p] = Idle]

-------------------------------------------------------------------------------
(* Server processes *)

Reconfigure(c) ==
    /\ rolling \/ \A p \in Procs : at[p].pc = "down"
    /\ conf' = c
    /\ UNCHANGED <<rolling, process, tab, neutron, at>>

Start(p) ==
    /\ at[p].pc = "down"
    /\ Accepted(conf.vni)
    /\ range' = [range EXCEPT ![p] = Configured(conf.vni)]
    /\ allowed' = [allowed EXCEPT ![p] = conf.ext]
    /\ IF DOMAIN tab = {}
       THEN Goto(p, "inserting") /\ UNCHANGED tab
       ELSE Answer(p) /\ tab' = Synced(tab, range'[p])
    /\ UNCHANGED <<files, neutron>>

(* The rows of a table that was read as empty. *)
InsertRows(p) ==
    /\ at[p].pc = "inserting"
    /\ range[p] \cap DOMAIN tab = {}
    /\ tab' = Filled(tab, range[p])
    /\ Answer(p)
    /\ UNCHANGED <<files, process, neutron>>

(* Another process has inserted the same rows, or is about to and the      *)
(* database ends the deadlock of the two: this start fails.                *)
InsertFails(p) ==
    /\ at[p].pc = "inserting"
    /\ \/ range[p] \cap DOMAIN tab # {}
       \/ range[p] # {} /\ \E q \in Procs \ {p} : at[q].pc = "inserting"
    /\ at' = [at EXCEPT ![p] = Down]
    /\ UNCHANGED <<files, process, tab, neutron>>

(* A process stops or dies; its transaction is rolled back. *)
Stop(p) ==
    /\ at[p].pc # "down"
    /\ at' = [at EXCEPT ![p] = Down]
    /\ UNCHANGED <<files, process, tab, neutron>>

-------------------------------------------------------------------------------
(* Networks *)

Fresh(n) == /\ seg[n] = None /\ ext[n] = None
            /\ \A p \in Procs : at[p].net # n

(* allocate_tenant_segment, and reserve_provider_segment of a provider     *)
(* network without VNI: any free row.                                      *)
CreateNetwork(p, n) ==
    /\ at[p].pc = "idle" /\ Fresh(n)
    /\ at' = [at EXCEPT ![p].pc = "pick", ![p].net = n]
    /\ UNCHANGED <<files, process, tab, neutron>>

(* reserve_provider_segment with a VNI. *)
CreateProviderNetwork(p, n, v) ==
    /\ at[p].pc = "idle" /\ Fresh(n)
    /\ at' = [at EXCEPT ![p].pc = "look", ![p].net = n, ![p].vni = v,
                     ![p].from = "look"]
    /\ UNCHANGED <<files, process, tab, neutron>>

Pick(p) ==
    /\ at[p].pc = "pick"
    /\ \E v \in FreeRows(tab) : at' = [at EXCEPT ![p].pc = "take", ![p].vni = v]
    /\ UNCHANGED <<files, process, tab, neutron>>

NoNetworkAvailable(p) ==
    /\ at[p].pc = "pick" /\ FreeRows(tab) = {}
    /\ Answer(p)
    /\ UNCHANGED <<files, process, tab, neutron>>

Look(p) ==
    /\ at[p].pc = "look"
    /\ IF at[p].vni \notin DOMAIN tab THEN Goto(p, "insert")
       ELSE IF tab[at[p].vni] THEN Answer(p)      \* TunnelIdInUse
       ELSE Goto(p, "take")
    /\ UNCHANGED <<files, process, tab, neutron>>

(* UPDATE ... SET allocated = 1 WHERE vxlan_vni = v AND allocated = 0,     *)
(* committed together with the network.                                    *)
Take(p) ==
    /\ at[p].pc = "take"
    /\ at[p].vni \in FreeRows(tab)
    /\ tab' = Inserted(tab, at[p].vni, TRUE)
    /\ seg' = [seg EXCEPT ![at[p].net] = at[p].vni]
    /\ Answer(p)
    /\ UNCHANGED <<files, process, ext>>

(* The row was taken or deleted meanwhile: the request is tried again as a *)
(* whole, a limited number of times.                                       *)
Retry(p) ==
    /\ at[p].pc = "take"
    /\ at[p].vni \notin FreeRows(tab)
    /\ IF at[p].tries < MaxTries
       THEN at' = [at EXCEPT ![p].pc = at[p].from, ![p].tries = @ + 1]
       ELSE Answer(p)
    /\ UNCHANGED <<files, process, tab, neutron>>

InsertRow(p) ==
    /\ at[p].pc = "insert"
    /\ IF at[p].vni \in DOMAIN tab      \* DBDuplicateEntry: TunnelIdInUse
       THEN UNCHANGED <<tab, seg>>
       ELSE /\ tab' = Inserted(tab, at[p].vni, TRUE)
            /\ seg' = [seg EXCEPT ![at[p].net] = at[p].vni]
    /\ Answer(p)
    /\ UNCHANGED <<files, process, ext>>

(* release_segment, committed together with the deletion of the network.   *)
DeleteNetwork(p, n) ==
    /\ at[p].pc = "idle"
    /\ seg[n] # None
    /\ tab' = ReleaseRow(tab, seg[n], range[p])
    /\ seg' = [seg EXCEPT ![n] = None]
    /\ UNCHANGED <<files, process, ext, at>>

(* validate_provider_segment of the external type: the physical network    *)
(* must be named and listed, and nothing else be given.                    *)
ExtNetAccepted(p, physnet, segmentationId) ==
    /\ physnet # None
    /\ physnet \in allowed[p]
    /\ segmentationId = None

CreateExtNetwork(p, n, physnet, v) ==
    /\ at[p].pc = "idle" /\ Fresh(n)
    /\ ExtNetAccepted(p, physnet, v)
    /\ ext' = [ext EXCEPT ![n] = physnet]
    /\ UNCHANGED <<files, process, tab, seg, at>>

DeleteExtNetwork(p, n) ==
    /\ at[p].pc = "idle"
    /\ ext[n] # None
    /\ ext' = [ext EXCEPT ![n] = None]
    /\ UNCHANGED <<files, process, tab, seg, at>>

-------------------------------------------------------------------------------
Server(p) == Start(p) \/ InsertRows(p) \/ InsertFails(p) \/ Stop(p)

Allocate(p) == \/ Pick(p) \/ NoNetworkAvailable(p) \/ Look(p) \/ Take(p)
               \/ Retry(p) \/ InsertRow(p)

Request(p, n) ==
    \/ CreateNetwork(p, n) \/ DeleteNetwork(p, n) \/ DeleteExtNetwork(p, n)
    \/ \E v \in Vnis : CreateProviderNetwork(p, n, v)
    \/ \E x \in Physnets \cup {None}, v \in Vnis \cup {None} :
           CreateExtNetwork(p, n, x, v)

Next ==
    \/ \E c \in Configs : Reconfigure(c)
    \/ \E p \in Procs : Server(p) \/ Allocate(p) \/ \E n \in Networks : Request(p, n)

Spec == Init /\ [][Next]_vars

-------------------------------------------------------------------------------
(* Properties *)

(* The table marks exactly the networks' VNIs as allocated: no VNI leaks   *)
(* and no network's is on offer, whatever ranges the processes had when it *)
(* was allocated, wherever they stop, and through every start and every    *)
(* release by a process with other ranges.                                 *)
TableAgrees ==
    \A v \in Vnis : (v \in DOMAIN tab /\ tab[v]) <=> (\E n \in Networks : seg[n] = v)

Up(p) == at[p].pc \notin {"down", "inserting"}

(* As long as all processes have the same configuration: every configured  *)
(* VNI has a row as soon as one of them serves -- also when two first      *)
(* starts meet at an empty table, one of which fails -- and a free row,    *)
(* which may go to a tenant, is of a configured VNI.                       *)
TableConfigured ==
    ~rolling => \A p \in Procs : Up(p) =>
        range[p] \subseteq DOMAIN tab /\ FreeRows(tab) \subseteq range[p]

(* The networks' VNIs are a pool of segments, whatever the configurations, *)
(* starts and interleavings.                                               *)
Pool == INSTANCE SegmentPool WITH Segments <- Vnis, segment <- seg

PoolSpec == Pool!Spec

===============================================================================
