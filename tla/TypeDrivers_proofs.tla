-------------------------- MODULE TypeDrivers_proofs --------------------------
(***************************************************************************)
(* Proofs about TypeDrivers for any number of processes, networks and VNIs *)
(* and any contents of the configuration files.                            *)
(***************************************************************************)
EXTENDS TypeDrivers, TLAPS

-------------------------------------------------------------------------------
(* The operators on tables *)

LEMMA TableFacts ==
    \A t : t \in Tables <=> DOMAIN t \subseteq Vnis /\ t \in [DOMAIN t -> BOOLEAN]
<1> SUFFICES ASSUME NEW t
             PROVE  t \in Tables <=> DOMAIN t \subseteq Vnis
                                     /\ t \in [DOMAIN t -> BOOLEAN]
  OBVIOUS
<1>1. ASSUME t \in Tables
      PROVE  DOMAIN t \subseteq Vnis /\ t \in [DOMAIN t -> BOOLEAN]
  <2>1. PICK D \in SUBSET Vnis : t \in [D -> BOOLEAN]
    BY <1>1 DEF Tables
  <2>2. DOMAIN t = D
    BY <2>1
  <2>3. QED
    BY <2>1, <2>2
<1>2. ASSUME DOMAIN t \subseteq Vnis /\ t \in [DOMAIN t -> BOOLEAN]
      PROVE  t \in Tables
  BY <1>2 DEF Tables
<1>3. QED
  BY <1>1, <1>2

LEMMA BoundsAreIntegers == MinAsterVni \in Int /\ MaxVxlanVni \in Int
BY SMT DEF MinAsterVni, MaxVxlanVni

(* Accepted ranges are VNIs of the pool, and such a VXLAN can carry. *)
LEMMA ConfiguredFacts ==
    ASSUME NEW c \in Configs, Accepted(c.vni)
    PROVE  /\ Configured(c.vni) \subseteq Vnis
           /\ Configured(c.vni) \subseteq MinAsterVni .. MaxVxlanVni
<1>1. Configured(c.vni) \subseteq Vnis
  BY ConfiguredAssumption
<1>2. ASSUME NEW e \in c.vni, NEW v \in e[1] .. e[2]
      PROVE  v \in MinAsterVni .. MaxVxlanVni
  <2>1. e[1] \in Int /\ e[2] \in Int
    BY TypeDriversAssumption
  <2>2. MinAsterVni <= e[1] /\ e[2] <= MaxVxlanVni
    BY DEF Accepted, ValidEntry, ValidVni
  <2>3. QED
    BY <2>1, <2>2, BoundsAreIntegers
<1>3. QED
  BY <1>1, <1>2 DEF Configured

(* A synchronisation keeps every allocated row, adds the missing ones and  *)
(* leaves no free row outside the ranges.                                  *)
LEMMA SyncedFacts ==
    ASSUME NEW t \in Tables, NEW r \in SUBSET Vnis
    PROVE  /\ Synced(t, r) \in Tables
           /\ \A v : v \in DOMAIN Synced(t, r) /\ Synced(t, r)[v]
                       <=> v \in DOMAIN t /\ t[v]
           /\ r \subseteq DOMAIN Synced(t, r)
           /\ FreeRows(Synced(t, r)) \subseteq r
<1>1. DOMAIN t \subseteq Vnis
  BY TableFacts
<1>2. DOMAIN Synced(t, r) = (DOMAIN t \ (FreeRows(t) \ r)) \cup r
  BY DEF Synced
<1>3. \A v \in DOMAIN Synced(t, r) : Synced(t, r)[v] = (v \in DOMAIN t /\ t[v])
  BY DEF Synced
<1>4. Synced(t, r) \in [DOMAIN Synced(t, r) -> BOOLEAN]
  BY DEF Synced
<1>5. Synced(t, r) \in Tables
  BY <1>1, <1>2, <1>4, TableFacts
<1>6. QED
  BY <1>2, <1>3, <1>5 DEF FreeRows

(* A release takes the mark of one row at most, and adds no row. *)
LEMMA ReleaseFacts ==
    ASSUME NEW t \in Tables, NEW v \in Vnis, NEW r
    PROVE  /\ ReleaseRow(t, v, r) \in Tables
           /\ \A u : u \in DOMAIN ReleaseRow(t, v, r) /\ ReleaseRow(t, v, r)[u]
                       <=> u # v /\ u \in DOMAIN t /\ t[u]
           /\ r \subseteq DOMAIN t => r \subseteq DOMAIN ReleaseRow(t, v, r)
           /\ FreeRows(t) \subseteq r => FreeRows(ReleaseRow(t, v, r)) \subseteq r
<1>1. DOMAIN t \subseteq Vnis /\ t \in [DOMAIN t -> BOOLEAN]
  BY TableFacts
<1>2. CASE v \in r
  <2>1. /\ DOMAIN ReleaseRow(t, v, r) = DOMAIN t
        /\ \A u \in DOMAIN t : ReleaseRow(t, v, r)[u] = (t[u] /\ u # v)
        /\ ReleaseRow(t, v, r) \in [DOMAIN t -> BOOLEAN]
    BY <1>2 DEF ReleaseRow
  <2>2. QED
    BY <1>1, <1>2, <2>1, TableFacts DEF FreeRows
<1>3. CASE v \notin r
  <2>1. /\ DOMAIN ReleaseRow(t, v, r) = DOMAIN t \ {v}
        /\ \A u \in DOMAIN t \ {v} : ReleaseRow(t, v, r)[u] = t[u]
        /\ ReleaseRow(t, v, r) \in [DOMAIN t \ {v} -> BOOLEAN]
    BY <1>1, <1>3 DEF ReleaseRow
  <2>2. QED
    BY <1>1, <1>3, <2>1, TableFacts DEF FreeRows
<1>4. QED
  BY <1>2, <1>3

(* The row of a network is marked and no other changed. *)
LEMMA InsertedFacts ==
    ASSUME NEW t \in Tables, NEW v \in Vnis
    PROVE  /\ Inserted(t, v, TRUE) \in Tables
           /\ \A u : u \in DOMAIN Inserted(t, v, TRUE) /\ Inserted(t, v, TRUE)[u]
                       <=> u = v \/ (u \in DOMAIN t /\ t[u])
           /\ DOMAIN t \subseteq DOMAIN Inserted(t, v, TRUE)
           /\ FreeRows(Inserted(t, v, TRUE)) \subseteq FreeRows(t)
<1>1. DOMAIN t \subseteq Vnis /\ t \in [DOMAIN t -> BOOLEAN]
  BY TableFacts
<1>2. DOMAIN Inserted(t, v, TRUE) = DOMAIN t \cup {v}
  BY DEF Inserted
<1>3. \A u \in DOMAIN t \cup {v} :
          Inserted(t, v, TRUE)[u] = IF u = v THEN TRUE ELSE t[u]
  BY DEF Inserted
<1>4. Inserted(t, v, TRUE) \in [DOMAIN t \cup {v} -> BOOLEAN]
  BY <1>1 DEF Inserted
<1>5. QED
  BY <1>1, <1>2, <1>3, <1>4, TableFacts DEF FreeRows

(* The rows a first start adds are free. *)
LEMMA FilledFacts ==
    ASSUME NEW t \in Tables, NEW r \in SUBSET Vnis
    PROVE  /\ Filled(t, r) \in Tables
           /\ \A v : v \in DOMAIN Filled(t, r) /\ Filled(t, r)[v]
                       <=> v \in DOMAIN t /\ t[v]
           /\ DOMAIN Filled(t, r) = DOMAIN t \cup r
           /\ FreeRows(Filled(t, r)) \subseteq FreeRows(t) \cup r
<1>1. DOMAIN t \subseteq Vnis
  BY TableFacts
<1>2. /\ DOMAIN Filled(t, r) = DOMAIN t \cup r
      /\ Filled(t, r) \in [DOMAIN t \cup r -> BOOLEAN]
      /\ \A v \in DOMAIN t \cup r : Filled(t, r)[v] = (v \in DOMAIN t /\ t[v])
  BY DEF Filled
<1>3. QED
  BY <1>1, <1>2, TableFacts DEF FreeRows

-------------------------------------------------------------------------------
(* Type correctness and the points of a request *)

Allocating(p) == at[p].pc \in {"pick", "look", "take", "insert"}

(* A request in progress has a network, and a VNI once it has chosen one. *)
Points ==
    \A p \in Procs :
        /\ Allocating(p) => at[p].net \in Networks
        /\ ~Allocating(p) => at[p].net = None
        /\ at[p].pc \in {"look", "take", "insert"} => at[p].vni \in Vnis

TypeInv == TypeOK /\ Points

LEMMA IdleFacts ==
    /\ Idle \in Requests /\ Idle.pc = "idle" /\ Idle.net = None
    /\ Down \in Requests /\ Down.pc = "down" /\ Down.net = None
<1>1. 0 \in 0 .. MaxTries
  BY TypeDriversAssumption
<1>2. QED
  BY <1>1 DEF Idle, Down, Resting, Requests

LEMMA TypeInvInit == Init => TypeInv
<1> SUFFICES ASSUME Init PROVE TypeInv
  OBVIOUS
<1>1. tab \in Tables
  <2>1. DOMAIN tab = {} /\ tab \in [{} -> BOOLEAN]
    BY DEF Init, EmptyTable
  <2>2. QED
    BY <2>1, TableFacts
<1>2. TypeOK
  BY <1>1, IdleFacts DEF Init, TypeOK
<1>3. QED
  BY <1>2, IdleFacts DEF Init, TypeInv, Points, Allocating

(* Every operation keeps both. *)
LEMMA TypeInvStep == TypeInv /\ [Next]_vars => TypeInv'
<1> SUFFICES ASSUME TypeInv, [Next]_vars PROVE TypeInv'
  OBVIOUS
<1> USE DEF TypeInv, TypeOK, Points, Allocating
<1>1. CASE UNCHANGED vars
  BY <1>1 DEF vars
<1>2. ASSUME NEW c \in Configs, Reconfigure(c) PROVE TypeInv'
  BY <1>2 DEF Reconfigure, process, neutron
<1>3. ASSUME NEW p \in Procs, Server(p) PROVE TypeInv'
  <2> USE DEF process, neutron, files
  <2>1. CASE Start(p)
    <3>1. /\ range' = [range EXCEPT ![p] = Configured(conf.vni)]
          /\ allowed' = [allowed EXCEPT ![p] = conf.ext]
          /\ conf' = conf /\ rolling' = rolling /\ seg' = seg /\ ext' = ext
      BY <2>1 DEF Start
    <3>2. /\ Configured(conf.vni) \subseteq Vnis
          /\ Configured(conf.vni) \subseteq MinAsterVni .. MaxVxlanVni
          /\ conf.ext \subseteq Physnets
      BY <2>1, ConfiguredFacts, TypeDriversAssumption DEF Start
    <3>3. /\ range' \in [Procs -> SUBSET Vnis]
          /\ range'[p] = Configured(conf.vni)
          /\ \A q \in Procs : range'[q] \subseteq MinAsterVni .. MaxVxlanVni
          /\ allowed' \in [Procs -> SUBSET Physnets]
      BY <3>1, <3>2
    <3>4. tab' \in Tables
      BY <2>1, <3>2, <3>3, SyncedFacts DEF Start
    <3>5. \/ at' = [at EXCEPT ![p].pc = "inserting"]
          \/ at' = [at EXCEPT ![p] = Idle]
      BY <2>1 DEF Start, Goto, Answer
    <3>6. at' \in [Procs -> Requests] /\ Points'
      <4>1. at[p].pc = "down"
        BY <2>1 DEF Start
      <4>2. CASE at' = [at EXCEPT ![p].pc = "inserting"]
        BY <4>1, <4>2 DEF Requests
      <4>3. CASE at' = [at EXCEPT ![p] = Idle]
        BY <4>3, IdleFacts
      <4>4. QED
        BY <3>5, <4>2, <4>3
    <3>7. QED
      BY <3>1, <3>3, <3>4, <3>6
  <2>2. CASE InsertRows(p)
    <3>1. tab' \in Tables
      BY <2>2, FilledFacts DEF InsertRows
    <3>2. QED
      BY <2>2, <3>1, IdleFacts DEF InsertRows, Answer
  <2>3. CASE InsertFails(p)
    BY <2>3, IdleFacts DEF InsertFails
  <2>4. CASE Stop(p)
    BY <2>4, IdleFacts DEF Stop
  <2>5. QED
    BY <1>3, <2>1, <2>2, <2>3, <2>4 DEF Server
<1>4. ASSUME NEW p \in Procs, Allocate(p) PROVE TypeInv'
  <2> USE DEF process, neutron, files
  <2>1. CASE Pick(p)
    <3>1. FreeRows(tab) \subseteq Vnis
      BY TableFacts DEF FreeRows
    <3>2. PICK v \in FreeRows(tab) :
              at' = [at EXCEPT ![p].pc = "take", ![p].vni = v]
      BY <2>1 DEF Pick
    <3>3. at' \in [Procs -> Requests]
      <4>1. at'[p] = [pc |-> "take", net |-> at[p].net, vni |-> v,
                      from |-> at[p].from, tries |-> at[p].tries]
        BY <3>2 DEF Requests
      <4>2. at'[p] \in Requests
        BY <3>1, <4>1 DEF Requests
      <4>3. QED
        BY <3>2, <4>2
    <3>4. Points'
      BY <2>1, <3>1, <3>2, <3>3 DEF Pick, Requests
    <3>5. QED
      BY <2>1, <3>3, <3>4 DEF Pick
  <2>2. CASE NoNetworkAvailable(p)
    BY <2>2, IdleFacts DEF NoNetworkAvailable, Answer
  <2>3. CASE Look(p)
    BY <2>3, IdleFacts DEF Look, Answer, Goto, Requests
  <2>4. CASE Take(p)
    <3>1. at[p].vni \in Vnis /\ at[p].net \in Networks
      BY <2>4 DEF Take
    <3>2. tab' \in Tables
      BY <2>4, <3>1, InsertedFacts DEF Take
    <3>3. QED
      BY <2>4, <3>1, <3>2, IdleFacts DEF Take, Answer
  <2>5. CASE Retry(p)
    <3>1. CASE at[p].tries < MaxTries
      <4>1. at[p].tries + 1 \in 0 .. MaxTries
        BY <3>1, TypeDriversAssumption DEF Requests
      <4>2. at' = [at EXCEPT ![p].pc = at[p].from, ![p].tries = @ + 1]
        BY <2>5, <3>1 DEF Retry
      <4>3. QED
        BY <2>5, <4>1, <4>2 DEF Retry, Requests
    <3>2. CASE ~(at[p].tries < MaxTries)
      BY <2>5, <3>2, IdleFacts DEF Retry, Answer
    <3>3. QED
      BY <3>1, <3>2
  <2>6. CASE InsertRow(p)
    <3>1. at[p].vni \in Vnis /\ at[p].net \in Networks
      BY <2>6 DEF InsertRow
    <3>2. tab' \in Tables
      <4>1. tab' = tab \/ tab' = Inserted(tab, at[p].vni, TRUE)
        BY <2>6 DEF InsertRow
      <4>2. Inserted(tab, at[p].vni, TRUE) \in Tables
        BY <3>1, InsertedFacts
      <4>3. QED
        BY <4>1, <4>2
    <3>3. seg' \in [Networks -> Vnis \cup {None}]
      BY <2>6, <3>1 DEF InsertRow
    <3>4. QED
      BY <2>6, <3>1, <3>2, <3>3, IdleFacts DEF InsertRow, Answer
  <2>7. QED
    BY <1>4, <2>1, <2>2, <2>3, <2>4, <2>5, <2>6 DEF Allocate
<1>5. ASSUME NEW p \in Procs, NEW n \in Networks, Request(p, n) PROVE TypeInv'
  <2> USE DEF process, neutron, files
  <2>1. CASE CreateNetwork(p, n)
    <3>1. at' \in [Procs -> Requests]
      <4>1. at'[p] = [pc |-> "pick", net |-> n, vni |-> at[p].vni,
                      from |-> at[p].from, tries |-> at[p].tries]
        BY <2>1 DEF CreateNetwork, Requests
      <4>2. at'[p] \in Requests
        BY <4>1 DEF Requests
      <4>3. QED
        BY <2>1, <4>2 DEF CreateNetwork
    <3>2. Points'
      BY <2>1, <3>1, TypeDriversAssumption DEF CreateNetwork, Requests
    <3>3. QED
      BY <2>1, <3>1, <3>2 DEF CreateNetwork
  <2>2. CASE DeleteNetwork(p, n)
    <3>1. seg[n] \in Vnis
      BY <2>2 DEF DeleteNetwork
    <3>2. tab' \in Tables
      BY <2>2, <3>1, ReleaseFacts DEF DeleteNetwork
    <3>3. QED
      BY <2>2, <3>2 DEF DeleteNetwork
  <2>3. CASE DeleteExtNetwork(p, n)
    BY <2>3 DEF DeleteExtNetwork
  <2>4. ASSUME NEW v \in Vnis, CreateProviderNetwork(p, n, v) PROVE TypeInv'
    <3>1. at' \in [Procs -> Requests]
      <4>1. at'[p] = [pc |-> "look", net |-> n, vni |-> v,
                      from |-> "look", tries |-> at[p].tries]
        BY <2>4 DEF CreateProviderNetwork, Requests
      <4>2. at'[p] \in Requests
        BY <4>1 DEF Requests
      <4>3. QED
        BY <2>4, <4>2 DEF CreateProviderNetwork
    <3>2. Points'
      BY <2>4, <3>1, TypeDriversAssumption DEF CreateProviderNetwork, Requests
    <3>3. QED
      BY <2>4, <3>1, <3>2 DEF CreateProviderNetwork
  <2>5. ASSUME NEW x, NEW v, CreateExtNetwork(p, n, x, v) PROVE TypeInv'
    BY <2>5 DEF CreateExtNetwork, ExtNetAccepted
  <2>6. QED
    BY <1>5, <2>1, <2>2, <2>3, <2>4, <2>5 DEF Request
<1>6. QED
  BY <1>1, <1>2, <1>3, <1>4, <1>5 DEF Next

(* Every variable keeps its type; in particular no process ever serves     *)
(* under ranges with a VNI that VLAN tags use or VXLAN cannot carry.       *)
THEOREM TypeDriversType == Spec => []TypeOK
<1>1. Spec => []TypeInv
  BY TypeInvInit, TypeInvStep, PTL DEF Spec
<1>2. TypeInv => TypeOK
  BY DEF TypeInv
<1>3. QED
  BY <1>1, <1>2, PTL

-------------------------------------------------------------------------------
(* The table and the networks *)

Marked(v) == v \in DOMAIN tab /\ tab[v]

(* The request at p gives its network the VNI it has chosen. *)
Gives(p) ==
    /\ at[p].net \in Networks /\ at[p].vni \in Vnis
    /\ ~Marked(at[p].vni)
    /\ seg' = [seg EXCEPT ![at[p].net] = at[p].vni]
    /\ \A v \in Vnis : Marked(v)' <=> v = at[p].vni \/ Marked(v)
    /\ at' = [at EXCEPT ![p] = Idle]

TakesBack(n) ==
    /\ seg[n] \in Vnis
    /\ seg' = [seg EXCEPT ![n] = None]
    /\ \A v \in Vnis : Marked(v)' <=> v # seg[n] /\ Marked(v)
    /\ at' = at

Settled ==
    /\ seg' = seg
    /\ \A v \in Vnis : Marked(v)' <=> Marked(v)

(* What any step does to the networks and the marks of the table. *)
LEMMA MarkStep ==
    ASSUME TypeInv, [Next]_vars
    PROVE  \/ Settled
           \/ \E p \in Procs : Gives(p)
           \/ \E n \in Networks : TakesBack(n)
<1> USE DEF TypeInv, TypeOK
<1>1. CASE UNCHANGED <<tab, seg>>
  BY <1>1 DEF Settled, Marked
<1>2. ASSUME NEW p \in Procs, Server(p) PROVE Settled
  <2>1. CASE Start(p)
    <3>1. tab' = tab \/ tab' = Synced(tab, range'[p])
      BY <2>1 DEF Start
    <3>2. range'[p] \in SUBSET Vnis
      BY TypeInvStep
    <3>3. \A v \in Vnis : Marked(v)' <=> Marked(v)
      BY <3>1, <3>2, SyncedFacts DEF Marked
    <3>4. QED
      BY <2>1, <3>3 DEF Start, Settled, neutron
  <2>2. CASE InsertRows(p)
    BY <2>2, FilledFacts DEF InsertRows, Marked, Settled, neutron
  <2>3. CASE InsertFails(p) \/ Stop(p)
    BY <2>3 DEF InsertFails, Stop, Marked, Settled, neutron
  <2>4. QED
    BY <1>2, <2>1, <2>2, <2>3 DEF Server
<1>3. ASSUME NEW p \in Procs, Allocate(p) PROVE Settled \/ Gives(p)
  <2>1. CASE Take(p)
    <3>1. at[p].net \in Networks /\ at[p].vni \in Vnis
      BY <2>1 DEF Take, Points, Allocating
    <3>2. QED
      BY <2>1, <3>1, InsertedFacts DEF Take, Gives, Marked, FreeRows, Answer
  <2>2. CASE InsertRow(p)
    <3>1. at[p].net \in Networks /\ at[p].vni \in Vnis
      BY <2>2 DEF InsertRow, Points, Allocating
    <3>2. CASE at[p].vni \in DOMAIN tab
      BY <2>2, <3>2 DEF InsertRow, Settled, Marked
    <3>3. CASE at[p].vni \notin DOMAIN tab
      <4>1. /\ tab' = Inserted(tab, at[p].vni, TRUE)
            /\ seg' = [seg EXCEPT ![at[p].net] = at[p].vni]
            /\ at' = [at EXCEPT ![p] = Idle]
        BY <2>2, <3>3 DEF InsertRow, Answer
      <4>2. \A v \in Vnis : Marked(v)' <=> v = at[p].vni \/ Marked(v)
        BY <3>1, <4>1, InsertedFacts DEF Marked
      <4>3. QED
        BY <3>1, <3>3, <4>1, <4>2 DEF Gives, Marked
    <3>4. QED
      BY <3>2, <3>3
  <2>3. CASE Pick(p) \/ NoNetworkAvailable(p) \/ Look(p) \/ Retry(p)
    BY <2>3 DEF Pick, NoNetworkAvailable, Look, Retry, Settled, Marked, neutron
  <2>4. QED
    BY <1>3, <2>1, <2>2, <2>3 DEF Allocate
<1>4. ASSUME NEW p \in Procs, NEW n \in Networks, Request(p, n)
      PROVE  Settled \/ TakesBack(n)
  <2>1. CASE DeleteNetwork(p, n)
    <3>1. seg[n] \in Vnis
      BY <2>1 DEF DeleteNetwork
    <3>2. QED
      BY <2>1, <3>1, ReleaseFacts DEF DeleteNetwork, TakesBack, Marked
  <2>2. CASE ~DeleteNetwork(p, n)
    BY <1>4, <2>2 DEF Request, CreateNetwork, CreateProviderNetwork,
                      CreateExtNetwork, DeleteExtNetwork, Settled, Marked, neutron
  <2>3. QED
    BY <2>1, <2>2
<1>5. CASE \E c \in Configs : Reconfigure(c)
  BY <1>5 DEF Reconfigure, Settled, Marked, neutron
<1>6. QED
  BY <1>1, <1>2, <1>3, <1>4, <1>5 DEF Next, vars

(* A network in the hands of a request has no VNI yet, and is in no other's. *)
Hands ==
    \A p \in Procs : at[p].net \in Networks =>
        /\ seg[at[p].net] = None
        /\ \A q \in Procs : at[q].net = at[p].net => q = p

OneNetworkEach ==
    \A m, n \in Networks : seg[m] = seg[n] /\ seg[m] # None => m = n

AgreeInv == TypeInv /\ TableAgrees /\ Hands /\ OneNetworkEach

(* The hands a step changes: they are emptied, or take up a fresh network. *)
LEMMA HandStep ==
    ASSUME TypeInv, [Next]_vars, NEW p \in Procs
    PROVE  \/ at'[p].net = at[p].net
           \/ at'[p].net = None
           \/ /\ at'[p].net \in Networks /\ seg[at'[p].net] = None
              /\ seg' = seg
              /\ \A q \in Procs : at[q].net # at'[p].net
              /\ \A q \in Procs \ {p} : at'[q] = at[q]
<1> USE DEF TypeInv, TypeOK, Goto, Answer, process, neutron, files
<1>1. CASE UNCHANGED at
  BY <1>1
<1>2. ASSUME NEW q \in Procs, Server(q)
      PROVE  at'[p].net = at[p].net \/ at'[p].net = None
  <2>1. CASE Start(q)
    <3>1. \/ at' = [at EXCEPT ![q].pc = "inserting"]
          \/ at' = [at EXCEPT ![q] = Idle]
      BY <2>1 DEF Start
    <3>2. QED
      BY <3>1, IdleFacts DEF Requests
  <2>2. CASE InsertRows(q) \/ InsertFails(q) \/ Stop(q)
    BY <2>2, IdleFacts DEF InsertRows, InsertFails, Stop
  <2>3. QED
    BY <1>2, <2>1, <2>2 DEF Server
<1>3. ASSUME NEW q \in Procs, Allocate(q)
      PROVE  at'[p].net = at[p].net \/ at'[p].net = None
  <2>1. CASE Pick(q)
    BY <2>1 DEF Pick, Requests
  <2>2. CASE Look(q)
    BY <2>2, IdleFacts DEF Look, Requests
  <2>3. CASE Retry(q)
    BY <2>3, IdleFacts DEF Retry, Requests
  <2>4. CASE NoNetworkAvailable(q) \/ Take(q) \/ InsertRow(q)
    BY <2>4, IdleFacts DEF NoNetworkAvailable, Take, InsertRow
  <2>5. QED
    BY <1>3, <2>1, <2>2, <2>3, <2>4 DEF Allocate
<1>4. ASSUME NEW q \in Procs, NEW n \in Networks, Request(q, n), ~ UNCHANGED at
      PROVE  /\ at'[q].net = n /\ Fresh(n) /\ seg' = seg
             /\ \A u \in Procs \ {q} : at'[u] = at[u]
  <2>1. CASE CreateNetwork(q, n)
    BY <2>1 DEF CreateNetwork, Requests
  <2>2. ASSUME NEW v \in Vnis, CreateProviderNetwork(q, n, v)
        PROVE  /\ at'[q].net = n /\ Fresh(n) /\ seg' = seg
               /\ \A u \in Procs \ {q} : at'[u] = at[u]
    BY <2>2 DEF CreateProviderNetwork, Requests
  <2>3. QED
    BY <1>4, <2>1, <2>2
       DEF Request, DeleteNetwork, DeleteExtNetwork, CreateExtNetwork
<1>5. CASE \E c \in Configs : Reconfigure(c)
  BY <1>5 DEF Reconfigure
<1>6. QED
  BY <1>1, <1>2, <1>3, <1>4, <1>5 DEF Next, vars, Fresh

LEMMA AgreeInvInit == Init => AgreeInv
<1> SUFFICES ASSUME Init PROVE AgreeInv
  OBVIOUS
<1>1. TypeInv
  BY TypeInvInit
<1>2. TableAgrees
  BY TypeDriversAssumption DEF Init, TableAgrees, EmptyTable
<1>3. Hands /\ OneNetworkEach
  BY IdleFacts, TypeDriversAssumption DEF Init, Hands, OneNetworkEach
<1>4. QED
  BY <1>1, <1>2, <1>3 DEF AgreeInv

(* A VNI is given only while its row is not marked, so to one network.     *)
LEMMA AgreeInvStep == AgreeInv /\ [Next]_vars => AgreeInv'
<1> SUFFICES ASSUME AgreeInv, [Next]_vars PROVE AgreeInv'
  OBVIOUS
<1>1. TypeInv /\ TypeInv' /\ TableAgrees /\ Hands /\ OneNetworkEach
  BY TypeInvStep DEF AgreeInv
<1>2. \A v \in Vnis : Marked(v) <=> \E n \in Networks : seg[n] = v
  BY <1>1 DEF TableAgrees, Marked
<1>3. seg \in [Networks -> Vnis \cup {None}]
  BY <1>1 DEF TypeInv, TypeOK
<1>4. CASE Settled
  <2>1. TableAgrees' /\ OneNetworkEach'
    BY <1>1, <1>4 DEF Settled, TableAgrees, OneNetworkEach, Marked
  <2>2. Hands'
    <3> SUFFICES ASSUME NEW p \in Procs, at'[p].net \in Networks
                 PROVE  /\ seg'[at'[p].net] = None
                        /\ \A q \in Procs : at'[q].net = at'[p].net => q = p
      BY DEF Hands
    <3>1. seg' = seg
      BY <1>4 DEF Settled
    <3>2. seg[at'[p].net] = None
      BY <1>1, HandStep, TypeDriversAssumption DEF Hands
    <3>3. ASSUME NEW q \in Procs, at'[q].net = at'[p].net, q # p PROVE FALSE
      <4>1. at[p].net = at'[p].net \/ \A u \in Procs : at[u].net # at'[p].net
        BY <1>1, HandStep, TypeDriversAssumption
      <4>2. at[q].net = at'[q].net \/ \A u \in Procs : at[u].net # at'[q].net
        BY <1>1, <3>3, HandStep, TypeDriversAssumption
      <4>3. QED
        BY <1>1, <3>3, <4>1, <4>2, HandStep, TypeDriversAssumption DEF Hands
    <3>4. QED
      BY <3>1, <3>2, <3>3
  <2>3. QED
    BY <1>1, <2>1, <2>2 DEF AgreeInv
<1>5. ASSUME NEW p \in Procs, Gives(p) PROVE AgreeInv'
  <2>1. \A n \in Networks : seg[n] # at[p].vni
    BY <1>2, <1>5 DEF Gives
  <2>2. /\ at[p].net \in Networks /\ at[p].vni \in Vnis
        /\ seg'[at[p].net] = at[p].vni
        /\ \A n \in Networks : n # at[p].net => seg'[n] = seg[n]
        /\ seg[at[p].net] = None
    BY <1>1, <1>3, <1>5 DEF Gives, Hands
  <2>3. TableAgrees'
    <3>1. \A v \in Vnis : Marked(v)' <=> v = at[p].vni \/ Marked(v)
      BY <1>5 DEF Gives
    <3>2. \A v \in Vnis : Marked(v)' <=> \E n \in Networks : seg'[n] = v
      BY <1>2, <2>2, <3>1, TypeDriversAssumption
    <3>3. QED
      BY <3>2 DEF TableAgrees, Marked
  <2>4. OneNetworkEach'
    BY <1>1, <2>1, <2>2 DEF OneNetworkEach
  <2>5. Hands'
    <3>1. at'[p].net = None /\ \A q \in Procs \ {p} : at'[q] = at[q]
      BY <1>1, <1>5, IdleFacts DEF Gives, TypeInv, TypeOK
    <3>2. QED
      BY <1>1, <2>2, <3>1, TypeDriversAssumption DEF Hands
  <2>6. QED
    BY <1>1, <2>3, <2>4, <2>5 DEF AgreeInv
<1>6. ASSUME NEW n \in Networks, TakesBack(n) PROVE AgreeInv'
  <2>1. /\ seg[n] \in Vnis /\ seg'[n] = None /\ at' = at
        /\ \A m \in Networks : m # n => seg'[m] = seg[m]
    BY <1>3, <1>6 DEF TakesBack
  <2>2. TableAgrees'
    <3>1. \A v \in Vnis : Marked(v)' <=> v # seg[n] /\ Marked(v)
      BY <1>6 DEF TakesBack
    <3>2. \A v \in Vnis : Marked(v)' <=> \E m \in Networks : seg'[m] = v
      BY <1>1, <1>2, <2>1, <3>1, TypeDriversAssumption DEF OneNetworkEach
    <3>3. QED
      BY <3>2 DEF TableAgrees, Marked
  <2>3. OneNetworkEach' /\ Hands'
    BY <1>1, <2>1 DEF OneNetworkEach, Hands
  <2>4. QED
    BY <1>1, <2>2, <2>3 DEF AgreeInv
<1>7. QED
  BY <1>1, <1>4, <1>5, <1>6, MarkStep

(* Whatever the configurations, the starts and the stops: a VNI is marked  *)
(* as allocated exactly while a network has it.                            *)
THEOREM TableAgreesAlways == Spec => []TableAgrees
<1>1. Spec => []AgreeInv
  BY AgreeInvInit, AgreeInvStep, PTL DEF Spec
<1>2. AgreeInv => TableAgrees
  BY DEF AgreeInv
<1>3. QED
  BY <1>1, <1>2, PTL

(* The type driver implements the abstract pool: no VNI is ever given to   *)
(* two networks, or taken from one that is not being deleted.              *)
THEOREM ImplementsSegmentPool == Spec => PoolSpec
<1>1. Init => Pool!Init
  BY DEF Init, Pool!Init
<1>2. AgreeInv /\ [Next]_vars => [Pool!Next]_seg
  <2> SUFFICES ASSUME AgreeInv, [Next]_vars PROVE [Pool!Next]_seg
    OBVIOUS
  <2>1. TypeInv
    BY DEF AgreeInv
  <2>2. CASE Settled
    BY <2>2 DEF Settled
  <2>3. ASSUME NEW p \in Procs, Gives(p) PROVE Pool!Next
    <3>1. Pool!Give(at[p].net, at[p].vni)
      BY <2>3 DEF Gives, AgreeInv, Hands, TableAgrees, Marked, Pool!Give
    <3>2. QED
      BY <2>3, <3>1 DEF Gives, Pool!Next
  <2>4. ASSUME NEW n \in Networks, TakesBack(n) PROVE Pool!Next
    BY <2>4 DEF TakesBack, Pool!TakeBack, Pool!Next
  <2>5. QED
    BY <2>1, <2>2, <2>3, <2>4, MarkStep
<1>3. Spec => []AgreeInv
  BY AgreeInvInit, AgreeInvStep, PTL DEF Spec
<1>4. QED
  BY <1>1, <1>2, <1>3, PTL DEF Spec, PoolSpec, Pool!Spec

-------------------------------------------------------------------------------
(* The table and the configuration *)

(* While all processes have the same configuration, a process that is not  *)
(* down has its ranges, and no other free rows are in the table; a process *)
(* that serves has seen to it that the ranges are there.                   *)
SameRanges ==
    ~rolling => \A p \in Procs : at[p].pc # "down" =>
        /\ range[p] = Configured(conf.vni)
        /\ Up(p) => /\ Configured(conf.vni) \subseteq DOMAIN tab
                    /\ FreeRows(tab) \subseteq Configured(conf.vni)

(* Between a first start's two steps the table is empty, or holds what     *)
(* processes with the same configuration have put there.                   *)
EmptyWhileInserting ==
    ~rolling => \A p \in Procs : at[p].pc = "inserting" =>
        FreeRows(tab) \subseteq Configured(conf.vni)

ConfInv == AgreeInv /\ SameRanges /\ EmptyWhileInserting

LEMMA ConfInvInit == Init => ConfInv
BY AgreeInvInit, IdleFacts DEF Init, ConfInv, SameRanges, EmptyWhileInserting

(* What the requests do to the rows: none is deleted that is configured,   *)
(* and none becomes free that is not.                                      *)
LEMMA RowsStep ==
    ASSUME TypeInv, NEW p \in Procs, NEW r, r = Configured(conf.vni),
           \/ Allocate(p)
           \/ \E n \in Networks : Request(p, n) /\ range[p] = r
    PROVE  /\ r \subseteq DOMAIN tab => r \subseteq DOMAIN tab'
           /\ FreeRows(tab) \subseteq r => FreeRows(tab') \subseteq r
<1> USE DEF TypeInv, TypeOK, files, process, neutron
<1>1. CASE tab' = tab
  BY <1>1
<1>2. CASE Take(p)
  <2>1. at[p].vni \in Vnis
    BY <1>2 DEF Take, Points
  <2>2. QED
    BY <1>2, <2>1, InsertedFacts DEF Take
<1>3. CASE InsertRow(p)
  <2>1. at[p].vni \in Vnis
    BY <1>3 DEF InsertRow, Points
  <2>2. tab' = tab \/ tab' = Inserted(tab, at[p].vni, TRUE)
    BY <1>3 DEF InsertRow
  <2>3. QED
    BY <2>1, <2>2, InsertedFacts
<1>4. ASSUME NEW n \in Networks, DeleteNetwork(p, n), range[p] = r
      PROVE  /\ r \subseteq DOMAIN tab => r \subseteq DOMAIN tab'
             /\ FreeRows(tab) \subseteq r => FreeRows(tab') \subseteq r
  <2>1. seg[n] \in Vnis /\ tab' = ReleaseRow(tab, seg[n], r)
    BY <1>4 DEF DeleteNetwork
  <2>2. QED
    BY <2>1, ReleaseFacts
<1>5. QED
  BY <1>1, <1>2, <1>3, <1>4
     DEF Allocate, Request, Pick, NoNetworkAvailable, Look, Retry,
         CreateNetwork, CreateProviderNetwork, CreateExtNetwork, DeleteExtNetwork

(* Only a start takes a process from being down to serving.                *)
LEMMA UpStep ==
    ASSUME TypeInv, NEW p \in Procs,
           \/ Allocate(p)
           \/ \E n \in Networks : Request(p, n)
    PROVE  /\ at[p].pc \notin {"down", "inserting"}
           /\ at'[p].pc \notin {"down", "inserting"}
           /\ \A q \in Procs \ {p} : at'[q] = at[q]
           /\ UNCHANGED <<rolling, conf, range>>
<1> USE DEF TypeInv, TypeOK, files, process, neutron, Goto, Answer, Requests
<1>1. CASE Allocate(p)
  <2>1. CASE Pick(p)
    BY <2>1 DEF Pick
  <2>2. CASE NoNetworkAvailable(p) \/ Take(p) \/ InsertRow(p)
    BY <2>2, IdleFacts DEF NoNetworkAvailable, Take, InsertRow
  <2>3. CASE Look(p)
    BY <2>3, IdleFacts DEF Look
  <2>4. CASE Retry(p)
    BY <2>4, IdleFacts DEF Retry
  <2>5. QED
    BY <1>1, <2>1, <2>2, <2>3, <2>4 DEF Allocate
<1>2. ASSUME NEW n \in Networks, Request(p, n)
      PROVE  /\ at[p].pc \notin {"down", "inserting"}
             /\ at'[p].pc \notin {"down", "inserting"}
             /\ \A q \in Procs \ {p} : at'[q] = at[q]
             /\ UNCHANGED <<rolling, conf, range>>
  <2>1. CASE CreateNetwork(p, n)
    BY <2>1 DEF CreateNetwork
  <2>2. ASSUME NEW v \in Vnis, CreateProviderNetwork(p, n, v)
        PROVE  /\ at[p].pc \notin {"down", "inserting"}
               /\ at'[p].pc \notin {"down", "inserting"}
               /\ \A q \in Procs \ {p} : at'[q] = at[q]
               /\ UNCHANGED <<rolling, conf, range>>
    BY <2>2 DEF CreateProviderNetwork
  <2>3. CASE DeleteNetwork(p, n) \/ DeleteExtNetwork(p, n)
    BY <2>3 DEF DeleteNetwork, DeleteExtNetwork
  <2>4. CASE \E x, v : CreateExtNetwork(p, n, x, v)
    BY <2>4 DEF CreateExtNetwork
  <2>5. QED
    BY <1>2, <2>1, <2>2, <2>3, <2>4 DEF Request
<1>3. QED
  BY <1>1, <1>2

LEMMA ConfInvStep == ConfInv /\ [Next]_vars => ConfInv'
<1> SUFFICES ASSUME ConfInv, [Next]_vars PROVE ConfInv'
  OBVIOUS
<1> DEFINE R == Configured(conf.vni)
<1>1. TypeInv /\ TypeInv' /\ AgreeInv'
  BY AgreeInvStep, TypeInvStep DEF ConfInv, AgreeInv
<1>2. SUFFICES ASSUME ~rolling' PROVE SameRanges' /\ EmptyWhileInserting'
  BY <1>1 DEF ConfInv, SameRanges, EmptyWhileInserting
<1>3. rolling' = rolling
  <2>1. ASSUME NEW p \in Procs, Server(p) PROVE rolling' = rolling
    BY <2>1 DEF Server, Start, InsertRows, InsertFails, Stop, files
  <2>2. QED
    BY <1>1, <2>1, UpStep DEF Next, vars, Reconfigure
<1> USE <1>1, <1>2, <1>3 DEF ConfInv, SameRanges, EmptyWhileInserting, Up
<1>4. CASE UNCHANGED vars
  BY <1>4 DEF vars
<1>5. ASSUME NEW c \in Configs, Reconfigure(c)
      PROVE  SameRanges' /\ EmptyWhileInserting'
  BY <1>5 DEF Reconfigure
<1>6. ASSUME NEW p \in Procs, Start(p)
      PROVE  SameRanges' /\ EmptyWhileInserting'
  <2>1. /\ conf' = conf /\ range' = [range EXCEPT ![p] = R]
        /\ R \in SUBSET Vnis
    BY <1>6, ConfiguredFacts DEF Start, files, TypeInv, TypeOK
  <2>2. /\ range'[p] = R
        /\ \A q \in Procs \ {p} : range'[q] = range[q] /\ at'[q] = at[q]
    BY <1>6, <2>1 DEF Start, Goto, Answer, TypeInv, TypeOK
  <2>3. CASE DOMAIN tab = {}
    <3>1. tab' = tab /\ at'[p].pc = "inserting"
      BY <1>6, <2>3 DEF Start, Goto, TypeInv, TypeOK, Requests
    <3>2. QED
      BY <2>1, <2>2, <2>3, <3>1 DEF FreeRows
  <2>4. CASE DOMAIN tab # {}
    <3>1. tab' = Synced(tab, R) /\ at'[p] = Idle
      BY <1>6, <2>2, <2>4 DEF Start, Answer, TypeInv, TypeOK
    <3>2. R \subseteq DOMAIN tab' /\ FreeRows(tab') \subseteq R
      BY <2>1, <3>1, SyncedFacts DEF TypeInv, TypeOK
    <3>3. QED
      BY <2>1, <2>2, <3>1, <3>2, IdleFacts
  <2>5. QED
    BY <2>3, <2>4
<1>7. ASSUME NEW p \in Procs, InsertRows(p)
      PROVE  SameRanges' /\ EmptyWhileInserting'
  <2>1. /\ conf' = conf /\ range' = range /\ range[p] = R
        /\ FreeRows(tab) \subseteq R /\ tab' = Filled(tab, R)
        /\ R \in SUBSET Vnis
    BY <1>7 DEF InsertRows, files, process, TypeInv, TypeOK
  <2>2. DOMAIN tab' = DOMAIN tab \cup R /\ FreeRows(tab') \subseteq R
    BY <2>1, FilledFacts DEF TypeInv, TypeOK
  <2>3. at'[p] = Idle /\ \A q \in Procs \ {p} : at'[q] = at[q]
    BY <1>7 DEF InsertRows, Answer, TypeInv, TypeOK
  <2>4. QED
    BY <2>1, <2>2, <2>3, IdleFacts
<1>8. ASSUME NEW p \in Procs, InsertFails(p) \/ Stop(p)
      PROVE  SameRanges' /\ EmptyWhileInserting'
  BY <1>8, IdleFacts DEF InsertFails, Stop, files, process, TypeInv, TypeOK
<1>9. ASSUME NEW p \in Procs, Allocate(p) \/ \E n \in Networks : Request(p, n)
      PROVE  SameRanges' /\ EmptyWhileInserting'
  <2>1. /\ at[p].pc \notin {"down", "inserting"}
        /\ at'[p].pc \notin {"down", "inserting"}
        /\ \A q \in Procs \ {p} : at'[q] = at[q]
        /\ UNCHANGED <<rolling, conf, range>>
    BY <1>9, UpStep
  <2>2. range[p] = R /\ R \subseteq DOMAIN tab /\ FreeRows(tab) \subseteq R
    BY <2>1
  <2>3. R \subseteq DOMAIN tab' /\ FreeRows(tab') \subseteq R
    BY <1>9, <2>2, RowsStep
  <2>4. QED
    BY <2>1, <2>2, <2>3
<1>10. QED
  BY <1>4, <1>5, <1>6, <1>7, <1>8, <1>9 DEF Next, Server

(* With one configuration for all processes, a process that serves has a   *)
(* row for each configured VNI, and only such VNIs are on offer -- also    *)
(* when any number of first starts meet at an empty table.                 *)
THEOREM TableConfiguredAlways == Spec => []TableConfigured
<1>1. Spec => []ConfInv
  BY ConfInvInit, ConfInvStep, PTL DEF Spec
<1>2. ConfInv => TableConfigured
  BY DEF ConfInv, SameRanges, TableConfigured, Up
<1>3. QED
  BY <1>1, <1>2, PTL

===============================================================================
