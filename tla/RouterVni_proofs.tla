--------------------------- MODULE RouterVni_proofs ---------------------------
(***************************************************************************)
(* Proofs about RouterVni for any number of workers, routers and VNIs and  *)
(* any configured ranges.                                                  *)
(***************************************************************************)
EXTENDS RouterVni, AllocTable_proofs, TLAPS

-------------------------------------------------------------------------------
(* Type correctness *)

(* What a lookup finds is an identifier of the pool, or its default. *)
LEMMA LookupType ==
    ASSUME NEW ids, NEW tb \in Tables(ids), NEW r, NEW none,
           NEW v \in Lookups(tb, r, none)
    PROVE  v \in ids \cup {none}
BY TableIsFunction DEF Lookups, HeldBy

(* The types of a new deployment. *)
LEMMA TypeInit == Init => TypeOK
<1> SUFFICES ASSUME Init PROVE TypeOK
  OBVIOUS
<1>1. tab \in Tables(Vnis)
  BY EmptyTableType DEF Init
<1>2. QED
  BY <1>1 DEF Init, TypeOK, Points

(* Every operation keeps the types. *)
LEMMA TypeStep == TypeOK /\ [Next]_vars => TypeOK'
<1> SUFFICES ASSUME TypeOK, [Next]_vars PROVE TypeOK'
  OBVIOUS
<1> USE DEF TypeOK
<1>1. CASE UNCHANGED vars
  BY <1>1 DEF vars
<1>2. ASSUME NEW w \in Workers, Create(w) PROVE TypeOK'
  <2>1. ASSUME NEW r \in Routers, CreateRouter(w, r) PROVE TypeOK'
    BY <2>1, RouterVniAssumption DEF CreateRouter, Accept, Points
  <2>2. CASE PickVni(w)
    <3>1. FreeIds(tab) \subseteq Vnis
      BY TableIsFunction DEF FreeIds
    <3>2. QED
      BY <2>2, <3>1 DEF PickVni, Move, Points
  <2>3. CASE WriteVni(w)
    <3>1. job[w] \in Routers
      BY <2>3 DEF WriteVni, Move
    <3>2. tab' \in Tables(Vnis)
      BY <2>3, <3>1, AssignedFacts DEF WriteVni
    <3>3. QED
      BY <2>3, <3>2 DEF WriteVni, Move, Points
  <2>4. CASE CreateDone(w)
    BY <2>4 DEF CreateDone, Answer, Points
  <2>5. CASE CreateFails(w)
    BY <2>5 DEF CreateFails, Answer, DeleteRow, Points
  <2>6. QED
    BY <1>2, <2>1, <2>2, <2>3, <2>4, <2>5 DEF Create
<1>3. ASSUME NEW w \in Workers, Delete(w) PROVE TypeOK'
  <2>1. ASSUME NEW r \in Routers, DeleteRouter(w, r) PROVE TypeOK'
    BY <2>1, RouterVniAssumption DEF DeleteRouter, Accept, Points
  <2>2. CASE ReleaseVni(w)
    <3>1. tab' \in Tables(Vnis)
      BY <2>2, ReleasedFacts DEF ReleaseVni
    <3>2. QED
      BY <2>2, <3>1 DEF ReleaseVni, Move, Points
  <2>3. CASE ReleaseFails(w)
    BY <2>3 DEF ReleaseFails, Move, Points
  <2>4. CASE DeleteRouterRow(w)
    BY <2>4 DEF DeleteRouterRow, Answer, DeleteRow, Points
  <2>5. QED
    BY <1>3, <2>1, <2>2, <2>3, <2>4 DEF Delete
<1>4. ASSUME NEW w \in Workers, Interface(w) PROVE TypeOK'
  <2>1. ASSUME NEW r \in Routers, AddInterface(w, r) PROVE TypeOK'
    BY <2>1, RouterVniAssumption DEF AddInterface, Accept, Points
  <2>2. ASSUME NEW r \in Routers, RemoveInterface(w, r) PROVE TypeOK'
    BY <2>2, RouterVniAssumption DEF RemoveInterface, Accept, Points
  <2>3. CASE LookupForAdd(w)
    <3>1. \A v \in Lookups(tab, job[w], NoVni) : v \in Vnis \cup {NoVni}
      BY LookupType
    <3>2. QED
      BY <2>3, <3>1 DEF LookupForAdd, ReadVni, Move, Points
  <2>4. CASE LookupForRemove(w)
    <3>1. \A v \in Lookups(tab, job[w], NoVni) : v \in Vnis \cup {NoVni}
      BY LookupType
    <3>2. QED
      BY <2>4, <3>1 DEF LookupForRemove, ReadVni, Move, Points
  <2>5. CASE RemoveAborts(w)
    BY <2>5 DEF RemoveAborts, Answer, Points
  <2>6. CASE SendVrf(w)
    BY <2>6 DEF SendVrf, Answer, Points
  <2>7. CASE AddFails(w)
    BY <2>7 DEF AddFails, Answer, Points
  <2>8. CASE RemoveVrf(w)
    BY <2>8 DEF RemoveVrf, Answer, Points
  <2>9. CASE RemoveVrfFails(w)
    BY <2>9 DEF RemoveVrfFails, Answer, Points
  <2>10. QED
    BY <1>4, <2>1, <2>2, <2>3, <2>4, <2>5, <2>6, <2>7, <2>8, <2>9
       DEF Interface
<1>5. ASSUME NEW w \in Workers, Port(w) PROVE TypeOK'
  <2>1. ASSUME NEW r \in Routers, PortUp(w, r) PROVE TypeOK'
    <3>1. \A v \in Lookups(tab, r, NoVni) : v \in Vnis \cup {NoVni}
      BY LookupType
    <3>2. QED
      BY <2>1, <3>1, RouterVniAssumption DEF PortUp, ReadVni, Accept, Points
  <2>2. CASE PortSeesInterface(w)
    BY <2>2 DEF PortSeesInterface, Move, Points
  <2>3. CASE PortSeesNone(w)
    BY <2>3 DEF PortSeesNone, Answer, Points
  <2>4. QED
    BY <1>5, <2>1, <2>2, <2>3 DEF Port
<1>6. ASSUME NEW w \in Workers, Crash(w) PROVE TypeOK'
  BY <1>6 DEF Crash, Points
<1>7. ASSUME NEW w \in Workers, Restart(w) PROVE TypeOK'
  <2>1. PICK c \in RangeChoices :
          /\ range' = [range EXCEPT ![w] = c]
          /\ tab' \in Released(Synced(tab, c), c, Vanished)
    BY <1>7 DEF Restart
  <2>2. c \in SUBSET Vnis
    BY RouterVniAssumption
  <2>3. Synced(tab, c) \in Tables(Vnis)
    BY <2>2, SyncedFacts
  <2>4. tab' \in Tables(Vnis)
    BY <2>1, <2>3, ReleasedFacts
  <2>5. QED
    BY <1>7, <2>1, <2>2, <2>4 DEF Restart, Move, Points
<1>8. QED
  BY <1>1, <1>2, <1>3, <1>4, <1>5, <1>6, <1>7 DEF Next

(* Every variable keeps its type: in particular a worker has a router in   *)
(* hand exactly while it serves a request.                                 *)
THEOREM TypeCorrect == Spec => []TypeOK
<1>1. QED
  BY TypeInit, TypeStep, PTL DEF Spec

-------------------------------------------------------------------------------
(* A router owns at most one VNI *)

NoRow(r) == \A i \in DOMAIN tab : tab[i] # r

(* Nothing refers to a router that was never created. *)
UnbornUntouched ==
    \A r \in Routers : life[r] = "unborn" =>
        /\ NoRow(r) /\ vrf[r] = NoVrf /\ ~intf[r]
        /\ \A w \in Workers : job[w] # r

(* Only one request ever allocates for a router, and it has not written    *)
(* yet while it is choosing.                                               *)
Choosing(w) == pc[w] \in {"pick", "write"}

CreatorAlone ==
    \A w \in Workers : Choosing(w) =>
        /\ NoRow(job[w])
        /\ \A u \in Workers : Choosing(u) /\ job[u] = job[w] => u = w

VniInv == TypeOK /\ UnbornUntouched /\ CreatorAlone /\ AtMostOneVni

(* Nobody owns anything in a new deployment. *)
LEMMA VniInvInit == Init => VniInv
<1> SUFFICES ASSUME Init PROVE VniInv
  OBVIOUS
<1>1. DOMAIN tab = {}
  BY EmptyTableType DEF Init
<1>2. QED
  BY <1>1, TypeInit, RouterVniAssumption
     DEF Init, VniInv, UnbornUntouched, CreatorAlone, AtMostOneVni, NoRow,
         Choosing

(* The only steps that touch the table. *)
LEMMA TableStep ==
    ASSUME [Next]_vars
    PROVE  \/ tab' = tab
           \/ \E w \in Workers : WriteVni(w) \/ ReleaseVni(w) \/ Restart(w)
BY DEF Next, vars, Create, Delete, Interface, Port, CreateRouter, PickVni,
       CreateDone, CreateFails, DeleteRouter, ReleaseFails, DeleteRouterRow,
       AddInterface, RemoveInterface, LookupForAdd, LookupForRemove,
       RemoveAborts, SendVrf, AddFails, RemoveVrf, RemoveVrfFails, PortUp,
       PortSeesInterface, PortSeesNone, Crash

(* A restart changes no row of an existing router. *)
LEMMA RestartTable ==
    ASSUME TypeOK, NEW w \in Workers, Restart(w)
    PROVE  /\ \A i \in DOMAIN tab : tab[i] # Free /\ tab[i] \notin Vanished =>
                  i \in DOMAIN tab' /\ tab'[i] = tab[i]
           /\ \A i \in DOMAIN tab' : tab'[i] # Free =>
                  i \in DOMAIN tab /\ tab'[i] = tab[i]
<1>1. PICK c \in RangeChoices :
          tab' \in Released(Synced(tab, c), c, Vanished)
  BY DEF Restart
<1>2. c \in SUBSET Vnis /\ tab \in Tables(Vnis)
  BY RouterVniAssumption DEF TypeOK
<1>3. Synced(tab, c) \in Tables(Vnis)
  BY <1>2, SyncedFacts
<1>4. /\ \A i \in DOMAIN tab' :
            /\ i \in DOMAIN Synced(tab, c)
            /\ tab'[i] = Synced(tab, c)[i] \/ tab'[i] = Free
      /\ \A i \in DOMAIN Synced(tab, c) : Synced(tab, c)[i] \notin Vanished =>
            i \in DOMAIN tab' /\ tab'[i] = Synced(tab, c)[i]
  BY <1>1, <1>3, ReleasedFacts
<1>5. /\ \A i \in DOMAIN tab : tab[i] # Free =>
            /\ i \in DOMAIN Synced(tab, c)
            /\ Synced(tab, c)[i] = tab[i]
      /\ \A i \in DOMAIN Synced(tab, c) : Synced(tab, c)[i] # Free =>
            i \in DOMAIN tab /\ tab[i] = Synced(tab, c)[i]
  BY <1>2, SyncedFacts
<1>6. QED
  BY <1>4, <1>5

(* A step that is not a write adds no owner to the table. *)
LEMMA OwnersShrink ==
    ASSUME TypeOK, [Next]_vars, \A w \in Workers : ~WriteVni(w)
    PROVE  \A i \in DOMAIN tab' : tab'[i] # Free =>
               i \in DOMAIN tab /\ tab'[i] = tab[i]
<1>1. CASE tab' = tab
  BY <1>1
<1>2. ASSUME NEW w \in Workers, ReleaseVni(w)
      PROVE  \A i \in DOMAIN tab' : tab'[i] # Free =>
                 i \in DOMAIN tab /\ tab'[i] = tab[i]
  BY <1>2, ReleasedFacts DEF ReleaseVni, TypeOK
<1>3. ASSUME NEW w \in Workers, Restart(w)
      PROVE  \A i \in DOMAIN tab' : tab'[i] # Free =>
                 i \in DOMAIN tab /\ tab'[i] = tab[i]
  BY <1>3, RestartTable
<1>4. QED
  BY <1>1, <1>2, <1>3, TableStep

(* What a write does, by type alone. *)
LEMMA WriteTable ==
    ASSUME TypeOK, NEW w \in Workers, WriteVni(w)
    PROVE  /\ DOMAIN tab' = DOMAIN tab
           /\ \A i \in DOMAIN tab :
                 tab'[i] = IF i = vni[w] THEN job[w] ELSE tab[i]
           /\ job[w] \in Routers
<1>1. job[w] \in Routers
  BY DEF WriteVni, Move, TypeOK
<1>2. tab \in Tables(Vnis)
  BY DEF TypeOK
<1>3. QED
  BY <1>1, <1>2, AssignedFacts DEF WriteVni

(* Every operation keeps it: only WriteVni adds an owner, and the router it *)
(* writes is still being created, by this worker alone, and owns nothing.  *)
LEMMA VniInvStep == VniInv /\ [Next]_vars => VniInv'
<1> SUFFICES ASSUME VniInv, [Next]_vars PROVE VniInv'
  OBVIOUS
<1>1. TypeOK /\ TypeOK'
  BY TypeStep DEF VniInv
<1>2. CASE \E w \in Workers : WriteVni(w)
  <2>1. PICK w \in Workers : WriteVni(w)
    BY <1>2
  <2>2. /\ DOMAIN tab' = DOMAIN tab
        /\ \A i \in DOMAIN tab :
              tab'[i] = IF i = vni[w] THEN job[w] ELSE tab[i]
        /\ job[w] \in Routers
    BY <1>1, <2>1, WriteTable
  <2>3. /\ Choosing(w) /\ ~Choosing(w)' /\ job' = job
        /\ \A u \in Workers : u # w => Choosing(u)' = Choosing(u)
        /\ life' = life /\ vrf' = vrf /\ intf' = intf
    BY <1>1, <2>1 DEF WriteVni, Move, TypeOK, Choosing
  <2>4. UnbornUntouched'
    BY <2>2, <2>3 DEF VniInv, UnbornUntouched, NoRow
  <2>5. CreatorAlone'
    BY <2>2, <2>3 DEF VniInv, CreatorAlone, NoRow
  <2>6. AtMostOneVni'
    BY <2>2, <2>3 DEF VniInv, CreatorAlone, NoRow, AtMostOneVni
  <2>7. QED
    BY <1>1, <2>4, <2>5, <2>6 DEF VniInv
<1>3. CASE ~\E w \in Workers : WriteVni(w)
  <2>1. \A i \in DOMAIN tab' : tab'[i] # Free =>
            i \in DOMAIN tab /\ tab'[i] = tab[i]
    BY <1>1, <1>3, OwnersShrink
  <2>2. \A r \in Routers : NoRow(r) => NoRow(r)'
    BY <2>1, FreeAssumption DEF NoRow
  <2>3. AtMostOneVni'
    BY <2>1 DEF VniInv, AtMostOneVni
  <2>4. UnbornUntouched' /\ CreatorAlone'
    <3> USE <2>2 DEF VniInv, UnbornUntouched, CreatorAlone, Choosing, TypeOK
    <3>1. CASE UNCHANGED vars
      BY <3>1 DEF vars, NoRow
    <3>2. ASSUME NEW w \in Workers, Create(w)
          PROVE  UnbornUntouched' /\ CreatorAlone'
      BY <1>3, <3>2, RouterVniAssumption
         DEF Create, CreateRouter, PickVni, CreateDone, CreateFails,
             Accept, Move, Answer, DeleteRow
    <3>3. ASSUME NEW w \in Workers, Delete(w)
          PROVE  UnbornUntouched' /\ CreatorAlone'
      BY <3>3, RouterVniAssumption
         DEF Delete, DeleteRouter, ReleaseVni, ReleaseFails, DeleteRouterRow,
             Accept, Move, Answer, DeleteRow
    <3>4. ASSUME NEW w \in Workers, Interface(w)
          PROVE  UnbornUntouched' /\ CreatorAlone'
      BY <3>4, RouterVniAssumption
         DEF Interface, AddInterface, RemoveInterface, LookupForAdd,
             LookupForRemove, RemoveAborts, SendVrf, AddFails, RemoveVrf,
             RemoveVrfFails, Accept, Move, Answer
    <3>5. ASSUME NEW w \in Workers, Port(w)
          PROVE  UnbornUntouched' /\ CreatorAlone'
      BY <3>5, RouterVniAssumption
         DEF Port, PortUp, PortSeesInterface, PortSeesNone,
             Accept, Move, Answer
    <3>6. ASSUME NEW w \in Workers, Crash(w) \/ Restart(w)
          PROVE  UnbornUntouched' /\ CreatorAlone'
      BY <3>6, RouterVniAssumption DEF Crash, Restart, Move
    <3>7. QED
      BY <3>1, <3>2, <3>3, <3>4, <3>5, <3>6 DEF Next
  <2>5. QED
    BY <1>1, <2>3, <2>4 DEF VniInv
<1>4. QED
  BY <1>2, <1>3

(* The inductive invariant of the allocation holds throughout: a router    *)
(* not yet created owns nothing, and one worker at most is creating it.    *)
THEOREM VniInvariant == Spec => []VniInv
<1>1. QED
  BY VniInvInit, VniInvStep, PTL DEF Spec

(* However many servers serve requests at once, and wherever they crash    *)
(* and restart, no router is ever recorded as owning two L3 VNIs.          *)
THEOREM OneVniPerRouter == Spec => []AtMostOneVni
<1>1. VniInv => AtMostOneVni
  BY DEF VniInv
<1>2. QED
  BY <1>1, VniInvariant, PTL

-------------------------------------------------------------------------------
(* Control *)

(* A step moves one worker, between the points its operation joins. *)
LEMMA ControlStep ==
    ASSUME TypeOK, [Next]_vars, NEW w \in Workers, pc'[w] # pc[w]
    PROVE  /\ pc[w] = "down" => Restart(w)
           /\ pc'[w] = "write" => PickVni(w)
<1> USE DEF TypeOK, Accept, Move, Answer
<1>1. ~ UNCHANGED vars
  BY DEF vars
<1>2. ASSUME NEW u \in Workers, Create(u)
      PROVE  u = w /\ pc[w] # "down" /\ (pc'[w] = "write" => PickVni(w))
  BY <1>2 DEF Create, CreateRouter, PickVni, WriteVni, CreateDone, CreateFails
<1>3. ASSUME NEW u \in Workers, Delete(u)
      PROVE  u = w /\ pc[w] # "down" /\ pc'[w] # "write"
  BY <1>3 DEF Delete, DeleteRouter, ReleaseVni, ReleaseFails, DeleteRouterRow
<1>4. ASSUME NEW u \in Workers, Interface(u)
      PROVE  u = w /\ pc[w] # "down" /\ pc'[w] # "write"
  BY <1>4 DEF Interface, AddInterface, RemoveInterface, LookupForAdd,
              LookupForRemove, RemoveAborts, SendVrf, AddFails, RemoveVrf,
              RemoveVrfFails
<1>5. ASSUME NEW u \in Workers, Port(u)
      PROVE  u = w /\ pc[w] # "down" /\ pc'[w] # "write"
  BY <1>5 DEF Port, PortUp, PortSeesInterface, PortSeesNone
<1>6. ASSUME NEW u \in Workers, Crash(u)
      PROVE  u = w /\ pc[w] # "down" /\ pc'[w] # "write"
  BY <1>6 DEF Crash
<1>7. ASSUME NEW u \in Workers, Restart(u)
      PROVE  u = w /\ pc'[w] # "write"
  BY <1>7 DEF Restart
<1>8. QED
  BY <1>1, <1>2, <1>3, <1>4, <1>5, <1>6, <1>7 DEF Next

(* A worker that comes back up has synchronised the table. *)
LEMMA DownStep ==
    ASSUME TypeOK, [Next]_vars, NEW w \in Workers,
           pc[w] = "down", pc'[w] = "idle"
    PROVE  Restart(w)
BY ControlStep

-------------------------------------------------------------------------------
(* How a VNI leaves its router *)

(* The VNI of an existing router is only given up by a release that serves *)
(* a delete_router of that router, for every set of configured ranges.     *)
THEOREM OnlyItsRouterFreesAVni == Spec => VniFreedOnlyByItsRouter
<1> DEFINE Kept(i) == (tab[i] # Free /\ (i \in DOMAIN tab' => tab'[i] = Free))
                         => \/ life[tab[i]] # "alive"
                            \/ \E w \in Workers : pc[w] = "release" /\ job[w] = tab[i]
<1>1. TypeOK /\ [Next]_vars => \A i \in DOMAIN tab : Kept(i)
  <2> SUFFICES ASSUME TypeOK, [Next]_vars, NEW i \in DOMAIN tab PROVE Kept(i)
    OBVIOUS
  <2>1. CASE tab' = tab
    BY <2>1
  <2>2. ASSUME NEW w \in Workers, WriteVni(w) PROVE Kept(i)
    BY <2>2, WriteTable, FreeAssumption
  <2>3. ASSUME NEW w \in Workers, ReleaseVni(w) PROVE Kept(i)
    BY <2>3, ReleasedFacts DEF ReleaseVni, Move, TypeOK
  <2>4. ASSUME NEW w \in Workers, Restart(w) PROVE Kept(i)
    BY <2>4, RestartTable DEF Vanished
  <2>5. QED
    BY <2>1, <2>2, <2>3, <2>4, TableStep
<1>2. QED
  BY <1>1, TypeCorrect, PTL DEF Spec, VniFreedOnlyByItsRouter

(* A restart leaves no VNI with a router that no longer exists; this rests *)
(* on no router owning two, because the synchronisation looks at one row.  *)
THEOREM RestartReclaimsAll == Spec => RestartReclaims
<1> DEFINE Clean(w) == pc[w] = "down" /\ pc'[w] = "idle"
                         => \A i \in DOMAIN tab' :
                              tab'[i] # Free => life[tab'[i]] = "alive"
<1>1. VniInv /\ VniInv' /\ [Next]_vars => \A w \in Workers : Clean(w)
  <2> SUFFICES ASSUME VniInv, VniInv', [Next]_vars, NEW w \in Workers,
                      pc[w] = "down" /\ pc'[w] = "idle",
                      NEW i \in DOMAIN tab', tab'[i] # Free
               PROVE  life[tab'[i]] = "alive"
    OBVIOUS
  <2>1. Restart(w)
    BY DownStep DEF VniInv
  <2>2. PICK c \in RangeChoices :
            tab' \in Released(Synced(tab, c), c, Vanished)
    BY <2>1 DEF Restart
  <2>3. c \in SUBSET Vnis /\ tab \in Tables(Vnis)
    BY RouterVniAssumption DEF TypeOK, VniInv
  <2>4. /\ Synced(tab, c) \in Tables(Vnis)
        /\ \A j \in DOMAIN Synced(tab, c) : Synced(tab, c)[j] # Free =>
              j \in DOMAIN tab /\ tab[j] = Synced(tab, c)[j]
    BY <2>3, SyncedFacts
  <2>5. \A j, k \in DOMAIN Synced(tab, c) :
            Synced(tab, c)[j] = Synced(tab, c)[k] /\ Synced(tab, c)[j] # Free
                => j = k
    BY <2>4 DEF VniInv, AtMostOneVni
  <2>6. Vanished \in SUBSET Routers
    BY DEF Vanished
  <2>7. tab'[i] \notin Vanished
    BY <2>2, <2>4, <2>5, <2>6, ReleasedGivesUpAll
  <2>8. tab'[i] \in Routers
    BY TableIsFunction DEF VniInv, TypeOK
  <2>9. QED
    BY <2>7, <2>8 DEF Vanished
<1>2. QED
  BY <1>1, VniInvariant, PTL DEF Spec, RestartReclaims

-------------------------------------------------------------------------------
(* One request at a time: the pool keeps its promise *)

(* The VNI a create_router has picked is still free when it is written. *)
PickedIsFree ==
    \A w \in Workers : pc[w] = "write" =>
        vni[w] \in DOMAIN tab /\ tab[vni[w]] = Free

(* Once a VNI is picked, the only worker writes it or dies. *)
LEMMA OnlyWriterMoves ==
    ASSUME TypeOK, [Next]_vars, NEW w \in Workers, \A u \in Workers : u = w,
           pc[w] = "write", pc'[w] = "write"
    PROVE  UNCHANGED vars
<1> USE DEF TypeOK, Accept, Move, Answer
<1>1. ~Create(w)
  BY DEF Create, CreateRouter, PickVni, WriteVni, CreateDone, CreateFails
<1>2. ~Delete(w)
  BY DEF Delete, DeleteRouter, ReleaseVni, ReleaseFails, DeleteRouterRow
<1>3. ~Interface(w)
  BY DEF Interface, AddInterface, RemoveInterface, LookupForAdd,
         LookupForRemove, RemoveAborts, SendVrf, AddFails, RemoveVrf,
         RemoveVrfFails
<1>4. ~Port(w) /\ ~Crash(w) /\ ~Restart(w)
  BY DEF Port, PortUp, PortSeesInterface, PortSeesNone, Crash, Restart
<1>5. QED
  BY <1>1, <1>2, <1>3, <1>4 DEF Next

(* With one worker, a VNI it has picked stays free until it writes it. *)
LEMMA PickedStep ==
    ASSUME Serialized
    PROVE  VniInv /\ PickedIsFree /\ [Next]_vars => PickedIsFree'
<1> SUFFICES ASSUME VniInv, PickedIsFree, [Next]_vars, NEW w \in Workers,
                    pc'[w] = "write"
             PROVE  vni'[w] \in DOMAIN tab' /\ tab'[vni'[w]] = Free
  BY DEF PickedIsFree
<1>1. \A u \in Workers : u = w
  BY DEF Serialized
<1>2. CASE pc[w] = "write"
  <2>1. UNCHANGED vars
    BY <1>1, <1>2, OnlyWriterMoves DEF VniInv
  <2>2. QED
    BY <1>2, <2>1 DEF vars, PickedIsFree
<1>3. CASE pc[w] # "write"
  <2>1. PickVni(w)
    BY <1>3, ControlStep DEF VniInv
  <2>2. QED
    BY <2>1 DEF PickVni, FreeIds, VniInv, TypeOK
<1>4. QED
  BY <1>2, <1>3

(* With one request at a time, the VNI about to be written is free: the    *)
(* unlocked read of allocation_l3_vni is not stale when it is used.        *)
THEOREM PickedInvariant ==
    ASSUME Serialized
    PROVE  Spec => []PickedIsFree
<1>1. Init => PickedIsFree
  BY DEF Init, PickedIsFree
<1>2. VniInv /\ PickedIsFree /\ [Next]_vars => PickedIsFree'
  BY PickedStep
<1>3. QED
  BY <1>1, <1>2, VniInvariant, PTL DEF Spec

(* With one request at a time, and whatever crashes, restarts and range    *)
(* changes happen in between, the L3 VNI manager implements the abstract   *)
(* pool: a VNI is handed out only while nobody owns it.                    *)
THEOREM ImplementsPool ==
    ASSUME Serialized
    PROVE  Spec => PoolSpec
<1>1. Init => Pool!Init
  BY EmptyTableType DEF Init, Pool!Init, VniOwner
<1>2. VniInv /\ PickedIsFree /\ [Next]_vars => [Pool!Next]_VniOwner
  <2> SUFFICES ASSUME VniInv, PickedIsFree, [Next]_vars
               PROVE  Pool!Next \/ VniOwner' = VniOwner
    OBVIOUS
  <2>0. TypeOK /\ tab \in Tables(Vnis) /\ DOMAIN tab \subseteq Vnis
    BY TableIsFunction DEF VniInv, TypeOK
  <2>1. CASE tab' = tab
    BY <2>1 DEF VniOwner
  <2>2. ASSUME NEW w \in Workers, WriteVni(w) PROVE Pool!Next
    <3>1. /\ DOMAIN tab' = DOMAIN tab
          /\ \A i \in DOMAIN tab :
                tab'[i] = IF i = vni[w] THEN job[w] ELSE tab[i]
          /\ job[w] \in Routers
      BY <2>0, <2>2, WriteTable
    <3>2. /\ vni[w] \in DOMAIN tab /\ tab[vni[w]] = Free
          /\ \A i \in DOMAIN tab : tab[i] # job[w]
      BY <2>2 DEF WriteVni, Move, PickedIsFree, VniInv, CreatorAlone,
                  Choosing, NoRow
    <3>3. vni[w] \in Vnis /\ VniOwner[vni[w]] = Free
      BY <2>0, <3>2 DEF VniOwner
    <3>4. \A j \in Vnis : VniOwner[j] # job[w]
      BY <3>1, <3>2, FreeAssumption DEF VniOwner
    <3>5. VniOwner' = [VniOwner EXCEPT ![vni[w]] = job[w]]
      BY <2>0, <3>1, <3>2 DEF VniOwner
    <3>6. Pool!Grant(vni[w], job[w])
      BY <3>3, <3>4, <3>5 DEF Pool!Grant
    <3>7. QED
      BY <3>1, <3>3, <3>6 DEF Pool!Next
  <2>3. ASSUME NEW S \in SUBSET Routers,
               \A i \in DOMAIN tab' : tab'[i] # Free =>
                   i \in DOMAIN tab /\ tab'[i] = tab[i] /\ tab'[i] \notin S,
               \A i \in DOMAIN tab : tab[i] # Free /\ tab[i] \notin S =>
                   i \in DOMAIN tab' /\ tab'[i] = tab[i]
        PROVE  Pool!Next
    <3>1. VniOwner' = [i \in Vnis |-> IF VniOwner[i] \in S THEN Free
                                      ELSE VniOwner[i]]
      BY <2>0, <2>3, FreeAssumption DEF VniOwner
    <3>2. Pool!Reclaim(S)
      BY <3>1 DEF Pool!Reclaim
    <3>3. QED
      BY <3>2 DEF Pool!Next
  <2>4. ASSUME NEW w \in Workers, ReleaseVni(w) PROVE Pool!Next
    <3>1. /\ {job[w]} \in SUBSET Routers
          /\ tab' \in Released(tab, range[w], {job[w]})
      BY <2>0, <2>4 DEF ReleaseVni, Move, TypeOK
    <3>2. \A i \in DOMAIN tab' : tab'[i] \notin {job[w]}
      BY <2>0, <3>1, ReleasedGivesUpAll DEF VniInv, AtMostOneVni
    <3>3. /\ \A i \in DOMAIN tab' :
               /\ i \in DOMAIN tab
               /\ tab'[i] = tab[i] \/ tab'[i] = Free
          /\ \A i \in DOMAIN tab : tab[i] \notin {job[w]} =>
               i \in DOMAIN tab' /\ tab'[i] = tab[i]
      BY <2>0, <3>1, ReleasedFacts
    <3>4. QED
      BY <2>3, <3>1, <3>2, <3>3
  <2>5. ASSUME NEW w \in Workers, Restart(w) PROVE Pool!Next
    <3> DEFINE S == {r \in Vanished : \A i \in DOMAIN tab' : tab'[i] # r}
    <3>1. /\ \A i \in DOMAIN tab : tab[i] # Free /\ tab[i] \notin Vanished =>
                i \in DOMAIN tab' /\ tab'[i] = tab[i]
          /\ \A i \in DOMAIN tab' : tab'[i] # Free =>
                i \in DOMAIN tab /\ tab'[i] = tab[i]
      BY <2>0, <2>5, RestartTable
    <3>2. S \in SUBSET Routers
      BY DEF Vanished
    <3>3. \A i \in DOMAIN tab : tab[i] # Free /\ tab[i] \notin S =>
              i \in DOMAIN tab' /\ tab'[i] = tab[i]
      BY <3>1 DEF VniInv, AtMostOneVni
    <3>4. \A i \in DOMAIN tab' : tab'[i] # Free =>
              i \in DOMAIN tab /\ tab'[i] = tab[i] /\ tab'[i] \notin S
      BY <3>1
    <3> HIDE DEF S
    <3>5. QED
      BY <2>3, <3>2, <3>3, <3>4
  <2>6. QED
    BY <2>1, <2>2, <2>4, <2>5, TableStep
<1>3. QED
  BY <1>1, <1>2, VniInvariant, PickedInvariant, PTL DEF Spec, PoolSpec, Pool!Spec

-------------------------------------------------------------------------------
(* The fabric follows the table *)

Owns(r, v) == v \in DOMAIN tab /\ tab[v] = r

(* The points at which a request holds a VNI that it will send.            *)
Sends(w) == pc[w] \in {"addSend", "portIntf", "portSend"}

(* Neither the fabric nor a request knows another VNI of r than i.         *)
KnownAs(r, i) ==
    /\ vrf[r] \in {i, NoVni, NoVrf}
    /\ \A w \in Workers : job[w] = r /\ Sends(w) => vni[w] \in {i, NoVni}

(* A router without a row may still be known under the one it has lost,    *)
(* but not before its creation has written one.                            *)
ServedInv ==
    /\ \A r \in Routers, i \in Vnis : Owns(r, i) => KnownAs(r, i)
    /\ \A w \in Workers : Choosing(w) => KnownAs(job[w], NoVni)

(* Nothing is known of a router before its first row.                      *)
LEMMA ServedInit == Init => ServedInv
<1> SUFFICES ASSUME Init PROVE ServedInv
  OBVIOUS
<1>1. DOMAIN tab = {}
  BY EmptyTableType DEF Init
<1>2. QED
  BY <1>1 DEF Init, ServedInv, Owns, Choosing

(* A lookup finds the VNI the router owns, and none while it owns none.    *)
LEMMA LookupFinds ==
    ASSUME VniInv, NEW r \in Routers, NEW v \in Lookups(tab, r, NoVni)
    PROVE  /\ \A i \in Vnis : Owns(r, i) => v = i
           /\ NoRow(r) => v = NoVni
<1>1. \A i \in DOMAIN tab : tab[i] = r => r # Free
  BY FreeAssumption
<1>2. QED
  BY <1>1 DEF VniInv, AtMostOneVni, Lookups, HeldBy, Owns, NoRow

(* A step that writes no row, lets no request look up a VNI and none begin *)
(* a creation, and sends only what requests hold, keeps it.                *)
LEMMA ServedKept ==
    ASSUME VniInv, ServedInv, [Next]_vars, \A u \in Workers : ~ WriteVni(u),
           \A u \in Workers : Choosing(u)' => Choosing(u) /\ job'[u] = job[u],
           \A u \in Workers : Sends(u)' /\ job'[u] \in Routers =>
               \/ Sends(u) /\ job'[u] = job[u] /\ vni'[u] = vni[u]
               \/ vni'[u] \in Lookups(tab, job'[u], NoVni),
           \A r \in Routers : \/ vrf'[r] = vrf[r] \/ vrf'[r] = NoVrf
                              \/ \E u \in Workers : /\ job[u] = r /\ Sends(u)
                                                    /\ vrf'[r] = vni[u]
    PROVE  ServedInv'
<1>1. \A i \in DOMAIN tab' : tab'[i] # Free => i \in DOMAIN tab /\ tab'[i] = tab[i]
  BY OwnersShrink DEF VniInv
<1>2. \A u \in Workers : Choosing(u) => job[u] \in Routers
  BY DEF VniInv, TypeOK, Choosing
<1>3. ASSUME NEW r \in Routers, NEW i \in Vnis \cup {NoVni}, KnownAs(r, i),
             \A v \in Lookups(tab, r, NoVni) : v \in {i, NoVni}
      PROVE  KnownAs(r, i)'
  BY <1>3 DEF KnownAs
<1>4. ASSUME NEW r \in Routers, NEW i \in Vnis, Owns(r, i)'
      PROVE  KnownAs(r, i)'
  <2>1. Owns(r, i)
    BY <1>1, <1>4, FreeAssumption DEF Owns
  <2>2. \A v \in Lookups(tab, r, NoVni) : v = i
    BY <2>1, LookupFinds
  <2>3. QED
    BY <1>3, <2>1, <2>2 DEF ServedInv
<1>5. ASSUME NEW u \in Workers, Choosing(u)'
      PROVE  KnownAs(job[u], NoVni)' /\ job'[u] = job[u]
  <2>1. Choosing(u) /\ job'[u] = job[u] /\ NoRow(job[u])
    BY <1>5 DEF VniInv, CreatorAlone
  <2>2. \A v \in Lookups(tab, job[u], NoVni) : v = NoVni
    BY <1>2, <2>1, LookupFinds
  <2>3. KnownAs(job[u], NoVni)
    BY <2>1 DEF ServedInv
  <2>4. \A r \in Routers : r = job[u] => KnownAs(r, NoVni)'
    BY <1>3, <2>2, <2>3
  <2>5. QED
    BY <1>2, <2>1, <2>4 DEF KnownAs
<1>6. QED
  BY <1>4, <1>5 DEF ServedInv, KnownAs, Owns, Choosing

(* A row is written for a router of which nothing is known.                *)
LEMMA ServedWrite ==
    ASSUME VniInv, ServedInv, NEW w \in Workers, WriteVni(w)
    PROVE  ServedInv'
<1>1. /\ DOMAIN tab' = DOMAIN tab
      /\ \A i \in DOMAIN tab : tab'[i] = IF i = vni[w] THEN job[w] ELSE tab[i]
      /\ job[w] \in Routers
  BY WriteTable DEF VniInv
<1>2. /\ Choosing(w) /\ ~ Choosing(w)' /\ ~ Sends(w)' /\ job' = job
      /\ \A u \in Workers : u # w => Choosing(u)' = Choosing(u)
      /\ \A u \in Workers : u # w => Sends(u)' = Sends(u)
      /\ vrf' = vrf /\ vni' = vni
  BY DEF WriteVni, Move, VniInv, TypeOK, Choosing, Sends
<1>3. \A r, i : KnownAs(r, i) => KnownAs(r, i)'
  BY <1>2 DEF KnownAs
<1>4. ASSUME NEW r \in Routers, NEW i \in Vnis, Owns(r, i)'
      PROVE  KnownAs(r, i)'
  <2>1. CASE r = job[w]
    <3>1. KnownAs(r, NoVni)
      BY <1>2, <2>1 DEF ServedInv
    <3>2. KnownAs(r, i)
      BY <3>1 DEF KnownAs
    <3>3. QED
      BY <1>3, <3>2
  <2>2. CASE r # job[w]
    <3>1. Owns(r, i)
      BY <1>1, <1>4, <2>2 DEF Owns
    <3>2. QED
      BY <1>3, <3>1 DEF ServedInv
  <2>3. QED
    BY <2>1, <2>2
<1>5. ASSUME NEW u \in Workers, Choosing(u)'
      PROVE  KnownAs(job[u], NoVni)'
  BY <1>2, <1>3, <1>5 DEF ServedInv
<1>6. QED
  BY <1>2, <1>4, <1>5 DEF ServedInv, KnownAs, Owns, Choosing

(* Every operation keeps the fabric in step with the table.                *)
LEMMA ServedStep == VniInv /\ ServedInv /\ [Next]_vars => ServedInv'
<1> SUFFICES ASSUME VniInv, ServedInv, [Next]_vars PROVE ServedInv'
  OBVIOUS
<1> DEFINE StaysChoosing(u) == Choosing(u)' => Choosing(u) /\ job'[u] = job[u]
           StillSends(u) == Sends(u)' /\ job'[u] \in Routers =>
               \/ Sends(u) /\ job'[u] = job[u] /\ vni'[u] = vni[u]
               \/ vni'[u] \in Lookups(tab, job'[u], NoVni)
           SendsHeld(r) == \/ vrf'[r] = vrf[r] \/ vrf'[r] = NoVrf
                           \/ \E u \in Workers : /\ job[u] = r /\ Sends(u)
                                                 /\ vrf'[r] = vni[u]
           Harmless == /\ \A u \in Workers : StaysChoosing(u) /\ StillSends(u)
                       /\ \A r \in Routers : SendsHeld(r)
<1>1. TypeOK
  BY DEF VniInv
<1>2. CASE UNCHANGED vars
  BY <1>2 DEF vars, ServedInv, KnownAs, Owns, Choosing, Sends
<1>3. CASE \E w \in Workers : WriteVni(w)
  BY <1>3, ServedWrite
<1>4. CASE \E w \in Workers, r \in Routers : CreateRouter(w, r)
  <2>1. PICK w \in Workers, r \in Routers : CreateRouter(w, r)
    BY <1>4
  <2>2. /\ tab' = tab /\ vrf' = vrf /\ vni' = vni /\ life[r] = "unborn"
        /\ Choosing(w)' /\ job'[w] = r /\ ~ Sends(w)'
        /\ \A u \in Workers : u # w => /\ job'[u] = job[u]
                                       /\ Choosing(u)' = Choosing(u)
                                       /\ Sends(u)' = Sends(u)
    BY <1>1, <2>1 DEF CreateRouter, Accept, Choosing, Sends, TypeOK
  <2>3. vrf[r] = NoVrf /\ \A u \in Workers : job[u] # r
    BY <2>2 DEF VniInv, UnbornUntouched
  <2>4. KnownAs(r, NoVni)'
    BY <2>2, <2>3 DEF KnownAs
  <2>5. \A q, i : q # r /\ KnownAs(q, i) => KnownAs(q, i)'
    BY <2>2 DEF KnownAs
  <2>6. \A i \in Vnis : ~ Owns(r, i)
    BY <2>2 DEF VniInv, UnbornUntouched, NoRow, Owns
  <2>7. QED
    BY <2>2, <2>3, <2>4, <2>5, <2>6 DEF ServedInv, KnownAs, Owns, Choosing
<1>5. CASE /\ ~ UNCHANGED vars
           /\ \A w \in Workers : ~ WriteVni(w) /\ \A r \in Routers : ~ CreateRouter(w, r)
  <2> USE <1>1, <1>5 DEF TypeOK, Choosing, Sends, Accept, Move, Answer
  <2>1. ASSUME NEW w \in Workers, Create(w) PROVE Harmless
    BY <2>1 DEF Create, PickVni, CreateDone, CreateFails
  <2>2. ASSUME NEW w \in Workers, Delete(w) PROVE Harmless
    BY <2>2 DEF Delete, DeleteRouter, ReleaseVni, ReleaseFails, DeleteRouterRow
  <2>3. ASSUME NEW w \in Workers, Interface(w) PROVE Harmless
    <3>1. \A u \in Workers : StaysChoosing(u)
      BY <2>3 DEF Interface, AddInterface, RemoveInterface, LookupForAdd,
                  LookupForRemove, RemoveAborts, SendVrf, AddFails, RemoveVrf,
                  RemoveVrfFails
    <3>2. \A u \in Workers : StillSends(u)
      BY <2>3 DEF Interface, AddInterface, RemoveInterface, LookupForAdd,
                  LookupForRemove, RemoveAborts, SendVrf, AddFails, RemoveVrf,
                  RemoveVrfFails, ReadVni
    <3>3. \A r \in Routers : SendsHeld(r)
      BY <2>3 DEF Interface, AddInterface, RemoveInterface, LookupForAdd,
                  LookupForRemove, RemoveAborts, SendVrf, AddFails, RemoveVrf,
                  RemoveVrfFails
    <3>4. QED
      BY <3>1, <3>2, <3>3
  <2>4. ASSUME NEW w \in Workers, Port(w) PROVE Harmless
    BY <2>4 DEF Port, PortUp, PortSeesInterface, PortSeesNone, ReadVni
  <2>5. ASSUME NEW w \in Workers, Crash(w) \/ Restart(w) PROVE Harmless
    BY <2>5 DEF Crash, Restart
  <2>6. Harmless
    BY <2>1, <2>2, <2>3, <2>4, <2>5 DEF Next
  <2>7. QED
    BY <2>6, ServedKept
<1>6. QED
  BY <1>2, <1>3, <1>4, <1>5

(* For any workers, deletions of routers in use and crashes anywhere: a    *)
(* router that has a row is served under its VNI or under none, so that    *)
(* two routers are served under one VNI only if one has lost its row.      *)
THEOREM OwnersAreServedUnderOwn == Spec => []ServedUnderOwn
<1>1. VniInv /\ ServedInv => ServedUnderOwn
  <2> SUFFICES ASSUME VniInv, ServedInv, NEW r \in Routers, NEW i \in HeldBy(tab, r)
               PROVE  vrf[r] \in HeldBy(tab, r) \cup {NoVni, NoVrf}
    BY DEF ServedUnderOwn
  <2>1. i \in Vnis /\ Owns(r, i)
    BY TableIsFunction DEF VniInv, TypeOK, HeldBy, Owns
  <2>2. QED
    BY <2>1 DEF ServedInv, KnownAs
<1>2. QED
  BY <1>1, ServedInit, ServedStep, VniInvariant, PTL DEF Spec

-------------------------------------------------------------------------------
(* How a router is left without a VNI *)

(* A row survives every step that does not take the VNI from its router.   *)
LEMMA OwnsKept ==
    ASSUME VniInv, [Next]_vars, NEW r \in Routers, NEW v \in HeldBy(tab, r),
           life[r] = "alive" \/ life'[r] = "alive",
           \A w \in Workers : ~ TakesVni(w, r)
    PROVE  v \in HeldBy(tab', r)
<1>0. r # Free /\ v \in DOMAIN tab /\ tab[v] = r
  BY FreeAssumption DEF HeldBy
<1>1. CASE tab' = tab
  BY <1>1
<1>2. ASSUME NEW w \in Workers, WriteVni(w) PROVE v \in HeldBy(tab', r)
  <2>1. v = vni[w] => job[w] = r
    BY <1>2 DEF TakesVni, WriteVni, Move
  <2>2. QED
    BY <1>0, <1>2, <2>1, WriteTable DEF HeldBy, VniInv
<1>3. ASSUME NEW w \in Workers, ReleaseVni(w) PROVE v \in HeldBy(tab', r)
  <2>1. job[w] # r
    BY <1>3 DEF TakesVni, ReleaseVni, Move
  <2>2. QED
    BY <1>0, <1>3, <2>1, ReleasedFacts DEF ReleaseVni, HeldBy, VniInv, TypeOK
<1>4. ASSUME NEW w \in Workers, Restart(w) PROVE v \in HeldBy(tab', r)
  <2>1. life' = life
    BY <1>4 DEF Restart
  <2>2. QED
    BY <1>0, <1>4, <2>1, RestartTable DEF HeldBy, VniInv, Vanished
<1>5. QED
  BY <1>1, <1>2, <1>3, <1>4, TableStep

(* A creation that has no row yet goes on to write one, unless it ends.    *)
LEMMA CreationGoesOn ==
    ASSUME VniInv, [Next]_vars, NEW r \in Routers, NEW w \in Workers,
           job[w] = r, Choosing(w), life'[r] = "alive",
           \A u \in Workers : ~ TakesVni(u, r)
    PROVE  Provided(r)'
<1> USE DEF VniInv, TypeOK, Accept, Move, Answer, Choosing, Provided, HeldBy
<1>1. CASE UNCHANGED vars
  BY <1>1 DEF vars
<1>2. ASSUME NEW u \in Workers, Create(u) PROVE Provided(r)'
  <2>1. CASE u # w
    BY <1>2, <2>1
       DEF Create, CreateRouter, PickVni, WriteVni, CreateDone, CreateFails
  <2>2. CASE u = w /\ WriteVni(u)
    <3>1. vni[w] \in DOMAIN tab
      BY <2>2 DEF TakesVni, WriteVni
    <3>2. tab'[vni[w]] = r /\ vni[w] \in DOMAIN tab'
      BY <2>2, <3>1, WriteTable
    <3>3. QED
      BY <3>2
  <2>3. CASE u = w /\ CreateFails(u)
    BY <2>3 DEF CreateFails, DeleteRow, TakesVni
  <2>4. CASE u = w /\ ~ WriteVni(u) /\ ~ CreateFails(u)
    BY <1>2, <2>4 DEF Create, CreateRouter, PickVni, CreateDone
  <2>5. QED
    BY <2>1, <2>2, <2>3, <2>4
<1>3. ASSUME NEW u \in Workers, Delete(u) PROVE Provided(r)'
  BY <1>3 DEF Delete, DeleteRouter, ReleaseVni, ReleaseFails, DeleteRouterRow
<1>4. ASSUME NEW u \in Workers, Interface(u) PROVE Provided(r)'
  BY <1>4 DEF Interface, AddInterface, RemoveInterface, LookupForAdd,
              LookupForRemove, RemoveAborts, SendVrf, AddFails, RemoveVrf,
              RemoveVrfFails
<1>5. ASSUME NEW u \in Workers, Port(u) PROVE Provided(r)'
  BY <1>5 DEF Port, PortUp, PortSeesInterface, PortSeesNone
<1>6. ASSUME NEW u \in Workers, Crash(u) \/ Restart(u) PROVE Provided(r)'
  BY <1>6 DEF Crash, Restart, TakesVni
<1>7. QED
  BY <1>1, <1>2, <1>3, <1>4, <1>5, <1>6 DEF Next

(* A router enters the database with a request that is to write its row.   *)
LEMMA BornProvided ==
    ASSUME VniInv, [Next]_vars, NEW r \in Routers,
           life[r] = "unborn", life'[r] = "alive"
    PROVE  Provided(r)'
<1>1. \E w \in Workers, q \in Routers : CreateRouter(w, q) /\ q = r
  BY DEF Next, vars, Create, Delete, Interface, Port, CreateRouter, PickVni,
         WriteVni, CreateDone, CreateFails, DeleteRouter, ReleaseVni,
         ReleaseFails, DeleteRouterRow, DeleteRow, AddInterface,
         RemoveInterface, LookupForAdd, LookupForRemove, RemoveAborts, SendVrf,
         AddFails, RemoveVrf, RemoveVrfFails, PortUp, PortSeesInterface,
         PortSeesNone, Crash, Restart, VniInv, TypeOK
<1>2. QED
  BY <1>1 DEF CreateRouter, Accept, Provided, VniInv, TypeOK

(* "Allocations one l3 vni to VRouter" (l3_vni_manager.py:119), for any    *)
(* workers, ranges and crashes: an existing router is left without a VNI   *)
(* in the five ways of TakesVni and in no other.                           *)
THEOREM NoOtherLoss == Spec => VniLostOnly
<1> DEFINE Kept(r) == (life[r] = "unborn" \/ Provided(r)) /\ life'[r] = "alive"
                          => Provided(r)' \/ \E w \in Workers : TakesVni(w, r)
<1>1. VniInv /\ [Next]_vars => \A r \in Routers : Kept(r)
  <2> SUFFICES ASSUME VniInv, [Next]_vars, NEW r \in Routers,
                      life[r] = "unborn" \/ Provided(r), life'[r] = "alive",
                      \A w \in Workers : ~ TakesVni(w, r)
               PROVE  Provided(r)'
    OBVIOUS
  <2>1. CASE life[r] = "unborn"
    BY <2>1, BornProvided
  <2>2. CASE HeldBy(tab, r) # {}
    BY <2>2, OwnsKept DEF Provided
  <2>3. CASE \E w \in Workers : job[w] = r /\ Choosing(w)
    BY <2>3, CreationGoesOn
  <2>4. QED
    BY <2>1, <2>2, <2>3 DEF Provided, Choosing
<1>2. QED
  BY <1>1, VniInvariant, PTL DEF Spec, VniLostOnly

===============================================================================
