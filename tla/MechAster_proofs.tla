--------------------------- MODULE MechAster_proofs ---------------------------
(***************************************************************************)
(* Proofs about MechAster for any number of port workers, ports, hosts and *)
(* switches, however they are connected.  What rests on the lock of the    *)
(* port hooks is proved for workers of one neutron-server process.         *)
(***************************************************************************)
EXTENDS MechAster, TLAPS

-------------------------------------------------------------------------------
(* Types *)

(* Which points each kind of worker can be at. *)
Roles ==
    /\ \A w \in PortWorkers :
           pc[w] \in {"idle", "upTx", "upPost", "delPost"} \cup Locked
    /\ \A x \in RouterWorkers : pc[x] \in {"idle"} \cup Adding \cup Removing

(* A transaction that can still commit has read the port as it is. *)
JobInv ==
    \A w \in PortWorkers : job[w] # None =>
        /\ pc[w] = "upTx"
        /\ pstat[job[w]] \in {"down", "active"}
        /\ todo[w] = ServedBy(job[w])

TypeInv == TypeOK /\ Roles /\ JobInv

LEMMA InitType == Init => TypeInv
<1> SUFFICES ASSUME Init
             PROVE  TypeInv
  OBVIOUS
<1>1. TypeOK
  BY DEF Init, TypeOK, Points
<1>2. Roles
  BY DEF Init, Roles, Workers
<1>3. JobInv
  BY DEF Init, JobInv
<1>4. QED
  BY <1>1, <1>2, <1>3 DEF TypeInv

(* Every port event and its hooks. *)
LEMMA PortEventType ==
    ASSUME TypeInv, NEW w \in PortWorkers, PortEvent(w), UNCHANGED may
    PROVE  TypeInv'
<1> USE DEF TypeInv, TypeOK
<1> w \in Workers
  BY DEF Workers
<1>1. ASSUME NEW p \in Ports, NEW h \in Hosts, CreatePort(w, p, h)
      PROVE  TypeInv'
  BY <1>1, MechAsterAssumption DEF CreatePort, Roles, JobInv, ServedBy
<1>2. ASSUME NEW p \in Ports, NEW s \in Switches, BindPort(w, p, s)
      PROVE  TypeInv'
  BY <1>2, MechAsterAssumption DEF BindPort, Roles, JobInv, ServedBy, Physnets
<1>3. ASSUME NEW p \in Ports, UpPrecommit(w, p)
      PROVE  TypeInv'
  BY <1>3, MechAsterAssumption
     DEF UpPrecommit, MayStart, Go, Roles, JobInv, ServedBy, neutron, Points
<1>4. ASSUME NEW p \in Ports, UpCommit(w, p)
      PROVE  TypeInv'
  BY <1>4, MechAsterAssumption
     DEF UpCommit, Changed, Go, Roles, JobInv, ServedBy, Points
<1>5. ASSUME NEW p \in Ports, PortDown(w, p)
      PROVE  TypeInv'
  BY <1>5, MechAsterAssumption
     DEF PortDown, Leaves, MayStart, Changed, Go, Roles, JobInv, ServedBy, Points
<1>6. ASSUME NEW p \in Ports, NEW h \in Hosts, Migrate(w, p, h)
      PROVE  TypeInv'
  BY <1>6, MechAsterAssumption
     DEF Migrate, Leaves, MayStart, Changed, Go, Roles, JobInv, ServedBy, Points
<1>7. ASSUME NEW p \in Ports, DeletePort(w, p)
      PROVE  TypeInv'
  BY <1>7, MechAsterAssumption
     DEF DeletePort, Leaves, MayStart, Changed, Go, Roles, JobInv, ServedBy, Points
<1>8. QED
  BY <1>1, <1>2, <1>3, <1>4, <1>5, <1>6, <1>7 DEF PortEvent
(* A step of worker w inside a hook or a request leaves the other workers  *)
(* and the ports alone.                                                    *)
Inside(w) ==
    /\ UNCHANGED <<may, pstat, phost, pnet, job>>
    /\ pc[w] # "upTx"
    /\ pc' \in [Workers -> Points]
    /\ \A u \in Workers \ {w} : pc'[u] = pc[u] /\ todo'[u] = todo[u]

LEMMA InsideType ==
    ASSUME TypeInv, NEW w \in Workers, Inside(w), Roles',
           attached' \in BOOLEAN,
           row' \in [Switches -> {"none", "new", "done"}],
           rvrf' \in [Switches -> BOOLEAN],
           l2' \in [Switches -> BOOLEAN],
           vrf' \in [Switches -> BOOLEAN],
           todo' \in [Workers -> SUBSET Switches],
           cur' \in [Workers -> Switches \cup {None}]
    PROVE  TypeInv'
<1>1. TypeOK'
  BY DEF Inside, TypeInv, TypeOK
<1>2. JobInv'
  BY DEF Inside, TypeInv, JobInv, ServedBy, Workers
<1>3. QED
  BY <1>1, <1>2 DEF TypeInv

(* The steps of a hook between its transactions. *)
HookStep(w, s) ==
    \/ EnterHook(w) \/ Finish(w) \/ ConfigureFails(w)
    \/ ConfigureSwitch(w, s) \/ SendConfig(w, s) \/ LookupInterface(w, s)
    \/ SendVrf(w, s) \/ RecordVrf(w, s) \/ MarkConfigured(w, s)
    \/ CheckUnused(w, s) \/ CheckRaises(w, s) \/ LookupForDelete(w, s)
    \/ DeleteVrf(w, s) \/ DeleteConfig(w, s) \/ DeleteRow(w, s)

LEMMA HookStepType ==
    ASSUME TypeInv, NEW w \in PortWorkers, NEW s \in Switches \cup {None},
           HookStep(w, s), UNCHANGED may
    PROVE  TypeInv'
<1> USE DEF TypeInv, TypeOK, Go, Abort, neutron
<1> w \in Workers /\ w \notin RouterWorkers
  BY MechAsterAssumption DEF Workers
<1> USE DEF HookStep, EnterHook, Finish, ConfigureFails, ConfigureSwitch,
        SendConfig, LookupInterface, SendVrf, RecordVrf, MarkConfigured,
        CheckUnused, CheckRaises, LookupForDelete, DeleteVrf, DeleteConfig,
        DeleteRow, Take, Skip, At, Push, Loop
<1>1. Inside(w)
  BY DEF Inside, Points, Locked, Configuring, Deleting
<1>2. pc'[w] \in {"idle"} \cup Locked
  BY DEF Locked, Configuring, Deleting, Roles, Adding, Removing
<1>3. Roles'
  BY <1>1, <1>2 DEF Roles, Inside, Workers
<1>4. attached' \in BOOLEAN /\ rvrf' \in [Switches -> BOOLEAN]
  OBVIOUS
<1>5. row' \in [Switches -> {"none", "new", "done"}]
  OBVIOUS
<1>6. l2' \in [Switches -> BOOLEAN] /\ vrf' \in [Switches -> BOOLEAN]
  OBVIOUS
<1>7. todo' \in [Workers -> SUBSET Switches]
  OBVIOUS
<1>8. cur' \in [Workers -> Switches \cup {None}]
  OBVIOUS
<1>9. QED
  BY <1>1, <1>3, <1>4, <1>5, <1>6, <1>7, <1>8, InsideType

LEMMA PortHookType ==
    ASSUME TypeInv, NEW w \in PortWorkers, PortHook(w), UNCHANGED may
    PROVE  TypeInv'
<1>1. CASE UpRollback(w)
  BY <1>1, MechAsterAssumption
     DEF UpRollback, TypeInv, TypeOK, Go, Abort, neutron, Roles, JobInv, ServedBy,
         Points, Workers
<1>2. CASE \E s \in Switches \cup {None} : HookStep(w, s)
  BY <1>2, HookStepType
<1>3. QED
  BY <1>1, <1>2 DEF PortHook, HookStep

(* ... and those of a request for an interface. *)
RequestStep(x, s) ==
    \/ AttachInterface(x) \/ DetachInterface(x) \/ ListSwitches(x)
    \/ InterfaceFails(x) \/ Finish(x)
    \/ AddVrf(x, s) \/ RemoveVrf(x, s) \/ RecordInterface(x, s)

LEMMA RequestStepType ==
    ASSUME TypeInv, NEW x \in RouterWorkers, NEW s \in Switches \cup {None},
           RequestStep(x, s), UNCHANGED may
    PROVE  TypeInv'
<1> USE DEF TypeInv, TypeOK, Go, Abort, neutron
<1> x \in Workers /\ x \notin PortWorkers
  BY MechAsterAssumption DEF Workers
<1> USE DEF RequestStep, AttachInterface, DetachInterface, ListSwitches, AddVrf,
        RemoveVrf, InterfaceFails, RecordInterface, Finish, Take, At, Push, Loop,
        MayStart
<1>1. Inside(x)
  BY DEF Inside, Points, Adding, Removing
<1>2. pc'[x] \in {"idle"} \cup Adding \cup Removing
  BY DEF Adding, Removing
<1>3. Roles'
  BY <1>1, <1>2 DEF Roles, Inside, Workers
<1>4. attached' \in BOOLEAN /\ rvrf' \in [Switches -> BOOLEAN]
  OBVIOUS
<1>5. row' \in [Switches -> {"none", "new", "done"}]
  OBVIOUS
<1>6. l2' \in [Switches -> BOOLEAN] /\ vrf' \in [Switches -> BOOLEAN]
  OBVIOUS
<1>7. todo' \in [Workers -> SUBSET Switches]
  <2>1. CASE ListSwitches(x)
    <3> DEFINE rows == {t \in Switches : row[t] # "none"}
    <3>1. rows \in SUBSET Switches /\ todo' = [todo EXCEPT ![x] = rows]
      BY <2>1
    <3>2. QED
      BY <3>1
  <2>2. CASE AddVrf(x, s) \/ RemoveVrf(x, s)
    <3>1. todo' = [todo EXCEPT ![x] = @ \ {s}]
      BY <2>2
    <3>2. QED
      BY <3>1
  <2>3. CASE InterfaceFails(x) \/ Finish(x)
    <3>1. todo' = [todo EXCEPT ![x] = {}]
      BY <2>3
    <3>2. QED
      BY <3>1
  <2>4. CASE AttachInterface(x) \/ DetachInterface(x) \/ RecordInterface(x, s)
    <3>1. todo' = todo
      BY <2>4
    <3>2. QED
      BY <3>1
  <2>5. QED
    BY <2>1, <2>2, <2>3, <2>4
<1>8. cur' \in [Workers -> Switches \cup {None}]
  OBVIOUS
<1>9. QED
  BY <1>1, <1>3, <1>4, <1>5, <1>6, <1>7, <1>8, InsideType

LEMMA RouterRequestType ==
    ASSUME TypeInv, NEW x \in RouterWorkers, RouterRequest(x), UNCHANGED may
    PROVE  TypeInv'
<1>1. \E s \in Switches \cup {None} : RequestStep(x, s)
  BY DEF RouterRequest, RequestStep
<1>2. QED
  BY <1>1, RequestStepType

LEMMA CrashType ==
    ASSUME TypeInv, NEW q, Crash(q), UNCHANGED may
    PROVE  TypeInv'
BY DEF Crash, TypeInv, TypeOK, Roles, JobInv, ServedBy, Points, Workers, neutron

LEMMA StutterType == TypeInv /\ UNCHANGED vars => TypeInv'
BY DEF vars, TypeInv, TypeOK, Roles, JobInv, ServedBy

LEMMA NextType == TypeInv /\ [Next]_vars => TypeInv'
BY PortEventType, PortHookType, RouterRequestType, CrashType, StutterType DEF Next

(* Every variable keeps its type: a port has the physical network of its   *)
(* segment exactly while it is bound.                                      *)
THEOREM TypeCorrect == Spec => []TypeOK
<1>1. TypeInv => TypeOK
  BY DEF TypeInv
<1>2. QED
  BY <1>1, InitType, NextType, PTL DEF Spec

-------------------------------------------------------------------------------
(* Who changes what *)

LEMMA NextCases ==
    ASSUME [Next]_vars
    PROVE  /\ may' = may
           /\ \/ \E w \in PortWorkers : PortEvent(w)
              \/ \E w \in PortWorkers : UpRollback(w)
              \/ \E w \in PortWorkers, s \in Switches \cup {None} : HookStep(w, s)
              \/ \E x \in RouterWorkers, s \in Switches \cup {None} :
                     RequestStep(x, s)
              \/ \E q : Crash(q)
              \/ UNCHANGED vars
BY DEF Next, PortHook, RouterRequest, HookStep, RequestStep, vars

LEMMA PortEventFrame ==
    ASSUME NEW w \in PortWorkers, PortEvent(w)
    PROVE  /\ UNCHANGED <<attached, rvrf, l2, vrf, cur>>
           /\ \/ UNCHANGED row
              \/ \E p \in Ports : UpPrecommit(w, p)
BY DEF PortEvent, CreatePort, BindPort, UpPrecommit, UpCommit, PortDown, Migrate,
       DeletePort, Leaves

(* What a step of a hook changes, besides the worker's own state. *)
LEMMA HookStepFrame ==
    ASSUME NEW w \in PortWorkers, NEW s \in Switches \cup {None}, HookStep(w, s)
    PROVE  /\ UNCHANGED <<pstat, phost, pnet, attached, job>>
           /\ UNCHANGED row \/ MarkConfigured(w, s) \/ DeleteRow(w, s)
           /\ UNCHANGED l2 \/ SendConfig(w, s) \/ DeleteConfig(w, s)
           /\ UNCHANGED vrf \/ SendVrf(w, s) \/ DeleteVrf(w, s)
BY DEF HookStep, EnterHook, Finish, ConfigureFails, ConfigureSwitch, SendConfig,
       LookupInterface, SendVrf, RecordVrf, MarkConfigured, CheckUnused, CheckRaises,
       LookupForDelete, DeleteVrf, DeleteConfig, DeleteRow, neutron

LEMMA RequestStepFrame ==
    ASSUME NEW x \in RouterWorkers, NEW s \in Switches \cup {None}, RequestStep(x, s)
    PROVE  /\ UNCHANGED <<pstat, phost, pnet, row, l2, job>>
           /\ UNCHANGED attached \/ AttachInterface(x) \/ DetachInterface(x)
                  \/ InterfaceFails(x)
           /\ UNCHANGED vrf \/ AddVrf(x, s) \/ RemoveVrf(x, s)
BY DEF RequestStep, AttachInterface, DetachInterface, ListSwitches, AddVrf, RemoveVrf,
       InterfaceFails, RecordInterface, Finish, neutron

LEMMA CrashFrame ==
    ASSUME NEW q, Crash(q)
    PROVE  /\ UNCHANGED <<pstat, phost, pnet, attached, row, rvrf, l2, vrf>>
           /\ "crashes" \in may
BY DEF Crash, neutron

LEMMA RowWritten ==
    ASSUME TypeInv, [Next]_vars, NEW s \in Switches, row'[s] # row[s]
    PROVE  \/ row[s] = "none" /\ row'[s] = "new"
              /\ \E w \in PortWorkers : pc[w] = "idle" /\ LockFree(w)
           \/ row'[s] = "done" /\ \E w \in PortWorkers : MarkConfigured(w, s)
           \/ row'[s] = "none" /\ \E w \in PortWorkers : DeleteRow(w, s)
<1> USE DEF TypeInv, TypeOK
<1>1. ASSUME NEW w \in PortWorkers, NEW p \in Ports, UpPrecommit(w, p)
      PROVE  /\ row[s] = "none" /\ row'[s] = "new"
             /\ pc[w] = "idle" /\ LockFree(w)
  BY <1>1 DEF UpPrecommit, MayStart
<1>2. ASSUME NEW w \in PortWorkers, NEW t \in Switches \cup {None},
             MarkConfigured(w, t)
      PROVE  row'[s] = "done" /\ MarkConfigured(w, s)
  BY <1>2 DEF MarkConfigured
<1>3. ASSUME NEW w \in PortWorkers, NEW t \in Switches \cup {None}, DeleteRow(w, t)
      PROVE  row'[s] = "none" /\ DeleteRow(w, s)
  <2>1. row' = [row EXCEPT ![t] = "none"]
    BY <1>3 DEF DeleteRow
  <2>2. s = t
    BY <2>1
  <2>3. QED
    BY <1>3, <2>1, <2>2
<1>4. QED
  BY <1>1, <1>2, <1>3, NextCases, PortEventFrame, HookStepFrame, RequestStepFrame,
     CrashFrame DEF UpRollback, vars

LEMMA L2Written ==
    ASSUME TypeInv, [Next]_vars, NEW s \in Switches, l2'[s] # l2[s]
    PROVE  \/ l2'[s] /\ \E w \in PortWorkers : SendConfig(w, s)
           \/ ~ l2'[s] /\ \E w \in PortWorkers : DeleteConfig(w, s)
<1> USE DEF TypeInv, TypeOK, Push
<1>1. ASSUME NEW w \in PortWorkers, NEW t \in Switches \cup {None}, SendConfig(w, t)
      PROVE  l2'[s] /\ SendConfig(w, s)
  <2>1. l2' = [l2 EXCEPT ![t] = TRUE]
    BY <1>1 DEF SendConfig
  <2>2. s = t
    BY <2>1
  <2>3. QED
    BY <1>1, <2>1, <2>2
<1>2. ASSUME NEW w \in PortWorkers, NEW t \in Switches \cup {None}, DeleteConfig(w, t)
      PROVE  ~ l2'[s] /\ DeleteConfig(w, s)
  <2>1. l2' = [l2 EXCEPT ![t] = FALSE]
    BY <1>2 DEF DeleteConfig
  <2>2. s = t
    BY <2>1
  <2>3. QED
    BY <1>2, <2>1, <2>2
<1>3. QED
  BY <1>1, <1>2, NextCases, PortEventFrame, HookStepFrame, RequestStepFrame,
     CrashFrame DEF UpRollback, vars

(* A step moves one worker; a crash and a rollback end what they do. *)
LEMMA WorkerStep ==
    ASSUME TypeInv, [Next]_vars, NEW w \in PortWorkers
    PROVE  \/ pc'[w] = pc[w] /\ cur'[w] = cur[w] /\ todo'[w] = todo[w]
           \/ PortEvent(w)
           \/ pc'[w] = "idle" /\ (pc[w] = "upTx" \/ "crashes" \in may)
           \/ \E s \in Switches \cup {None} : HookStep(w, s)
<1> USE DEF TypeInv, TypeOK, Go, Abort
<1> PortWorkers \subseteq Workers /\ PortWorkers \cap RouterWorkers = {}
  BY MechAsterAssumption DEF Workers
<1> DEFINE same == pc'[w] = pc[w] /\ cur'[w] = cur[w] /\ todo'[w] = todo[w]
<1>1. ASSUME NEW u \in PortWorkers, PortEvent(u), u # w
      PROVE  same
  BY <1>1 DEF PortEvent, CreatePort, BindPort, UpPrecommit, UpCommit, PortDown,
              Migrate, DeletePort, Leaves
<1>2. ASSUME NEW u \in PortWorkers, UpRollback(u)
      PROVE  same \/ (pc'[w] = "idle" /\ pc[w] = "upTx")
  BY <1>2 DEF UpRollback
<1>3. ASSUME NEW u \in PortWorkers, NEW s \in Switches \cup {None}, HookStep(u, s),
             u # w
      PROVE  same
  BY <1>3 DEF HookStep, EnterHook, Finish, ConfigureFails, ConfigureSwitch,
        SendConfig, LookupInterface, SendVrf, RecordVrf, MarkConfigured, CheckUnused,
        CheckRaises, LookupForDelete, DeleteVrf, DeleteConfig, DeleteRow, Take,
        Skip, Loop
<1>4. ASSUME NEW x \in RouterWorkers, NEW s \in Switches \cup {None},
             RequestStep(x, s)
      PROVE  same
  BY <1>4 DEF RequestStep, AttachInterface, DetachInterface, ListSwitches, AddVrf,
        RemoveVrf, InterfaceFails, RecordInterface, Finish, Take, Loop
<1>5. ASSUME NEW q, Crash(q)
      PROVE  same \/ (pc'[w] = "idle" /\ "crashes" \in may)
  BY <1>5 DEF Crash
<1>6. QED
  BY <1>1, <1>2, <1>3, <1>4, <1>5, NextCases DEF vars

LEMMA PortEventPoint ==
    ASSUME TypeInv, NEW w \in PortWorkers, PortEvent(w)
    PROVE  /\ pc[w] \in {"idle", "upTx"}
           /\ pc'[w] \in {"idle", "upTx", "upPost", "delPost"}
BY DEF TypeInv, TypeOK, Go, Workers, PortEvent, CreatePort, BindPort, UpPrecommit,
       UpCommit, PortDown, Migrate, DeletePort, Leaves, MayStart

(* The points of a hook, and the steps that lead to them. *)
LEMMA PointReached ==
    ASSUME TypeInv, NEW w \in PortWorkers, NEW t \in Switches \cup {None},
           HookStep(w, t), NEW s \in Switches, cur'[w] = s
    PROVE  /\ pc'[w] = "cSend" => ConfigureSwitch(w, s) /\ row[s] = "new"
           /\ pc'[w] = "cLook" => SendConfig(w, s)
           /\ pc'[w] = "cVrf" => LookupInterface(w, s) /\ attached
           /\ pc'[w] = "cRec" => SendVrf(w, s)
           /\ pc'[w] = "cMark" =>
                  RecordVrf(w, s) \/ (LookupInterface(w, s) /\ ~ attached)
           /\ pc'[w] = "dLook" => CheckUnused(w, s) /\ PortsOn(s) = {}
           /\ pc'[w] = "dVrf" => LookupForDelete(w, s) /\ attached
           /\ pc'[w] = "dL2" =>
                  DeleteVrf(w, s) \/ (LookupForDelete(w, s) /\ ~ attached)
           /\ pc'[w] = "dRow" => DeleteConfig(w, s)
<1> USE DEF TypeInv, TypeOK, At, Go, Abort, Loop, Take, Skip, Workers
<1> None \notin Switches
  BY MechAsterAssumption
<1>1. CASE EnterHook(w) \/ Finish(w) \/ ConfigureFails(w) \/ CheckRaises(w, t)
           \/ MarkConfigured(w, t) \/ DeleteRow(w, t)
  BY <1>1 DEF EnterHook, Finish, ConfigureFails, CheckRaises, MarkConfigured,
              DeleteRow
<1>2. CASE ConfigureSwitch(w, t) \/ CheckUnused(w, t)
  BY <1>2 DEF ConfigureSwitch, CheckUnused
<1>3. CASE SendConfig(w, t) \/ SendVrf(w, t)
  BY <1>3 DEF SendConfig, SendVrf
<1>4. CASE LookupInterface(w, t) \/ LookupForDelete(w, t)
  BY <1>4 DEF LookupInterface, LookupForDelete
<1>5. CASE RecordVrf(w, t)
  BY <1>5 DEF RecordVrf
<1>6. CASE DeleteVrf(w, t) \/ DeleteConfig(w, t)
  BY <1>6 DEF DeleteVrf, DeleteConfig
<1>7. QED
  BY <1>1, <1>2, <1>3, <1>4, <1>5, <1>6 DEF HookStep

-------------------------------------------------------------------------------
(* The lock *)

(* All port workers are threads of one neutron-server process. *)
SameProcess == \A u, w \in PortWorkers : Process[u] = Process[w]

(* ... of which one at most is in a synchronized hook. *)
OneLocked ==
    \A u, w \in PortWorkers : pc[u] \in Locked /\ pc[w] \in Locked => u = w

(* A worker comes to a point under the lock from one, or as it gets it. *)
LEMMA LockTaken ==
    ASSUME TypeInv, [Next]_vars, NEW w \in PortWorkers, pc'[w] \in Locked,
           pc[w] \notin Locked
    PROVE  LockFree(w) /\ \A u \in PortWorkers \ {w} : pc'[u] = pc[u]
<1>1. PICK s \in Switches \cup {None} : HookStep(w, s)
  BY WorkerStep, PortEventPoint DEF Locked, Configuring, Deleting
<1>2. CASE EnterHook(w)
  BY <1>2 DEF EnterHook, Go, TypeInv, TypeOK, Workers
<1>3. CASE ~ EnterHook(w)
  BY <1>1, <1>3
     DEF HookStep, Finish, ConfigureFails, ConfigureSwitch, SendConfig,
         LookupInterface, SendVrf, RecordVrf, MarkConfigured, CheckUnused,
         CheckRaises, LookupForDelete, DeleteVrf, DeleteConfig, DeleteRow, At,
         Abort, Go, Locked, Configuring, Deleting, TypeInv, TypeOK, Workers
<1>4. QED
  BY <1>2, <1>3

LEMMA LockStep ==
    ASSUME SameProcess, TypeInv, OneLocked, [Next]_vars
    PROVE  OneLocked'
<1> SUFFICES ASSUME NEW u \in PortWorkers, NEW w \in PortWorkers,
                    pc'[u] \in Locked, pc'[w] \in Locked, u # w
             PROVE  FALSE
  BY DEF OneLocked
<1>1. CASE pc[u] \in Locked /\ pc[w] \in Locked
  BY <1>1 DEF OneLocked
<1>2. CASE pc[u] \notin Locked
  BY <1>2, LockTaken DEF LockFree, SameProcess
<1>3. CASE pc[w] \notin Locked
  BY <1>3, LockTaken DEF LockFree, SameProcess
<1>4. QED
  BY <1>1, <1>2, <1>3

-------------------------------------------------------------------------------
(* Rows of switches in use *)

(* An active port, or one about to become active, is served by the switch. *)
Uses(p, s) ==
    /\ s \in ServedBy(p)
    /\ pstat[p] = "active" \/ \E u \in PortWorkers : job[u] = p

DeletingAt(w, s) == cur[w] = s /\ pc[w] \in {"dLook", "dVrf", "dL2", "dRow"}

(* A hook that deletes a switch's configuration has found the switch       *)
(* unused, and it stays unused.                                            *)
UnusedWhileDeleting ==
    \A w \in PortWorkers, s \in Switches, p \in UserPorts :
        DeletingAt(w, s) => ~ Uses(p, s)

UsedRecorded ==
    \A p \in UserPorts, s \in Switches : Uses(p, s) => row[s] # "none"

(* A port comes to use a switch in update_port_precommit only. *)
LEMMA UseBegins ==
    ASSUME TypeInv, [Next]_vars, NEW p \in Ports, NEW s \in Switches, Uses(p, s)'
    PROVE  \/ Uses(p, s)
           \/ \E w \in PortWorkers : UpPrecommit(w, p)
<1> USE DEF TypeInv, Uses, ServedBy
<1> Physnet[s] # None /\ None \notin Ports
  BY MechAsterAssumption DEF Physnets
<1>1. ASSUME NEW w \in PortWorkers, NEW q \in Ports,
             \/ \E h \in Hosts : CreatePort(w, q, h) \/ Migrate(w, q, h)
             \/ \E t \in Switches : BindPort(w, q, t)
             \/ UpPrecommit(w, q) /\ p # q
             \/ UpCommit(w, q) \/ PortDown(w, q) \/ DeletePort(w, q)
      PROVE  Uses(p, s)
  BY <1>1 DEF TypeOK, JobInv, CreatePort, BindPort, UpPrecommit, UpCommit, PortDown,
              Migrate, DeletePort, Leaves, Changed, neutron
<1>2. CASE UNCHANGED <<pstat, phost, pnet>>
           /\ \A u \in PortWorkers : job'[u] \in {job[u], None}
  BY <1>2
<1>3. ASSUME NEW w \in PortWorkers, UpRollback(w)
      PROVE  Uses(p, s)
  BY <1>2, <1>3 DEF UpRollback, neutron, TypeOK
<1>4. ASSUME NEW q, Crash(q)
      PROVE  Uses(p, s)
  BY <1>2, <1>4 DEF Crash, neutron
<1>5. QED
  BY <1>1, <1>2, <1>3, <1>4, NextCases, HookStepFrame, RequestStepFrame
     DEF PortEvent, vars

(* A hook starts to delete what no port on the switch's hosts needs. *)
LEMMA DeletionBegins ==
    ASSUME TypeInv, [Next]_vars, NEW w \in PortWorkers, NEW s \in Switches,
           DeletingAt(w, s)'
    PROVE  \/ DeletingAt(w, s)
           \/ CheckUnused(w, s) /\ PortsOn(s) = {}
<1>1. CASE \E t \in Switches \cup {None} : HookStep(w, t)
  BY <1>1, PointReached DEF DeletingAt, LookupForDelete, DeleteVrf, DeleteConfig, At
<1>2. QED
  BY <1>1, WorkerStep, PortEventPoint DEF DeletingAt

RowInv == TypeInv /\ OneLocked /\ UnusedWhileDeleting /\ UsedRecorded

LEMMA InitRow == Init => RowInv
<1> SUFFICES ASSUME Init
             PROVE  RowInv
  OBVIOUS
<1>1. TypeInv
  BY InitType
<1>2. \A w \in PortWorkers : pc[w] = "idle" /\ job[w] = None
  BY DEF Init, Workers
<1>3. \A p \in Ports : pstat[p] = "absent"
  BY DEF Init
<1>4. None \notin Ports
  BY MechAsterAssumption
<1>5. QED
  BY <1>1, <1>2, <1>3, <1>4
     DEF RowInv, OneLocked, UnusedWhileDeleting, UsedRecorded, Uses, DeletingAt,
         UserPorts, Locked, Configuring, Deleting

LEMMA NextRow ==
    ASSUME SameProcess, RowInv, [Next]_vars
    PROVE  RowInv'
<1> USE DEF RowInv, UserPorts
<1>1. TypeInv' /\ OneLocked'
  BY NextType, LockStep
<1>2. ASSUME NEW w \in PortWorkers, NEW s \in Switches, NEW p \in UserPorts,
             DeletingAt(w, s)', Uses(p, s)'
      PROVE  FALSE
  <2>1. CASE DeletingAt(w, s) /\ ~ Uses(p, s)
    <3>1. PICK u \in PortWorkers : UpPrecommit(u, p)
      BY <1>2, <2>1, UseBegins
    <3>2. u # w /\ pc[w] \in Locked /\ LockFree(u)
      BY <2>1, <3>1 DEF UpPrecommit, MayStart, DeletingAt, Locked, Deleting
    <3>3. QED
      BY <3>2 DEF LockFree, SameProcess
  <2>2. CASE CheckUnused(w, s) /\ PortsOn(s) = {}
    <3>1. ~ Uses(p, s)
      BY <2>2, MechAsterAssumption DEF PortsOn, Uses, ServedBy, TypeInv, JobInv
    <3>2. PICK u \in PortWorkers : UpPrecommit(u, p)
      BY <1>2, <3>1, UseBegins
    <3>3. u = w
      BY <2>2, <3>2 DEF CheckUnused, UpPrecommit, Take, Go, neutron, TypeInv, TypeOK,
                        Workers, Skip
    <3>4. QED
      BY <2>2, <3>2, <3>3 DEF CheckUnused, UpPrecommit, MayStart
  <2>3. QED
    BY <1>2, <2>1, <2>2, DeletionBegins DEF UnusedWhileDeleting
<1>3. ASSUME NEW s \in Switches, NEW p \in UserPorts, Uses(p, s)', row'[s] = "none"
      PROVE  FALSE
  <2>1. CASE Uses(p, s)
    <3>1. PICK w \in PortWorkers : DeleteRow(w, s)
      BY <1>3, <2>1, RowWritten DEF UsedRecorded
    <3>2. DeletingAt(w, s)
      BY <3>1 DEF DeleteRow, At, DeletingAt
    <3>3. QED
      BY <2>1, <3>2 DEF UnusedWhileDeleting
  <2>2. CASE ~ Uses(p, s)
    <3>1. PICK w \in PortWorkers : UpPrecommit(w, p)
      BY <1>3, <2>2, UseBegins
    <3>2. s \in ServedBy(p)
      BY <1>3, <3>1 DEF Uses, ServedBy, UpPrecommit, neutron
    <3>3. row'[s] # "none"
      BY <3>1, <3>2 DEF UpPrecommit
    <3>4. QED
      BY <1>3, <3>3
  <2>3. QED
    BY <2>1, <2>2
<1>4. QED
  BY <1>1, <1>2, <1>3 DEF UnusedWhileDeleting, UsedRecorded

(* Whatever AFC refuses and whenever the server dies, each switch of an    *)
(* active port has a row: the lock keeps a hook that found the switch      *)
(* unused ahead of every event that could change that.                     *)
THEOREM ActivePortsRecorded ==
    ASSUME SameProcess
    PROVE  Spec => []ActivePortRecorded
<1>1. RowInv => ActivePortRecorded
  BY DEF RowInv, UsedRecorded, Uses, ActivePortRecorded, ServedBy, UserPorts
<1>2. RowInv /\ [Next]_vars => RowInv'
  BY NextRow
<1>3. QED
  BY <1>1, <1>2, InitRow, PTL DEF Spec

(* The configuration of a switch is never withdrawn under an active port.  *)
THEOREM NeverPulled ==
    ASSUME SameProcess
    PROVE  Spec => NeverPulledFromActive
<1>1. ASSUME RowInv, [Next]_vars, NEW s \in Switches, l2[s], ~ l2'[s],
             NEW p \in UserPorts, pstat[p] = "active"
      PROVE  s \notin ServedBy(p)
  <2>1. PICK w \in PortWorkers : DeleteConfig(w, s)
    BY <1>1, L2Written DEF RowInv
  <2>2. DeletingAt(w, s)
    BY <2>1 DEF DeleteConfig, At, DeletingAt
  <2>3. QED
    BY <1>1, <2>2 DEF RowInv, UnusedWhileDeleting, Uses
<1>2. RowInv /\ [Next]_vars =>
          [\A s \in Switches : l2[s] /\ ~l2'[s]
               => \A p \in UserPorts : pstat[p] = "active" => s \notin ServedBy(p)]_vars
  BY <1>1
<1>3. RowInv /\ [Next]_vars => RowInv'
  BY NextRow
<1>4. QED
  BY <1>2, <1>3, InitRow, PTL DEF Spec, NeverPulledFromActive

-------------------------------------------------------------------------------
(* Rows that stand for a configured switch *)

(* A hook has sent what it is about to mark, and nobody withdraws it. *)
SentBeforeMark ==
    \A w \in PortWorkers, s \in Switches :
        cur[w] = s /\ pc[w] \in {"cLook", "cVrf", "cRec", "cMark"} => l2[s]

LEMMA MarkingBegins ==
    ASSUME TypeInv, [Next]_vars, NEW w \in PortWorkers, NEW s \in Switches,
           cur'[w] = s, pc'[w] \in {"cLook", "cVrf", "cRec", "cMark"}
    PROVE  \/ cur[w] = s /\ pc[w] \in {"cLook", "cVrf", "cRec", "cMark"}
           \/ SendConfig(w, s)
<1>1. CASE \E t \in Switches \cup {None} : HookStep(w, t)
  BY <1>1, PointReached DEF LookupInterface, SendVrf, RecordVrf, At
<1>2. QED
  BY <1>1, WorkerStep, PortEventPoint

(* Only a crash keeps a worker that is about to delete a row from it. *)
LEMMA DeletionEnds ==
    ASSUME TypeInv, [Next]_vars, "crashes" \notin may, NEW w \in PortWorkers,
           NEW s \in Switches, At(w, "dRow", s), ~ At(w, "dRow", s)'
    PROVE  DeleteRow(w, s)
<1>1. PICK t \in Switches \cup {None} : HookStep(w, t)
  BY WorkerStep, PortEventPoint DEF At
<1>2. QED
  BY <1>1 DEF At, HookStep, EnterHook, Finish, ConfigureFails, ConfigureSwitch,
       SendConfig, LookupInterface, SendVrf, RecordVrf, MarkConfigured, CheckUnused,
       CheckRaises, LookupForDelete, DeleteVrf, DeleteConfig, DeleteRow

DoneInv == TypeInv /\ OneLocked /\ SentBeforeMark /\ DoneMeansConfigured

LEMMA InitDone == Init => DoneInv
<1> SUFFICES ASSUME Init
             PROVE  DoneInv
  OBVIOUS
<1>1. TypeInv
  BY InitType
<1>2. \A w \in PortWorkers : pc[w] = "idle"
  BY DEF Init, Workers
<1>3. \A s \in Switches : row[s] = "none"
  BY DEF Init
<1>4. QED
  BY <1>1, <1>2, <1>3 DEF DoneInv, OneLocked, SentBeforeMark, DoneMeansConfigured,
                          Locked, Configuring, Deleting

LEMMA NextDone ==
    ASSUME SameProcess, DoneInv, [Next]_vars
    PROVE  DoneInv'
<1> USE DEF DoneInv
<1>1. TypeInv' /\ OneLocked'
  BY NextType, LockStep
<1>2. ASSUME NEW w \in PortWorkers, NEW s \in Switches, cur'[w] = s,
             pc'[w] \in {"cLook", "cVrf", "cRec", "cMark"}
      PROVE  l2'[s]
  <2>1. CASE SendConfig(w, s)
    BY <2>1 DEF SendConfig, Push, TypeInv, TypeOK
  <2>2. CASE cur[w] = s /\ pc[w] \in {"cLook", "cVrf", "cRec", "cMark"}
    <3>1. l2[s] /\ pc[w] \in Locked
      BY <2>2 DEF SentBeforeMark, Locked, Configuring
    <3>2. ASSUME NEW u \in PortWorkers, DeleteConfig(u, s)
          PROVE  FALSE
      BY <2>2, <3>1, <3>2 DEF DeleteConfig, At, OneLocked, Locked, Deleting
    <3>3. QED
      BY <3>1, <3>2, L2Written DEF TypeInv, TypeOK
  <2>3. QED
    BY <1>2, <2>1, <2>2, MarkingBegins
<1>3. ASSUME "crashes" \notin may', NEW s \in Switches, row'[s] = "done",
             \A w \in Workers : ~ At(w, "dRow", s)', ~ l2'[s]
      PROVE  FALSE
  <2>1. "crashes" \notin may
    BY <1>3, NextCases
  <2>2. CASE row[s] = "done" /\ l2[s]
    <3>1. PICK w \in PortWorkers : DeleteConfig(w, s)
      BY <1>3, <2>2, L2Written
    <3>2. At(w, "dRow", s)'
      BY <3>1 DEF DeleteConfig, At, Go, TypeInv, TypeOK, Workers
    <3>3. QED
      BY <1>3, <3>2 DEF Workers
  <2>3. CASE row[s] = "done" /\ ~ l2[s]
    <3>1. PICK w \in Workers : At(w, "dRow", s)
      BY <2>1, <2>3 DEF DoneMeansConfigured
    <3>2. w \in PortWorkers
      BY <3>1 DEF At, TypeInv, Roles, Adding, Removing, Workers
    <3>3. DeleteRow(w, s)
      BY <1>3, <2>1, <3>1, <3>2, DeletionEnds
    <3>4. QED
      BY <1>3, <3>3 DEF DeleteRow, TypeInv, TypeOK
  <2>4. CASE row[s] # "done"
    <3>1. PICK w \in PortWorkers : MarkConfigured(w, s)
      BY <1>3, <2>4, RowWritten
    <3>2. l2[s] /\ l2' = l2
      BY <3>1 DEF MarkConfigured, At, SentBeforeMark
    <3>3. QED
      BY <1>3, <3>2
  <2>5. QED
    BY <2>2, <2>3, <2>4
<1>4. SentBeforeMark' /\ DoneMeansConfigured'
  BY <1>2, <1>3 DEF SentBeforeMark, DoneMeansConfigured
<1>5. QED
  BY <1>1, <1>4

(* Unless a server dies on the way to deleting it, a row with is_config_l2 *)
(* stands for a configured switch.                                         *)
THEOREM DoneIsConfigured ==
    ASSUME SameProcess
    PROVE  Spec => []DoneMeansConfigured
<1>1. DoneInv => DoneMeansConfigured
  BY DEF DoneInv
<1>2. DoneInv /\ [Next]_vars => DoneInv'
  BY NextDone
<1>3. QED
  BY <1>1, <1>2, InitDone, PTL DEF Spec

-------------------------------------------------------------------------------
(* Switches of active ports *)

ConfiguringAt(w, s) ==
    cur[w] = s /\ pc[w] \in {"cSend", "cLook", "cVrf", "cRec", "cMark"}

(* A row keeps its state while the hook that found it configures.          *)
ConfiguringRow ==
    \A w \in PortWorkers, s \in Switches : ConfiguringAt(w, s) => row[s] = "new"

(* Worker w is going to configure switch s, or doing so. *)
OnItsWay(w, s) ==
    \/ pc[w] \in {"upPost"} \cup Configuring /\ s \in todo[w]
    \/ ConfiguringAt(w, s)

(* An active port's switch that is not configured yet is about to be.      *)
UsedConfigured ==
    NoFailure => \A p \in UserPorts, s \in Switches :
        pstat[p] = "active" /\ s \in ServedBy(p) /\ row[s] = "new" =>
            \E w \in PortWorkers : OnItsWay(w, s)

PortInv == RowInv /\ DoneInv /\ ConfiguringRow /\ UsedConfigured

LEMMA ConfiguringRowStep ==
    ASSUME TypeInv, OneLocked, ConfiguringRow, [Next]_vars
    PROVE  ConfiguringRow'
<1> SUFFICES ASSUME NEW w \in PortWorkers, NEW s \in Switches, ConfiguringAt(w, s)'
             PROVE  row'[s] = "new"
  BY DEF ConfiguringRow
<1>1. CASE ConfigureSwitch(w, s) /\ row[s] = "new"
  BY <1>1 DEF ConfigureSwitch
<1>2. CASE ConfiguringAt(w, s)
  <2>1. row[s] = "new" /\ pc[w] \in Locked
    BY <1>2 DEF ConfiguringRow, ConfiguringAt, Locked, Configuring
  <2>2. ASSUME NEW u \in PortWorkers, MarkConfigured(u, s) \/ DeleteRow(u, s)
        PROVE  FALSE
    <3>1. u = w
      BY <2>1, <2>2
         DEF OneLocked, MarkConfigured, DeleteRow, At, Locked, Configuring, Deleting
    <3>2. pc'[w] \in {"cNext", "dNext"}
      BY <2>2, <3>1 DEF MarkConfigured, DeleteRow, Loop, Go, TypeInv, TypeOK, Workers
    <3>3. QED
      BY <3>2 DEF ConfiguringAt
  <2>3. QED
    BY <2>1, <2>2, RowWritten
<1>3. CASE \E t \in Switches \cup {None} : HookStep(w, t)
  BY <1>1, <1>2, <1>3, PointReached
     DEF ConfiguringAt, SendConfig, LookupInterface, SendVrf, RecordVrf, At
<1>4. QED
  BY <1>2, <1>3, WorkerStep, PortEventPoint DEF ConfiguringAt

(* A port becomes active with its switches in the hands of its hook. *)
LEMMA ActivityBegins ==
    ASSUME TypeInv, [Next]_vars, NEW p \in Ports, NEW s \in Switches,
           pstat'[p] = "active", s \in ServedBy(p)'
    PROVE  \/ pstat[p] = "active" /\ s \in ServedBy(p)
           \/ \E w \in PortWorkers : OnItsWay(w, s)'
<1> Physnet[s] # None /\ None \notin Ports
  BY MechAsterAssumption DEF Physnets
<1>1. ASSUME NEW w \in PortWorkers, NEW q \in Ports,
             \/ \E h \in Hosts : CreatePort(w, q, h) \/ Migrate(w, q, h)
             \/ \E t \in Switches : BindPort(w, q, t)
             \/ UpPrecommit(w, q)
             \/ UpCommit(w, q) /\ p # q
             \/ PortDown(w, q) \/ DeletePort(w, q)
      PROVE  pstat[p] = "active" /\ s \in ServedBy(p)
  BY <1>1 DEF TypeInv, TypeOK, ServedBy, CreatePort, BindPort, UpPrecommit, UpCommit,
              PortDown, Migrate, DeletePort, Leaves, neutron
<1>2. ASSUME NEW w \in PortWorkers, UpCommit(w, p)
      PROVE  OnItsWay(w, s)'
  <2>1. todo'[w] = ServedBy(p) /\ pc'[w] = "upPost"
    BY <1>2 DEF UpCommit, TypeInv, TypeOK, JobInv, Go, Workers
  <2>2. ServedBy(p)' = ServedBy(p)
    BY <1>2 DEF UpCommit, ServedBy
  <2>3. QED
    BY <2>1, <2>2 DEF OnItsWay
<1>3. CASE UNCHANGED <<pstat, phost, pnet>>
  BY <1>3 DEF ServedBy
<1>4. QED
  BY <1>1, <1>2, <1>3, NextCases, HookStepFrame, RequestStepFrame, CrashFrame
     DEF PortEvent, UpRollback, neutron, vars

(* ... and stays there until it is configured. *)
LEMMA OnItsWayStays ==
    ASSUME TypeInv, [Next]_vars, NoFailure, NEW w \in PortWorkers,
           NEW s \in Switches, OnItsWay(w, s), row[s] = "new", row'[s] = "new"
    PROVE  OnItsWay(w, s)'
<1> USE DEF OnItsWay, ConfiguringAt, Configuring, NoFailure, TypeInv, TypeOK
<1> w \in Workers
  BY DEF Workers
<1>1. CASE \E t \in Switches \cup {None} : HookStep(w, t)
  <2>1. PICK t \in Switches \cup {None} : HookStep(w, t)
    BY <1>1
  <2>2. CASE EnterHook(w)
    BY <2>2 DEF EnterHook, Go
  <2>3. CASE ConfigureSwitch(w, t)
    BY <2>3 DEF ConfigureSwitch, Take, Skip, Go
  <2>4. CASE SendConfig(w, t) \/ LookupInterface(w, t) \/ SendVrf(w, t)
             \/ RecordVrf(w, t)
    BY <2>4 DEF SendConfig, LookupInterface, SendVrf, RecordVrf, At, Go
  <2>5. CASE MarkConfigured(w, t)
    BY <2>5 DEF MarkConfigured, At, Loop, Go
  <2>6. CASE Finish(w) \/ ConfigureFails(w) \/ CheckUnused(w, t) \/ CheckRaises(w, t)
             \/ LookupForDelete(w, t) \/ DeleteVrf(w, t) \/ DeleteConfig(w, t)
             \/ DeleteRow(w, t)
    BY <2>6 DEF Finish, ConfigureFails, CheckUnused, CheckRaises, LookupForDelete,
                DeleteVrf, DeleteConfig, DeleteRow, At
  <2>7. QED
    BY <2>1, <2>2, <2>3, <2>4, <2>5, <2>6 DEF HookStep
<1>2. CASE pc'[w] = pc[w] /\ cur'[w] = cur[w] /\ todo'[w] = todo[w]
  BY <1>2
<1>3. QED
  BY <1>1, <1>2, WorkerStep, PortEventPoint

LEMMA UsedConfiguredStep ==
    ASSUME RowInv, UsedConfigured, [Next]_vars
    PROVE  UsedConfigured'
<1> SUFFICES ASSUME NoFailure', NEW p \in UserPorts, NEW s \in Switches,
                    pstat'[p] = "active", s \in ServedBy(p)', row'[s] = "new"
             PROVE  \E w \in PortWorkers : OnItsWay(w, s)'
  BY DEF UsedConfigured
<1> USE DEF RowInv, UserPorts
<1>1. NoFailure
  BY NextCases DEF NoFailure
<1>2. CASE pstat[p] = "active" /\ s \in ServedBy(p)
  <2>1. row[s] # "none"
    BY <1>2 DEF UsedRecorded, Uses
  <2>2. row[s] = "new"
    BY <2>1, RowWritten
  <2>3. QED
    BY <1>1, <1>2, <2>2, OnItsWayStays DEF UsedConfigured
<1>3. QED
  BY <1>2, ActivityBegins

LEMMA InitPort == Init => PortInv
<1> SUFFICES ASSUME Init
             PROVE  PortInv
  OBVIOUS
<1>1. \A w \in PortWorkers : pc[w] = "idle"
  BY DEF Init, Workers
<1>2. \A p \in Ports : pstat[p] = "absent"
  BY DEF Init
<1>3. QED
  BY <1>1, <1>2, InitRow, InitDone
     DEF PortInv, ConfiguringRow, ConfiguringAt, UsedConfigured, UserPorts

LEMMA NextPort ==
    ASSUME SameProcess, PortInv, [Next]_vars
    PROVE  PortInv'
<1>1. RowInv' /\ DoneInv'
  BY NextRow, NextDone DEF PortInv
<1>2. ConfiguringRow' /\ UsedConfigured'
  BY ConfiguringRowStep, UsedConfiguredStep DEF PortInv, RowInv
<1>3. QED
  BY <1>1, <1>2 DEF PortInv

(* While AFC does its work and no server dies, an active port's switches   *)
(* are configured as soon as no hook is running: whatever overlaps, no     *)
(* event of another port leaves a port without network.                    *)
THEOREM ActivePortsConfigured ==
    ASSUME SameProcess
    PROVE  Spec => []ActivePortConfigured
<1>1. ASSUME PortInv
      PROVE  ActivePortConfigured
  <2> SUFFICES ASSUME NoFailure, Quiet, NEW p \in UserPorts, pstat[p] = "active",
                      NEW s \in ServedBy(p)
               PROVE  row[s] = "done" /\ l2[s]
    BY DEF ActivePortConfigured
  <2>1. s \in Switches /\ \A w \in Workers : pc[w] = "idle"
    BY DEF ServedBy, Quiet
  <2>2. row[s] # "none"
    BY <1>1, <2>1 DEF PortInv, RowInv, UsedRecorded, Uses
  <2>3. row[s] # "new"
    BY <1>1, <2>1
       DEF PortInv, UsedConfigured, OnItsWay, ConfiguringAt, Configuring, Workers
  <2>4. row[s] = "done"
    BY <1>1, <2>1, <2>2, <2>3 DEF PortInv, RowInv, TypeInv, TypeOK
  <2>5. l2[s]
    BY <1>1, <2>1, <2>4 DEF PortInv, DoneInv, DoneMeansConfigured, At, NoFailure
  <2>6. QED
    BY <2>4, <2>5
<1>2. PortInv /\ [Next]_vars => PortInv'
  BY NextPort
<1>3. QED
  BY <1>1, <1>2, InitPort, PTL DEF Spec

-------------------------------------------------------------------------------
(* The VRF interfaces *)

(* Requests for the subnet's router interface come one after the other: of *)
(* two that overlap, a removal can undo what a later addition has done.    *)
OneRequest == \A x, y \in RouterWorkers : x = y

LEMMA VrfWritten ==
    ASSUME TypeInv, [Next]_vars, NEW s \in Switches, vrf'[s] # vrf[s]
    PROVE  \/ vrf'[s] /\ \/ \E w \in PortWorkers : SendVrf(w, s)
                         \/ \E x \in RouterWorkers : AddVrf(x, s)
           \/ ~ vrf'[s] /\ \/ \E w \in PortWorkers : DeleteVrf(w, s)
                           \/ \E x \in RouterWorkers : RemoveVrf(x, s)
<1> USE DEF TypeInv, TypeOK, Push
<1>1. ASSUME NEW w \in PortWorkers, NEW t \in Switches \cup {None}, SendVrf(w, t)
      PROVE  vrf'[s] /\ SendVrf(w, s)
  <2>1. vrf' = [vrf EXCEPT ![t] = TRUE]
    BY <1>1 DEF SendVrf
  <2>2. s = t
    BY <2>1
  <2>3. QED
    BY <1>1, <2>1, <2>2
<1>2. ASSUME NEW w \in PortWorkers, NEW t \in Switches \cup {None}, DeleteVrf(w, t)
      PROVE  ~ vrf'[s] /\ DeleteVrf(w, s)
  <2>1. vrf' = [vrf EXCEPT ![t] = FALSE]
    BY <1>2 DEF DeleteVrf
  <2>2. s = t
    BY <2>1
  <2>3. QED
    BY <1>2, <2>1, <2>2
<1>3. ASSUME NEW x \in RouterWorkers, NEW t \in Switches \cup {None}, AddVrf(x, t)
      PROVE  vrf'[s] /\ AddVrf(x, s)
  <2>1. vrf' = [vrf EXCEPT ![t] = TRUE]
    BY <1>3 DEF AddVrf
  <2>2. s = t
    BY <2>1
  <2>3. QED
    BY <1>3, <2>1, <2>2
<1>4. ASSUME NEW x \in RouterWorkers, NEW t \in Switches \cup {None}, RemoveVrf(x, t)
      PROVE  ~ vrf'[s] /\ RemoveVrf(x, s)
  <2>1. vrf' = [vrf EXCEPT ![t] = FALSE]
    BY <1>4 DEF RemoveVrf
  <2>2. s = t
    BY <2>1
  <2>3. QED
    BY <1>4, <2>1, <2>2
<1>5. QED
  BY <1>1, <1>2, <1>3, <1>4, NextCases, PortEventFrame, HookStepFrame,
     RequestStepFrame, CrashFrame DEF UpRollback, vars

LEMMA AttachedWritten ==
    ASSUME TypeInv, [Next]_vars, NoFailure, attached' # attached
    PROVE  \E x \in RouterWorkers : AttachInterface(x) \/ DetachInterface(x)
BY NextCases, PortEventFrame, HookStepFrame, RequestStepFrame, CrashFrame
   DEF UpRollback, vars, InterfaceFails, NoFailure

(* A request moves by its own steps only. *)
LEMMA RequestMoves ==
    ASSUME TypeInv, [Next]_vars, NEW x \in RouterWorkers
    PROVE  \/ pc'[x] = pc[x] /\ cur'[x] = cur[x] /\ todo'[x] = todo[x]
           \/ \E s \in Switches \cup {None} : RequestStep(x, s)
<1> USE DEF TypeInv, TypeOK, Go, Abort
<1> x \in Workers /\ x \notin PortWorkers
  BY MechAsterAssumption DEF Workers
<1> DEFINE same == pc'[x] = pc[x] /\ cur'[x] = cur[x] /\ todo'[x] = todo[x]
<1>1. ASSUME NEW w \in PortWorkers, PortEvent(w)
      PROVE  same
  BY <1>1 DEF PortEvent, CreatePort, BindPort, UpPrecommit, UpCommit, PortDown,
              Migrate, DeletePort, Leaves
<1>2. ASSUME NEW w \in PortWorkers, UpRollback(w)
      PROVE  same
  BY <1>2 DEF UpRollback
<1>3. ASSUME NEW w \in PortWorkers, NEW s \in Switches \cup {None}, HookStep(w, s)
      PROVE  same
  BY <1>3 DEF HookStep, EnterHook, Finish, ConfigureFails, ConfigureSwitch,
        SendConfig, LookupInterface, SendVrf, RecordVrf, MarkConfigured, CheckUnused,
        CheckRaises, LookupForDelete, DeleteVrf, DeleteConfig, DeleteRow, Take,
        Skip, Loop
<1>4. ASSUME NEW y \in RouterWorkers, NEW s \in Switches \cup {None},
             RequestStep(y, s), y # x
      PROVE  same
  BY <1>4 DEF RequestStep, AttachInterface, DetachInterface, ListSwitches, AddVrf,
        RemoveVrf, InterfaceFails, RecordInterface, Finish, Take, Loop
<1>5. ASSUME NEW q, Crash(q)
      PROVE  same
  BY <1>5 DEF Crash
<1>6. QED
  BY <1>1, <1>2, <1>3, <1>4, <1>5, NextCases DEF vars

(* A request to add the interface runs while the subnet has it, one to     *)
(* remove it while it has none.                                            *)
RequestInv ==
    NoFailure => \A x \in RouterWorkers :
        (pc[x] \in Adding => attached) /\ (pc[x] \in Removing => ~ attached)

LEMMA RequestInvStep ==
    ASSUME OneRequest, TypeInv, RequestInv, [Next]_vars
    PROVE  RequestInv'
<1> SUFFICES ASSUME NoFailure', NEW x \in RouterWorkers
             PROVE  /\ pc'[x] \in Adding => attached'
                    /\ pc'[x] \in Removing => ~ attached'
  BY DEF RequestInv
<1>1. NoFailure
  BY NextCases DEF NoFailure
<1>2. ASSUME NEW s \in Switches \cup {None}, RequestStep(x, s)
      PROVE  /\ pc'[x] \in Adding => attached'
             /\ pc'[x] \in Removing => ~ attached'
  <2> USE DEF Go, Adding, Removing, TypeInv, TypeOK
  <2> x \in Workers
    BY DEF Workers
  <2>1. CASE AttachInterface(x) \/ DetachInterface(x)
    BY <2>1 DEF AttachInterface, DetachInterface
  <2>2. CASE InterfaceFails(x) \/ Finish(x)
    BY <1>1, <2>2 DEF InterfaceFails, Finish, Abort
  <2>3. CASE ListSwitches(x) \/ AddVrf(x, s) \/ RemoveVrf(x, s)
             \/ RecordInterface(x, s)
    <3>1. attached' = attached
      BY <2>3 DEF ListSwitches, AddVrf, RemoveVrf, RecordInterface
    <3>2. /\ pc'[x] \in Adding => pc[x] \in Adding
          /\ pc'[x] \in Removing => pc[x] \in Removing
      BY <2>3 DEF ListSwitches, AddVrf, RemoveVrf, RecordInterface, At, Take, Loop
    <3>3. QED
      BY <1>1, <3>1, <3>2 DEF RequestInv
  <2>4. QED
    BY <1>2, <2>1, <2>2, <2>3 DEF RequestStep
<1>3. CASE /\ pc'[x] = pc[x]
           /\ ~ \E s \in Switches \cup {None} : RequestStep(x, s)
  <2>1. attached' = attached
    BY <1>1, <1>3, AttachedWritten DEF OneRequest, RequestStep
  <2>2. QED
    BY <1>1, <1>3, <2>1 DEF RequestInv
<1>4. QED
  BY <1>2, <1>3, RequestMoves

(* A switch is configured, or the hook that configures it has looked for   *)
(* the interface already ...                                               *)
VrfDue(s) ==
    \/ row[s] = "done"
    \/ \E w \in PortWorkers : cur[w] = s /\ pc[w] \in {"cRec", "cMark"}

(* ... or one that deletes its configuration has done so.                  *)
Withdrawing(s) == \E w \in PortWorkers : cur[w] = s /\ pc[w] \in {"dL2", "dRow"}

(* A request to add the interface has switch s before it. *)
AddPending(s) ==
    \E x \in RouterWorkers :
        pc[x] = "aList" \/ (pc[x] \in {"aNext", "aRec"} /\ s \in todo[x])

(* Nobody misses a switch: what the hook did not see when it looked, the   *)
(* request sees when it lists the rows.                                    *)
VrfInv ==
    NoFailure /\ attached => \A s \in Switches :
        VrfDue(s) /\ ~ Withdrawing(s) => vrf[s] \/ AddPending(s)

LEMMA AddPendingEnds ==
    ASSUME TypeInv, [Next]_vars, NoFailure, NEW s \in Switches, row[s] # "none",
           AddPending(s), ~ AddPending(s)'
    PROVE  vrf'[s]
<1> USE DEF AddPending, TypeInv, TypeOK
<1>1. PICK x \in RouterWorkers :
          pc[x] = "aList" \/ (pc[x] \in {"aNext", "aRec"} /\ s \in todo[x])
  OBVIOUS
<1>2. PICK t \in Switches \cup {None} : RequestStep(x, t)
  BY <1>1, RequestMoves
<1> x \in Workers
  BY DEF Workers
<1>3. CASE AddVrf(x, t)
  BY <1>1, <1>3 DEF AddVrf, Take, Go, Push
<1>4. CASE ListSwitches(x)
  <2>1. pc'[x] = "aNext" /\ s \in todo'[x]
    BY <1>1, <1>4 DEF ListSwitches, Go
  <2>2. QED
    BY <2>1
<1>5. CASE RecordInterface(x, t)
  BY <1>1, <1>5 DEF RecordInterface, At, Loop, Go
<1>6. CASE AttachInterface(x) \/ DetachInterface(x) \/ InterfaceFails(x) \/ Finish(x)
           \/ RemoveVrf(x, t)
  BY <1>1, <1>6 DEF AttachInterface, DetachInterface, InterfaceFails, Finish,
                    RemoveVrf, MayStart, NoFailure
<1>7. QED
  BY <1>2, <1>3, <1>4, <1>5, <1>6 DEF RequestStep

LEMMA VrfDueBegins ==
    ASSUME TypeInv, [Next]_vars, NEW s \in Switches, VrfDue(s)', ~ VrfDue(s), attached
    PROVE  vrf'[s]
<1> USE DEF VrfDue
<1>1. CASE row'[s] = "done"
  BY <1>1, RowWritten DEF MarkConfigured, At
<1>2. ASSUME NEW w \in PortWorkers, cur'[w] = s, pc'[w] \in {"cRec", "cMark"}
      PROVE  vrf'[s]
  <2>1. PICK t \in Switches \cup {None} : HookStep(w, t)
    BY <1>2, WorkerStep, PortEventPoint
  <2>2. SendVrf(w, s) \/ RecordVrf(w, s)
    BY <1>2, <2>1, PointReached
  <2>3. QED
    BY <2>2 DEF SendVrf, RecordVrf, At, Push, TypeInv, TypeOK
<1>3. QED
  BY <1>1, <1>2

LEMMA VrfInvStep ==
    ASSUME TypeInv, OneLocked, ConfiguringRow, ConfiguringRow', RequestInv, VrfInv,
           [Next]_vars
    PROVE  VrfInv'
<1> SUFFICES ASSUME NoFailure', attached', NEW s \in Switches, VrfDue(s)',
                    ~ Withdrawing(s)', ~ vrf'[s], ~ AddPending(s)'
             PROVE  FALSE
  BY DEF VrfInv
<1> USE DEF TypeInv, TypeOK
<1>1. NoFailure
  BY NextCases DEF NoFailure
<1>2. attached
  <2>1. ASSUME NEW x \in RouterWorkers, AttachInterface(x)
        PROVE  FALSE
    BY <2>1 DEF AttachInterface, AddPending, Go, Workers
  <2>2. QED
    BY <1>1, <2>1, AttachedWritten DEF DetachInterface
<1>3. ~ vrf[s]
  <2>1. ASSUME NEW w \in PortWorkers, DeleteVrf(w, s)
        PROVE  FALSE
    BY <2>1 DEF DeleteVrf, At, Go, Withdrawing, Workers
  <2>2. ASSUME NEW x \in RouterWorkers, RemoveVrf(x, s)
        PROVE  FALSE
    BY <1>1, <1>2, <2>2 DEF RemoveVrf, RequestInv, Removing
  <2>3. QED
    BY <2>1, <2>2, VrfWritten
<1>4. VrfDue(s)
  BY <1>2, VrfDueBegins
<1>5. row[s] # "none"
  BY <1>4 DEF VrfDue, ConfiguringRow, ConfiguringAt
<1>6. ~ AddPending(s)
  BY <1>1, <1>5, AddPendingEnds
<1>7. PICK w \in PortWorkers : cur[w] = s /\ pc[w] \in {"dL2", "dRow"}
  BY <1>1, <1>2, <1>3, <1>4, <1>6 DEF VrfInv, Withdrawing
<1>8. PICK t \in Switches \cup {None} : HookStep(w, t)
  BY <1>1, <1>7, WorkerStep, PortEventPoint DEF Withdrawing, NoFailure
<1>9. CASE DeleteConfig(w, t)
  BY <1>7, <1>9 DEF DeleteConfig, At, Go, Withdrawing, Workers
<1>10. CASE DeleteRow(w, t)
  <2>1. row'[s] = "none"
    BY <1>7, <1>10 DEF DeleteRow, At
  <2>2. QED
    BY <2>1 DEF VrfDue, ConfiguringRow, ConfiguringAt
<1>11. QED
  BY <1>7, <1>8, <1>9, <1>10
     DEF HookStep, EnterHook, Finish, ConfigureFails, ConfigureSwitch,
         SendConfig, LookupInterface, SendVrf, RecordVrf, MarkConfigured, CheckUnused,
         CheckRaises, LookupForDelete, DeleteVrf, At

ServeInv == TypeInv /\ OneLocked /\ ConfiguringRow /\ RequestInv /\ VrfInv

LEMMA InitServe == Init => ServeInv
<1> SUFFICES ASSUME Init
             PROVE  ServeInv
  OBVIOUS
<1>1. TypeInv
  BY InitType
<1>2. \A w \in Workers : pc[w] = "idle"
  BY DEF Init
<1>3. ~ attached
  BY DEF Init
<1>4. QED
  BY <1>1, <1>2, <1>3
     DEF ServeInv, OneLocked, ConfiguringRow, ConfiguringAt, RequestInv, VrfInv,
         Workers, Locked, Configuring, Deleting, Adding, Removing

LEMMA NextServe ==
    ASSUME SameProcess, OneRequest, ServeInv, [Next]_vars
    PROVE  ServeInv'
<1> USE DEF ServeInv
<1>1. TypeInv' /\ OneLocked' /\ ConfiguringRow'
  BY NextType, LockStep, ConfiguringRowStep
<1>2. RequestInv' /\ VrfInv'
  BY <1>1, RequestInvStep, VrfInvStep
<1>3. QED
  BY <1>1, <1>2

(* A configured switch of a subnet with a router interface has the VRF     *)
(* once no request is running: the hook and the request may overlap in any *)
(* way.                                                                    *)
THEOREM VrfsServed ==
    ASSUME SameProcess, OneRequest
    PROVE  Spec => []VrfServed
<1>1. ASSUME ServeInv
      PROVE  VrfServed
  <2> SUFFICES ASSUME NoFailure, Quiet, attached, NEW s \in Switches, row[s] = "done"
               PROVE  vrf[s]
    BY DEF VrfServed
  <2>1. \A w \in Workers : pc[w] = "idle"
    BY DEF Quiet
  <2>2. QED
    BY <1>1, <2>1 DEF ServeInv, VrfInv, VrfDue, Withdrawing, AddPending, Workers
<1>2. ServeInv /\ [Next]_vars => ServeInv'
  BY NextServe
<1>3. QED
  BY <1>1, <1>2, InitServe, PTL DEF Spec

-------------------------------------------------------------------------------
(* No VRF without a use: hooks and requests keep out of each other's way   *)

Apart ==
    \/ \A w \in PortWorkers : pc[w] = "idle"
    \/ \A x \in RouterWorkers : pc[x] = "idle"

LEMMA ApartStep ==
    ASSUME TypeInv, [Next]_vars, may = {}, Apart
    PROVE  Apart'
<1> USE DEF TypeInv, TypeOK, Go, Abort
<1>1. ASSUME NEW w \in PortWorkers, NEW x \in RouterWorkers, pc'[w] # "idle",
             pc'[x] # "idle"
      PROVE  FALSE
  <2> w \in Workers /\ x \in Workers /\ w \notin RouterWorkers /\ x \notin PortWorkers
    BY MechAsterAssumption DEF Workers
  <2>1. CASE \A u \in PortWorkers : pc[u] = "idle"
    <3>1. ~ \E s \in Switches \cup {None} : HookStep(w, s)
      BY <2>1 DEF HookStep, EnterHook, Finish, ConfigureFails, ConfigureSwitch,
        SendConfig, LookupInterface, SendVrf, RecordVrf, MarkConfigured, CheckUnused,
        CheckRaises, LookupForDelete, DeleteVrf, DeleteConfig, DeleteRow, At
    <3>2. PortEvent(w)
      BY <1>1, <2>1, <3>1, WorkerStep
    <3>3. MayStart(w) /\ pc'[x] = pc[x]
      BY <2>1, <3>2 DEF PortEvent, CreatePort, BindPort, UpPrecommit, UpCommit,
                        PortDown, Migrate, DeletePort, Leaves
    <3>4. QED
      BY <1>1, <3>3 DEF MayStart
  <2>2. CASE \A y \in RouterWorkers : pc[y] = "idle"
    <3>1. PICK s \in Switches \cup {None} : RequestStep(x, s)
      BY <1>1, <2>2, RequestMoves
    <3>2. AttachInterface(x) \/ DetachInterface(x)
      BY <2>2, <3>1 DEF RequestStep, ListSwitches, InterfaceFails, Finish, AddVrf,
                        RemoveVrf, RecordInterface, Take, At
    <3>3. MayStart(x) /\ pc'[w] = pc[w]
      BY <3>2 DEF AttachInterface, DetachInterface
    <3>4. QED
      BY <1>1, <3>3 DEF MayStart
  <2>3. QED
    BY <2>1, <2>2 DEF Apart
<1>2. QED
  BY <1>1 DEF Apart

(* A hook that adds the VRF does so while the subnet has the interface ... *)
HookAttached == \A w \in PortWorkers : pc[w] \in {"cVrf", "cRec"} => attached

(* ... one that has withdrawn it leaves none behind ...                    *)
HookWithdrawn ==
    \A w \in PortWorkers, s \in Switches :
        cur[w] = s /\ pc[w] \in {"dL2", "dRow"} => ~ vrf[s]

(* ... and a request adds it where there is a row.                         *)
AddingRows ==
    \A x \in RouterWorkers : pc[x] \in {"aNext", "aRec"} =>
        \A s \in todo[x] : row[s] # "none"

RemovePending(s) ==
    \E x \in RouterWorkers :
        pc[x] = "rList" \/ (pc[x] \in {"rNext", "rRec"} /\ s \in todo[x])

VrfUsed ==
    \A s \in Switches : vrf[s] => row[s] # "none" /\ (attached \/ RemovePending(s))

ApartInv == may = {} => Apart /\ HookAttached /\ HookWithdrawn /\ AddingRows /\ VrfUsed

LEMMA HookAttachedStep ==
    ASSUME TypeInv, [Next]_vars, may = {}, Apart, HookAttached
    PROVE  HookAttached'
<1> SUFFICES ASSUME NEW w \in PortWorkers, pc'[w] \in {"cVrf", "cRec"}
             PROVE  attached'
  BY DEF HookAttached
<1>1. CASE \E s \in Switches \cup {None} : HookStep(w, s)
  <2>1. PICK s \in Switches \cup {None} : HookStep(w, s)
    BY <1>1
  <2>2. CASE LookupInterface(w, s)
    BY <2>2 DEF LookupInterface, Go, TypeInv, TypeOK, Workers
  <2>3. CASE SendVrf(w, s)
    BY <2>3 DEF SendVrf, At, HookAttached
  <2>4. QED
    BY <2>1, <2>2, <2>3
       DEF HookStep, EnterHook, Finish, ConfigureFails, ConfigureSwitch, SendConfig,
           RecordVrf, MarkConfigured, CheckUnused, CheckRaises, LookupForDelete,
           DeleteVrf, DeleteConfig, DeleteRow, Take, Skip, Loop, Abort, Go, TypeInv,
           TypeOK, Workers, HookAttached
<1>2. CASE pc'[w] = pc[w] /\ ~ \E s \in Switches \cup {None} : HookStep(w, s)
  <2>1. attached
    BY <1>2 DEF HookAttached
  <2>2. ASSUME NEW x \in RouterWorkers, DetachInterface(x)
        PROVE  FALSE
    BY <1>2, <2>2, MechAsterAssumption DEF DetachInterface, MayStart, Workers
  <2>3. QED
    BY <2>1, <2>2, AttachedWritten DEF NoFailure, AttachInterface
<1>3. QED
  BY <1>1, <1>2, WorkerStep, PortEventPoint

LEMMA HookWithdrawnStep ==
    ASSUME TypeInv, [Next]_vars, may = {}, OneLocked, Apart, HookWithdrawn, VrfUsed
    PROVE  HookWithdrawn'
<1> SUFFICES ASSUME NEW w \in PortWorkers, NEW s \in Switches, cur'[w] = s,
                    pc'[w] \in {"dL2", "dRow"}
             PROVE  ~ vrf'[s]
  BY DEF HookWithdrawn
<1> USE DEF TypeInv, TypeOK
<1>1. CASE cur[w] = s /\ pc[w] \in {"dL2", "dRow"}
  <2>1. ~ vrf[s] /\ pc[w] \in Locked
    BY <1>1 DEF HookWithdrawn, Locked, Deleting
  <2>2. ASSUME NEW u \in PortWorkers, SendVrf(u, s)
        PROVE  FALSE
    BY <1>1, <2>1, <2>2 DEF SendVrf, At, OneLocked, Locked, Configuring
  <2>3. ASSUME NEW x \in RouterWorkers, AddVrf(x, s)
        PROVE  FALSE
    BY <1>1, <2>3 DEF AddVrf, Apart
  <2>4. QED
    BY <2>1, <2>2, <2>3, VrfWritten
<1>2. CASE DeleteVrf(w, s)
  BY <1>2 DEF DeleteVrf, Push
<1>3. CASE LookupForDelete(w, s) /\ ~ attached
  <2>1. ~ RemovePending(s)
    BY <1>3 DEF LookupForDelete, At, Apart, RemovePending
  <2>2. QED
    BY <1>3, <2>1 DEF LookupForDelete, VrfUsed
<1>4. CASE \E t \in Switches \cup {None} : HookStep(w, t)
  BY <1>1, <1>2, <1>3, <1>4, PointReached DEF DeleteConfig, At
<1>5. QED
  BY <1>1, <1>4, WorkerStep, PortEventPoint

LEMMA AddingRowsStep ==
    ASSUME TypeInv, [Next]_vars, may = {}, Apart, AddingRows
    PROVE  AddingRows'
<1> SUFFICES ASSUME NEW x \in RouterWorkers, pc'[x] \in {"aNext", "aRec"},
                    NEW s \in todo'[x]
             PROVE  row'[s] # "none"
  BY DEF AddingRows
<1> USE DEF TypeInv, TypeOK, Go, Abort
<1> x \in Workers
  BY DEF Workers
<1> s \in Switches
  BY NextType
<1>1. CASE \E t \in Switches \cup {None} : RequestStep(x, t)
  <2>1. PICK t \in Switches \cup {None} : RequestStep(x, t)
    BY <1>1
  <2>2. row' = row
    BY <2>1, RequestStepFrame
  <2>3. CASE ListSwitches(x)
    BY <2>2, <2>3 DEF ListSwitches
  <2>4. CASE AddVrf(x, t) \/ RecordInterface(x, t)
    <3>1. pc[x] \in {"aNext", "aRec"} /\ todo'[x] \subseteq todo[x]
      <4>1. CASE AddVrf(x, t)
        <5>1. pc[x] = "aNext" /\ todo' = [todo EXCEPT ![x] = @ \ {t}]
          BY <4>1 DEF AddVrf, Take
        <5>2. QED
          BY <5>1
      <4>2. CASE RecordInterface(x, t)
        BY <4>2 DEF RecordInterface, At, Loop
      <4>3. QED
        BY <2>4, <4>1, <4>2
    <3>2. QED
      BY <2>2, <3>1 DEF AddingRows
  <2>5. CASE AttachInterface(x) \/ DetachInterface(x) \/ InterfaceFails(x)
             \/ Finish(x) \/ RemoveVrf(x, t)
    BY <2>5 DEF AttachInterface, DetachInterface, InterfaceFails, Finish, RemoveVrf,
                Take
  <2>6. QED
    BY <2>1, <2>3, <2>4, <2>5 DEF RequestStep
<1>2. CASE pc'[x] = pc[x] /\ todo'[x] = todo[x]
  <2>1. row[s] # "none"
    BY <1>2 DEF AddingRows
  <2>2. ASSUME NEW w \in PortWorkers, DeleteRow(w, s)
        PROVE  FALSE
    BY <1>2, <2>2 DEF DeleteRow, At, Apart
  <2>3. QED
    BY <2>1, <2>2, RowWritten
<1>3. QED
  BY <1>1, <1>2, RequestMoves

LEMMA RemovePendingEnds ==
    ASSUME TypeInv, [Next]_vars, NoFailure, NEW s \in Switches, row[s] # "none",
           RemovePending(s), ~ RemovePending(s)'
    PROVE  ~ vrf'[s]
<1> USE DEF RemovePending, TypeInv, TypeOK
<1>1. PICK x \in RouterWorkers :
          pc[x] = "rList" \/ (pc[x] \in {"rNext", "rRec"} /\ s \in todo[x])
  OBVIOUS
<1>2. PICK t \in Switches \cup {None} : RequestStep(x, t)
  BY <1>1, RequestMoves
<1> x \in Workers
  BY DEF Workers
<1>3. CASE RemoveVrf(x, t)
  BY <1>1, <1>3 DEF RemoveVrf, Take, Go, Push
<1>4. CASE ListSwitches(x)
  <2>1. pc'[x] = "rNext" /\ s \in todo'[x]
    BY <1>1, <1>4 DEF ListSwitches, Go
  <2>2. QED
    BY <2>1
<1>5. CASE RecordInterface(x, t)
  BY <1>1, <1>5 DEF RecordInterface, At, Loop, Go
<1>6. CASE AttachInterface(x) \/ DetachInterface(x) \/ InterfaceFails(x) \/ Finish(x)
           \/ AddVrf(x, t)
  BY <1>1, <1>6 DEF AttachInterface, DetachInterface, InterfaceFails, Finish,
                    AddVrf, MayStart, NoFailure
<1>7. QED
  BY <1>2, <1>3, <1>4, <1>5, <1>6 DEF RequestStep

LEMMA VrfUsedStep ==
    ASSUME TypeInv, [Next]_vars, may = {}, ConfiguringRow, RequestInv, HookAttached,
           HookWithdrawn, AddingRows, VrfUsed
    PROVE  VrfUsed'
<1> SUFFICES ASSUME NEW s \in Switches, vrf'[s]
             PROVE  row'[s] # "none" /\ (attached' \/ RemovePending(s)')
  BY DEF VrfUsed
<1> USE DEF TypeInv, TypeOK
<1> NoFailure
  BY DEF NoFailure
<1>1. CASE vrf[s]
  <2>1. row[s] # "none"
    BY <1>1 DEF VrfUsed
  <2>2. ASSUME NEW w \in PortWorkers, DeleteRow(w, s)
        PROVE  FALSE
    BY <1>1, <2>2 DEF DeleteRow, At, HookWithdrawn
  <2>3. row'[s] # "none"
    BY <2>1, <2>2, RowWritten
  <2>4. CASE attached
    <3>1. ASSUME NEW x \in RouterWorkers, DetachInterface(x)
          PROVE  RemovePending(s)'
      BY <3>1 DEF DetachInterface, Go, RemovePending, Workers
    <3>2. QED
      BY <2>3, <2>4, <3>1, AttachedWritten DEF AttachInterface
  <2>5. CASE RemovePending(s)
    BY <1>1, <2>1, <2>3, <2>5, RemovePendingEnds
  <2>6. QED
    BY <1>1, <2>4, <2>5 DEF VrfUsed
<1>2. CASE ~ vrf[s]
  <2>1. CASE \E w \in PortWorkers : SendVrf(w, s)
    BY <2>1 DEF SendVrf, At, HookAttached, ConfiguringRow, ConfiguringAt
  <2>2. CASE \E x \in RouterWorkers : AddVrf(x, s)
    BY <2>2 DEF AddVrf, Take, AddingRows, RequestInv, Adding
  <2>3. QED
    BY <1>2, <2>1, <2>2, VrfWritten
<1>3. QED
  BY <1>1, <1>2

LEMMA InitApart == Init => ApartInv
<1> SUFFICES ASSUME Init
             PROVE  ApartInv
  OBVIOUS
<1>1. \A w \in Workers : pc[w] = "idle"
  BY DEF Init
<1>2. \A s \in Switches : ~ vrf[s]
  BY DEF Init
<1>3. QED
  BY <1>1, <1>2 DEF ApartInv, Apart, HookAttached, HookWithdrawn, AddingRows, VrfUsed,
                    Workers

LEMMA NextApart ==
    ASSUME ServeInv, ApartInv, [Next]_vars
    PROVE  ApartInv'
<1>1. may' = may
  BY NextCases
<1>2. QED
  BY <1>1, ApartStep, HookAttachedStep, HookWithdrawnStep, AddingRowsStep, VrfUsedStep
     DEF ServeInv, ApartInv

(* Where hooks and requests never overlap and nothing fails, a switch has  *)
(* the VRF only while the subnet has the interface and the switch a row.   *)
THEOREM VrfsWithdrawn ==
    ASSUME SameProcess, OneRequest
    PROVE  Spec => []VrfOnlyWhereUsed
<1>1. ASSUME ApartInv
      PROVE  VrfOnlyWhereUsed
  BY <1>1 DEF ApartInv, VrfUsed, VrfOnlyWhereUsed, RemovePending, Quiet, Workers
<1>2. ServeInv /\ ApartInv /\ [Next]_vars => ServeInv' /\ ApartInv'
  BY NextServe, NextApart
<1>3. QED
  BY <1>1, <1>2, InitServe, InitApart, PTL DEF Spec

===============================================================================
