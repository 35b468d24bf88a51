----------------------------- MODULE Sriov_proofs -----------------------------
(***************************************************************************)
(* Proofs about the two modules of the SR-IOV agent: the safety of         *)
(* ESwitch, for any slots, ports and limits, and of SriovAgent, for any    *)
(* devices, any number of changes outside the agent and failures anywhere  *)
(* in its loop. They share no variable, and each has its specification:    *)
(* Spec is that of ESwitch, AgentSpec that of SriovAgent.                  *)
(***************************************************************************)
EXTENDS ESwitch, SriovAgent, TLAPS, FiniteSetTheorems

-------------------------------------------------------------------------------
(* Types *)

LEMMA Cards == Cardinality(Slots) \in Nat /\ Cardinality({}) = 0
BY ESwitchAssumption, FS_CardinalityType, FS_EmptySet

LEMMA VfAdded ==
    ASSUME NEW S \in SUBSET Slots, NEW s \in Slots \ S
    PROVE  Cardinality(S \cup {s}) = Cardinality(S) + 1
BY ESwitchAssumption, FS_Subset, FS_AddElement

LEMMA VfCount ==
    ASSUME NEW S \in SUBSET Slots
    PROVE  IsFiniteSet(S) /\ Cardinality(S) \in Nat
BY ESwitchAssumption, FS_Subset, FS_CardinalityType

LEMMA MbpsFacts ==
    ASSUME NEW k \in Nat
    PROVE  /\ Mbps(k) \in Nat
           /\ k = 0 <=> Mbps(k) = 0
           /\ Obeys(Mbps(k), k)
BY Z3 DEF Mbps, Obeys

LEMMA TypeInit == Init => TypeOK
<1> SUFFICES ASSUME Init PROVE TypeOK
  OBVIOUS
<1> USE Cards, ESwitchAssumption DEF Init, AtPoint, Idle
<1>1. loop \in Loops
  BY DEF Loops, Points
<1>2. op \in [Threads -> Ops]
  BY DEF Ops
<1>3. setup \in Circumstances /\ numvfs \in 0 .. Cardinality(Slots)
  OBVIOUS
<1>4. rate \in [Slots -> {Mbps(l) : l \in Limits}]
  BY MbpsFacts
<1>5. /\ owner \in [Slots -> Ports \cup {None}]
      /\ bound \in [Ports -> Slots \cup {None}] /\ want \in [Ports -> Limits]
  OBVIOUS
<1>6. \A s \in Slots : s \notin vfs => owner[s] = None /\ rate[s] = 0
  OBVIOUS
<1>7. vfs \subseteq Slots /\ Cardinality(vfs) <= numvfs
  OBVIOUS
<1>8. QED
  BY <1>1, <1>2, <1>3, <1>4, <1>5, <1>6, <1>7 DEF TypeOK, Unknown

LEMMA HostType ==
    ASSUME TypeOK, Host
    PROVE  TypeOK'
<1> USE Cards, ESwitchAssumption DEF TypeOK, Circumstances, neutron, known, agent
<1>1. ASSUME NEW n \in 1 .. Cardinality(Slots), SetNumvfs(n)
      PROVE  TypeOK'
  <2>1. Cardinality(vfs) <= n
    BY <1>1, VfCount DEF SetNumvfs
  <2>2. QED
    BY <1>1, <2>1 DEF SetNumvfs
<1>2. ASSUME NEW s \in Slots, VfComesUp(s)
      PROVE  TypeOK'
  BY <1>2, VfAdded, VfCount DEF VfComesUp
<1>3. CASE PfLeaves
  <2>1. 0 \in {Mbps(l) : l \in Limits}
    BY MbpsFacts
  <2>2. rate' \in [Slots -> {Mbps(l) : l \in Limits}]
    BY <1>3, <2>1 DEF PfLeaves
  <2>3. vfs' = {} /\ numvfs' = 0 /\ Cardinality(vfs') <= numvfs'
    BY <1>3 DEF PfLeaves
  <2>4. \A s \in Slots : owner'[s] = None /\ rate'[s] = 0
    BY <1>3 DEF PfLeaves
  <2>5. numvfs' \in 0 .. Cardinality(Slots)
    BY <2>3
  <2>6. pf' \in BOOLEAN /\ UNCHANGED <<setup, owner, neutron, told, updated, known, agent>>
    BY <1>3 DEF PfLeaves
  <2> HIDE DEF Mbps
  <2>7. QED
    BY <2>2, <2>3, <2>4, <2>5, <2>6
<1>4. CASE PfReturns
  BY <1>4 DEF PfReturns
<1>5. QED
  BY <1>1, <1>2, <1>3, <1>4 DEF Host

LEMMA PortType ==
    ASSUME TypeOK, NEW p \in Ports, Port(p)
    PROVE  TypeOK'
<1> USE ESwitchAssumption DEF TypeOK, host, neutron, known, agent
<1>1. ASSUME NEW s \in Slots, Plug(p, s)
      PROVE  TypeOK'
  BY <1>1 DEF Plug
<1>2. CASE Unplug(p)
  BY <1>2 DEF Unplug
<1>3. ASSUME NEW l \in Limits, SetLimit(p, l)
      PROVE  TypeOK'
  BY <1>3 DEF SetLimit
<1>4. CASE PolicyChanged(p)
  <2>1. SetCall(p, policed[p], want[p]) \in Ops
    BY DEF Ops, SetCall
  <2>2. op' \in [Threads -> Ops]
    BY <1>4, <2>1 DEF PolicyChanged, Call
  <2>3. QED
    BY <1>4, <2>2 DEF PolicyChanged
<1>5. QED
  BY <1>1, <1>2, <1>3, <1>4 DEF Port

LEMMA AtPointType ==
    ASSUME NEW point \in Points
    PROVE  AtPoint(point) \in Loops
BY DEF AtPoint, Loops

LEMMA WithPolicyFacts ==
    ASSUME NEW S
    PROVE  WithPolicy(S) \subseteq S
BY DEF WithPolicy

LEMMA ForgetType ==
    ASSUME registered \subseteq Devices, overlooked \subseteq Devices, loop \in Loops,
           ForgetDevices
    PROVE  registered' = {} /\ overlooked' \subseteq Devices
<1>1. Seen \subseteq Devices
  BY DEF Seen, Loops
<1>2. QED
  BY <1>1, WithPolicyFacts DEF ForgetDevices

(* What an iteration has before it once the MAC addresses are read. *)
Found == {<<owner[s], s>> : s \in loop.seen \cap vfs}
New == {d \in Found : d \notin registered \/ d[1] \in loop.news}

LEMMA LoopRest ==
    ASSUME loop \in Loops, NEW d, NEW again
    PROVE  /\ [loop EXCEPT !.todo = @ \ {d}, !.resync = @ \/ again] \in Loops
           /\ [loop EXCEPT !.gone = @ \ {d}, !.resync = @ \/ again] \in Loops
<1>1. (loop.resync \/ again) \in BOOLEAN
  OBVIOUS
<1>2. QED
  BY <1>1 DEF Loops

LEMMA LoopType ==
    ASSUME TypeOK, Discover \/ Scan \/ Treat
    PROVE  TypeOK'
<1> USE ESwitchAssumption DEF TypeOK, host, neutron, known, agent
<1>1. CASE LookForDevice
  <2>1. loop' \in Loops
    BY <1>1 DEF LookForDevice, Loops, Points
  <2>2. QED
    BY <1>1, <2>1 DEF LookForDevice
<1>2. CASE ScanVfs
  <2>1. loop' \in Loops
    BY <1>2 DEF ScanVfs, Loops, Points
  <2>2. QED
    BY <1>2, <2>1 DEF ScanVfs
<1>3. CASE CountVfs
  <2>1. loop' \in Loops /\ loop.seen \subseteq Slots
    BY <1>3 DEF CountVfs, Loops, Points
  <2>2. QED
    BY <1>3, <2>1 DEF CountVfs, Manage
<1>4. CASE ReadAssigned
  <2>1. switch \ Unknown \subseteq Slots
    BY DEF Unknown
  <2>2. loop' \in Loops
    BY <1>4, <2>1 DEF ReadAssigned, Loops, Points
  <2>3. QED
    BY <1>4, <2>2 DEF ReadAssigned
<1>5. CASE ReadMacs
  <2>1. PICK lost \in Failed : loop' = [AtPoint("treat") EXCEPT
                   !.news = loop.news, !.curr = Found,
                   !.todo = IF lost THEN {} ELSE New,
                   !.gone = registered \ Found,
                   !.resync = lost /\ New # {}]
    BY <1>5 DEF ReadMacs, Found, New
  <2>2. Found \subseteq Devices /\ New \subseteq Devices
    BY DEF Devices, Loops, Found, New
  <2>3. loop' \in Loops
    BY <2>1, <2>2 DEF Loops, Points, AtPoint
  <2>4. overlooked' \subseteq Devices
    BY <1>5 DEF ReadMacs
  <2>5. QED
    BY <1>5, <2>3, <2>4 DEF ReadMacs
<1>6. CASE IterationError
  <2>1. loop' \in Loops /\ loop.news \subseteq Ports
    BY <1>6, AtPointType DEF IterationError, Points, Loops
  <2>2. registered' = {} /\ overlooked' \subseteq Devices
    BY <1>6, ForgetType DEF IterationError
  <2>3. QED
    BY <1>6, <2>1, <2>2 DEF IterationError
<1>7. ASSUME NEW d \in Devices, TreatDevice(d)
      PROVE  TypeOK'
  <2>1. loop' \in Loops
    <3>1. PICK failed \in Failed :
             loop' = [loop EXCEPT !.todo = @ \ {d},
                        !.resync = @ \/ (d[1] # None /\ ResyncNeeded(d[1], failed))]
      BY <1>7 DEF TreatDevice
    <3>2. QED
      BY <3>1, LoopRest
  <2>2. d[1] \in Ports \cup {None}
    BY DEF Devices
  <2>3. d[1] # None => SetCall(d[1], bound[d[1]], want[d[1]]) \in Ops
    BY <2>2 DEF Ops, SetCall
  <2>4. op' \in [Threads -> Ops] /\ policed' \in [Ports -> Slots \cup {None}]
    BY <1>7, <2>2, <2>3 DEF TreatDevice, Call
  <2>5. QED
    BY <1>7, <2>1, <2>4 DEF TreatDevice
<1>8. ASSUME NEW d \in Devices, TreatRemoved(d)
      PROVE  TypeOK'
  <2>1. loop' \in Loops
    <3>1. PICK failed \in Failed :
             loop' = [loop EXCEPT !.gone = @ \ {d}, !.resync = @ \/ failed]
      BY <1>8 DEF TreatRemoved
    <3>2. QED
      BY <3>1, LoopRest
  <2>2. [Idle EXCEPT !.pc = "clear", !.slot = d[2]] \in Ops
    BY DEF Ops, Idle, Devices
  <2>3. op' \in [Threads -> Ops] /\ policed' \in [Ports -> Slots \cup {None}]
    BY <1>8, <2>2 DEF TreatRemoved, Call
  <2>4. QED
    BY <1>8, <2>1, <2>3 DEF TreatRemoved
<1>9. CASE EndIteration
  <2>1. loop' \in Loops /\ loop.curr \subseteq Devices
    BY <1>9, AtPointType DEF EndIteration, Points, Loops
  <2>2. registered' \subseteq Devices /\ overlooked' \subseteq Devices
    BY <1>9, <2>1, ForgetType DEF EndIteration
  <2>3. QED
    BY <1>9, <2>1, <2>2 DEF EndIteration
<1>10. QED
  BY <1>1, <1>2, <1>3, <1>4, <1>5, <1>6, <1>7, <1>8, <1>9 DEF Discover, Scan, Treat

LEMMA CommandType ==
    ASSUME TypeOK, NEW t \in Threads, Command(t)
    PROVE  TypeOK'
<1> USE ESwitchAssumption DEF TypeOK, Quietly, host, neutron, known, agent
<1>1. Idle \in Ops
  BY DEF Idle, Ops
<1>2. op[t] \in Ops
  OBVIOUS
<1>3. CASE CheckDevice(t) \/ CheckReleased(t)
  <2>1. op' \in [Threads -> Ops]
    BY <1>1, <1>2, <1>3 DEF CheckDevice, CheckReleased, Call, Ops
  <2>2. QED
    BY <1>3, <2>1 DEF CheckDevice, CheckReleased
<1>4. CASE SetRate(t)
  <2>1. op' \in [Threads -> Ops]
    BY <1>1, <1>4 DEF SetRate, Call
  <2>2. op[t].kbps \in Limits
    BY <1>2 DEF Ops
  <2>3. /\ rate' \in [Slots -> {Mbps(l) : l \in Limits}]
        /\ \A s \in Slots : s \notin vfs => rate'[s] = 0
    BY <1>4, <2>2 DEF SetRate
  <2>4. QED
    BY <1>4, <2>1, <2>3 DEF SetRate
<1>5. QED
  BY <1>3, <1>4 DEF Command

LEMMA TypeStep ==
    ASSUME TypeOK, [Next]_vars
    PROVE  TypeOK'
<1>1. CASE UNCHANGED vars
  BY <1>1 DEF TypeOK, vars, host, neutron, known, agent
<1>2. QED
  BY <1>1, HostType, PortType, LoopType, CommandType DEF Next

LEMMA MacsRead ==
    ASSUME ReadMacs
    PROVE  /\ loop'.pc = "treat" /\ loop'.news = loop.news /\ loop'.seen = {}
           /\ loop'.curr = Found
           /\ \/ loop'.todo = New /\ loop'.resync = FALSE
              \/ loop'.todo = {} /\ (loop'.resync \/ New = {})
           /\ loop'.gone = registered \ Found
           /\ overlooked' = overlooked \ WithPolicy(Found)
<1>1. PICK lost \in Failed : loop' = [AtPoint("treat") EXCEPT
                   !.news = loop.news, !.curr = Found,
                   !.todo = IF lost THEN {} ELSE New,
                   !.gone = registered \ Found,
                   !.resync = lost /\ New # {}]
  BY DEF ReadMacs, Found, New
<1>2. lost \in BOOLEAN
  BY DEF Failed
<1>3. overlooked' = overlooked \ WithPolicy(Found)
  BY DEF ReadMacs, Found
<1>4. QED
  BY <1>1, <1>2, <1>3 DEF AtPoint

-------------------------------------------------------------------------------
(* All VFs are managed *)

(* VFs only come up while the agent looks, and none is to come when it     *)
(* takes up the device.                                                    *)
ManagedInv ==
    setup.counts /\ ~setup.late =>
        /\ pf /\ loop.pc = "count" => loop.seen \subseteq vfs
        /\ pf /\ switch # Unknown => switch = vfs \ Excluded /\ Cardinality(vfs) = numvfs

LEMMA ManagedStep ==
    ASSUME TypeOK, ManagedInv, [Next]_vars
    PROVE  ManagedInv'
<1> USE DEF ManagedInv, neutron, known, agent
<1>1. CASE UNCHANGED <<setup, host, switch>>
           /\ (loop'.pc = "count" => loop.pc = "count" /\ loop'.seen = loop.seen)
  BY <1>1 DEF host
<1>2. ASSUME NEW n \in 1 .. Cardinality(Slots), SetNumvfs(n)
      PROVE  ManagedInv'
  BY <1>2 DEF SetNumvfs
<1>3. ASSUME NEW s \in Slots, VfComesUp(s)
      PROVE  ManagedInv'
  <2>1. UNCHANGED <<setup, pf, numvfs, switch, loop>> /\ vfs \subseteq vfs'
        /\ Cardinality(vfs) # numvfs
    BY <1>3, VfCount DEF VfComesUp, TypeOK
  <2>2. QED
    BY <2>1
<1>4. CASE PfLeaves \/ PfReturns
  BY <1>4 DEF PfLeaves, PfReturns
<1>5. ASSUME NEW p \in Ports, Port(p)
      PROVE  ManagedInv'
  BY <1>1, <1>5 DEF Port, Plug, Unplug, SetLimit, PolicyChanged
<1>6. CASE LookForDevice
  BY <1>6 DEF LookForDevice, TypeOK, Loops, host
<1>7. CASE ScanVfs
  BY <1>7 DEF ScanVfs, TypeOK, Loops, host
<1>8. CASE CountVfs
  <2> SUFFICES ASSUME setup.counts, ~setup.late, pf, switch' # Unknown
               PROVE  switch' = vfs \ Excluded /\ Cardinality(vfs) = numvfs
    BY <1>8 DEF CountVfs, TypeOK, Loops, host
  <2>1. /\ loop.seen \subseteq vfs /\ vfs \subseteq Slots /\ IsFiniteSet(vfs)
        /\ Cardinality(loop.seen) \in Nat /\ Cardinality(vfs) \in Nat
        /\ Cardinality(vfs) <= numvfs /\ numvfs \in Nat
    BY <1>8, VfCount, Cards DEF CountVfs, TypeOK
  <2>2. CASE Incomplete(numvfs, loop.seen) \/ (numvfs = 0 /\ ~skipped)
    BY <1>8, <2>2 DEF CountVfs, NumvfsRead
  <2>3. CASE ~ Incomplete(numvfs, loop.seen) /\ ~ (numvfs = 0 /\ ~skipped)
    <3>1. switch' = loop.seen \ Excluded
      BY <1>8, <2>3 DEF CountVfs, NumvfsRead, Manage
    <3>2. Cardinality(vfs) <= Cardinality(loop.seen)
      BY <2>1, <2>3 DEF Incomplete
    <3>3. Cardinality(loop.seen) <= Cardinality(vfs)
          /\ (Cardinality(loop.seen) = Cardinality(vfs) => loop.seen = vfs)
      BY <2>1, FS_Subset
    <3>4. QED
      BY <2>1, <2>3, <3>1, <3>2, <3>3 DEF Incomplete
  <2>4. QED
    BY <2>2, <2>3
<1>9. CASE Scan \/ IterationError \/ EndIteration
  <2>1. loop'.pc \in {"macs", "treat", "look"}
    <3>1. CASE ReadAssigned
      BY <3>1 DEF ReadAssigned, TypeOK, Loops
    <3>2. CASE IterationError \/ EndIteration
      BY <3>2 DEF IterationError, EndIteration, AtPoint
    <3>3. QED
      BY <1>9, <3>1, <3>2, MacsRead DEF Scan
  <2>2. UNCHANGED <<setup, host, switch>>
    BY <1>9 DEF Scan, ReadAssigned, ReadMacs, IterationError, EndIteration
  <2>3. QED
    BY <1>1, <2>1, <2>2
<1>13. ASSUME NEW d \in Devices, TreatDevice(d) \/ TreatRemoved(d)
       PROVE  ManagedInv'
  BY <1>1, <1>13 DEF TreatDevice, TreatRemoved, TypeOK, Loops
<1>10. ASSUME NEW t \in Threads, Command(t)
       PROVE  ManagedInv'
  BY <1>1, <1>10 DEF Command, CheckDevice, CheckReleased, SetRate, Quietly
<1>11. CASE UNCHANGED vars
  BY <1>1, <1>11 DEF vars
<1>12. QED
  BY <1>2, <1>3, <1>4, <1>5, <1>6, <1>7, <1>8, <1>9, <1>10, <1>11, <1>13
     DEF Next, Host, Discover, Treat

(* Every VF of a managed device is managed, however the VFs come up        *)
(* between the looks of discover_devices, if the device can tell how many  *)
(* it has and gets them before it is managed.                              *)
THEOREM AllVfsManaged == Spec => []EveryVfManaged
<1>1. Init => TypeOK /\ ManagedInv
  BY TypeInit DEF Init, ManagedInv, AtPoint, Unknown
<1>2. TypeOK /\ ManagedInv /\ [Next]_vars => TypeOK' /\ ManagedInv'
  BY TypeStep, ManagedStep
<1>3. ManagedInv => EveryVfManaged
  BY DEF ManagedInv, EveryVfManaged
<1>4. QED
  BY <1>1, <1>2, <1>3, PTL DEF Spec

-------------------------------------------------------------------------------
(* Limits *)

(* The devices of this scan or, between two, of the last one. *)
Current == IF loop.pc = "treat" THEN loop.curr ELSE registered

Setting(t) == op[t].pc \in {"exists", "check", "set"}
Sets(t, d) == Setting(t) /\ op[t].port = d[1] /\ op[t].slot = d[2]
Clearing(t) == op[t].pc \in {"clear", "reset"}

(* What the loop keeps at each point. *)
LoopShape ==
    /\ loop.pc # "treat" =>
           /\ loop.curr = {} /\ loop.todo = {} /\ loop.gone = {} /\ ~loop.resync
           /\ op["loop"] = Idle
    /\ loop.pc = "look" => loop.news = {}
    /\ loop.pc \in {"scan", "count"} => switch = Unknown
    /\ loop.todo \subseteq loop.curr
    /\ loop.gone \subseteq registered \ loop.curr

(* A port that has a VF was bound to it last ... *)
BoundVfs == \A s \in Slots : owner[s] # None => bound[owner[s]] = s

(* ... as was each of the agent's devices, which are all of this switch,   *)
(* and a scan does not miss one that is there.                             *)
DevicesKnown ==
    /\ ~pf => numvfs = 0 /\ Seen = {} /\ \A s \in Slots : owner[s] = None
    /\ \A d \in Seen : d[2] \in switch /\ (d[1] # None => bound[d[1]] = d[2])
    /\ loop.pc = "macs" =>
          /\ loop.seen \subseteq switch
          /\ \A d \in registered : d[1] # None /\ owner[d[2]] = d[1] => d[2] \in loop.seen
    /\ \A d \in loop.gone : d[1] # None => owner[d[2]] # d[1]

(* The extension forgets a port with its device, unless that is            *)
(* overlooked; and it knows a device that has been treated as such.        *)
PolicedKnown ==
    /\ \A p \in Ports : policed[p] # None =>
           <<p, policed[p]>> \in Current \cup loop.gone \cup overlooked
    /\ \A d \in registered : d[1] # None => policed[d[1]] \in {None, d[2]}
    /\ ~loop.resync =>
           \A d \in loop.curr \ loop.todo :
              d[1] # None => policed[d[1]] \in {None, d[2]}

(* A call that sets a rate keeps the other thread out and, once the        *)
(* command is issued, the VF with its port ...                             *)
SettingOK ==
    /\ \A t \in Threads : Setting(t) =>
          /\ op[t].port \in Ports /\ op[t].slot \in Slots
          /\ op[t].pc = "set" => owner[op[t].slot] = op[t].port
          /\ owner[op[t].slot] = op[t].port /\ op[t].kbps > 0 =>
                policed[op[t].port] = op[t].slot
    /\ \A t, u \in Threads : Setting(t) /\ Setting(u) => t = u
    /\ \A t \in Threads : op[t].pc = "idle" => op[t] = Idle
    /\ Setting("loop") => <<op["loop"].port, op["loop"].slot>> \in loop.curr

(* ... and one that clears a rate is for a removed device. *)
ClearingOK ==
    /\ ~Clearing("rpc")
    /\ Clearing("loop") =>
          /\ op["loop"].port = None /\ op["loop"].kbps = 0
          /\ op["loop"].slot \in slotMap
          /\ \E d \in registered : d[2] = op["loop"].slot
    /\ op["loop"].pc = "reset" =>
          LET s == op["loop"].slot IN owner[s] # None => <<owner[s], s>> \notin Seen

(* A device is to be treated, in this iteration or in the next: after a    *)
(* resync all are.                                                         *)
Pending(d) == d[1] \in Awaited \/ d \in loop.todo
Waiting(d) == loop.resync \/ Pending(d)

(* Devices whose ports have the VF by now. *)
Owned == {d \in Current : d[1] # None /\ owner[d[2]] = d[1]}

(* No port with a limit has left the VF unnoticed. *)
Clean(s) == \A d \in overlooked : d[2] # s

(* A policy the extension does not know yet is about to be read. *)
NewsKept ==
    /\ \A p \in told : want[p] > 0
    /\ \A d \in Owned : want[d[1]] > 0 /\ policed[d[1]] # d[2] => Waiting(d)

(* A VF has its port's limit, or there is news, or a call on its way.      *)
LimitKept ==
    \A d \in Owned : want[d[1]] > 0 \/ (~setup.rough /\ Clean(d[2])) =>
        \/ d[1] \in told \/ Waiting(d)
        \/ \E t \in Threads : Sets(t, d) /\ op[t].kbps = want[d[1]]
        \/ rate[d[2]] = Mbps(want[d[1]]) /\ \A t \in Threads : ~Sets(t, d)

(* A limit stays on a VF as long as the extension knows the policy, or is  *)
(* about to clear it; and a port that has lost its policy is overlooked,   *)
(* or about to be, or it still has its VF and is to be treated.            *)
OwnedLimits ==
    \A s \in Slots : Clean(s) /\ rate[s] # 0 /\ owner[s] # None =>
        \/ policed[owner[s]] = s
        \/ Sets("loop", <<owner[s], s>>) /\ op["loop"].kbps = 0

FreeLimits ==
    \A s \in Slots : Clean(s) /\ rate[s] # 0 /\ owner[s] = None =>
        \/ \E p \in Ports : policed[p] = s
        \/ Clearing("loop") /\ op["loop"].slot = s

LostPolicy(p, s) ==
    \/ <<p, s>> \in overlooked \ Seen
    \/ loop.resync /\ <<p, s>> \in Seen \ loop.todo
    \/ owner[s] = p /\ Pending(<<p, s>>)

LostPolicies ==
    \A p \in Ports : policed[p] # None /\ want[p] = 0 => LostPolicy(p, policed[p])

Leftovers == ~setup.rough => OwnedLimits /\ FreeLimits /\ LostPolicies

LimitInv ==
    /\ LoopShape /\ BoundVfs /\ DevicesKnown /\ PolicedKnown /\ SettingOK
    /\ ClearingOK /\ NewsKept /\ LimitKept /\ Leftovers

LEMMA LimitInit == Init => LimitInv
<1> SUFFICES ASSUME Init PROVE LimitInv
  OBVIOUS
<1> USE DEF Init
<1>1. /\ loop.pc = "look" /\ loop.news = {} /\ loop.seen = {} /\ loop.curr = {}
      /\ loop.todo = {} /\ loop.gone = {} /\ loop.resync = FALSE
      /\ \A t \in Threads : op[t] = Idle /\ ~ Setting(t) /\ ~ Clearing(t)
      /\ op["loop"].pc = "idle" /\ "loop" \in Threads /\ "rpc" \in Threads
  BY DEF AtPoint, Idle, Setting, Clearing, Threads
<1>2. Seen = {} /\ Current = {} /\ Owned = {}
  BY <1>1 DEF Seen, Current, Owned
<1>3. LoopShape /\ BoundVfs /\ DevicesKnown /\ PolicedKnown
  BY <1>1, <1>2 DEF LoopShape, BoundVfs, DevicesKnown, PolicedKnown
<1>4. SettingOK /\ ClearingOK
  BY <1>1, <1>2 DEF SettingOK, ClearingOK
<1>5. NewsKept /\ LimitKept /\ Leftovers
  BY <1>1, <1>2 DEF NewsKept, LimitKept, Leftovers, OwnedLimits, FreeLimits, LostPolicies
<1>6. QED
  BY <1>3, <1>4, <1>5 DEF LimitInv

(* VFs that are configured or come up have no port and no limit yet. *)
LEMMA SameLimits ==
    ASSUME LimitInv, pf \/ numvfs' = numvfs,
           UNCHANGED <<setup, pf, owner, rate, neutron, told, updated, known, agent>>
    PROVE  LimitInv'
<1> USE DEF neutron, known, agent, Current, Setting, Sets, Clearing, Waiting, Pending,
            Awaited, Owned, Seen, Clean
<1>1. LoopShape' /\ BoundVfs' /\ DevicesKnown' /\ PolicedKnown'
  BY DEF LimitInv, LoopShape, BoundVfs, DevicesKnown, PolicedKnown
<1>2. SettingOK' /\ ClearingOK'
  BY DEF LimitInv, SettingOK, ClearingOK
<1>3. NewsKept' /\ LimitKept' /\ Leftovers'
  BY DEF LimitInv, NewsKept, LimitKept, Leftovers, OwnedLimits, FreeLimits,
         LostPolicies, LostPolicy
<1>4. QED
  BY <1>1, <1>2, <1>3 DEF LimitInv

LEMMA PfLimits ==
    ASSUME TypeOK, TypeOK', LimitInv, PfLeaves \/ PfReturns
    PROVE  LimitInv'
<1> USE DEF neutron, known, agent, Current, Setting, Sets, Clearing, Waiting, Pending,
            Awaited, Owned, Seen, Clean
<1>1. UNCHANGED <<setup, owner, neutron, told, updated, known, agent>>
      /\ (pf' \/ numvfs' = 0)
      /\ \/ pf' = TRUE /\ rate' = rate
         \/ Seen = {} /\ \A s \in Slots : owner[s] = None /\ rate'[s] = 0
  <2>1. CASE PfReturns
    BY <2>1 DEF PfReturns
  <2>2. CASE PfLeaves
    BY <2>2 DEF PfLeaves
  <2>3. QED
    BY <2>1, <2>2
<1>2. LoopShape' /\ BoundVfs' /\ DevicesKnown' /\ PolicedKnown'
  BY <1>1 DEF LimitInv, LoopShape, BoundVfs, DevicesKnown, PolicedKnown
<1>3. SettingOK' /\ ClearingOK'
  BY <1>1 DEF LimitInv, SettingOK, ClearingOK
<1>4. NewsKept'
  BY <1>1 DEF LimitInv, NewsKept
<1>5. LimitKept'
  BY <1>1 DEF LimitInv, LimitKept
<1>6. Leftovers'
  BY <1>1 DEF LimitInv, Leftovers, OwnedLimits, FreeLimits, LostPolicies, LostPolicy
<1>7. QED
  BY <1>2, <1>3, <1>4, <1>5, <1>6 DEF LimitInv

LEMMA PlugLimits ==
    ASSUME TypeOK, LimitInv, NEW p \in Ports, NEW s \in Slots, Plug(p, s)
    PROVE  LimitInv'
<1> USE DEF host, known, agent, Current, Setting, Sets, Clearing, Waiting, Pending, Awaited,
            Owned, Seen, TypeOK
<1>1. /\ owner' = [owner EXCEPT ![s] = p] /\ bound' = [bound EXCEPT ![p] = s]
      /\ UNCHANGED <<setup, host, rate, want, told, updated, known, agent>>
      /\ owner[s] = None /\ s \in vfs
      /\ \A t \in Slots : owner[t] # p
      /\ \A t \in Threads : op[t].port # p
  BY DEF Plug, Held
<1>2. /\ \A d \in Seen : d[1] # p
      /\ ~ setup.rough => \A d \in Seen : d[2] # s
  BY DEF Plug
<1>3. p # None /\ None \notin Slots /\ None \notin Ports
  BY ESwitchAssumption
<1>4. Current' = Current /\ Owned' = Owned /\ Current \cup loop.gone \subseteq Seen
  BY <1>1, <1>2 DEF LimitInv, LoopShape, Devices
<1>5. LoopShape' /\ BoundVfs' /\ PolicedKnown'
  BY <1>1 DEF LimitInv, LoopShape, BoundVfs, PolicedKnown
<1>6. DevicesKnown'
  <2>1. pf
    BY <1>1, VfCount, FS_EmptySet DEF LimitInv, DevicesKnown
  <2>2. \A d \in Seen : d[2] \in switch /\ (d[1] # None => bound'[d[1]] = d[2])
    BY <1>1, <1>2 DEF LimitInv, DevicesKnown
  <2>3. \A d \in Seen : d[1] # None => (owner'[d[2]] = d[1] => owner[d[2]] = d[1])
    BY <1>1, <1>2 DEF Devices, Loops
  <2>4. QED
    BY <1>1, <1>4, <2>1, <2>2, <2>3 DEF LimitInv, DevicesKnown
<1>7. SettingOK'
  <2>1. ASSUME NEW t \in Threads, Setting(t)
        PROVE  /\ op[t].port # p
               /\ op[t].pc = "set" => op[t].slot # s
               /\ owner'[op[t].slot] = op[t].port => owner[op[t].slot] = op[t].port
    BY <1>1, <1>3, <2>1 DEF LimitInv, SettingOK
  <2>2. QED
    BY <1>1, <2>1 DEF LimitInv, SettingOK
<1>8. ClearingOK'
  BY <1>1, <1>2 DEF LimitInv, ClearingOK
<1>9. NewsKept' /\ LimitKept'
  BY <1>1, <1>4 DEF LimitInv, NewsKept, LimitKept, Clean
<1>10. Leftovers'
  <2> SUFFICES ASSUME ~ setup.rough
               PROVE  OwnedLimits' /\ FreeLimits' /\ LostPolicies'
    BY <1>1 DEF Leftovers
  <2>1. OwnedLimits /\ FreeLimits /\ LostPolicies
    BY DEF LimitInv, Leftovers
  <2>2. Clean(s) => \A q \in Ports : policed[q] # s
    <3>1. ASSUME Clean(s), NEW q \in Ports, policed[q] = s
          PROVE  FALSE
      <4>1. <<q, s>> \in Current \cup loop.gone \cup overlooked
        BY <1>3, <3>1 DEF LimitInv, PolicedKnown
      <4>2. <<q, s>> \notin Seen
        BY <1>2
      <4>3. QED
        BY <1>4, <3>1, <4>1, <4>2 DEF Clean
    <3>2. QED
      BY <3>1
  <2>3. ~ (Clearing("loop") /\ op["loop"].slot = s)
    BY <1>2 DEF LimitInv, ClearingOK
  <2>4. Clean(s) => rate[s] = 0
    BY <1>1, <2>1, <2>2, <2>3 DEF FreeLimits
  <2>5. \A r \in Slots : Clean(r)' <=> Clean(r)
    BY <1>1 DEF Clean
  <2>6. OwnedLimits' /\ FreeLimits'
    BY <1>1, <2>1, <2>4, <2>5 DEF OwnedLimits, FreeLimits
  <2>7. ASSUME NEW q \in Ports, NEW r \in Slots, LostPolicy(q, r)
        PROVE  LostPolicy(q, r)'
    BY <1>1, <1>3, <2>7 DEF LostPolicy
  <2>8. LostPolicies'
    BY <1>1, <2>1, <2>7 DEF LostPolicies
  <2>9. QED
    BY <2>6, <2>8
<1>11. QED
  BY <1>5, <1>6, <1>7, <1>8, <1>9, <1>10 DEF LimitInv

LEMMA UnplugLimits ==
    ASSUME TypeOK, LimitInv, NEW p \in Ports, Unplug(p)
    PROVE  LimitInv'
<1> USE DEF host, known, neutron, agent, Current, Setting, Sets, Clearing, Waiting, Pending,
            Awaited, Owned, Seen, TypeOK
<1>1. PICK s \in Slots :
         /\ owner[s] = p /\ owner' = [owner EXCEPT ![s] = None]
         /\ \A t \in Threads : op[t].pc = "set" => op[t].slot # s
         /\ setup.rough \/ ~LosesPolicy(p, s)
  BY DEF Unplug
<1>2. UNCHANGED <<setup, host, rate, neutron, told, updated, known, agent>>
  BY DEF Unplug
<1>3. bound[p] = s
  BY <1>1, ESwitchAssumption DEF LimitInv, BoundVfs
<1>4. Current' = Current /\ Owned' \subseteq Owned /\ Current \cup loop.gone \subseteq Seen
  BY <1>1, <1>2 DEF LimitInv, LoopShape
<1>5. LoopShape' /\ BoundVfs' /\ PolicedKnown'
  BY <1>1, <1>2 DEF LimitInv, LoopShape, BoundVfs, PolicedKnown
<1>6. DevicesKnown'
  BY <1>1, <1>2, <1>4 DEF LimitInv, DevicesKnown
<1>7. SettingOK'
  BY <1>1, <1>2, ESwitchAssumption DEF LimitInv, SettingOK
<1>8. ClearingOK'
  BY <1>1, <1>2 DEF LimitInv, ClearingOK
<1>9. NewsKept' /\ LimitKept'
  BY <1>1, <1>2, <1>4 DEF LimitInv, NewsKept, LimitKept, Clean
<1>10. Leftovers'
  <2> SUFFICES ASSUME ~ setup.rough
               PROVE  OwnedLimits' /\ FreeLimits' /\ LostPolicies'
    BY <1>2 DEF Leftovers
  <2>1. OwnedLimits /\ FreeLimits /\ LostPolicies /\ ~ LosesPolicy(p, s)
    BY <1>1 DEF LimitInv, Leftovers
  <2>2. \A r \in Slots : Clean(r)' <=> Clean(r)
    BY <1>2 DEF Clean
  <2>3. OwnedLimits'
    BY <1>1, <1>2, <2>1, <2>2, ESwitchAssumption DEF OwnedLimits
  <2>4. FreeLimits'
    BY <1>1, <1>2, <2>1, <2>2, ESwitchAssumption
       DEF OwnedLimits, FreeLimits, LosesPolicy
  <2>5. ASSUME NEW q \in Ports, policed[q] # None, want[q] = 0
        PROVE  LostPolicy(q, policed[q])'
    <3>1. LostPolicy(q, policed[q])
      BY <2>1, <2>5 DEF LostPolicies
    <3>2. CASE owner[policed[q]] = q /\ Pending(<<q, policed[q]>>)
      <4>1. policed[q] \in Slots
        BY <2>5
      <4>2. q # p
        <5>1. SUFFICES ASSUME q = p
                       PROVE  FALSE
          OBVIOUS
        <5>2. policed[p] = s
          BY <1>3, <3>2, <4>1, <5>1, ESwitchAssumption DEF LimitInv, BoundVfs
        <5>3. Pending(<<p, s>>) /\ want[p] = 0
          BY <2>5, <3>2, <5>1, <5>2
        <5>4. QED
          BY <2>1, <5>3 DEF LosesPolicy
      <4>3. QED
        BY <1>1, <1>2, <3>2, <4>1, <4>2 DEF LostPolicy
    <3>3. QED
      BY <1>2, <3>1, <3>2 DEF LostPolicy
  <2>6. QED
    BY <1>2, <2>3, <2>4, <2>5 DEF LostPolicies
<1>11. QED
  BY <1>5, <1>6, <1>7, <1>8, <1>9, <1>10 DEF LimitInv

LEMMA SetLimitLimits ==
    ASSUME TypeOK, LimitInv, NEW p \in Ports, NEW limit \in Limits, SetLimit(p, limit)
    PROVE  LimitInv'
<1> USE DEF host, known, neutron, agent, Current, Setting, Sets, Clearing, Waiting, Pending,
            Awaited, Owned, Seen, TypeOK
<1>1. /\ UNCHANGED <<setup, host, owner, rate, bound, known, agent>>
      /\ want' = [want EXCEPT ![p] = limit]
      /\ told \subseteq told' /\ updated \subseteq updated' /\ p \in told' \cup updated'
      /\ told' \subseteq told \cup {p} /\ p \notin told
      /\ p \in told' => limit > 0 /\ want[p] > 0
  BY DEF SetLimit
<1>2. limit = 0 => setup.rough \/ Held(p) \/ p \notin {d[1] : d \in Seen}
  BY DEF SetLimit
<1>3. Current' = Current /\ Owned' = Owned /\ Current \cup loop.gone \subseteq Seen
  BY <1>1 DEF LimitInv, LoopShape
<1>4. LoopShape' /\ BoundVfs' /\ PolicedKnown' /\ DevicesKnown'
  BY <1>1 DEF LimitInv, LoopShape, BoundVfs, PolicedKnown, DevicesKnown
<1>5. SettingOK' /\ ClearingOK'
  BY <1>1 DEF LimitInv, SettingOK, ClearingOK
<1>6. NewsKept' /\ LimitKept'
  BY <1>1, <1>3 DEF LimitInv, NewsKept, LimitKept, Clean
<1>7. Leftovers'
  <2> SUFFICES ASSUME ~ setup.rough
               PROVE  OwnedLimits' /\ FreeLimits' /\ LostPolicies'
    BY <1>1 DEF Leftovers
  <2>1. OwnedLimits /\ FreeLimits /\ LostPolicies
    BY DEF LimitInv, Leftovers
  <2>2. OwnedLimits' /\ FreeLimits'
    BY <1>1, <2>1 DEF OwnedLimits, FreeLimits, Clean
  <2>3. ASSUME NEW q \in Ports, policed[q] # None, want'[q] = 0
        PROVE  LostPolicy(q, policed[q])'
    <3>1. CASE q = p
      <4> DEFINE s == policed[p]
      <4>1. p \in updated' /\ limit = 0
        BY <1>1, <2>3, <3>1
      <4>2. <<p, s>> \in Seen \cup overlooked
        BY <1>3, <2>3, <3>1 DEF LimitInv, PolicedKnown
      <4>3. CASE <<p, s>> \in Seen
        <5>1. bound[p] = s /\ p # None
          BY <4>3, ESwitchAssumption DEF LimitInv, DevicesKnown
        <5>2. Held(p)
          BY <1>2, <4>1, <4>3
        <5>3. owner[s] = p
          BY <5>1, <5>2 DEF Held, LimitInv, BoundVfs
        <5>4. QED
          BY <1>1, <3>1, <4>1, <5>3 DEF LostPolicy
      <4>4. CASE <<p, s>> \notin Seen
        BY <1>1, <3>1, <4>2, <4>4 DEF LostPolicy
      <4>5. QED
        BY <4>3, <4>4
    <3>2. CASE q # p
      <4>1. LostPolicy(q, policed[q])
        BY <1>1, <2>1, <2>3, <3>2 DEF LostPolicies
      <4>2. QED
        BY <1>1, <4>1 DEF LostPolicy
    <3>3. QED
      BY <3>1, <3>2
  <2>4. QED
    BY <1>1, <2>2, <2>3 DEF LostPolicies
<1>8. QED
  BY <1>4, <1>5, <1>6, <1>7 DEF LimitInv

LEMMA PolicyLimits ==
    ASSUME TypeOK, LimitInv, NEW p \in Ports, PolicyChanged(p)
    PROVE  LimitInv'
<1> USE DEF host, known, neutron, agent, Current, Setting, Sets, Clearing, Waiting, Pending,
            Awaited, Owned, Seen, Clean, TypeOK
<1>1. /\ UNCHANGED <<setup, host, owner, rate, neutron, updated, known, registered,
                     policed, loop, overlooked>>
      /\ p \in told /\ told' = told \ {p} /\ LockFree /\ op["rpc"] = Idle
      /\ op' = IF policed[p] # None
               THEN [op EXCEPT !["rpc"] = SetCall(p, policed[p], want[p])]
               ELSE op
  BY DEF PolicyChanged, Call
<1>2. want[p] > 0 /\ \A t \in Threads : ~Setting(t)
  BY <1>1 DEF LimitInv, NewsKept, LockFree
<1>3. /\ Current' = Current /\ Owned' = Owned
      /\ op'["loop"] = op["loop"]
  BY <1>1 DEF Threads
<1>4. LoopShape' /\ BoundVfs' /\ PolicedKnown' /\ DevicesKnown'
  BY <1>1, <1>3 DEF LimitInv, LoopShape, BoundVfs, PolicedKnown, DevicesKnown
<1>5. ASSUME Leftovers, \A q : Sets("loop", q)' <=> Sets("loop", q),
             Clearing("loop")' <=> Clearing("loop")
      PROVE  Leftovers'
  BY <1>1, <1>3, <1>5 DEF Leftovers, OwnedLimits, FreeLimits, LostPolicies, LostPolicy
<1>6. CASE policed[p] = None
  <2>1. SettingOK' /\ ClearingOK' /\ Leftovers'
    BY <1>1, <1>5, <1>6 DEF LimitInv, SettingOK, ClearingOK
  <2>2. NewsKept'
    BY <1>1, <1>3, <1>6 DEF LimitInv, NewsKept
  <2>3. \A d \in Owned : d[1] = p => d[2] # None
    BY ESwitchAssumption DEF Devices, Loops
  <2>4. LimitKept'
    BY <1>1, <1>2, <1>3, <1>6, <2>3 DEF LimitInv, NewsKept, LimitKept
  <2>5. QED
    BY <1>4, <2>1, <2>2, <2>4 DEF LimitInv
<1>7. CASE policed[p] # None
  <2> DEFINE s == policed[p]
  <2>1. /\ op'["rpc"] = [pc |-> "exists", port |-> p, slot |-> s, kbps |-> want[p]]
        /\ \A t \in Threads : t # "rpc" => op'[t] = op[t]
    BY <1>1, <1>7 DEF SetCall, Threads
  <2>2. s \in Slots
    BY <1>7
  <2>3. SettingOK'
    BY <1>1, <1>2, <2>1, <2>2 DEF LimitInv, SettingOK, Threads
  <2>4. ClearingOK'
    BY <1>1, <1>3, <2>1 DEF LimitInv, ClearingOK
  <2>5. NewsKept'
    BY <1>1, <1>3 DEF LimitInv, NewsKept
  <2>6. LimitKept'
    <3>1. ASSUME NEW d \in Owned, d[1] = p, ~ Waiting(d)
          PROVE  Sets("rpc", d)' /\ op'["rpc"].kbps = want[p]
      <4>1. d[2] = s
        BY <1>2, <3>1 DEF LimitInv, NewsKept
      <4>2. QED
        BY <2>1, <3>1, <4>1
    <3>2. \A d \in Owned : d[1] # p => \A t \in Threads : ~ Sets(t, d)'
      BY <1>2, <2>1
    <3>3. QED
      BY <1>1, <1>2, <1>3, <3>1, <3>2 DEF LimitInv, LimitKept, Threads
  <2>7. Leftovers'
    BY <1>3, <1>5 DEF LimitInv
  <2>8. QED
    BY <1>4, <2>3, <2>4, <2>5, <2>6, <2>7 DEF LimitInv
<1>8. QED
  BY <1>6, <1>7

(* The steps that look at the device and its VFs leave limits alone. *)
LEMMA LookLimits ==
    ASSUME TypeOK, LimitInv, LookForDevice \/ ScanVfs \/ CountVfs \/ ReadAssigned
    PROVE  LimitInv'
<1> USE DEF host, known, neutron, agent, Current, Setting, Sets, Clearing, Waiting, Pending,
            Awaited, Owned, Seen, Clean, TypeOK
<1>1. UNCHANGED <<setup, host, owner, rate, neutron, told, registered, policed, op,
                  overlooked>>
  BY DEF LookForDevice, ScanVfs, CountVfs, ReadAssigned
<1>2. /\ loop.pc # "treat" /\ loop'.pc # "treat"
      /\ loop'.curr = loop.curr /\ loop'.todo = loop.todo /\ loop'.gone = loop.gone
      /\ loop'.resync = loop.resync
      /\ updated' \cup loop'.news = updated \cup loop.news
  <2>1. CASE LookForDevice
    BY <2>1 DEF LookForDevice, LimitInv, LoopShape, Loops
  <2>2. CASE ScanVfs
    BY <2>2 DEF ScanVfs, Loops
  <2>3. CASE CountVfs
    BY <2>3 DEF CountVfs, Loops
  <2>4. CASE ReadAssigned
    BY <2>4 DEF ReadAssigned, Loops
  <2>5. QED
    BY <2>1, <2>2, <2>3, <2>4
<1>3. LoopShape'
  <2>1. /\ loop'.pc = "look" => loop'.news = {}
        /\ loop'.pc \in {"scan", "count"} => switch' = Unknown
    BY DEF LookForDevice, ScanVfs, CountVfs, ReadAssigned, LimitInv, LoopShape, Loops
  <2>2. QED
    BY <1>1, <1>2, <2>1 DEF LimitInv, LoopShape
<1>4. Current' = Current /\ Owned' = Owned /\ Seen' = Seen
      /\ \A d : Waiting(d)' <=> Waiting(d)
  BY <1>1, <1>2
<1>5. BoundVfs' /\ PolicedKnown' /\ SettingOK'
  BY <1>1, <1>2, <1>4 DEF LimitInv, BoundVfs, PolicedKnown, SettingOK
<1>6. slotMap \subseteq slotMap'
  BY DEF LookForDevice, ScanVfs, CountVfs, ReadAssigned, Manage
<1>7. ClearingOK'
  BY <1>1, <1>2, <1>4, <1>6 DEF LimitInv, ClearingOK
<1>8. NewsKept' /\ LimitKept' /\ Leftovers'
  BY <1>1, <1>2, <1>4 DEF LimitInv, NewsKept, LimitKept, Leftovers, OwnedLimits, FreeLimits,
                          LostPolicies, LostPolicy
<1>9. DevicesKnown'
  <2>1. switch' = switch \/ Seen = {}
    <3>1. CASE CountVfs
      <4>1. switch = Unknown
        BY <3>1 DEF CountVfs, LimitInv, LoopShape
      <4>2. Seen \subseteq Devices
        BY DEF Loops
      <4>3. QED
        BY <4>1, <4>2, ESwitchAssumption DEF LimitInv, DevicesKnown, Unknown, Devices
    <3>2. CASE LookForDevice
      BY <3>2 DEF LookForDevice, LimitInv, DevicesKnown
    <3>3. QED
      BY <3>1, <3>2 DEF ScanVfs, ReadAssigned
  <2>2. \A d \in Seen : d[2] \in switch' /\ (d[1] # None => bound[d[1]] = d[2])
    BY <2>1 DEF LimitInv, DevicesKnown
  <2>3. ASSUME loop'.pc = "macs"
        PROVE  /\ loop'.seen \subseteq switch'
               /\ \A d \in registered :
                     d[1] # None /\ owner[d[2]] = d[1] => d[2] \in loop'.seen
    <3>1. ReadAssigned
      BY <2>3 DEF LookForDevice, ScanVfs, CountVfs, Loops
    <3>2. loop'.seen = {s \in switch \ Unknown : Assigned(s)} /\ switch' = switch
      BY <3>1 DEF ReadAssigned, Loops
    <3>3. ASSUME NEW d \in registered, d[1] # None, owner[d[2]] = d[1]
          PROVE  d[2] \in loop'.seen
      <4>1. d[2] \in switch \ Unknown /\ pf
        BY <3>3, ESwitchAssumption DEF LimitInv, DevicesKnown, Devices, Unknown
      <4>2. Assigned(d[2])
        BY <3>3, <4>1 DEF Assigned
      <4>3. QED
        BY <3>2, <4>1, <4>2
    <3>4. QED
      BY <3>2, <3>3
  <2>4. QED
    BY <1>1, <1>2, <1>4, <2>2, <2>3 DEF LimitInv, DevicesKnown
<1>10. QED
  BY <1>3, <1>5, <1>7, <1>8, <1>9 DEF LimitInv

LEMMA ReadMacsLimits ==
    ASSUME TypeOK, LimitInv, ReadMacs
    PROVE  LimitInv'
<1> USE DEF host, known, neutron, agent, Current, Setting, Sets, Clearing, Waiting, Pending,
            Awaited, Owned, Seen, TypeOK
<1>1. /\ UNCHANGED <<setup, host, owner, rate, neutron, told, updated, known,
                     registered, policed, op>>
      /\ loop.pc = "macs" /\ (pf \/ loop.seen = {})
  BY DEF ReadMacs
<1>2. /\ loop'.pc = "treat" /\ loop'.curr = Found
      /\ loop'.todo \subseteq New /\ (loop'.resync \/ loop'.todo = New)
      /\ loop'.todo = {} \/ ~loop'.resync
      /\ loop'.gone = registered \ Found
  BY MacsRead
<1>3. LoopShape'
  BY <1>1, <1>2 DEF LoopShape, New
<1>4. /\ op["loop"] = Idle /\ ~ Setting("loop") /\ ~ Clearing("loop")
      /\ op["loop"].pc # "reset" /\ ~ loop.resync /\ loop.todo = {}
      /\ "loop" \in Threads /\ Seen = registered /\ Seen' = registered \cup Found
  BY <1>1, <1>2 DEF LimitInv, LoopShape, Idle, Threads
<1>5. \A d \in Found : /\ d[2] \in loop.seen /\ d[2] \in switch /\ d[2] \in vfs
                       /\ d[1] = owner[d[2]] /\ d[2] \in Slots /\ d = <<d[1], d[2]>>
  BY <1>1 DEF Found, LimitInv, DevicesKnown
<1>6. ASSUME NEW d \in registered, d[1] # None, owner[d[2]] = d[1]
      PROVE  d \in Found
  <2>1. d[2] \in loop.seen /\ d[2] \in vfs /\ d = <<owner[d[2]], d[2]>>
    BY <1>1, <1>6 DEF LimitInv, DevicesKnown, Devices
  <2>2. QED
    BY <2>1 DEF Found
<1>7. BoundVfs'
  BY <1>1 DEF LimitInv, BoundVfs
<1>8. DevicesKnown'
  <2>1. ~ pf => Found = {} /\ registered = {}
    BY <1>1 DEF Found, LimitInv, DevicesKnown
  <2>2. \A d \in Found : d[2] \in switch /\ (d[1] # None => bound[d[1]] = d[2])
    BY <1>5 DEF LimitInv, BoundVfs
  <2>3. \A d \in registered : d[2] \in switch /\ (d[1] # None => bound[d[1]] = d[2])
    BY DEF LimitInv, DevicesKnown
  <2>4. \A d \in loop'.gone : d[1] # None => owner[d[2]] # d[1]
    BY <1>2, <1>6
  <2>5. QED
    BY <1>1, <1>2, <2>1, <2>2, <2>3, <2>4 DEF LimitInv, DevicesKnown
<1>9. /\ overlooked' \subseteq overlooked
      /\ \A d \in overlooked : d \in overlooked'
            \/ (d \in Found /\ d[1] # None /\ policed[d[1]] = d[2])
  BY MacsRead DEF WithPolicy
<1>10. PolicedKnown'
  <2>1. ASSUME NEW p \in Ports, policed[p] # None
        PROVE  <<p, policed[p]>> \in Found \cup loop'.gone \cup overlooked'
    BY <1>1, <1>2, <1>9, <2>1 DEF LimitInv, PolicedKnown, LoopShape
  <2>2. ~ loop'.resync => loop'.curr \ loop'.todo \subseteq registered
    BY <1>2 DEF New
  <2>3. QED
    BY <1>1, <1>2, <2>1, <2>2 DEF LimitInv, PolicedKnown
<1>11. SettingOK'
  BY <1>1, <1>4 DEF LimitInv, SettingOK
<1>12. ClearingOK'
  BY <1>1, <1>4 DEF LimitInv, ClearingOK
<1>13. ASSUME NEW d \in Owned', ~ Waiting(d)'
       PROVE  d \in Owned /\ ~ Waiting(d)
  BY <1>1, <1>2, <1>4, <1>13 DEF New
<1>14. NewsKept'
  BY <1>1, <1>13 DEF LimitInv, NewsKept
<1>15. ASSUME ~ setup.rough, NEW p \in Ports, policed[p] # None, want[p] = 0
       PROVE  LostPolicy(p, policed[p])'
  <2> DEFINE d == <<p, policed[p]>>
  <2>1. /\ d \in registered \cup overlooked /\ p # None /\ policed[p] \in Slots
        /\ LostPolicy(p, policed[p])
    BY <1>1, <1>15, ESwitchAssumption
       DEF LimitInv, PolicedKnown, LoopShape, Leftovers, LostPolicies
  <2>2. CASE d \notin registered /\ d \notin Found
    <3>1. d \in overlooked'
      BY <1>9, <2>1, <2>2
    <3>2. d \notin Seen'
      BY <1>4, <2>2
    <3>3. QED
      BY <1>1, <3>1, <3>2 DEF LostPolicy
  <2>3. CASE d \notin registered /\ d \in Found
    <3>1. owner[policed[p]] = p /\ d \in New
      BY <1>5, <2>3 DEF New
    <3>2. QED
      BY <1>1, <1>2, <1>4, <2>3, <3>1 DEF LostPolicy
  <2>4. CASE d \in registered
    <3>1. owner[policed[p]] = p /\ p \in updated \cup loop.news
      BY <1>1, <1>4, <2>1, <2>4 DEF LostPolicy
    <3>2. d \in Found
      BY <1>6, <2>1, <2>4, <3>1
    <3>3. p \in loop.news => d \in New
      BY <3>2 DEF New
    <3>4. QED
      BY <1>1, <1>2, <1>4, <3>1, <3>2, <3>3 DEF LostPolicy
  <2>5. QED
    BY <2>2, <2>3, <2>4
<1>16. LimitKept'
  <2>1. ASSUME NEW d \in Owned', ~ Waiting(d)', ~ setup.rough, Clean(d[2])', want[d[1]] = 0
        PROVE  Clean(d[2])
    <3>1. /\ d[1] \in Ports /\ d[2] \in Slots /\ owner[d[2]] = d[1] /\ d \in Found
          /\ d \in Owned /\ ~ Waiting(d)
      BY <1>1, <1>2, <1>5, <1>13, <2>1, ESwitchAssumption
    <3>2. policed[d[1]] # d[2]
      <4>1. SUFFICES ASSUME policed[d[1]] = d[2]
                     PROVE  FALSE
        OBVIOUS
      <4>2. policed[d[1]] # None /\ d[1] # None /\ d = <<d[1], d[2]>>
        BY <1>5, <3>1, <4>1, ESwitchAssumption
      <4>3. LostPolicy(d[1], d[2])
        BY <2>1, <3>1, <4>1, <4>2 DEF LimitInv, Leftovers, LostPolicies
      <4>4. QED
        BY <1>1, <1>4, <3>1, <4>2, <4>3 DEF LostPolicy
    <3>3. QED
      BY <1>5, <1>9, <2>1, <3>1, <3>2 DEF Clean
  <2>2. ASSUME NEW d \in Owned', want[d[1]] > 0 \/ (~ setup.rough /\ Clean(d[2])'),
               ~ Waiting(d)'
        PROVE  want[d[1]] > 0 \/ (~ setup.rough /\ Clean(d[2]))
    <3>1. d[1] \in Ports
      BY <1>1, <1>2, <1>5, ESwitchAssumption
    <3>2. want[d[1]] > 0 \/ want[d[1]] = 0
      <4>1. want[d[1]] \in Nat
        BY <3>1, ESwitchAssumption
      <4>2. QED
        BY <4>1
    <3>3. CASE want[d[1]] = 0
      <4>1. ~ setup.rough /\ Clean(d[2])'
        BY <2>2, <3>3
      <4>2. Clean(d[2])
        BY <2>1, <2>2, <3>3, <4>1
      <4>3. QED
        BY <4>1, <4>2
    <3>4. QED
      BY <3>2, <3>3
  <2>3. ASSUME NEW d \in Owned', want[d[1]] > 0 \/ (~ setup.rough /\ Clean(d[2])'),
               ~ Waiting(d)'
        PROVE  \/ d[1] \in told
               \/ \E t \in Threads : Sets(t, d) /\ op[t].kbps = want[d[1]]
               \/ rate[d[2]] = Mbps(want[d[1]]) /\ \A t \in Threads : ~Sets(t, d)
    <3>1. d \in Owned /\ ~ Waiting(d)
      BY <1>13, <2>3
    <3>2. want[d[1]] > 0 \/ (~ setup.rough /\ Clean(d[2]))
      BY <2>2, <2>3
    <3>3. QED
      BY <3>1, <3>2 DEF LimitInv, LimitKept
  <2>4. QED
    BY <1>1, <2>3 DEF LimitKept
<1>17. Leftovers'
  <2> SUFFICES ASSUME ~ setup.rough
               PROVE  OwnedLimits' /\ FreeLimits' /\ LostPolicies'
    BY <1>1 DEF Leftovers
  <2>1. OwnedLimits /\ FreeLimits
    BY DEF LimitInv, Leftovers
  <2>2. ASSUME NEW s \in Slots, Clean(s)', ~ Clean(s)
        PROVE  owner[s] # None /\ policed[owner[s]] = s
    BY <1>5, <1>9, <2>2 DEF Clean
  <2>3. OwnedLimits' /\ FreeLimits'
    BY <1>1, <2>1, <2>2 DEF OwnedLimits, FreeLimits
  <2>4. LostPolicies'
    BY <1>1, <1>15 DEF LostPolicies
  <2>5. QED
    BY <2>3, <2>4
<1>18. QED
  BY <1>3, <1>7, <1>8, <1>10, <1>11, <1>12, <1>14, <1>16, <1>17 DEF LimitInv

(* The loop forgets its devices only when no command of it is under way:   *)
(* each with a policy is overlooked from then on.                          *)
LEMMA ForgetLimits ==
    ASSUME TypeOK, LimitInv, ForgetDevices, op["loop"] = Idle,
           UNCHANGED <<setup, host, owner, rate, neutron, told, known, policed, op>>,
           loop' = AtPoint("look"), updated \subseteq updated'
    PROVE  LimitInv'
<1> USE DEF host, known, neutron, agent, Current, Setting, Sets, Clearing, Waiting, Pending,
            Awaited, Owned, Seen, TypeOK
<1>1. /\ registered' = {} /\ loop'.pc = "look" /\ loop'.news = {} /\ loop'.curr = {}
      /\ loop'.todo = {} /\ loop'.gone = {} /\ loop'.resync = FALSE
      /\ overlooked' = overlooked \cup WithPolicy(Seen)
  BY DEF ForgetDevices, AtPoint
<1>2. Current' = {} /\ Owned' = {} /\ Seen' = {}
      /\ ~ Setting("loop") /\ ~ Clearing("loop") /\ op["loop"].pc # "reset"
  BY <1>1 DEF Idle
<1>3. ASSUME NEW p \in Ports, policed[p] # None
      PROVE  <<p, policed[p]>> \in overlooked'
  <2>1. <<p, policed[p]>> \in Seen \cup overlooked
    BY <1>3 DEF LimitInv, PolicedKnown, LoopShape
  <2>2. QED
    BY <1>1, <1>3, <2>1, ESwitchAssumption DEF WithPolicy
<1>4. LoopShape' /\ BoundVfs' /\ DevicesKnown' /\ PolicedKnown'
  BY <1>1, <1>2, <1>3 DEF LimitInv, LoopShape, BoundVfs, DevicesKnown, PolicedKnown
<1>5. SettingOK' /\ ClearingOK'
  BY <1>1, <1>2 DEF LimitInv, SettingOK, ClearingOK
<1>6. NewsKept' /\ LimitKept'
  BY <1>2 DEF LimitInv, NewsKept, LimitKept
<1>7. Leftovers'
  <2>1. \A s \in Slots : Clean(s)' => Clean(s)
    BY <1>1 DEF Clean
  <2>2. ~ setup.rough => OwnedLimits' /\ FreeLimits'
    BY <1>2, <2>1 DEF LimitInv, Leftovers, OwnedLimits, FreeLimits
  <2>3. LostPolicies'
    BY <1>2, <1>3 DEF LostPolicies, LostPolicy
  <2>4. QED
    BY <2>2, <2>3 DEF Leftovers
<1>8. QED
  BY <1>4, <1>5, <1>6, <1>7 DEF LimitInv

LEMMA IterationErrorLimits ==
    ASSUME TypeOK, LimitInv, IterationError
    PROVE  LimitInv'
<1>1. op["loop"] = Idle
  BY DEF IterationError, LimitInv, LoopShape
<1>2. QED
  BY <1>1, ForgetLimits DEF IterationError

LEMMA EndLimits ==
    ASSUME TypeOK, LimitInv, EndIteration
    PROVE  LimitInv'
<1>1. CASE loop.resync
  BY <1>1, ForgetLimits DEF EndIteration
<1>2. CASE ~ loop.resync
  <2> USE DEF host, known, neutron, agent, Current, Setting, Sets, Clearing, Waiting,
              Pending, Awaited, Owned, Seen, Clean, TypeOK
  <2>1. /\ UNCHANGED <<setup, host, owner, rate, neutron, told, updated, known, policed, op,
                       overlooked>>
        /\ loop.pc = "treat" /\ op["loop"] = Idle /\ loop.todo = {} /\ loop.gone = {}
        /\ registered' = loop.curr
        /\ loop'.pc = "look" /\ loop'.news = {} /\ loop'.curr = {} /\ loop'.todo = {}
        /\ loop'.gone = {} /\ loop'.resync = FALSE
    BY <1>2 DEF EndIteration, AtPoint
  <2>2. ~ Setting("loop") /\ ~ Clearing("loop") /\ op["loop"].pc # "reset"
    BY <2>1 DEF Idle
  <2>3. Current' = Current /\ Owned' = Owned /\ Seen' \subseteq Seen
        /\ \A d : Waiting(d)' <=> Waiting(d)
    BY <1>2, <2>1
  <2>4. LoopShape' /\ BoundVfs' /\ DevicesKnown' /\ PolicedKnown'
    BY <1>2, <2>1, <2>3 DEF LimitInv, LoopShape, BoundVfs, DevicesKnown, PolicedKnown
  <2>5. SettingOK' /\ ClearingOK'
    BY <2>1, <2>2, <2>3 DEF LimitInv, SettingOK, ClearingOK
  <2>6. NewsKept'
    BY <2>1, <2>3 DEF LimitInv, NewsKept
  <2>7. LimitKept'
    BY <2>1, <2>3 DEF LimitInv, LimitKept
  <2>8. Leftovers'
    BY <1>2, <2>1, <2>3 DEF LimitInv, Leftovers, OwnedLimits, FreeLimits, LostPolicies,
                            LostPolicy
  <2>9. QED
    BY <2>4, <2>5, <2>6, <2>7, <2>8 DEF LimitInv
<1>3. QED
  BY <1>1, <1>2

(* A call to set a rate begins when no other one is under way. *)
LEMMA Unlocked ==
    ASSUME LockFree, NEW t \in Threads
    PROVE  ~ Setting(t)
BY DEF LockFree, Setting

LEMMA TreatDeviceLimits ==
    ASSUME TypeOK, LimitInv, NEW d \in Devices, TreatDevice(d)
    PROVE  LimitInv'
<1> USE DEF host, known, neutron, agent, Current, Sets, Clearing, Waiting, Pending,
            Awaited, Owned, Seen, Clean, TypeOK
<1> DEFINE p == d[1]
           calls == p # None /\ (want[p] > 0 \/ policed[p] # None)
<1>1. /\ UNCHANGED <<setup, host, owner, rate, neutron, told, updated, known, registered,
                     overlooked>>
      /\ loop.pc = "treat" /\ op["loop"] = Idle /\ d \in loop.todo /\ LockFree
      /\ loop'.pc = "treat" /\ loop'.news = loop.news /\ loop'.curr = loop.curr
      /\ loop'.gone = loop.gone /\ loop'.todo = loop.todo \ {d}
      /\ loop.resync => loop'.resync
  <2>1. PICK failed \in Failed :
           loop' = [loop EXCEPT !.todo = @ \ {d},
                      !.resync = @ \/ (p # None /\ ResyncNeeded(p, failed))]
    BY DEF TreatDevice
  <2>2. QED
    BY <2>1 DEF TreatDevice, Loops
<1>2. /\ "loop" \in Threads
      /\ \A t \in Threads : ~ Setting(t)
      /\ d \in loop.curr /\ d \in Current
      /\ p # None => /\ p \in Ports /\ bound[p] = d[2] /\ d = <<p, bound[p]>>
                     /\ want[p] \in Nat
      /\ d[2] \in Slots /\ d[2] # None
  <2>1. "loop" \in Threads /\ \A t \in Threads : ~ Setting(t)
    BY <1>1, Unlocked DEF Threads
  <2>2. d \in loop.curr /\ d \in Current /\ d \in Seen
    BY <1>1 DEF LimitInv, LoopShape
  <2>3. d[1] \in Ports \cup {None} /\ d[2] \in Slots /\ d = <<d[1], d[2]>>
    BY DEF Devices
  <2>4. d[1] # None => bound[d[1]] = d[2]
    BY <2>2 DEF LimitInv, DevicesKnown
  <2>5. None \notin Ports /\ None \notin Slots /\ \A q \in Ports : want[q] \in Nat
    BY ESwitchAssumption
  <2>6. QED
    BY <2>1, <2>2, <2>3, <2>4, <2>5
<1>3. /\ calls => op' = [op EXCEPT !["loop"] = SetCall(p, bound[p], want[p])]
      /\ calls => policed' = [policed EXCEPT ![p] = IF want[p] > 0 THEN bound[p] ELSE None]
      /\ ~ calls => op' = op /\ policed' = policed
  BY DEF TreatDevice, Call
<1> HIDE DEF calls
<1>4. /\ calls => op'["loop"] = [pc |-> "exists", port |-> p, slot |-> d[2],
                                 kbps |-> want[p]]
      /\ \A t \in Threads : t # "loop" => op'[t] = op[t]
  BY <1>2, <1>3 DEF SetCall, calls
<1>5. /\ calls /\ want[p] > 0 => policed'[p] = d[2]
      /\ calls /\ want[p] = 0 => policed'[p] = None
      /\ ~ calls /\ p # None => policed[p] = None /\ want[p] = 0
      /\ ~ calls => policed' = policed
      /\ \A q \in Ports : q # p => policed'[q] = policed[q]
      /\ calls => p \in Ports /\ p # None
  BY <1>2, <1>3 DEF calls
<1>6. Current' = Current /\ Owned' = Owned /\ Seen' = Seen
  BY <1>1
<1>7. LoopShape' /\ BoundVfs' /\ DevicesKnown'
  BY <1>1, <1>6 DEF LimitInv, LoopShape, BoundVfs, DevicesKnown
<1>8. PolicedKnown'
  <2>1. ASSUME NEW q \in Ports, policed'[q] # None
        PROVE  <<q, policed'[q]>> \in Current \cup loop.gone \cup overlooked
    BY <1>2, <1>5, <2>1 DEF LimitInv, PolicedKnown
  <2>2. ASSUME NEW e \in registered \cup loop.curr, e[1] # None,
               e = d \/ policed[e[1]] \in {None, e[2]}
        PROVE  policed'[e[1]] \in {None, e[2]}
    <3>1. e[1] \in Ports /\ e[2] = bound[e[1]]
      BY <2>2 DEF LimitInv, DevicesKnown, Devices, Loops
    <3>2. QED
      BY <1>2, <1>5, <2>2, <3>1
  <2>3. QED
    BY <1>1, <1>6, <2>1, <2>2 DEF LimitInv, PolicedKnown
<1>9. \A t \in Threads : Setting(t)' => t = "loop" /\ calls
  BY <1>2, <1>3, <1>4 DEF Setting
<1>10. ~ Clearing("loop")' /\ ~ Clearing("rpc")' /\ op'["loop"].pc # "reset"
  BY <1>1, <1>3, <1>4 DEF LimitInv, ClearingOK, Idle, Threads
<1>11. SettingOK'
  <2>1. calls => /\ p \in Ports /\ d[2] \in Slots
                 /\ (want[p] > 0 => policed'[p] = d[2])
    BY <1>2, <1>5
  <2>2. Setting("loop")' => <<op'["loop"].port, op'["loop"].slot>> \in loop'.curr
    BY <1>1, <1>2, <1>4, <1>9, <1>5
  <2>3. \A t \in Threads : op'[t].pc = "idle" => op'[t] = Idle
    BY <1>3, <1>4 DEF LimitInv, SettingOK
  <2>4. \A t, u \in Threads : Setting(t)' /\ Setting(u)' => t = u
    BY <1>9
  <2>5. ASSUME NEW t \in Threads, Setting(t)'
        PROVE  /\ op'[t].port = p /\ op'[t].slot = d[2] /\ op'[t].pc = "exists"
               /\ op'[t].kbps = want[p] /\ calls
    BY <1>4, <1>9, <2>5
  <2>6. QED
    BY <1>1, <2>1, <2>2, <2>3, <2>4, <2>5 DEF SettingOK
<1>12. ClearingOK'
  BY <1>10 DEF ClearingOK
<1>13. ASSUME NEW e \in Owned, Waiting(e), ~ Waiting(e)'
       PROVE  e = d /\ p # None /\ owner[d[2]] = p
  BY <1>1, <1>13
<1>14. NewsKept'
  <2>1. ASSUME NEW e \in Owned, want[e[1]] > 0, policed'[e[1]] # e[2]
        PROVE  Waiting(e)'
    <3>1. e[1] \in Ports /\ e[2] = bound[e[1]] /\ e = <<e[1], e[2]>>
      BY <2>1 DEF LimitInv, DevicesKnown, Devices, Loops
    <3>2. e # d
      BY <1>5, <2>1, <3>1
    <3>3. policed[e[1]] # e[2]
      BY <1>2, <1>5, <2>1, <3>1, <3>2
    <3>4. QED
      BY <1>13, <2>1, <3>2, <3>3 DEF LimitInv, NewsKept
  <2>2. QED
    BY <1>1, <1>6, <2>1 DEF LimitInv, NewsKept
<1>15. LimitKept'
  <2>1. ASSUME NEW e \in Owned, want[e[1]] > 0 \/ (~ setup.rough /\ Clean(e[2]))
        PROVE  \/ e[1] \in told \/ Waiting(e)'
               \/ \E t \in Threads : Sets(t, e)' /\ op'[t].kbps = want[e[1]]
               \/ /\ rate[e[2]] = Mbps(want[e[1]])
                  /\ \A t \in Threads : ~ Sets(t, e)'
    <3>1. CASE e = d /\ calls
      BY <1>2, <1>4, <3>1 DEF Setting
    <3>2. CASE e = d /\ ~ calls
      <4>1. want[p] = 0 /\ policed[p] = None /\ ~ setup.rough /\ p # None /\ Clean(d[2])
            /\ owner[d[2]] = p
        BY <1>5, <2>1, <3>2
      <4>2. rate[d[2]] = 0
        BY <1>2, <4>1 DEF LimitInv, Leftovers, OwnedLimits
      <4>3. QED
        BY <1>2, <1>9, <3>2, <4>1, <4>2, MbpsFacts
    <3>3. CASE e # d
      <4>1. e[1] # p
        BY <1>2, <2>1, <3>3 DEF LimitInv, DevicesKnown, Loops, Devices
      <4>2. \A t \in Threads : ~ Sets(t, e)'
        BY <1>4, <1>9, <4>1
      <4>3. QED
        BY <1>2, <1>13, <2>1, <3>3, <4>2 DEF LimitInv, LimitKept
    <3>4. QED
      BY <3>1, <3>2, <3>3
  <2>2. QED
    BY <1>1, <1>6, <2>1 DEF LimitKept
<1>16. Leftovers'
  <2> SUFFICES ASSUME ~ setup.rough
               PROVE  OwnedLimits' /\ FreeLimits' /\ LostPolicies'
    BY <1>1 DEF Leftovers
  <2>1. OwnedLimits /\ FreeLimits /\ LostPolicies
    BY DEF LimitInv, Leftovers
  <2>2. OwnedLimits'
    <3>1. ASSUME NEW s \in Slots, Clean(s), rate[s] # 0, owner[s] # None
          PROVE  \/ policed'[owner[s]] = s
                 \/ Sets("loop", <<owner[s], s>>)' /\ op'["loop"].kbps = 0
      <4>1. policed[owner[s]] = s /\ owner[s] \in Ports
        BY <1>2, <2>1, <3>1 DEF OwnedLimits
      <4>2. CASE owner[s] = p
        <5>1. d[2] = s /\ calls
          BY <1>2, <1>5, <3>1, <4>1, <4>2, ESwitchAssumption DEF LimitInv, BoundVfs
        <5>2. CASE want[p] > 0
          BY <1>5, <4>2, <5>1, <5>2
        <5>3. CASE want[p] = 0
          <6>1. /\ op'["loop"].pc = "exists" /\ op'["loop"].port = p
                /\ op'["loop"].slot = s /\ op'["loop"].kbps = 0
            BY <1>4, <5>1, <5>3
          <6>2. owner'[s] = p
            BY <1>1, <4>2
          <6>3. Sets("loop", <<owner[s], s>>)'
            BY <6>1, <6>2 DEF Setting
          <6>4. QED
            BY <6>1, <6>3
        <5>4. QED
          BY <1>2, <1>5, <5>1, <5>2, <5>3
      <4>3. QED
        BY <1>5, <4>1, <4>2
    <3>2. QED
      BY <1>1, <3>1 DEF OwnedLimits
  <2>3. FreeLimits'
    <3>1. ASSUME NEW s \in Slots, Clean(s), rate[s] # 0, owner[s] = None
          PROVE  \E q \in Ports : policed'[q] = s
      <4>1. PICK q \in Ports : policed[q] = s
        BY <1>1, <2>1, <3>1 DEF FreeLimits, Idle
      <4>2. <<q, s>> \in Seen
        BY <1>6, <3>1, <4>1, ESwitchAssumption DEF LimitInv, PolicedKnown, LoopShape
      <4>3. CASE q = p
        <5>1. s = d[2] /\ calls
          BY <1>2, <1>5, <4>1, <4>2, <4>3, ESwitchAssumption DEF LimitInv, DevicesKnown
        <5>2. want[p] # 0
          BY <1>1, <1>2, <2>1, <3>1, <4>1, <4>2, <4>3, <5>1, ESwitchAssumption
             DEF LostPolicies, LostPolicy
        <5>3. QED
          BY <1>2, <1>5, <4>3, <5>1, <5>2
      <4>4. QED
        BY <1>5, <4>1, <4>3
    <3>2. QED
      BY <1>1, <3>1 DEF FreeLimits
  <2>4. LostPolicies'
    <3>1. ASSUME NEW q \in Ports, policed'[q] # None, want[q] = 0
          PROVE  LostPolicy(q, policed[q])'
      <4>1. q # p /\ policed'[q] = policed[q]
        <5>1. q # None
          BY ESwitchAssumption
        <5>2. q # p
          BY <1>5, <3>1, <5>1
        <5>3. QED
          BY <1>5, <5>2
      <4>2. LostPolicy(q, policed[q])
        BY <2>1, <3>1, <4>1 DEF LostPolicies
      <4>3. QED
        BY <1>1, <1>2, <1>6, <4>1, <4>2 DEF LostPolicy
    <3>2. QED
      BY <1>1, <3>1 DEF LostPolicies
  <2>5. QED
    BY <2>2, <2>3, <2>4
<1>17. QED
  BY <1>7, <1>8, <1>11, <1>12, <1>14, <1>15, <1>16 DEF LimitInv

LEMMA ClearCall ==
    ASSUME NEW slot
    PROVE  LET call == [Idle EXCEPT !.pc = "clear", !.slot = slot]
           IN  /\ call.pc = "clear" /\ call.port = None
               /\ call.slot = slot /\ call.kbps = 0
BY DEF Idle

LEMMA TreatRemovedLimits ==
    ASSUME TypeOK, LimitInv, NEW d \in Devices, TreatRemoved(d)
    PROVE  LimitInv'
<1> USE DEF host, known, neutron, agent, Current, Sets, Waiting, Pending, Awaited,
            Owned, Seen, Clean, TypeOK
<1> DEFINE p == d[1]
<1>1. /\ UNCHANGED <<setup, host, owner, rate, neutron, told, updated, known, registered,
                     overlooked>>
      /\ loop.pc = "treat" /\ op["loop"] = Idle /\ loop.todo = {} /\ d \in loop.gone
      /\ loop'.pc = "treat" /\ loop'.news = loop.news /\ loop'.curr = loop.curr
      /\ loop'.gone = loop.gone \ {d} /\ loop'.todo = loop.todo
      /\ loop.resync => loop'.resync
  BY DEF TreatRemoved, Loops
<1>2. /\ "loop" \in Threads /\ ~ Setting("loop") /\ ~ Clearing("loop")
      /\ d \in registered /\ d \in Seen /\ d \notin Current
      /\ d[2] \in Slots /\ d[2] \in slotMap /\ d = <<p, d[2]>>
      /\ p # None => bound[p] = d[2] /\ owner[d[2]] # p /\ p \in Ports
      /\ p # None => policed[p] \in {None, d[2]}
  <2>1. "loop" \in Threads /\ ~ Setting("loop") /\ ~ Clearing("loop")
    BY <1>1 DEF Threads, Setting, Clearing, Idle
  <2>2. d \in registered /\ d \in Seen /\ d \notin Current
    BY <1>1 DEF LimitInv, LoopShape
  <2>3. d[1] \in Ports \cup {None} /\ d[2] \in Slots /\ d = <<d[1], d[2]>>
    BY DEF Devices
  <2>4. d[2] \in switch /\ (d[1] # None => bound[d[1]] = d[2] /\ owner[d[2]] # d[1])
    BY <1>1, <2>2 DEF LimitInv, DevicesKnown
  <2>5. d[2] \in slotMap
    BY <2>3, <2>4, ESwitchAssumption DEF Unknown
  <2>6. p # None => policed[p] \in {None, d[2]}
    BY <2>2 DEF LimitInv, PolicedKnown
  <2>7. QED
    BY <2>1, <2>2, <2>3, <2>4, <2>5, <2>6
<1> DEFINE policy == p # None /\ policed[p] # None
<1>3. /\ policy => op' = [op EXCEPT !["loop"] = [Idle EXCEPT !.pc = "clear",
                                                            !.slot = d[2]]]
      /\ policy => policed' = [policed EXCEPT ![p] = None]
      /\ ~ policy => op' = op /\ policed' = policed
  BY DEF TreatRemoved, Call
<1> HIDE DEF policy
<1>4. /\ policy => /\ op'["loop"].pc = "clear" /\ op'["loop"].port = None
                    /\ op'["loop"].slot = d[2] /\ op'["loop"].kbps = 0
                    /\ p \in Ports /\ policed[p] = d[2]
      /\ \A t \in Threads : t # "loop" => op'[t] = op[t]
      /\ \A q \in Ports : q # p => policed'[q] = policed[q]
      /\ p # None => policed'[p] = None
  <2>1. policy => op'["loop"] = [Idle EXCEPT !.pc = "clear", !.slot = d[2]]
    BY <1>2, <1>3
  <2>2. \A t \in Threads : t # "loop" => op'[t] = op[t]
    BY <1>2, <1>3
  <2>3. /\ \A q \in Ports : q # p => policed'[q] = policed[q]
        /\ p # None => policed'[p] = None
        /\ policy => p \in Ports /\ policed[p] = d[2]
    BY <1>2, <1>3 DEF policy
  <2>4. policy => /\ op'["loop"].pc = "clear" /\ op'["loop"].port = None
                  /\ op'["loop"].slot = d[2] /\ op'["loop"].kbps = 0
    BY <2>1, ClearCall
  <2>5. QED
    BY <2>2, <2>3, <2>4
<1>5. Current' = Current /\ Owned' = Owned /\ Seen' = Seen
  BY <1>1
<1>6. LoopShape' /\ BoundVfs' /\ DevicesKnown'
  BY <1>1, <1>5 DEF LimitInv, LoopShape, BoundVfs, DevicesKnown
<1>7. PolicedKnown'
  <2>1. ASSUME NEW q \in Ports, policed'[q] # None
        PROVE  <<q, policed'[q]>> \in Current \cup (loop.gone \ {d}) \cup overlooked
    <3>1. q # p /\ policed'[q] = policed[q]
      BY <1>4, <2>1, ESwitchAssumption
    <3>2. <<q, policed[q]>> # d
      BY <3>1
    <3>3. QED
      BY <2>1, <3>1, <3>2 DEF LimitInv, PolicedKnown
  <2>2. \A q \in Ports : policed'[q] \in {None, policed[q]}
    BY <1>4, ESwitchAssumption
  <2>3. ASSUME NEW e \in Devices, e[1] # None, policed[e[1]] \in {None, e[2]}
        PROVE  policed'[e[1]] \in {None, e[2]}
    BY <2>2, <2>3 DEF Devices
  <2>4. QED
    BY <1>1, <1>5, <2>1, <2>3 DEF LimitInv, PolicedKnown, Loops
<1>8. \A t \in Threads : Setting(t)' => t # "loop" /\ Setting(t) /\ op'[t] = op[t]
  BY <1>1, <1>2, <1>3, <1>4 DEF Setting, Idle
<1>9. SettingOK'
  <2>1. ASSUME NEW t \in Threads, Setting(t), owner[op[t].slot] = op[t].port, op[t].kbps > 0
        PROVE  policed'[op[t].port] = op[t].slot
    <3>1. op[t].port \in Ports /\ policed[op[t].port] = op[t].slot /\ op[t].slot \in Slots
      BY <2>1 DEF LimitInv, SettingOK
    <3>2. op[t].port # p
      BY <1>2, <2>1, <3>1, ESwitchAssumption
    <3>3. QED
      BY <1>4, <3>1, <3>2
  <2>2. ~ Setting("loop")'
    BY <1>2, <1>8
  <2>3. \A t \in Threads : op'[t].pc = "idle" => op'[t] = Idle
    BY <1>3, <1>4 DEF LimitInv, SettingOK
  <2>4. QED
    BY <1>1, <1>8, <2>1, <2>2, <2>3 DEF LimitInv, SettingOK
<1>10. ClearingOK'
  <2>1. ~ Clearing("rpc")'
    BY <1>4 DEF LimitInv, ClearingOK, Clearing, Threads
  <2>2. ~ policy => op'["loop"] = Idle
    BY <1>1, <1>3
  <2>3. QED
    BY <1>1, <1>2, <1>4, <2>1, <2>2 DEF ClearingOK, Clearing, Idle
<1>11. \A e \in Owned : e[1] # p
  BY <1>2 DEF LimitInv, DevicesKnown
<1>12. NewsKept'
  <2>1. ASSUME NEW e \in Owned
        PROVE  policed'[e[1]] = policed[e[1]]
    BY <1>4, <1>11, <2>1 DEF Devices, Loops
  <2>2. QED
    BY <1>1, <1>5, <2>1 DEF LimitInv, NewsKept
<1>13. LimitKept'
  BY <1>1, <1>2, <1>5, <1>8, <1>4 DEF LimitInv, LimitKept, Setting
<1>14. Leftovers'
  <2> SUFFICES ASSUME ~ setup.rough
               PROVE  OwnedLimits' /\ FreeLimits' /\ LostPolicies'
    BY <1>1 DEF Leftovers
  <2>1. OwnedLimits /\ FreeLimits /\ LostPolicies
    BY DEF LimitInv, Leftovers
  <2>2. ASSUME NEW s \in Slots, Clean(s), rate[s] # 0, owner[s] # None
        PROVE  policed'[owner[s]] = s
    <3>1. policed[owner[s]] = s /\ owner[s] \in Ports
      BY <1>2, <2>1, <2>2 DEF OwnedLimits
    <3>2. owner[s] # p
      BY <1>2, <2>2, <3>1 DEF LimitInv, BoundVfs
    <3>3. QED
      BY <1>4, <3>1, <3>2
  <2>3. ASSUME NEW s \in Slots, Clean(s), rate[s] # 0, owner[s] = None
        PROVE  \/ \E q \in Ports : policed'[q] = s
               \/ Clearing("loop")' /\ op'["loop"].slot = s
    <3>1. PICK q \in Ports : policed[q] = s
      BY <1>2, <2>1, <2>3 DEF FreeLimits
    <3>2. CASE q = p
      <4>1. policy /\ d[2] = s
        BY <1>2, <3>1, <3>2, ESwitchAssumption DEF policy
      <4>2. QED
        BY <1>4, <4>1 DEF Clearing
    <3>3. CASE q # p
      BY <1>4, <3>1, <3>3
    <3>4. QED
      BY <3>2, <3>3
  <2>4. ASSUME NEW q \in Ports, policed'[q] # None, want[q] = 0
        PROVE  LostPolicy(q, policed[q])'
    <3>1. policed'[q] = policed[q]
      BY <1>4, <2>4, ESwitchAssumption
    <3>2. LostPolicy(q, policed[q])
      BY <2>1, <2>4, <3>1 DEF LostPolicies
    <3>3. QED
      BY <1>1, <1>5, <3>1, <3>2 DEF LostPolicy
  <2>5. OwnedLimits' /\ FreeLimits'
    BY <1>1, <2>2, <2>3 DEF OwnedLimits, FreeLimits
  <2>6. LostPolicies'
    BY <1>1, <2>4 DEF LostPolicies
  <2>7. QED
    BY <2>5, <2>6
<1>15. QED
  BY <1>6, <1>7, <1>9, <1>10, <1>12, <1>13, <1>14 DEF LimitInv

LEMMA CheckDeviceLimits ==
    ASSUME TypeOK, LimitInv, NEW t \in Threads, CheckDevice(t)
    PROVE  LimitInv'
<1> USE DEF host, known, neutron, agent, Current, Sets, Waiting, Pending, Awaited,
            Owned, Seen, Clean, TypeOK
<1>1. UNCHANGED <<setup, host, owner, rate, neutron, told, updated, known, registered,
                  policed, loop, overlooked>>
  BY DEF CheckDevice, Quietly
<1>2. /\ Setting(t) /\ op[t].pc \in {"exists", "check"}
      /\ ~ Clearing(t) /\ op[t] # Idle
  BY DEF CheckDevice, Setting, Clearing, Idle
<1> DEFINE next == IF op[t].pc = "exists" THEN "check" ELSE "set"
<1>3. /\ PciDevice(op[t].slot) = op[t].port => op' = [op EXCEPT ![t].pc = next]
      /\ PciDevice(op[t].slot) # op[t].port => op' = [op EXCEPT ![t] = Idle]
  BY DEF CheckDevice, Call
<1>4. op[t] = [pc |-> op[t].pc, port |-> op[t].port, slot |-> op[t].slot,
               kbps |-> op[t].kbps]
  BY DEF Ops
<1>5. /\ PciDevice(op[t].slot) = op[t].port =>
            op'[t] = [pc |-> next, port |-> op[t].port, slot |-> op[t].slot,
                      kbps |-> op[t].kbps]
      /\ PciDevice(op[t].slot) # op[t].port => op'[t] = Idle
      /\ \A u \in Threads : u # t => op'[u] = op[u]
  BY <1>3, <1>4
<1>6. PciDevice(op[t].slot) = op[t].port => owner[op[t].slot] = op[t].port
  BY <1>2, ESwitchAssumption DEF PciDevice, LimitInv, SettingOK
<1>7. ASSUME NEW s \in Slots, owner[s] # None, Sets(t, <<owner[s], s>>), s \in switch
      PROVE  PciDevice(op[t].slot) = op[t].port
  BY <1>7, ESwitchAssumption DEF Unknown, PciDevice
<1>8. Current' = Current /\ Owned' = Owned /\ Seen' = Seen
  BY <1>1
<1>9. \A u \in Threads : /\ Clearing(u)' <=> Clearing(u)
                         /\ Clearing(u) => op'[u] = op[u]
  BY <1>2, <1>5 DEF Clearing, Idle
<1>10. \A u \in Threads : Setting(u)' => Setting(u) /\ op'[u].port = op[u].port
                          /\ op'[u].slot = op[u].slot /\ op'[u].kbps = op[u].kbps
  BY <1>2, <1>5 DEF Setting, Idle
<1>11. LoopShape' /\ BoundVfs' /\ DevicesKnown' /\ PolicedKnown'
  <2>1. loop.pc # "treat" => t # "loop"
    BY <1>2 DEF LimitInv, LoopShape
  <2>2. loop.pc # "treat" => op'["loop"] = op["loop"]
    BY <1>5, <2>1 DEF Threads
  <2>3. QED
    BY <1>1, <1>8, <2>2 DEF LimitInv, LoopShape, BoundVfs, DevicesKnown, PolicedKnown
<1>12. SettingOK'
  <2>1. ASSUME NEW u \in Threads, Setting(u)', op'[u].pc = "set"
        PROVE  owner[op[u].slot] = op[u].port
    BY <1>5, <1>6, <1>10, <2>1 DEF LimitInv, SettingOK, Idle
  <2>2. \A u \in Threads : op'[u].pc = "idle" => op'[u] = Idle
    BY <1>5 DEF LimitInv, SettingOK
  <2>3. Setting("loop")' => <<op'["loop"].port, op'["loop"].slot>> \in loop'.curr
    BY <1>1, <1>10 DEF LimitInv, SettingOK, Threads
  <2>4. QED
    BY <1>1, <1>10, <2>1, <2>2, <2>3 DEF LimitInv, SettingOK
<1>13. ClearingOK'
  BY <1>1, <1>8, <1>9 DEF LimitInv, ClearingOK, Threads, Clearing
<1>14. NewsKept'
  BY <1>1, <1>8 DEF LimitInv, NewsKept
<1>15. ASSUME NEW s \in Slots, s \in switch, owner[s] # None, NEW u \in Threads,
              Sets(u, <<owner[s], s>>)
       PROVE  Sets(u, <<owner[s], s>>)' /\ op'[u].kbps = op[u].kbps
  BY <1>1, <1>5, <1>7, <1>15 DEF Setting
<1>16. LimitKept'
  <2>1. \A e \in Owned : e[2] \in Slots /\ e[2] \in switch /\ owner[e[2]] # None
                         /\ e = <<owner[e[2]], e[2]>>
    BY DEF LimitInv, DevicesKnown, Devices, Loops
  <2>2. \A e \in Owned, u \in Threads :
           /\ Sets(u, e) => Sets(u, e)' /\ op'[u].kbps = op[u].kbps
           /\ Sets(u, e)' => Sets(u, e)
    BY <1>10, <1>15, <2>1
  <2>3. QED
    BY <1>1, <1>8, <2>2 DEF LimitInv, LimitKept
<1>17. Leftovers'
  <2>1. ASSUME NEW s \in Slots, Sets("loop", <<owner[s], s>>), owner[s] # None
        PROVE  Sets("loop", <<owner[s], s>>)' /\ op'["loop"].kbps = op["loop"].kbps
    <3>1. s \in switch
      BY <2>1 DEF LimitInv, SettingOK, BoundVfs, DevicesKnown
    <3>2. QED
      BY <1>15, <2>1, <3>1 DEF Threads
  <2>2. QED
    BY <1>1, <1>9, <2>1 DEF LimitInv, Leftovers, OwnedLimits, FreeLimits, LostPolicies,
                            LostPolicy, Threads
<1>18. QED
  BY <1>11, <1>12, <1>13, <1>14, <1>16, <1>17 DEF LimitInv

LEMMA CheckReleasedLimits ==
    ASSUME TypeOK, LimitInv, NEW t \in Threads, CheckReleased(t)
    PROVE  LimitInv'
<1> USE DEF host, known, neutron, agent, Current, Sets, Waiting, Pending, Awaited,
            Owned, Seen, Clean, TypeOK
<1>1. UNCHANGED <<setup, host, owner, rate, neutron, told, updated, known, registered,
                  policed, loop, overlooked>>
  BY DEF CheckReleased, Quietly
<1>2. /\ t = "loop" /\ "loop" \in Threads /\ op["loop"].pc = "clear"
      /\ Clearing("loop") /\ ~ Setting("loop")
  BY DEF CheckReleased, LimitInv, ClearingOK, Clearing, Setting, Threads
<1>3. loop.pc = "treat"
  BY <1>2 DEF LimitInv, LoopShape, Idle
<1> DEFINE s == op["loop"].slot
<1>4. /\ MayClear(s) => op' = [op EXCEPT !["loop"].pc = "reset"]
      /\ ~ MayClear(s) => op' = [op EXCEPT !["loop"] = Idle]
  BY <1>2 DEF CheckReleased, Call
<1>5. op["loop"] = [pc |-> "clear", port |-> None, slot |-> s, kbps |-> 0]
  BY <1>2 DEF LimitInv, ClearingOK, Ops
<1>6. /\ MayClear(s) => op'["loop"] = [pc |-> "reset", port |-> None, slot |-> s,
                                       kbps |-> 0]
      /\ ~ MayClear(s) => op'["loop"] = Idle
      /\ \A u \in Threads : u # "loop" => op'[u] = op[u]
  BY <1>2, <1>4, <1>5
<1> HIDE DEF s
<1>7. s \in slotMap /\ s \in Slots /\ s = op["loop"].slot
  BY <1>2 DEF LimitInv, ClearingOK, s
<1>8. MayClear(s) => owner[s] = None
  BY <1>7 DEF MayClear, PciDevice
<1>9. owner[s] = None => MayClear(s)
  BY <1>7 DEF MayClear, PciDevice
<1>10. Current' = Current /\ Owned' = Owned /\ Seen' = Seen
  BY <1>1
<1>11. \A u \in Threads : Setting(u)' <=> Setting(u) /\ u # "loop"
  BY <1>2, <1>6 DEF Setting, Idle
<1>12. LoopShape' /\ BoundVfs' /\ DevicesKnown' /\ PolicedKnown'
  BY <1>1, <1>3, <1>10 DEF LimitInv, LoopShape, BoundVfs, DevicesKnown, PolicedKnown
<1>13. SettingOK'
  <2>1. \A u \in Threads : op'[u].pc = "idle" => op'[u] = Idle
    BY <1>6 DEF LimitInv, SettingOK
  <2>2. \A u \in Threads : Setting(u)' => Setting(u) /\ op'[u] = op[u]
    BY <1>6, <1>11
  <2>3. ~ Setting("loop")'
    BY <1>2, <1>11
  <2>4. QED
    BY <1>1, <2>1, <2>2, <2>3 DEF LimitInv, SettingOK
<1>14. ClearingOK'
  <2>1. ~ Clearing("rpc")'
    BY <1>6 DEF LimitInv, ClearingOK, Clearing, Threads
  <2>2. Clearing("loop")' => MayClear(s)
    BY <1>6 DEF Clearing, Idle
  <2>3. op'["loop"].pc = "reset" => MayClear(s)
    BY <1>6 DEF Idle
  <2>4. \E d \in registered : d[2] = s
    BY <1>2, <1>7 DEF LimitInv, ClearingOK
  <2>5. QED
    BY <1>1, <1>6, <1>7, <1>8, <1>10, <2>1, <2>2, <2>3, <2>4 DEF ClearingOK
<1>15. NewsKept'
  BY <1>1, <1>10 DEF LimitInv, NewsKept
<1>16. LimitKept'
  BY <1>1, <1>2, <1>6, <1>10, <1>11 DEF LimitInv, LimitKept
<1>17. Leftovers'
  <2>1. \A d : ~ Sets("loop", d)
    BY <1>2
  <2>2. owner[s] = None => Clearing("loop")' /\ op'["loop"].slot = s
    BY <1>6, <1>9 DEF Clearing
  <2>3. QED
    BY <1>1, <1>2, <1>7, <2>1, <2>2 DEF LimitInv, Leftovers, OwnedLimits, FreeLimits,
                                        LostPolicies, LostPolicy
<1>18. QED
  BY <1>12, <1>13, <1>14, <1>15, <1>16, <1>17 DEF LimitInv

LEMMA SetRateLimits ==
    ASSUME TypeOK, LimitInv, NEW t \in Threads, SetRate(t)
    PROVE  LimitInv'
<1> USE DEF host, known, neutron, agent, Current, Waiting, Pending, Awaited, Owned,
            Seen, Clean, TypeOK
<1>1. UNCHANGED <<setup, host, owner, neutron, told, updated, known, registered, policed,
                  loop, overlooked>>
  BY DEF SetRate, Quietly
<1> DEFINE s == op[t].slot
<1>2. /\ op[t].pc \in {"set", "reset"}
      /\ rate' = IF s \in vfs THEN [rate EXCEPT ![s] = Mbps(op[t].kbps)] ELSE rate
      /\ op' = [op EXCEPT ![t] = Idle]
  BY DEF SetRate, Call
<1>3. /\ op'[t] = Idle
      /\ \A u \in Threads : u # t => op'[u] = op[u]
  BY <1>2
<1>4. "loop" \in Threads /\ "rpc" \in Threads
  BY DEF Threads
<1>5. \A u \in Threads : /\ Setting(u)' <=> Setting(u) /\ u # t
                         /\ Clearing(u)' <=> Clearing(u) /\ u # t
  BY <1>3 DEF Setting, Clearing, Idle
<1>6. Current' = Current /\ Owned' = Owned /\ Seen' = Seen
  BY <1>1
<1>7. LoopShape' /\ BoundVfs' /\ DevicesKnown' /\ PolicedKnown'
  <2>1. op["loop"] = Idle => op'["loop"] = Idle
    BY <1>3, <1>4
  <2>2. QED
    BY <1>1, <1>6, <2>1 DEF LimitInv, LoopShape, BoundVfs, DevicesKnown, PolicedKnown
<1>8. SettingOK'
  <2>1. \A u \in Threads : op'[u].pc = "idle" => op'[u] = Idle
    BY <1>3 DEF LimitInv, SettingOK
  <2>2. \A u \in Threads : Setting(u)' => Setting(u) /\ op'[u] = op[u]
    BY <1>3, <1>5
  <2>3. QED
    BY <1>1, <1>4, <2>1, <2>2 DEF LimitInv, SettingOK
<1>9. ClearingOK'
  <2>1. \A u \in Threads : Clearing(u)' => Clearing(u) /\ op'[u] = op[u]
    BY <1>3, <1>5
  <2>2. op'["loop"].pc = "reset" => op'["loop"] = op["loop"]
    BY <1>3, <1>4 DEF Idle
  <2>3. QED
    BY <1>1, <1>4, <1>6, <2>1, <2>2 DEF LimitInv, ClearingOK
<1>10. NewsKept'
  BY <1>1, <1>6 DEF LimitInv, NewsKept
<1>11. \A d \in Owned : /\ d[2] \in Slots /\ d[2] \in vfs /\ d[1] \in Ports
                        /\ owner[d[2]] = d[1] /\ bound[d[1]] = d[2] /\ d = <<d[1], d[2]>>
                        /\ d \in Seen
  BY DEF LimitInv, DevicesKnown, Devices, Loops
<1>12. CASE op[t].pc = "set"
  <2>1. /\ Setting(t) /\ ~ Clearing(t) /\ op[t].port \in Ports /\ s \in Slots
        /\ owner[s] = op[t].port /\ s \in vfs
        /\ op[t].kbps > 0 => policed[op[t].port] = s
        /\ \A u \in Threads : Setting(u) => u = t
        /\ op[t].kbps \in Nat
    <3>1. Setting(t) /\ ~ Clearing(t)
      BY <1>12 DEF Setting, Clearing
    <3>2. /\ op[t].port \in Ports /\ s \in Slots /\ owner[s] = op[t].port
          /\ op[t].kbps > 0 => policed[op[t].port] = s
          /\ \A u \in Threads : Setting(u) => u = t
      BY <1>12, <3>1 DEF LimitInv, SettingOK
    <3>3. s \in vfs
      BY <3>2, ESwitchAssumption
    <3>4. op[t].kbps \in Nat
      BY ESwitchAssumption DEF Ops
    <3>5. QED
      BY <3>1, <3>2, <3>3, <3>4
  <2>2. \A u \in Threads : \A d : ~ Sets(u, d)'
    BY <1>5, <2>1 DEF Sets
  <2>3. rate' = [rate EXCEPT ![s] = Mbps(op[t].kbps)]
    BY <1>2, <2>1
  <2> HIDE DEF s
  <2>4. LimitKept'
    <3>1. ASSUME NEW d \in Owned, want[d[1]] > 0 \/ (~ setup.rough /\ Clean(d[2]))
          PROVE  \/ d[1] \in told \/ Waiting(d)
                 \/ rate'[d[2]] = Mbps(want[d[1]])
      <4>1. CASE d[2] = s
        <5>1. d[1] = op[t].port
          BY <1>11, <2>1, <4>1
        <5>2. Sets(t, d)
          BY <2>1, <4>1, <5>1 DEF Sets, s
        <5>3. CASE op[t].kbps = want[d[1]]
          BY <2>1, <2>3, <4>1, <5>3
        <5>4. CASE op[t].kbps # want[d[1]]
          BY <2>1, <3>1, <5>2, <5>4 DEF LimitInv, LimitKept, Sets
        <5>5. QED
          BY <5>3, <5>4
      <4>2. CASE d[2] # s
        <5>2. \A u \in Threads : ~ Sets(u, d)
          BY <2>1, <4>2 DEF Sets, s
        <5>3. QED
          BY <1>11, <2>1, <2>3, <3>1, <4>2, <5>2 DEF LimitInv, LimitKept
      <4>3. QED
        BY <4>1, <4>2
    <3>2. QED
      BY <1>1, <1>6, <2>2, <3>1 DEF LimitKept
  <2>5. Leftovers'
    <3> SUFFICES ASSUME ~ setup.rough, Leftovers
                 PROVE  OwnedLimits' /\ FreeLimits' /\ LostPolicies'
      BY <1>1 DEF LimitInv, Leftovers
    <3>1. ASSUME NEW r \in Slots, Clean(r), rate'[r] # 0, owner[r] # None
          PROVE  policed[owner[r]] = r
      <4>1. CASE r = s
        BY <2>1, <2>3, <3>1, <4>1, MbpsFacts
      <4>2. CASE r # s
        <5>2. ~ Sets("loop", <<owner[r], r>>)
          BY <1>4, <2>1, <4>2 DEF Sets, s
        <5>3. QED
          BY <2>3, <3>1, <4>2, <5>2 DEF Leftovers, OwnedLimits
      <4>3. QED
        BY <4>1, <4>2
    <3>2. ASSUME NEW r \in Slots, Clean(r), rate'[r] # 0, owner[r] = None
          PROVE  \/ \E p \in Ports : policed[p] = r
                 \/ Clearing("loop")' /\ op'["loop"].slot = r
      <4>1. r # s /\ rate[r] # 0
        BY <2>1, <2>3, <3>2, ESwitchAssumption
      <4>2. Clearing("loop") => Clearing("loop")' /\ op'["loop"] = op["loop"]
        BY <1>3, <1>4, <1>5, <2>1
      <4>3. QED
        BY <3>2, <4>1, <4>2 DEF Leftovers, FreeLimits
    <3>3. LostPolicies'
      BY <1>1, <1>6 DEF Leftovers, LostPolicies, LostPolicy
    <3>4. QED
      BY <1>1, <3>1, <3>2, <3>3 DEF OwnedLimits, FreeLimits
  <2>6. QED
    BY <1>7, <1>8, <1>9, <1>10, <2>4, <2>5 DEF LimitInv
<1>13. CASE op[t].pc = "reset"
  <2>1. /\ Clearing(t) /\ ~ Setting(t) /\ t = "loop" /\ op[t].kbps = 0
        /\ s \in Slots /\ s = op["loop"].slot
        /\ owner[s] # None => <<owner[s], s>> \notin Seen
    BY <1>13 DEF Setting, Clearing, LimitInv, ClearingOK, Threads
  <2>2. rate' = IF s \in vfs THEN [rate EXCEPT ![s] = 0] ELSE rate
    <3>1. Mbps(op[t].kbps) = 0
      BY <2>1, MbpsFacts
    <3>2. QED
      BY <1>2, <3>1
  <2> HIDE DEF s
  <2>3. LimitKept'
    <3>1. ASSUME NEW d \in Owned
          PROVE  rate'[d[2]] = rate[d[2]]
      BY <1>11, <2>1, <2>2, <3>1, ESwitchAssumption
    <3>2. \A u \in Threads : \A d : Sets(u, d)' <=> Sets(u, d)
      BY <1>3, <1>5, <2>1 DEF Sets
    <3>3. \A u \in Threads : \A d : Sets(u, d) => op'[u].kbps = op[u].kbps
      BY <1>3, <2>1 DEF Sets
    <3>4. QED
      BY <1>1, <1>6, <3>1, <3>2, <3>3 DEF LimitInv, LimitKept
  <2>4. Leftovers'
    <3>1. \A r \in Slots : rate'[r] # 0 => rate[r] # 0 /\ r # s
      BY <2>1, <2>2
    <3>2. \A d : ~ Sets("loop", d)
      BY <2>1 DEF Sets
    <3>3. QED
      BY <1>1, <2>1, <3>1, <3>2 DEF LimitInv, Leftovers, OwnedLimits, FreeLimits,
                                    LostPolicies, LostPolicy
  <2>5. QED
    BY <1>7, <1>8, <1>9, <1>10, <2>3, <2>4 DEF LimitInv
<1>14. QED
  BY <1>2, <1>12, <1>13

LEMMA LimitStep ==
    ASSUME TypeOK, TypeOK', LimitInv, [Next]_vars
    PROVE  LimitInv'
<1>1. ASSUME NEW n \in 1 .. Cardinality(Slots), SetNumvfs(n)
      PROVE  LimitInv'
  BY <1>1, SameLimits DEF SetNumvfs
<1>2. ASSUME NEW s \in Slots, VfComesUp(s)
      PROVE  LimitInv'
  BY <1>2, SameLimits DEF VfComesUp
<1>3. CASE UNCHANGED vars
  BY <1>3, SameLimits DEF vars, host
<1>4. CASE Host
  BY <1>1, <1>2, <1>4, PfLimits DEF Host
<1>5. CASE Discover \/ Scan
  BY <1>5, LookLimits, ReadMacsLimits, IterationErrorLimits DEF Discover, Scan
<1>6. CASE Treat
  BY <1>6, TreatDeviceLimits, TreatRemovedLimits, EndLimits DEF Treat
<1>7. ASSUME NEW p \in Ports, Port(p)
      PROVE  LimitInv'
  BY <1>7, PlugLimits, UnplugLimits, SetLimitLimits, PolicyLimits DEF Port
<1>8. ASSUME NEW t \in Threads, Command(t)
      PROVE  LimitInv'
  BY <1>8, CheckDeviceLimits, CheckReleasedLimits, SetRateLimits DEF Command
<1>9. QED
  BY <1>3, <1>4, <1>5, <1>6, <1>7, <1>8 DEF Next

(* Whatever the host does to VFs and the server to policies, whichever of  *)
(* the two threads is faster, and however often the loop resyncs: once the *)
(* agent has treated a port, its VF has the limit of its policy; and one   *)
(* without policy has none, unless VFs change hands too fast or the agent  *)
(* has overlooked that a port with a limit left the VF.                    *)
THEOREM LimitsAreObeyed == Spec => []LimitsObeyed
<1>1. Init => TypeOK /\ LimitInv
  BY TypeInit, LimitInit
<1>2. TypeOK /\ LimitInv /\ [Next]_vars => TypeOK' /\ LimitInv'
  BY TypeStep, LimitStep
<1>3. TypeOK /\ LimitInv => LimitsObeyed
  <2> SUFFICES ASSUME TypeOK, LimitInv, NEW p \in Ports, NEW s \in Slots,
                      owner[s] = p, <<p, s>> \in registered, Settled(p),
                      want[p] > 0 \/ (~ setup.rough /\ Clean(s))
               PROVE  Obeys(rate[s], want[p])
    BY DEF LimitsObeyed, Clean
  <2>1. <<p, s>> \in Owned
    BY ESwitchAssumption DEF Owned, Current, Settled
  <2>2. p \notin told /\ ~ Waiting(<<p, s>>)
    BY DEF Settled, Waiting, Pending, Awaited, LimitInv, LoopShape
  <2>3. \A t \in Threads : ~ Sets(t, <<p, s>>)
    BY ESwitchAssumption DEF Sets, Setting, Settled, Threads, LimitInv, LoopShape, Idle
  <2>4. rate[s] = Mbps(want[p])
    BY <2>1, <2>2, <2>3 DEF LimitInv, LimitKept
  <2>5. want[p] \in Nat
    BY ESwitchAssumption DEF TypeOK
  <2>6. QED
    BY <2>4, <2>5, MbpsFacts
<1>4. QED
  BY <1>1, <1>2, <1>3, PTL DEF Spec

(* Every variable keeps its type; a VF that is not there has neither a     *)
(* port nor a limit, and a device never more VFs than its sriov_numvfs.    *)
THEOREM ESwitchType == Spec => []TypeOK
BY TypeInit, TypeStep, PTL DEF Spec

-------------------------------------------------------------------------------
(* The loop of the agent: AgentTypeOK in parts *)

SetsOK ==
    {present, knownPorts, admin, active, vf, notif, updates, ports, devices,
     cur, copy, treat, remove, treated} \subseteq SUBSET AgentDevices

CountersOK == changes \in 0 .. MaxChanges /\ fails \in 0 .. MaxFails

FlagsOK ==
    /\ sync \in BOOLEAN /\ resync \in BOOLEAN
    /\ pc \in {"idle", "scan", "filter", "details", "treat", "report", "remove"}
    /\ pc = "idle" => treat = {} /\ remove = {} /\ treated = {} /\ ~resync

DetailsOK == details \in [known: SUBSET AgentDevices, up: SUBSET AgentDevices]

-------------------------------------------------------------------------------
(* The inductive invariant *)

(* The VFs of S are in the state their ports ask for, or the news that     *)
(* they are not has yet to be taken up by the loop.                        *)
Settles(S) ==
    \A d \in (S \cap knownPorts) \ (updates \cup notif \cup Fixed) :
        d \in vf <=> d \in admin

(* The plugin's answer is as good as new, or there is news. *)
DetailsFresh ==
    \A d \in (treat \cap knownPorts) \ (updates \cup notif) :
        d \in details.up <=> d \in admin

(* What an iteration that has not failed so far can rely on, and what it   *)
(* keeps for itself, at each point of the loop.                            *)
LoopInv ==
    /\ pc \in {"idle", "scan"} => treat = {} /\ remove = {}
    /\ pc \in {"idle", "scan", "filter", "details"} => treated = {} /\ ~resync
    /\ pc = "idle" /\ ~sync => Settles(devices)
    /\ pc = "scan" => Settles(devices \ copy)
    /\ pc \in {"filter", "details"} => Settles(cur \ treat)
    /\ pc = "treat" => DetailsFresh /\ (~resync => Settles(cur \ treat))
    /\ pc \in {"report", "remove"} => treat = {} /\ (~resync => Settles(cur))

AgentInv == AgentTypeOK /\ LoopInv

LEMMA AgentInvInit ==
    ASSUME AgentInit
    PROVE  AgentInv
<1>1. AgentTypeOK
  <2>1. SetsOK
    BY DEF AgentInit, SetsOK
  <2>2. DetailsOK
    BY DEF AgentInit, NoDetails, DetailsOK
  <2>3. CountersOK
    BY SriovAgentAssumption DEF AgentInit, CountersOK
  <2>4. FlagsOK
    BY DEF AgentInit, FlagsOK
  <2>5. QED
    BY <2>1, <2>2, <2>3, <2>4
       DEF AgentTypeOK, SetsOK, DetailsOK, CountersOK, FlagsOK
<1>2. LoopInv
  BY DEF AgentInit, LoopInv
<1>3. QED
  BY <1>1, <1>2 DEF AgentInv

-------------------------------------------------------------------------------
(* Outside the agent *)

(* What happens outside leaves the loop where it is, and what it changes   *)
(* is announced.                                                           *)
Announced ==
    /\ UNCHANGED <<pc, iteration, devices, sync, vf>>
    /\ knownPorts' \subseteq knownPorts
    /\ updates \cup notif \subseteq updates' \cup notif'
    /\ \A d \in AgentDevices :
           (d \in admin') # (d \in admin) => d \in updates' \cup notif'

LEMMA NewsKeepsLoop ==
    ASSUME AgentInv, Announced
    PROVE  LoopInv'
<1> USE DEF Announced, iteration
<1>1. ASSUME NEW S \in SUBSET AgentDevices, Settles(S)
      PROVE  Settles(S)'
  BY <1>1 DEF Settles
<1>2. DetailsFresh => DetailsFresh'
  BY DEF DetailsFresh, AgentInv, AgentTypeOK
<1>3. {devices, devices \ copy, cur, cur \ treat} \subseteq SUBSET AgentDevices
  BY DEF AgentInv, AgentTypeOK
<1>4. /\ Settles(devices) => Settles(devices)'
      /\ Settles(devices \ copy) => Settles(devices \ copy)'
      /\ Settles(cur) => Settles(cur)'
      /\ Settles(cur \ treat) => Settles(cur \ treat)'
  BY <1>3 DEF Settles
<1>5. QED
  BY <1>2, <1>4 DEF AgentInv, LoopInv

LEMMA OutsideStep ==
    ASSUME AgentInv,
           Outside \/ (\E d \in AgentDevices : PortUpdate(d))
    PROVE  AgentInv'
<1> USE DEF Outside, PlugOrUnplug, SetAdminState,
        DeletePort, NetworkUpdate, PortUpdate, Changing,
        Toggle, memory, iteration
<1>1. AgentTypeOK'
  BY SriovAgentAssumption DEF AgentInv, AgentTypeOK
<1>2. Announced
  BY DEF Announced, AgentInv, AgentTypeOK
<1>3. QED
  BY <1>1, <1>2, NewsKeepsLoop DEF AgentInv

-------------------------------------------------------------------------------
(* The loop *)

LEMMA StartStep ==
    ASSUME AgentInv, StartIteration
    PROVE  AgentInv'
<1> USE DEF AgentInv, StartIteration, Goto, environment
<1>1. AgentTypeOK'
  <2>1. SetsOK'
    BY DEF SetsOK, AgentTypeOK
  <2>2. DetailsOK'
    BY DEF DetailsOK, AgentTypeOK
  <2>3. CountersOK'
    BY SriovAgentAssumption DEF CountersOK, AgentTypeOK
  <2>4. FlagsOK'
    BY DEF FlagsOK, AgentTypeOK, LoopInv
  <2>5. QED
    BY <2>1, <2>2, <2>3, <2>4
       DEF AgentTypeOK, SetsOK, DetailsOK, CountersOK, FlagsOK
<1>2. Settles(devices \ copy)'
  BY DEF LoopInv, Settles
<1>3. LoopInv'
  BY <1>2 DEF LoopInv
<1>4. QED
  BY <1>1, <1>3

LEMMA ScanStep ==
    ASSUME AgentInv, ScanDevices
    PROVE  AgentInv'
<1> USE DEF AgentInv, ScanDevices, environment, memory
<1>1. treat' = (present \ devices) \cup (copy \cap present)
      /\ remove' = devices \ present /\ cur' = present
  OBVIOUS
<1>2. AgentTypeOK'
  BY <1>1 DEF AgentTypeOK, LoopInv
<1>3. Settles(cur \ treat)'
  BY <1>1 DEF LoopInv, Settles
<1>4. treat' = {} /\ remove' = {} => Settles(devices)'
  BY <1>1 DEF LoopInv, Settles
<1>5. LoopInv'
  BY <1>3, <1>4 DEF LoopInv
<1>6. QED
  BY <1>2, <1>5

LEMMA DetailsStep ==
    ASSUME AgentInv,
           Filter \/ GetDetails \/ DetailsFail
    PROVE  AgentInv'
<1> USE DEF AgentInv, environment, memory, iteration, Goto,
            Failing
<1>1. CASE Filter
  BY <1>1 DEF Filter, AgentTypeOK, LoopInv, Settles
<1>2. CASE GetDetails
  <2>1. treat' = knownPorts \cap treat /\ details'.up = admin \cap treat
    BY <1>2 DEF GetDetails
  <2>2. details' \in [known: SUBSET AgentDevices, up: SUBSET AgentDevices]
    BY <1>2 DEF GetDetails, AgentTypeOK
  <2>3. AgentTypeOK'
    BY <1>2, <2>2 DEF GetDetails, AgentTypeOK
  <2>4. Settles(cur \ treat)'
    BY <1>2, <2>1 DEF GetDetails, LoopInv, Settles
  <2>5. DetailsFresh'
    BY <1>2, <2>1 DEF GetDetails, DetailsFresh
  <2>6. QED
    BY <1>2, <2>3, <2>4, <2>5 DEF GetDetails, LoopInv
<1>3. CASE DetailsFail
  BY <1>3, SriovAgentAssumption DEF DetailsFail, AgentTypeOK, LoopInv
<1>4. QED
  BY <1>1, <1>2, <1>3

LEMMA TreatStep ==
    ASSUME AgentInv, NEW d \in AgentDevices,
           TreatVf(d) \/ TreatFails(d)
    PROVE  AgentInv'
<1> USE DEF AgentInv, environment, Failing
<1>1. AgentTypeOK'
  <2>1. SetsOK'
    BY DEF TreatVf, TreatFails, SetsOK, AgentTypeOK
  <2>2. DetailsOK'
    BY DEF TreatVf, TreatFails, DetailsOK, AgentTypeOK
  <2>3. CountersOK'
    BY SriovAgentAssumption DEF TreatVf, TreatFails, CountersOK,
           AgentTypeOK
  <2>4. FlagsOK'
    BY DEF TreatVf, TreatFails, FlagsOK, AgentTypeOK, LoopInv
  <2>5. QED
    BY <2>1, <2>2, <2>3, <2>4
       DEF AgentTypeOK, SetsOK, DetailsOK, CountersOK, FlagsOK
<1>2. /\ pc = "treat" /\ pc' = "treat" /\ d \in treat /\ treat' = treat \ {d}
      /\ UNCHANGED <<knownPorts, admin, notif, updates, cur, details>>
  BY DEF TreatVf, TreatFails
<1>3. DetailsFresh'
  BY <1>2 DEF DetailsFresh, LoopInv
<1>4. ASSUME ~resync'
      PROVE  Settles(cur \ treat)'
  <2>1. /\ ~resync
        /\ d \in Fixed \/ (d \in vf' <=> d \in details.up)
        /\ \A e \in AgentDevices \ {d} : e \in vf' <=> e \in vf
    BY <1>4 DEF TreatVf, TreatFails
  <2>2. Settles(cur \ treat) /\ DetailsFresh
    BY <1>2, <2>1 DEF LoopInv
  <2>3. QED
    BY <1>2, <2>1, <2>2 DEF Settles, DetailsFresh, AgentTypeOK
<1>5. LoopInv'
  BY <1>2, <1>3, <1>4 DEF LoopInv
<1>6. QED
  BY <1>1, <1>5

LEMMA ReportStep ==
    ASSUME AgentInv, TreatDone \/ Report
    PROVE  AgentInv'
BY DEF AgentInv, TreatDone, Report, Reported, Goto,
       environment, memory, iteration, AgentTypeOK, LoopInv, Settles

LEMMA RemoveStep ==
    ASSUME AgentInv, NEW d \in AgentDevices,
           RemoveDevice(d) \/ RemoveFails(d)
    PROVE  AgentInv'
<1> USE DEF AgentInv, RemoveDevice, RemoveFails,
            environment, Failing
<1>1. AgentTypeOK'
  <2>1. SetsOK'
    BY DEF SetsOK, AgentTypeOK
  <2>2. DetailsOK'
    BY DEF DetailsOK, AgentTypeOK
  <2>3. CountersOK'
    BY SriovAgentAssumption DEF CountersOK, AgentTypeOK
  <2>4. FlagsOK'
    BY DEF FlagsOK, AgentTypeOK, LoopInv
  <2>5. QED
    BY <2>1, <2>2, <2>3, <2>4
       DEF AgentTypeOK, SetsOK, DetailsOK, CountersOK, FlagsOK
<1>2. LoopInv'
  BY DEF LoopInv, Settles
<1>3. QED
  BY <1>1, <1>2

LEMMA EndStep ==
    ASSUME AgentInv, LoopEnd \/ LoopError
    PROVE  AgentInv'
<1> USE DEF AgentInv, LoopEnd, LoopError, Forget,
            NoDetails, Reported, environment, Failing
<1>1. AgentTypeOK'
  <2>1. SetsOK'
    BY DEF SetsOK, AgentTypeOK
  <2>2. DetailsOK'
    BY DEF DetailsOK, AgentTypeOK
  <2>3. CountersOK'
    BY SriovAgentAssumption DEF CountersOK, AgentTypeOK
  <2>4. FlagsOK'
    BY DEF FlagsOK, AgentTypeOK, LoopInv
  <2>5. QED
    BY <2>1, <2>2, <2>3, <2>4
       DEF AgentTypeOK, SetsOK, DetailsOK, CountersOK, FlagsOK
<1>2. LoopInv'
  BY DEF LoopInv, Settles
<1>3. QED
  BY <1>1, <1>2

LEMMA AgentInvNext ==
    ASSUME AgentInv, [AgentNext]_agentVars
    PROVE  AgentInv'
<1>1. CASE UNCHANGED agentVars
  BY <1>1 DEF agentVars, environment, memory, iteration,
              AgentInv, AgentTypeOK, LoopInv, Settles, DetailsFresh
<1>2. CASE Outside \/ (\E d \in AgentDevices : PortUpdate(d))
  BY <1>2, OutsideStep
<1>3. CASE Loop
  BY <1>3, StartStep, ScanStep, DetailsStep, TreatStep, ReportStep, RemoveStep, EndStep
     DEF Loop
<1>4. QED
  BY <1>1, <1>2, <1>3 DEF AgentNext

(* Every variable of the loop keeps its type; between two iterations       *)
(* nothing is left of the last one but its result.                         *)
THEOREM AgentType == AgentSpec => []AgentTypeOK
<1>1. AgentInit => AgentInv
  BY AgentInvInit
<1>2. AgentInv /\ [AgentNext]_agentVars => AgentInv'
  BY AgentInvNext
<1>3. AgentInv => AgentTypeOK
  BY DEF AgentInv
<1>4. QED
  BY <1>1, <1>2, <1>3, PTL DEF AgentSpec

(* No notification is lost, wherever in the loop it arrives and whatever   *)
(* fails there: a VF that the next iteration will not look at has the      *)
(* state its port asks for.                                                *)
THEOREM NothingLost == AgentSpec => []NoUpdateLost
<1>1. AgentInit => AgentInv
  BY AgentInvInit
<1>2. AgentInv /\ [AgentNext]_agentVars => AgentInv'
  BY AgentInvNext
<1>3. AgentInv => NoUpdateLost
  BY DEF AgentInv, LoopInv, Settles, NoUpdateLost
<1>4. QED
  BY <1>1, <1>2, <1>3, PTL DEF AgentSpec

===============================================================================
