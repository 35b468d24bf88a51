------------------------- MODULE BorderVlanSync_proofs -------------------------
(***************************************************************************)
(* Proofs about BorderVlanSync for any number of starting processes,       *)
(* workers, border leaves and VLANs, whatever the configurations.          *)
(***************************************************************************)
EXTENDS BorderVlanSync, AllocTable_proofs

-------------------------------------------------------------------------------
(* The inductive invariant *)

(* What a sync has written and not committed is still as it found it: its  *)
(* locks keep the requests and the other syncs away.                       *)
SyncInv ==
    \A s \in Syncers :
        /\ gone[s] \subseteq FreeIds(tab) \ Configured
        /\ new[s] \subseteq Configured \ DOMAIN tab
        /\ sync[s] # "run" => left[s] = {} /\ gone[s] = {} /\ new[s] = {}

(* A worker in the middle of an allocation has it to itself. *)
RequestInv ==
    /\ \A w \in Workers : at[w].pc = "idle" \/
           /\ at[w].pc \in {"write", "look"}
           /\ at[w].r \in Routers /\ at[w].leaf \in Leaves
           /\ at[w].row \in RowsOf(at[w].leaf)
    /\ \A u, w \in Workers :
           /\ at[u].pc # "idle" /\ at[w].pc # "idle"
           /\ at[u].r = at[w].r /\ at[u].leaf = at[w].leaf
           => u = w

(* A router owns one VLAN of a leaf at most, none while it is given one. *)
OneEach ==
    /\ \A x, y \in DOMAIN tab :
           tab[x] = tab[y] /\ tab[x] # Free /\ x[1] = y[1] => x = y
    /\ \A w \in Workers :
           at[w].pc = "write" => OwnedOn(at[w].leaf, at[w].r) = {}

(* A running sync has every row before it that is missing or too many. *)
OnItsWay ==
    NoOlder => \A s \in Syncers : sync[s] = "run" =>
        /\ Configured \subseteq DOMAIN tab \cup new[s] \cup left[s]
        /\ FreeIds(tab) \subseteq Configured \cup left[s] \cup gone[s]

(* A worker serves after its sync, and chooses a configured row. *)
ChosenConfigured ==
    NoOlder => \A w \in Workers : at[w].pc # "idle" =>
        at[w].row \in Configured /\ sync[home[w]] = "done"

Inv ==
    /\ TypeOK /\ SyncInv /\ RequestInv /\ OneEach
    /\ OnItsWay /\ TableConfigured /\ ChosenConfigured

-------------------------------------------------------------------------------
(* What each step does to the table *)

LEMMA RowFacts ==
    ASSUME NEW leaf \in Leaves
    PROVE  /\ RowsOf(leaf) \subseteq Rows
           /\ \A x \in Rows : x \in RowsOf(leaf) <=> x[1] = leaf
BY DEF RowsOf, Rows

LEMMA TableFacts ==
    ASSUME TypeOK
    PROVE  /\ DOMAIN tab \subseteq Rows
           /\ tab \in [DOMAIN tab -> Routers \cup {Free}]
BY TableIsFunction DEF TypeOK

LEMMA CommitFacts ==
    ASSUME TypeOK, SyncInv, NEW s \in Syncers, Commit(s)
    PROVE  /\ tab' \in Tables(Rows)
           /\ DOMAIN tab' = (DOMAIN tab \ gone[s]) \cup new[s]
           /\ \A x \in DOMAIN tab' : tab'[x] = IF x \in new[s] THEN Free ELSE tab[x]
           /\ new[s] \cap DOMAIN tab = {} /\ new[s] \subseteq Configured
           /\ gone[s] \subseteq FreeIds(tab) \ Configured
<1> DEFINE dom == (DOMAIN tab \ gone[s]) \cup new[s]
<1>1. tab' = [x \in dom |-> IF x \in new[s] THEN Free ELSE tab[x]]
  BY DEF Commit
<1>2. new[s] \cap DOMAIN tab = {} /\ new[s] \subseteq Configured
      /\ gone[s] \subseteq FreeIds(tab) \ Configured
  BY DEF SyncInv
<1>3. dom \in SUBSET Rows /\ tab' \in [dom -> Routers \cup {Free}]
  BY <1>1, <1>2, TableFacts, BorderVlanSyncAssumption
<1>4. tab' \in Tables(Rows)
  BY <1>3, FunctionIsTable
<1>5. QED
  BY <1>1, <1>2, <1>4

LEMMA WriteFacts ==
    ASSUME TypeOK, RequestInv, NEW w \in Workers, WriteVlan(w)
    PROVE  /\ tab' \in Tables(Rows)
           /\ DOMAIN tab' = DOMAIN tab
           /\ \A x \in DOMAIN tab :
                  tab'[x] = IF x = at[w].row THEN at[w].r ELSE tab[x]
<1>1. at[w].r \in Routers /\ tab \in Tables(Rows)
  BY DEF RequestInv, WriteVlan, TypeOK
<1>2. QED
  BY <1>1, AssignedFacts DEF WriteVlan

(* A release gives up the router's one VLAN of that leaf. *)
LEMMA ReleaseOnLeaf ==
    ASSUME TypeOK, OneEach, NEW w \in Workers, NEW r \in Routers, NEW leaf \in Leaves,
           ReleaseVlan(w, r, leaf)
    PROVE  /\ tab' \in Tables(Rows)
           /\ \E x \in DOMAIN tab :
                /\ tab[x] = r /\ x \in RowsOf(leaf)
                /\ DOMAIN tab' = IF x \in RangeOf(w) THEN DOMAIN tab
                                                     ELSE DOMAIN tab \ {x}
                /\ \A y \in DOMAIN tab' : tab'[y] = IF y = x THEN Free ELSE tab[y]
<1> DEFINE here == [x \in DOMAIN tab \cap RowsOf(leaf) |-> tab[x]]
<1>1. PICK t \in Released(here, RangeOf(w), {r}) :
          tab' = [x \in DOMAIN t \cup (DOMAIN tab \ RowsOf(leaf)) |->
                     IF x \in DOMAIN t THEN t[x] ELSE tab[x]]
  BY DEF ReleaseVlan
<1>2. OwnedOn(leaf, r) # {}
  BY DEF ReleaseVlan
<1>3. {r} \cap Holders(here) = {r}
  BY <1>2 DEF Holders, OwnedOn, HeldBy
<1>4. PICK f \in FirstRows(here, {r}) : t = GivenUp(here, RangeOf(w), {r}, f)
  BY <1>3 DEF Released
<1> DEFINE x == f[r]
<1>5. x \in DOMAIN tab /\ x \in RowsOf(leaf) /\ tab[x] = r
  BY <1>4 DEF FirstRows
<1> HIDE DEF x
<1>6. \A y \in DOMAIN here : here[y] = r <=> y = x
  BY <1>5, TableFacts, RowFacts, FreeAssumption DEF OneEach
<1>7. t = [y \in DOMAIN here \ {z \in DOMAIN here : here[z] = r /\ x \notin RangeOf(w)}
              |-> IF here[y] = r /\ x = y THEN Free ELSE here[y]]
  BY <1>4 DEF GivenUp, x
<1>8. DOMAIN t = IF x \in RangeOf(w) THEN DOMAIN here ELSE DOMAIN here \ {x}
  BY <1>6, <1>7
<1>9. \A y \in DOMAIN t : t[y] = IF y = x THEN Free ELSE tab[y]
  BY <1>6, <1>7
<1>10. DOMAIN tab' = IF x \in RangeOf(w) THEN DOMAIN tab ELSE DOMAIN tab \ {x}
  BY <1>1, <1>5, <1>8
<1>11. \A y \in DOMAIN tab' : tab'[y] = IF y = x THEN Free ELSE tab[y]
  BY <1>1, <1>5, <1>8, <1>9
<1>12. DOMAIN tab' \in SUBSET Rows /\ tab' \in [DOMAIN tab' -> Routers \cup {Free}]
  BY <1>1, <1>10, <1>11, TableFacts
<1>13. tab' \in Tables(Rows)
  BY <1>12, FunctionIsTable
<1>14. QED
  BY <1>5, <1>10, <1>11, <1>13

LEMMA ReleaseFacts ==
    ASSUME TypeOK, OneEach, NEW w \in Workers, NEW r \in Routers, NEW leaf \in Leaves,
           ReleaseVlan(w, r, leaf)
    PROVE  /\ tab' \in Tables(Rows)
           /\ \E x \in DOMAIN tab :
                /\ tab[x] = r
                /\ DOMAIN tab' = IF x \in RangeOf(w) THEN DOMAIN tab
                                                     ELSE DOMAIN tab \ {x}
                /\ \A y \in DOMAIN tab' : tab'[y] = IF y = x THEN Free ELSE tab[y]
BY ReleaseOnLeaf

-------------------------------------------------------------------------------
(* Who changes what *)

LEMMA NextCases ==
    ASSUME [Next]_vars
    PROVE  /\ home' = home
           /\ \/ \E s \in Syncers : Sync(s)
              \/ \E w \in Workers : Request(w)
              \/ UNCHANGED vars
BY DEF Next, vars

LEMMA TableSteps ==
    ASSUME [Next]_vars
    PROVE  \/ tab' = tab
           \/ \E s \in Syncers : Commit(s)
           \/ \E w \in Workers : WriteVlan(w)
           \/ \E w \in Workers, r \in Routers, leaf \in Leaves : ReleaseVlan(w, r, leaf)
BY NextCases DEF vars, Sync, ReadRows, Retry, DeleteRow, InsertRow, TakeRow, Request,
                 PickVlan, LookUpVlan

LEMMA TableType ==
    ASSUME TypeOK, SyncInv, RequestInv, OneEach, [Next]_vars
    PROVE  tab' \in Tables(Rows)
BY TableSteps, CommitFacts, WriteFacts, ReleaseFacts DEF TypeOK

(* An owner comes from an allocation. *)
LEMMA RowTaken ==
    ASSUME TypeOK, SyncInv, RequestInv, OneEach, [Next]_vars,
           NEW x \in DOMAIN tab', tab'[x] # Free
    PROVE  \/ x \in DOMAIN tab /\ tab[x] = tab'[x]
           \/ \E w \in Workers : WriteVlan(w) /\ x = at[w].row /\ tab'[x] = at[w].r
BY TableSteps, CommitFacts, WriteFacts, ReleaseFacts

(* A row comes from the commit of a sync. *)
LEMMA RowAdded ==
    ASSUME TypeOK, SyncInv, RequestInv, OneEach, [Next]_vars,
           NEW x \in DOMAIN tab', x \notin DOMAIN tab
    PROVE  \E s \in Syncers : Commit(s) /\ x \in new[s]
<1>1. ASSUME NEW w \in Workers, NEW r \in Routers, NEW leaf \in Leaves,
             ReleaseVlan(w, r, leaf)
      PROVE  FALSE
  BY <1>1, ReleaseFacts
<1>2. QED
  BY <1>1, TableSteps, CommitFacts, WriteFacts

(* A row disappears with a commit, or because its owner has no further use *)
(* for it.                                                                 *)
LEMMA RowGone ==
    ASSUME TypeOK, SyncInv, RequestInv, OneEach, [Next]_vars,
           NEW x \in DOMAIN tab, x \notin DOMAIN tab'
    PROVE  \/ \E s \in Syncers : Commit(s) /\ x \in gone[s]
           \/ \E w \in Workers : x \notin RangeOf(w) /\ tab[x] # Free
<1>1. ASSUME NEW w \in Workers, NEW r \in Routers, NEW leaf \in Leaves,
             ReleaseVlan(w, r, leaf)
      PROVE  x \notin RangeOf(w) /\ tab[x] # Free
  BY <1>1, ReleaseFacts, FreeAssumption
<1>2. QED
  BY <1>1, TableSteps, CommitFacts, WriteFacts

(* A row becomes free when it is added or released. *)
LEMMA RowFreed ==
    ASSUME TypeOK, SyncInv, RequestInv, OneEach, [Next]_vars,
           NEW x \in FreeIds(tab'), x \notin FreeIds(tab)
    PROVE  \/ \E s \in Syncers : x \in new[s]
           \/ \E w \in Workers : x \in RangeOf(w)
<1> USE DEF FreeIds
<1>1. ASSUME NEW w \in Workers, NEW r \in Routers, NEW leaf \in Leaves,
             ReleaseVlan(w, r, leaf)
      PROVE  x \in RangeOf(w)
  BY <1>1, ReleaseFacts
<1>2. ASSUME NEW w \in Workers, WriteVlan(w)
      PROVE  FALSE
  <2>1. at[w].r # Free
    BY <1>2, FreeAssumption DEF RequestInv, WriteVlan
  <2>2. x \in DOMAIN tab /\ tab'[x] = Free
    BY <1>2, WriteFacts
  <2>3. QED
    BY <1>2, <2>1, <2>2, WriteFacts
<1>3. ASSUME NEW s \in Syncers, Commit(s)
      PROVE  x \in new[s]
  <2>1. x \in DOMAIN tab' /\ tab'[x] = Free
    OBVIOUS
  <2>2. CASE x \in DOMAIN tab /\ tab[x] = tab'[x]
    BY <2>1, <2>2
  <2>3. /\ DOMAIN tab' = (DOMAIN tab \ gone[s]) \cup new[s]
        /\ \A y \in DOMAIN tab' : tab'[y] = IF y \in new[s] THEN Free ELSE tab[y]
    BY <1>3, CommitFacts
  <2>4. QED
    BY <2>1, <2>2, <2>3
<1>4. QED
  BY <1>1, <1>2, <1>3, TableSteps

(* A free row stays until it is allocated or its deletion is committed. *)
LEMMA FreeRowKept ==
    ASSUME TypeOK, SyncInv, RequestInv, OneEach, [Next]_vars,
           NEW x \in FreeIds(tab), x \notin FreeIds(tab')
    PROVE  \/ \E s \in Syncers : Commit(s) /\ x \in gone[s]
           \/ ~ Locked(x)
<1> USE DEF FreeIds
<1>1. ASSUME NEW w \in Workers, NEW r \in Routers, NEW leaf \in Leaves,
             ReleaseVlan(w, r, leaf)
      PROVE  FALSE
  BY <1>1, ReleaseFacts, FreeAssumption
<1>2. ASSUME NEW w \in Workers, WriteVlan(w)
      PROVE  ~ Locked(x)
  BY <1>2, WriteFacts DEF WriteVlan
<1>3. ASSUME NEW s \in Syncers, Commit(s)
      PROVE  x \in gone[s]
  <2>1. x \in DOMAIN tab /\ tab[x] = Free
    OBVIOUS
  <2>2. x \notin DOMAIN tab' \/ tab'[x] # Free
    OBVIOUS
  <2>3. /\ DOMAIN tab' = (DOMAIN tab \ gone[s]) \cup new[s]
        /\ \A y \in DOMAIN tab' : tab'[y] = IF y \in new[s] THEN Free ELSE tab[y]
    BY <1>3, CommitFacts
  <2>4. QED
    BY <2>1, <2>2, <2>3
<1>4. QED
  BY <1>1, <1>2, <1>3, TableSteps

SameSync(s) ==
    sync'[s] = sync[s] /\ left'[s] = left[s] /\ gone'[s] = gone[s] /\ new'[s] = new[s]

LEMMA SyncMoves ==
    ASSUME TypeOK, [Next]_vars, NEW s \in Syncers
    PROVE  SameSync(s) \/ Sync(s)
<1>1. ASSUME NEW t \in Syncers, Sync(t), t # s
      PROVE  SameSync(s)
  BY <1>1 DEF SameSync, TypeOK, Sync, ReadRows, Retry, Commit, DeleteRow, InsertRow,
              TakeRow, End
<1>2. CASE UNCHANGED pending /\ UNCHANGED sync
  BY <1>2 DEF SameSync, pending
<1>3. QED
  BY <1>1, <1>2, NextCases
     DEF vars, Request, PickVlan, WriteVlan, LookUpVlan, ReleaseVlan

LEMMA WorkerMoves ==
    ASSUME TypeOK, [Next]_vars, NEW w \in Workers
    PROVE  \/ at'[w] = at[w]
           \/ Request(w) /\ \A u \in Workers \ {w} : at'[u] = at[u]
<1>1. ASSUME NEW u \in Workers, Request(u)
      PROVE  \A v \in Workers \ {u} : at'[v] = at[v]
  BY <1>1 DEF TypeOK, Request, PickVlan, WriteVlan, LookUpVlan, ReleaseVlan
<1>2. ASSUME NEW s \in Syncers, Sync(s)
      PROVE  at' = at
  BY <1>2 DEF Sync, ReadRows, Retry, Commit, DeleteRow, InsertRow, TakeRow, End
<1>3. QED
  BY <1>1, <1>2, NextCases DEF vars

-------------------------------------------------------------------------------
(* Types, locks and requests *)

LEMMA SyncTypes ==
    ASSUME TypeOK, NEW s \in Syncers, Sync(s), home' = home, tab' \in Tables(Rows)
    PROVE  TypeOK'
<1>1. ASSUME End(s, "start") \/ End(s, "done")
      PROVE  TypeOK'
  BY <1>1 DEF End, TypeOK
<1>2. CASE ReadRows(s)
  <2>1. ToDelete \cup ToInsert \in SUBSET Rows
    BY TableFacts, BorderVlanSyncAssumption DEF ToDelete, ToInsert, FreeIds
  <2>2. QED
    BY <1>2, <2>1 DEF ReadRows, TypeOK
<1>3. ASSUME NEW x \in Rows, DeleteRow(s, x) \/ InsertRow(s, x)
      PROVE  TypeOK'
  <2>1. \A t \in Syncers : x \notin gone[t] \cup new[t]
    BY <1>3 DEF DeleteRow, InsertRow, TakeRow, Locked, LockedBy
  <2>2. /\ left' \in [Syncers -> SUBSET Rows]
        /\ gone' \in [Syncers -> SUBSET Rows]
        /\ new' \in [Syncers -> SUBSET Rows]
    BY <1>3 DEF DeleteRow, InsertRow, TakeRow, TypeOK
  <2>3. /\ gone'[s] \cup new'[s] \subseteq gone[s] \cup new[s] \cup {x}
        /\ \A t \in Syncers \ {s} : gone'[t] = gone[t] /\ new'[t] = new[t]
    BY <1>3 DEF DeleteRow, InsertRow, TypeOK
  <2>4. UNCHANGED <<sync, at>>
    BY <1>3 DEF DeleteRow, InsertRow, TakeRow
  <2>5. \A t, u \in Syncers :
            t # u => (gone'[t] \cup new'[t]) \cap (gone'[u] \cup new'[u]) = {}
    BY <2>1, <2>3 DEF TypeOK
  <2>6. QED
    BY <2>2, <2>4, <2>5 DEF TypeOK
<1>4. QED
  BY <1>1, <1>2, <1>3 DEF Sync, Retry, Commit

LEMMA RequestTypes ==
    ASSUME TypeOK, NEW w \in Workers, Request(w), home' = home, tab' \in Tables(Rows)
    PROVE  TypeOK'
<1>1. UNCHANGED <<sync, left, gone, new>>
  BY DEF Request, PickVlan, WriteVlan, LookUpVlan, ReleaseVlan, pending
<1> DEFINE places == [pc: {"idle", "write", "look"}, r: Routers \cup {None},
                      leaf: Leaves \cup {None}, row: Rows \cup {None}]
<1>2. at' \in [Workers -> places]
  <2>1. CASE WriteVlan(w) \/ LookUpVlan(w)
    <3>1. Idle \in places /\ [at[w] EXCEPT !.pc = "look"] \in places
      BY DEF Idle, TypeOK
    <3>2. at' = [at EXCEPT ![w] = Idle] \/ at' = [at EXCEPT ![w] = [@ EXCEPT !.pc = "look"]]
      BY <2>1 DEF WriteVlan, LookUpVlan
    <3>3. QED
      BY <3>1, <3>2 DEF TypeOK
  <2>2. ASSUME NEW r \in Routers, NEW leaf \in Leaves, PickVlan(w, r, leaf)
        PROVE  at' \in [Workers -> places]
    <3>1. PICK x \in FreeIds(tab) \cap RowsOf(leaf) :
              at' = [at EXCEPT ![w] =
                        [pc |-> "write", r |-> r, leaf |-> leaf, row |-> x]]
      BY <2>2 DEF PickVlan
    <3>2. x \in Rows
      BY RowFacts
    <3>3. QED
      BY <3>1, <3>2 DEF TypeOK
  <2>3. ASSUME NEW r \in Routers, NEW leaf \in Leaves, ReleaseVlan(w, r, leaf)
        PROVE  at' \in [Workers -> places]
    BY <2>3 DEF ReleaseVlan, TypeOK
  <2>4. QED
    BY <2>1, <2>2, <2>3 DEF Request
<1>3. QED
  BY <1>1, <1>2 DEF TypeOK

LEMMA TypeStep ==
    ASSUME TypeOK, SyncInv, RequestInv, OneEach, [Next]_vars
    PROVE  TypeOK'
BY NextCases, TableType, SyncTypes, RequestTypes DEF vars, pending, TypeOK

LEMMA SyncInvStep ==
    ASSUME TypeOK, SyncInv, RequestInv, OneEach, [Next]_vars
    PROVE  SyncInv'
<1> SUFFICES ASSUME NEW s \in Syncers
             PROVE  /\ gone'[s] \subseteq FreeIds(tab') \ Configured
                    /\ new'[s] \subseteq Configured \ DOMAIN tab'
                    /\ sync'[s] # "run" =>
                           left'[s] = {} /\ gone'[s] = {} /\ new'[s] = {}
  BY DEF SyncInv
<1>1. CASE Retry(s) \/ Commit(s)
  BY <1>1 DEF Retry, Commit, End, TypeOK
<1>2. CASE ReadRows(s)
  BY <1>2 DEF ReadRows, TypeOK, SyncInv
<1>3. CASE \E x \in Rows : DeleteRow(s, x) \/ InsertRow(s, x)
  BY <1>3 DEF DeleteRow, InsertRow, TakeRow, TypeOK, SyncInv
<1>4. CASE SameSync(s) /\ ~ Commit(s)
  <2>1. ASSUME NEW t \in Syncers, Commit(t)
        PROVE  (gone[s] \cup new[s]) \cap (gone[t] \cup new[t]) = {}
    BY <1>4, <2>1 DEF TypeOK
  <2>2. ASSUME NEW x \in gone[s]
        PROVE  x \in FreeIds(tab')
    BY <2>1, <2>2, FreeRowKept DEF SyncInv, Locked, LockedBy
  <2>3. ASSUME NEW x \in new[s]
        PROVE  x \notin DOMAIN tab'
    BY <2>1, <2>3, RowAdded DEF SyncInv
  <2>4. QED
    BY <1>4, <2>2, <2>3 DEF SameSync, SyncInv
<1>5. QED
  BY <1>1, <1>2, <1>3, <1>4, SyncMoves DEF Sync

LEMMA RequestInvStep ==
    ASSUME TypeOK, RequestInv, [Next]_vars
    PROVE  RequestInv'
<1>1. ASSUME NEW w \in Workers, at'[w] # at[w]
      PROVE  /\ \A u \in Workers \ {w} : at'[u] = at[u]
             /\ \/ at'[w] = Idle
                \/ /\ at'[w].pc \in {"write", "look"}
                   /\ at'[w].r \in Routers /\ at'[w].leaf \in Leaves
                   /\ at'[w].row \in RowsOf(at'[w].leaf)
                   /\ \A u \in Workers \ {w} :
                          at[u].pc # "idle" =>
                              ~ (at[u].r = at'[w].r /\ at[u].leaf = at'[w].leaf)
  <2>1. Request(w) /\ \A u \in Workers \ {w} : at'[u] = at[u]
    BY <1>1, WorkerMoves
  <2>2. CASE LookUpVlan(w)
    BY <2>1, <2>2 DEF LookUpVlan, TypeOK
  <2>3. CASE WriteVlan(w)
    <3>1. at'[w] = [at[w] EXCEPT !.pc = "look"] /\ at[w].pc = "write"
      BY <2>3 DEF WriteVlan, TypeOK
    <3>2. /\ at'[w].pc = "look" /\ at'[w].r = at[w].r
          /\ at'[w].leaf = at[w].leaf /\ at'[w].row = at[w].row
      BY <3>1 DEF TypeOK
    <3>3. QED
      BY <2>1, <3>1, <3>2 DEF RequestInv
  <2>4. ASSUME NEW r \in Routers, NEW leaf \in Leaves, PickVlan(w, r, leaf)
        PROVE  /\ at'[w].pc = "write" /\ at'[w].r = r /\ at'[w].leaf = leaf
               /\ at'[w].row \in RowsOf(leaf)
               /\ \A u \in Workers : ~ (at[u].r = r /\ at[u].leaf = leaf)
    BY <2>4 DEF PickVlan, MayStart, TypeOK
  <2>5. ASSUME NEW r \in Routers, NEW leaf \in Leaves, ReleaseVlan(w, r, leaf)
        PROVE  FALSE
    BY <1>1, <2>5 DEF ReleaseVlan
  <2>6. QED
    BY <2>1, <2>2, <2>3, <2>4, <2>5 DEF Request
<1>2. \A w \in Workers : at'[w].pc = "idle" \/
          /\ at'[w].pc \in {"write", "look"}
          /\ at'[w].r \in Routers /\ at'[w].leaf \in Leaves
          /\ at'[w].row \in RowsOf(at'[w].leaf)
  BY <1>1 DEF RequestInv, Idle
<1>3. ASSUME NEW u \in Workers, NEW w \in Workers, u # w,
             at'[u].pc # "idle", at'[w].pc # "idle",
             at'[u].r = at'[w].r, at'[u].leaf = at'[w].leaf
      PROVE  FALSE
  <2>1. CASE at'[u] # at[u]
    BY <1>1, <1>3, <2>1 DEF Idle
  <2>2. CASE at'[w] # at[w]
    BY <1>1, <1>3, <2>2 DEF Idle
  <2>3. CASE at'[u] = at[u] /\ at'[w] = at[w]
    BY <1>3, <2>3 DEF RequestInv
  <2>4. QED
    BY <2>1, <2>2, <2>3
<1>4. QED
  BY <1>2, <1>3 DEF RequestInv, RowsOf

LEMMA OneEachStep ==
    ASSUME TypeOK, SyncInv, RequestInv, RequestInv', OneEach, [Next]_vars
    PROVE  OneEach'
<1>1. ASSUME NEW x \in DOMAIN tab', NEW y \in DOMAIN tab', tab'[x] = tab'[y],
             tab'[x] # Free, x[1] = y[1], x # y
      PROVE  FALSE
  <2>1. ASSUME NEW w \in Workers, WriteVlan(w), NEW z \in DOMAIN tab,
               tab[z] = at[w].r, z[1] = at[w].row[1]
        PROVE  FALSE
    <3>1. at[w].pc = "write" /\ at[w].leaf \in Leaves /\ at[w].row \in RowsOf(at[w].leaf)
      BY <2>1 DEF RequestInv, WriteVlan
    <3>2. z \in RowsOf(at[w].leaf)
      BY <2>1, <3>1, RowFacts, TableFacts
    <3>3. QED
      BY <2>1, <3>1, <3>2 DEF OneEach, OwnedOn, HeldBy
  <2>2. CASE x \in DOMAIN tab /\ tab[x] = tab'[x] /\ y \in DOMAIN tab /\ tab[y] = tab'[y]
    BY <1>1, <2>2 DEF OneEach
  <2>3. ASSUME NEW w \in Workers, WriteVlan(w), x = at[w].row, tab'[x] = at[w].r
        PROVE  FALSE
    <3>1. y \in DOMAIN tab /\ tab[y] = tab'[y]
      BY <1>1, <2>3, WriteFacts
    <3>2. QED
      BY <1>1, <2>1, <2>3, <3>1
  <2>4. ASSUME NEW w \in Workers, WriteVlan(w), y = at[w].row, tab'[y] = at[w].r
        PROVE  FALSE
    <3>1. x \in DOMAIN tab /\ tab[x] = tab'[x]
      BY <1>1, <2>4, WriteFacts
    <3>2. QED
      BY <1>1, <2>1, <2>4, <3>1
  <2>5. QED
    BY <1>1, <2>2, <2>3, <2>4, RowTaken
<1>2. ASSUME NEW w \in Workers, at'[w].pc = "write",
             NEW x \in DOMAIN tab', tab'[x] = at'[w].r, x \in RowsOf(at'[w].leaf)
      PROVE  FALSE
  <2>1. at'[w].r \in Routers /\ at'[w].leaf \in Leaves
    BY <1>2 DEF RequestInv
  <2>2. CASE at'[w] = at[w]
    <3>1. ~ (x \in DOMAIN tab /\ tab[x] = tab'[x])
      BY <1>2, <2>2 DEF OneEach, OwnedOn, HeldBy
    <3>2. PICK u \in Workers : WriteVlan(u) /\ x = at[u].row /\ tab'[x] = at[u].r
      BY <1>2, <2>1, <3>1, RowTaken, FreeAssumption
    <3>3. at[u].leaf \in Leaves /\ x \in RowsOf(at[u].leaf) /\ at[u].pc = "write"
      BY <3>2 DEF RequestInv, WriteVlan
    <3>4. at[u].leaf = at[w].leaf /\ at[u].r = at[w].r
      BY <1>2, <2>1, <2>2, <3>2, <3>3, RowFacts
    <3>5. u = w
      BY <1>2, <2>2, <3>3, <3>4 DEF RequestInv
    <3>6. at'[u].pc = "look"
      BY <3>2 DEF WriteVlan, TypeOK
    <3>7. QED
      BY <1>2, <3>5, <3>6
  <2>3. CASE Request(w) /\ at'[w] # at[w]
    <3>1. PICK r \in Routers, leaf \in Leaves : PickVlan(w, r, leaf)
      <4>1. ~ WriteVlan(w)
        BY <1>2 DEF WriteVlan, TypeOK
      <4>2. ~ LookUpVlan(w)
        BY <1>2 DEF LookUpVlan, Idle, TypeOK
      <4>3. QED
        BY <2>3, <4>1, <4>2 DEF Request, ReleaseVlan
    <3>2. tab' = tab /\ at'[w].r = r /\ at'[w].leaf = leaf /\ OwnedOn(leaf, r) = {}
      BY <3>1 DEF PickVlan, TypeOK
    <3>3. QED
      BY <1>2, <3>2 DEF OwnedOn, HeldBy
  <2>4. QED
    BY <2>2, <2>3, WorkerMoves
<1>3. QED
  BY <1>1, <1>2 DEF OneEach, OwnedOn, HeldBy, RowsOf

-------------------------------------------------------------------------------
(* Processes that start together *)

(* A configured row stays, and no other becomes free. *)
LEMMA ConfiguredKept ==
    ASSUME TypeOK, SyncInv, RequestInv, OneEach, NoOlder, [Next]_vars
    PROVE  /\ Configured \cap DOMAIN tab \subseteq DOMAIN tab'
           /\ FreeIds(tab') \subseteq FreeIds(tab) \cup Configured
<1>1. \A w \in Workers : RangeOf(w) = Configured
  BY DEF NoOlder, RangeOf
<1>2. QED
  BY <1>1, RowGone, RowFreed DEF SyncInv

LEMMA OnItsWayStep ==
    ASSUME TypeOK, SyncInv, RequestInv, OneEach, OnItsWay, [Next]_vars
    PROVE  OnItsWay'
<1> SUFFICES ASSUME NoOlder', NEW s \in Syncers, sync'[s] = "run"
             PROVE  /\ Configured \subseteq DOMAIN tab' \cup new'[s] \cup left'[s]
                    /\ FreeIds(tab') \subseteq Configured \cup left'[s] \cup gone'[s]
  BY DEF OnItsWay
<1>1. NoOlder
  BY NextCases DEF NoOlder
<1>2. CASE SameSync(s)
  BY <1>1, <1>2, ConfiguredKept DEF SameSync, OnItsWay
<1>3. CASE Retry(s) \/ Commit(s)
  BY <1>3 DEF Retry, Commit, End, TypeOK
<1>4. CASE ReadRows(s)
  BY <1>4 DEF ReadRows, TypeOK, ToDelete, ToInsert
<1>5. ASSUME NEW x \in Rows, DeleteRow(s, x) \/ InsertRow(s, x)
      PROVE  /\ Configured \subseteq DOMAIN tab' \cup new'[s] \cup left'[s]
             /\ FreeIds(tab') \subseteq Configured \cup left'[s] \cup gone'[s]
  <2>1. tab' = tab /\ sync[s] = "run"
    BY <1>5 DEF DeleteRow, InsertRow, TakeRow
  <2>2. CASE DeleteRow(s, x)
    BY <1>1, <2>1, <2>2 DEF DeleteRow, TakeRow, TypeOK, OnItsWay
  <2>3. CASE InsertRow(s, x)
    BY <1>1, <2>1, <2>3 DEF InsertRow, TakeRow, TypeOK, OnItsWay
  <2>4. QED
    BY <1>5, <2>2, <2>3
<1>6. QED
  BY <1>2, <1>3, <1>4, <1>5, SyncMoves DEF Sync

LEMMA TableConfiguredStep ==
    ASSUME TypeOK, SyncInv, RequestInv, OneEach, OnItsWay, TableConfigured, [Next]_vars
    PROVE  TableConfigured'
<1> SUFFICES ASSUME NoOlder', NEW s \in Syncers, sync'[s] = "done"
             PROVE  Configured \subseteq DOMAIN tab' /\ FreeIds(tab') \subseteq Configured
  BY DEF TableConfigured
<1>1. NoOlder
  BY NextCases DEF NoOlder
<1>2. CASE sync[s] = "done"
  BY <1>1, <1>2, ConfiguredKept DEF TableConfigured
<1>3. CASE Commit(s)
  <2>1. /\ Configured \subseteq DOMAIN tab \cup new[s]
        /\ FreeIds(tab) \subseteq Configured \cup gone[s]
    BY <1>1, <1>3 DEF Commit, OnItsWay
  <2>2. /\ DOMAIN tab' = (DOMAIN tab \ gone[s]) \cup new[s]
        /\ new[s] \subseteq Configured
    BY <1>3, CommitFacts
  <2>3. FreeIds(tab') \subseteq Configured
    BY <1>1, <2>1, <2>2, ConfiguredKept DEF FreeIds
  <2>4. Configured \subseteq DOMAIN tab'
    BY <1>1, <2>1, <2>2, ConfiguredKept
  <2>5. QED
    BY <2>3, <2>4
<1>4. CASE Sync(s) /\ sync[s] # "done"
  BY <1>3, <1>4 DEF Sync, ReadRows, Retry, DeleteRow, InsertRow, TakeRow, End, TypeOK
<1>5. QED
  BY <1>2, <1>4, SyncMoves DEF SameSync

LEMMA ChosenConfiguredStep ==
    ASSUME TypeOK, RequestInv, TableConfigured, ChosenConfigured, [Next]_vars
    PROVE  ChosenConfigured'
<1> SUFFICES ASSUME NoOlder', NEW w \in Workers, at'[w].pc # "idle"
             PROVE  at'[w].row \in Configured /\ sync'[home'[w]] = "done"
  BY DEF ChosenConfigured
<1>1. NoOlder /\ home' = home /\ home[w] \in Syncers
  BY NextCases, BorderVlanSyncAssumption DEF NoOlder, TypeOK
<1>2. sync[home[w]] = "done" => sync'[home[w]] = "done"
  BY <1>1, SyncMoves
     DEF SameSync, Sync, ReadRows, Retry, RolledBack, Commit, DeleteRow, InsertRow,
         TakeRow
<1>3. CASE at[w].pc # "idle" /\ at'[w].row = at[w].row
  BY <1>1, <1>2, <1>3 DEF ChosenConfigured
<1>4. ASSUME NEW r \in Routers, NEW leaf \in Leaves, PickVlan(w, r, leaf)
      PROVE  at'[w].row \in FreeIds(tab) /\ sync[home[w]] = "done"
  BY <1>1, <1>4 DEF PickVlan, MayStart, TypeOK, NoOlder
<1>5. CASE Request(w)
  <2>1. CASE \E r \in Routers, leaf \in Leaves : PickVlan(w, r, leaf)
    BY <1>1, <1>2, <1>4, <2>1 DEF TableConfigured
  <2>2. CASE WriteVlan(w)
    BY <1>3, <2>2 DEF WriteVlan, TypeOK
  <2>3. CASE LookUpVlan(w)
    BY <2>3 DEF LookUpVlan, Idle, TypeOK
  <2>4. CASE \E r \in Routers, leaf \in Leaves : ReleaseVlan(w, r, leaf)
    BY <1>3, <2>4 DEF ReleaseVlan
  <2>5. QED
    BY <1>5, <2>1, <2>2, <2>3, <2>4 DEF Request
<1>6. QED
  BY <1>3, <1>5, WorkerMoves

-------------------------------------------------------------------------------
(* The theorems *)

LEMMA InitInv == Init => Inv
<1> SUFFICES ASSUME Init
             PROVE  Inv
  OBVIOUS
<1>1. TypeOK
  <2>1. Idle \in [pc: {"idle", "write", "look"}, r: Routers \cup {None},
                  leaf: Leaves \cup {None}, row: Rows \cup {None}]
    BY DEF Idle
  <2>2. QED
    BY <2>1, BorderVlanSyncAssumption DEF Init, TypeOK
<1>2. SyncInv
  BY DEF Init, SyncInv
<1>3. \A w \in Workers : at[w].pc = "idle"
  BY DEF Init, Idle
<1>4. RequestInv /\ ChosenConfigured
  BY <1>3 DEF RequestInv, ChosenConfigured
<1>5. OneEach
  BY <1>3, BorderVlanSyncAssumption DEF OneEach, Init
<1>6. OnItsWay /\ TableConfigured
  BY DEF Init, OnItsWay, TableConfigured
<1>7. QED
  BY <1>1, <1>2, <1>4, <1>5, <1>6 DEF Inv

LEMMA NextInv == Inv /\ [Next]_vars => Inv'
<1> SUFFICES ASSUME Inv, [Next]_vars
             PROVE  Inv'
  OBVIOUS
<1> USE DEF Inv
<1>1. TypeOK' /\ SyncInv' /\ RequestInv'
  BY TypeStep, SyncInvStep, RequestInvStep
<1>2. OneEach'
  BY <1>1, OneEachStep
<1>3. OnItsWay' /\ TableConfigured' /\ ChosenConfigured'
  BY OnItsWayStep, TableConfiguredStep, ChosenConfiguredStep
<1>4. QED
  BY <1>1, <1>2, <1>3

(* Every variable keeps its type, and no two transactions of starting      *)
(* processes ever hold a lock on the same row.                             *)
THEOREM TypeCorrect == Spec => []TypeOK
<1>1. Inv => TypeOK
  BY DEF Inv
<1>2. QED
  BY <1>1, InitInv, NextInv, PTL DEF Spec

(* No starting process deletes a row that has an owner when it commits:    *)
(* the condition of the DELETE and the lock it takes suffice without the   *)
(* FOR UPDATE of the other managers.                                       *)
THEOREM RowsKept == Spec => AllocatedRowsKept
<1>1. ASSUME Inv, [Next]_vars, NEW x \in DOMAIN tab, tab[x] # Free, sync' # sync
      PROVE  x \in DOMAIN tab' /\ tab'[x] = tab[x]
  <2>1. CASE tab' = tab
    BY <1>1, <2>1
  <2>2. ASSUME NEW s \in Syncers, Commit(s)
        PROVE  x \in DOMAIN tab' /\ tab'[x] = tab[x]
    BY <1>1, <2>2, CommitFacts DEF Inv, FreeIds
  <2>3. QED
    BY <1>1, <2>1, <2>2, TableSteps DEF WriteVlan, ReleaseVlan
<1>2. Inv /\ [Next]_vars =>
          [\A x \in DOMAIN tab :
              tab[x] # Free /\ sync' # sync =>
                  x \in DOMAIN tab' /\ tab'[x] = tab[x]]_vars
  BY <1>1
<1>3. QED
  BY <1>2, InitInv, NextInv, PTL DEF Spec, AllocatedRowsKept

(* From the moment the first of the processes that start together serves   *)
(* requests, the table has the configured VLANs and offers no other.       *)
THEOREM TableIsConfigured == Spec => []TableConfigured
<1>1. Inv => TableConfigured
  BY DEF Inv
<1>2. QED
  BY <1>1, InitInv, NextInv, PTL DEF Spec

(* A row that a request has written stays its router's only one of the     *)
(* leaf until the request has looked it up, but for another request that   *)
(* has chosen it too.                                                      *)
LEMMA FindsStep ==
    ASSUME Inv, [Next]_vars, NEW w \in Workers, at[w].pc = "look", at'[w].pc = "look",
           Finds(w), \A u \in Workers \ {w} : ~ Overwrites(u, w)
    PROVE  Finds(w)'
<1> USE DEF Inv
<1> DEFINE r == at[w].r
           leaf == at[w].leaf
           row == at[w].row
<1>1. r \in Routers /\ leaf \in Leaves /\ row \in RowsOf(leaf) /\ r # Free
  BY FreeAssumption DEF RequestInv
<1>2. row \in DOMAIN tab /\ tab[row] = r
  BY DEF Finds, OwnedOn, HeldBy
<1>3. at'[w] = at[w]
  <2>1. ~ LookUpVlan(w)
    BY DEF LookUpVlan, Idle, TypeOK
  <2>2. ~ WriteVlan(w) /\ \A q \in Routers, l \in Leaves : ~ PickVlan(w, q, l)
    BY DEF WriteVlan, PickVlan, MayStart
  <2>3. QED
    BY <2>1, <2>2, WorkerMoves DEF Request, ReleaseVlan
<1>4. row \in DOMAIN tab' /\ tab'[row] = r
  <2>1. ASSUME NEW s \in Syncers, Commit(s)
        PROVE  row \in DOMAIN tab' /\ tab'[row] = r
    <3>1. row \notin FreeIds(tab)
      BY <1>1, <1>2 DEF FreeIds
    <3>2. row \notin gone[s] /\ row \notin new[s]
      <4>1. gone[s] \subseteq FreeIds(tab) /\ new[s] \cap DOMAIN tab = {}
        BY <2>1 DEF SyncInv
      <4>2. QED
        BY <1>2, <3>1, <4>1
    <3>3. /\ DOMAIN tab' = (DOMAIN tab \ gone[s]) \cup new[s]
          /\ \A x \in DOMAIN tab' : tab'[x] = IF x \in new[s] THEN Free ELSE tab[x]
      BY <2>1, CommitFacts
    <3>4. QED
      BY <1>2, <3>2, <3>3
  <2>2. ASSUME NEW u \in Workers, WriteVlan(u)
        PROVE  row \in DOMAIN tab' /\ tab'[row] = r
    <3>1. at[u].pc = "write" /\ at'[u].pc = "look" /\ u # w
      BY <2>2 DEF WriteVlan, TypeOK
    <3>2. at[u].row # row
      BY <3>1 DEF Overwrites
    <3>3. QED
      BY <1>2, <2>2, <3>2, WriteFacts
  <2>3. ASSUME NEW u \in Workers, NEW q \in Routers, NEW l \in Leaves,
               ReleaseVlan(u, q, l)
        PROVE  row \in DOMAIN tab' /\ tab'[row] = r
    <3>1. ~ (r = q /\ leaf = l)
      BY <2>3 DEF ReleaseVlan, MayStart
    <3>2. PICK x \in DOMAIN tab :
             /\ tab[x] = q /\ x \in RowsOf(l)
             /\ DOMAIN tab' = IF x \in RangeOf(u) THEN DOMAIN tab ELSE DOMAIN tab \ {x}
             /\ \A y \in DOMAIN tab' : tab'[y] = IF y = x THEN Free ELSE tab[y]
      BY <2>3, ReleaseOnLeaf
    <3>3. x # row
      BY <1>1, <1>2, <3>1, <3>2, RowFacts
    <3>4. QED
      BY <1>2, <3>2, <3>3
  <2>4. QED
    BY <1>2, <2>1, <2>2, <2>3, TableSteps
<1>5. ASSUME NEW x \in DOMAIN tab', tab'[x] = r, x \in RowsOf(leaf)
      PROVE  x = row
  <2>1. OneEach'
    BY OneEachStep, RequestInvStep
  <2>2. row[1] = leaf /\ x[1] = leaf
    BY <1>1, <1>5 DEF RowsOf
  <2>3. QED
    BY <1>1, <1>4, <1>5, <2>1, <2>2 DEF OneEach
<1>6. QED
  BY <1>1, <1>3, <1>4, <1>5 DEF Finds, OwnedOn, HeldBy, RowsOf

(* Without older processes, a request writes the row that it has chosen,   *)
(* and it is then the one its router has of the leaf.                      *)
LEMMA WriteFound ==
    ASSUME Inv, [Next]_vars, NoOlder, NEW w \in Workers,
           at[w].pc = "write", at'[w].pc = "look"
    PROVE  Finds(w)'
<1> USE DEF Inv
<1>1. WriteVlan(w)
  <2>1. ~ LookUpVlan(w) /\ \A q \in Routers, l \in Leaves : ~ PickVlan(w, q, l)
    BY DEF LookUpVlan, PickVlan, MayStart
  <2>2. QED
    BY <2>1, WorkerMoves DEF Request, ReleaseVlan
<1>2. /\ at'[w].r = at[w].r /\ at'[w].leaf = at[w].leaf /\ at'[w].row = at[w].row
      /\ at[w].r \in Routers /\ at[w].leaf \in Leaves /\ at[w].row \in RowsOf(at[w].leaf)
  BY <1>1 DEF WriteVlan, TypeOK, RequestInv
<1>3. at[w].row \in DOMAIN tab
  BY BorderVlanSyncAssumption DEF ChosenConfigured, TableConfigured, NoOlder, TypeOK
<1>4. OwnedOn(at[w].leaf, at[w].r) = {}
  BY DEF OneEach
<1>5. /\ DOMAIN tab' = DOMAIN tab
      /\ \A x \in DOMAIN tab : tab'[x] = IF x = at[w].row THEN at[w].r ELSE tab[x]
  BY <1>1, WriteFacts
<1>6. QED
  BY <1>2, <1>3, <1>4, <1>5 DEF Finds, OwnedOn, HeldBy, RowsOf

(* The look-up of a request by router and leaf finds the row the request   *)
(* has chosen, unless another request has chosen it too and been given it  *)
(* afterwards: neither a process that is still starting nor a release      *)
(* takes it away.                                                          *)
THEOREM RowFound == Spec => AllocationFound
<1>1. ASSUME Inv, [Next]_vars, NEW w \in Workers, at'[w].pc = "look"
      PROVE  /\ at[w].pc = "write" /\ NoOlder => Finds(w)'
             /\ at[w].pc = "look" /\ Finds(w) =>
                   Finds(w)' \/ \E u \in Workers \ {w} : Overwrites(u, w)
  BY <1>1, FindsStep, WriteFound
<1>2. Inv /\ [Next]_vars =>
          [\A w \in Workers : at'[w].pc = "look" =>
              /\ at[w].pc = "write" /\ NoOlder => Finds(w)'
              /\ at[w].pc = "look" /\ Finds(w) =>
                    Finds(w)' \/ \E u \in Workers \ {w} : Overwrites(u, w)]_vars
  BY <1>1
<1>3. QED
  BY <1>2, InitInv, NextInv, PTL DEF Spec, AllocationFound

===============================================================================
