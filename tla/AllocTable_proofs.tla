-------------------------- MODULE AllocTable_proofs --------------------------
(***************************************************************************)
(* What the queries of AllocTable do to the rows of a table, for tables,   *)
(* ranges and sets of owners of any size.                                  *)
(***************************************************************************)
EXTENDS AllocTable, TLAPS

(* A table is a function from a set of identifiers to owners. *)
LEMMA TableIsFunction ==
    ASSUME NEW ids, NEW tab \in Tables(ids)
    PROVE  /\ DOMAIN tab \subseteq ids
           /\ tab \in [DOMAIN tab -> Routers \cup {Free}]
BY DEF Tables

(* ... and every such function over some of the identifiers is a table. *)
LEMMA FunctionIsTable ==
    ASSUME NEW ids, NEW D \in SUBSET ids,
           NEW tab \in [D -> Routers \cup {Free}]
    PROVE  tab \in Tables(ids)
BY DEF Tables

(* The table of a new deployment. *)
LEMMA EmptyTableType ==
    ASSUME NEW ids
    PROVE  EmptyTable \in Tables(ids) /\ DOMAIN EmptyTable = {}
<1>1. EmptyTable \in [{} -> Routers \cup {Free}] /\ DOMAIN EmptyTable = {}
  BY DEF EmptyTable
<1>2. {} \in SUBSET ids
  OBVIOUS
<1>3. QED
  BY <1>1, <1>2, FunctionIsTable

(* The UPDATE of an allocation changes the one row it names. *)
LEMMA AssignedFacts ==
    ASSUME NEW ids, NEW tab \in Tables(ids), NEW i, NEW r \in Routers
    PROVE  /\ Assigned(tab, i, r) \in Tables(ids)
           /\ DOMAIN Assigned(tab, i, r) = DOMAIN tab
           /\ \A j \in DOMAIN tab :
                 Assigned(tab, i, r)[j] = IF j = i THEN r ELSE tab[j]
<1>1. Assigned(tab, i, r) \in [DOMAIN tab -> Routers \cup {Free}]
  BY TableIsFunction DEF Assigned
<1>2. QED
  BY <1>1, TableIsFunction, FunctionIsTable DEF Assigned

(* The synchronisation keeps every allocated row, adds every configured    *)
(* identifier, and what it adds is free.                                   *)
LEMMA SyncedFacts ==
    ASSUME NEW ids, NEW tab \in Tables(ids), NEW range \in SUBSET ids
    PROVE  /\ Synced(tab, range) \in Tables(ids)
           /\ range \subseteq DOMAIN Synced(tab, range)
           /\ \A i \in DOMAIN tab : tab[i] # Free =>
                 /\ i \in DOMAIN Synced(tab, range)
                 /\ Synced(tab, range)[i] = tab[i]
           /\ \A i \in DOMAIN Synced(tab, range) :
                 Synced(tab, range)[i] # Free =>
                     i \in DOMAIN tab /\ tab[i] = Synced(tab, range)[i]
<1> DEFINE dom == {j \in DOMAIN tab : j \in range \/ tab[j] # Free} \cup range
<1>1. /\ DOMAIN tab \subseteq ids
      /\ tab \in [DOMAIN tab -> Routers \cup {Free}]
  BY TableIsFunction
<1>2. Synced(tab, range) =
         [i \in dom |-> IF i \in DOMAIN tab THEN tab[i] ELSE Free]
  BY DEF Synced
<1>3. dom \in SUBSET ids
  BY <1>1
<1>4. Synced(tab, range) \in [dom -> Routers \cup {Free}]
  BY <1>1, <1>2
<1>5. Synced(tab, range) \in Tables(ids)
  BY <1>3, <1>4, FunctionIsTable
<1>6. QED
  BY <1>2, <1>5

(* A release only ever frees or deletes rows, and only rows of the owners  *)
(* that release.                                                           *)
LEMMA ReleasedFacts ==
    ASSUME NEW ids, NEW tab \in Tables(ids), NEW range, NEW owners,
           NEW new \in Released(tab, range, owners)
    PROVE  /\ new \in Tables(ids)
           /\ \A i \in DOMAIN new :
                 /\ i \in DOMAIN tab
                 /\ new[i] = tab[i] \/ new[i] = Free
           /\ \A i \in DOMAIN tab : tab[i] \notin owners =>
                 i \in DOMAIN new /\ new[i] = tab[i]
<1> DEFINE gone == owners \cap Holders(tab)
<1>1. PICK f \in FirstRows(tab, gone) : new = GivenUp(tab, range, gone, f)
  BY DEF Released
<1> DEFINE deleted == {i \in DOMAIN tab :
                          tab[i] \in gone /\ f[tab[i]] \notin range}
<1>2. new = [i \in DOMAIN tab \ deleted |->
               IF tab[i] \in gone /\ f[tab[i]] = i THEN Free ELSE tab[i]]
  BY <1>1 DEF GivenUp
<1>3. /\ DOMAIN tab \subseteq ids
      /\ tab \in [DOMAIN tab -> Routers \cup {Free}]
  BY TableIsFunction
<1>4. new \in [DOMAIN tab \ deleted -> Routers \cup {Free}]
  BY <1>2, <1>3
<1>5. new \in Tables(ids)
  BY <1>3, <1>4, FunctionIsTable
<1>6. QED
  BY <1>2, <1>5

(* When the releasing owners have at most one row each, none is left with  *)
(* any: first() finds the only one.                                        *)
LEMMA ReleasedGivesUpAll ==
    ASSUME NEW ids, NEW tab \in Tables(ids), NEW range,
           NEW owners \in SUBSET Routers,
           NEW new \in Released(tab, range, owners),
           \A i, j \in DOMAIN tab : tab[i] = tab[j] /\ tab[i] # Free => i = j
    PROVE  \A i \in DOMAIN new : new[i] \notin owners
<1> DEFINE gone == owners \cap Holders(tab)
<1>1. PICK f \in FirstRows(tab, gone) : new = GivenUp(tab, range, gone, f)
  BY DEF Released
<1>2. SUFFICES ASSUME NEW i \in DOMAIN new, new[i] \in owners
               PROVE  FALSE
  OBVIOUS
<1>3. i \in DOMAIN tab /\ new[i] = tab[i]
  BY <1>2, ReleasedFacts, FreeAssumption
<1>4. tab[i] \in gone
  BY <1>2, <1>3 DEF Holders, HeldBy
<1>5. f[tab[i]] \in DOMAIN tab /\ tab[f[tab[i]]] = tab[i]
  BY <1>4, <1>1 DEF FirstRows
<1>6. f[tab[i]] = i
  BY <1>2, <1>3, <1>5, FreeAssumption
<1>7. new[i] = Free
  BY <1>1, <1>2, <1>4, <1>6 DEF GivenUp
<1>8. QED
  BY <1>2, <1>7, FreeAssumption

===============================================================================
