------------------------------ MODULE AllocTable ------------------------------
(***************************************************************************)
(* The allocation tables of the L3 plugin: AsterL3VNIAllocation,           *)
(* AsterL2VNIAllocation and AsterLeafVlanAllocation (db/models/            *)
(* aster_models_v2.py).  Each has one row per identifier of the pool and a *)
(* router_id column that is "" while the identifier is free.  A table is a *)
(* function whose domain is the set of identifiers that have a row, and    *)
(* Free stands for router_id = "".                                         *)
(*                                                                         *)
(* The operators below are the queries the managers in l3_router/ issue.   *)
(* A query without ORDER BY may return its rows in any order, so first()   *)
(* and all()[-1] are any row of the result: the operators that depend on   *)
(* that choice return the set of possible outcomes.                        *)
(***************************************************************************)
EXTENDS FiniteSets

CONSTANTS Routers,  \* values of router_id other than ""
          Free      \* router_id = ""

ASSUME FreeAssumption == Free \notin Routers

(* The tables over the identifiers ids, whichever of them have a row. *)
Tables(ids) == UNION {[D -> Routers \cup {Free}] : D \in SUBSET ids}

EmptyTable == [i \in {} |-> Free]

(* Mutant of FreeIds: the filter on router_id is dropped. *)
AnyIds(tab) == DOMAIN tab

(* SELECT ... WHERE router_id = "" *)
FreeIds(tab) == {i \in DOMAIN tab : tab[i] = Free}

(* SELECT ... WHERE router_id = r *)
HeldBy(tab, r) == {i \in DOMAIN tab : tab[i] = r}

Holders(tab) == {r \in Routers : HeldBy(tab, r) # {}}

(* UPDATE ... SET router_id = r WHERE id = i.  It names the identifier     *)
(* only: it overwrites another owner, and matches nothing if the row is    *)
(* gone.                                                                   *)
Assigned(tab, i, r) == [j \in DOMAIN tab |-> IF j = i THEN r ELSE tab[j]]

(* Each owner in gone gives up the row first picks for it: the row becomes *)
(* free if it lies in range, otherwise every row of that owner is deleted. *)
GivenUp(tab, range, gone, first) ==
    LET deleted == {i \in DOMAIN tab :
                        tab[i] \in gone /\ first[tab[i]] \notin range}
    IN  [i \in DOMAIN tab \ deleted |->
            IF tab[i] \in gone /\ first[tab[i]] = i THEN Free ELSE tab[i]]

(* The rows first() may return, one for each owner in gone. *)
FirstRows(tab, gone) ==
    {f \in [gone -> DOMAIN tab] : \A r \in gone : tab[f[r]] = r}

Released(tab, range, owners) ==
    LET gone == owners \cap Holders(tab)
    IN  {GivenUp(tab, range, gone, f) : f \in FirstRows(tab, gone)}

(* Mutant of Synced: deletes allocated rows too. *)
SyncedDropsAllocated(tab, range) ==
    [i \in range |-> IF i \in DOMAIN tab THEN tab[i] ELSE Free]

(* Startup: rows that are neither configured nor allocated are deleted and *)
(* configured identifiers without a row are inserted as free.              *)
Synced(tab, range) ==
    LET kept == {i \in DOMAIN tab : i \in range \/ tab[i] # Free}
    IN  [i \in kept \cup range |-> IF i \in DOMAIN tab THEN tab[i] ELSE Free]

(* Mutant of Lookups: a missing row reads as one without owner. *)
LookupsWithoutDefault(tab, r, none) ==
    IF HeldBy(tab, r) = {} THEN {Free} ELSE HeldBy(tab, r)

(* Mutant of Lookups: the filter on router_id is dropped. *)
LookupsOfAny(tab, r, none) == IF DOMAIN tab = {} THEN {none} ELSE DOMAIN tab

(* SELECT ... WHERE router_id = r, first(): the identifier a router is     *)
(* found to own, or none.                                                  *)
Lookups(tab, r, none) ==
    IF HeldBy(tab, r) = {} THEN {none} ELSE HeldBy(tab, r)

===============================================================================
