---------------------------- MODULE BorderVlanSync ----------------------------
(***************************************************************************)
(* BorderVlanManager._sync_vlan_allocations, which every starting          *)
(* neutron-server process runs, against the allocations and releases of    *)
(* the processes that already serve requests (border_vlan_manager.py).     *)
(* The VNI managers read their whole table FOR UPDATE; this one does not,  *)
(* and relies on conditional DELETEs and on a retry instead.               *)
(*                                                                         *)
(* The table's rows are <<leaf, vlan>> pairs.  A transaction of the sync   *)
(* reads a snapshot, writes rows that stay locked and invisible until it   *)
(* commits, and starts again when it is rolled back (@retry_db_errors).    *)
(***************************************************************************)
EXTENDS AllocTable, Naturals

CONSTANTS Syncers,     \* starting processes
          Workers,     \* request threads of running processes
          Leaves, Vlans,
          Configured,  \* rows of the vlan_ranges the starting processes read
          Serving,     \* rows of those an older process was started with
          Homes,       \* which processes the workers may belong to
          Before,      \* the tables an earlier configuration may have left
          Rank,        \* the order in which the sync goes through the rows
          None

Rows == Leaves \X Vlans

ASSUME BorderVlanSyncAssumption ==
    /\ Configured \subseteq Rows /\ Serving \subseteq Rows
    /\ Before \subseteq Tables(Rows)
    /\ \A t \in Before : \A x, y \in DOMAIN t :  \* one VLAN per router and leaf
           t[x] = t[y] /\ t[x] # Free /\ x[1] = y[1] => x = y
    /\ Homes \subseteq [Workers -> Syncers \cup {None}]
    /\ Rank \in [Rows -> Nat]
    /\ None \notin Syncers \cup Routers \cup Leaves \cup Rows

VARIABLES home,  \* process of each worker, None for an older; never changes
          tab,   \* AsterLeafVlanAllocation, as committed
          sync,  \* state of each starting process
          left,  \* rows its transaction has yet to delete or insert
          gone,  \* rows it has deleted, not committed
          new,   \* rows it has inserted, not committed
          at     \* where each worker is in its request

pending == <<left, gone, new>>
vars == <<home, tab, sync, pending, at>>

Idle == [pc |-> "idle", r |-> None, leaf |-> None, row |-> None]

TypeOK ==
    /\ home \in Homes
    /\ tab \in Tables(Rows)
    /\ sync \in [Syncers -> {"start", "run", "done"}]
    /\ {left, gone, new} \subseteq [Syncers -> SUBSET Rows]
    /\ \A s, t \in Syncers :
           s # t => (gone[s] \cup new[s]) \cap (gone[t] \cup new[t]) = {}
    /\ at \in [Workers -> [pc: {"idle", "write", "look"},
                           r: Routers \cup {None}, leaf: Leaves \cup {None},
                           row: Rows \cup {None}]]

Init ==
    /\ home \in Homes
    /\ tab \in Before
    /\ sync = [s \in Syncers |-> "start"]
    /\ left = [s \in Syncers |-> {}]
    /\ gone = [s \in Syncers |-> {}]
    /\ new = [s \in Syncers |-> {}]
    /\ at = [w \in Workers |-> Idle]

-------------------------------------------------------------------------------
(* Starting processes *)

LockedBy(s) == gone[s] \cup new[s]
Locked(x) == \E s \in Syncers : x \in LockedBy(s)

(* Mutant of TakeRow: no row locks. *)
TakeLockedRow(s, x) ==
    /\ sync[s] = "run" /\ x \in left[s]
    /\ \A y \in left[s] : Rank[x] <= Rank[y]
    /\ left' = [left EXCEPT ![s] = @ \ {x}]
    /\ UNCHANGED <<tab, sync, at>>

(* The transaction goes on to row x, which nobody else has locked.  It     *)
(* goes leaf by leaf, first through the rows to delete and then, sorted,   *)
(* through those to insert: the same order in every process.               *)
TakeRow(s, x) ==
    /\ sync[s] = "run" /\ x \in left[s] /\ ~Locked(x)
    /\ \A y \in left[s] : Rank[x] <= Rank[y]
    /\ left' = [left EXCEPT ![s] = @ \ {x}]
    /\ UNCHANGED <<tab, sync, at>>

(* The transaction ends, and with it its locks. *)
End(s, state) ==
    /\ sync' = [sync EXCEPT ![s] = state]
    /\ left' = [left EXCEPT ![s] = {}]
    /\ gone' = [gone EXCEPT ![s] = {}]
    /\ new' = [new EXCEPT ![s] = {}]
    /\ UNCHANGED at

(* The rows to delete, free and not configured (of configured leaves and   *)
(* of leaves no longer configured alike), and to insert.                   *)
ToDelete == {x \in FreeIds(tab) : x \notin Configured}
ToInsert == Configured \ DOMAIN tab

ReadRows(s) ==
    /\ sync[s] = "start"
    /\ sync' = [sync EXCEPT ![s] = "run"]
    /\ left' = [left EXCEPT ![s] = ToDelete \cup ToInsert]
    /\ UNCHANGED <<tab, gone, new, at>>

(* Mutant of DeleteRow: the condition on router_id is left out. *)
DeleteRowAnyway(s, x) ==
    /\ x \notin Configured
    /\ TakeRow(s, x)
    /\ gone' = [gone EXCEPT ![s] = @ \cup ({x} \cap DOMAIN tab)]
    /\ UNCHANGED new

(* DELETE ... WHERE router_id = "": sees the row as committed by now. *)
DeleteRow(s, x) ==
    /\ x \notin Configured
    /\ TakeRow(s, x)
    /\ gone' = [gone EXCEPT ![s] = @ \cup ({x} \cap FreeIds(tab))]
    /\ UNCHANGED new

InsertRow(s, x) ==
    /\ x \in Configured \ DOMAIN tab
    /\ TakeRow(s, x)
    /\ new' = [new EXCEPT ![s] = @ \cup {x}]
    /\ UNCHANGED gone

(* DBDuplicateEntry: the row to insert is there by now. *)
RolledBack(s) ==
    /\ sync[s] = "run"
    /\ left[s] \cap Configured \cap DOMAIN tab # {}

(* Mutant of Retry: the table is not read again. *)
RetrySameRows(s) ==
    /\ RolledBack(s)
    /\ gone' = [gone EXCEPT ![s] = {}] /\ new' = [new EXCEPT ![s] = {}]
    /\ UNCHANGED <<tab, sync, left, at>>

Retry(s) == RolledBack(s) /\ End(s, "start") /\ UNCHANGED tab

Commit(s) ==
    /\ sync[s] = "run" /\ left[s] = {}
    /\ tab' = [x \in (DOMAIN tab \ gone[s]) \cup new[s] |->
                  IF x \in new[s] THEN Free ELSE tab[x]]
    /\ End(s, "done")

-------------------------------------------------------------------------------
(* Requests: allocate_segment, get_vlan_id_by_route_id, release_segment.   *)
(* One per router and leaf at a time; a process serves after its sync.     *)

RowsOf(leaf) == {leaf} \X Vlans
OwnedOn(leaf, r) == HeldBy(tab, r) \cap RowsOf(leaf)

RangeOf(w) == IF home[w] = None THEN Serving ELSE Configured

(* Mutant of MayStart: a process serves requests while it synchronises. *)
MayStartEarly(w, r, leaf) ==
    /\ at[w].pc = "idle"
    /\ \A u \in Workers : ~(at[u].r = r /\ at[u].leaf = leaf)

MayStart(w, r, leaf) ==
    /\ at[w].pc = "idle"
    /\ home[w] # None => sync[home[w]] = "done"
    /\ \A u \in Workers : ~(at[u].r = r /\ at[u].leaf = leaf)

PickVlan(w, r, leaf) ==
    /\ MayStart(w, r, leaf)
    /\ OwnedOn(leaf, r) = {}
    /\ \E x \in FreeIds(tab) \cap RowsOf(leaf) :
           at' = [at EXCEPT ![w] =
                     [pc |-> "write", r |-> r, leaf |-> leaf, row |-> x]]
    /\ UNCHANGED <<tab, sync, pending>>

(* Matches nothing if the row is gone by then. *)
WriteVlan(w) ==
    /\ at[w].pc = "write"
    /\ ~Locked(at[w].row)
    /\ tab' = Assigned(tab, at[w].row, at[w].r)
    /\ at' = [at EXCEPT ![w].pc = "look"]
    /\ UNCHANGED <<sync, pending>>

(* The VLAN goes into the request to AFC; without a row it is -1. *)
LookUpVlan(w) ==
    /\ at[w].pc = "look"
    /\ at' = [at EXCEPT ![w] = Idle]
    /\ UNCHANGED <<tab, sync, pending>>

(* Mutant of ReleaseVlan: the row is freed, configured or not. *)
ReleaseVlanInPlace(w, r, leaf) ==
    /\ MayStart(w, r, leaf)
    /\ OwnedOn(leaf, r) # {}
    /\ tab' = [x \in DOMAIN tab |-> IF x \in OwnedOn(leaf, r) THEN Free ELSE tab[x]]
    /\ UNCHANGED <<sync, pending, at>>

ReleaseVlan(w, r, leaf) ==
    /\ MayStart(w, r, leaf)
    /\ OwnedOn(leaf, r) # {}
    /\ LET here == [x \in DOMAIN tab \cap RowsOf(leaf) |-> tab[x]]
       IN  \E t \in Released(here, RangeOf(w), {r}) :
               tab' = [x \in DOMAIN t \cup (DOMAIN tab \ RowsOf(leaf)) |->
                          IF x \in DOMAIN t THEN t[x] ELSE tab[x]]
    /\ UNCHANGED <<sync, pending, at>>

-------------------------------------------------------------------------------
Sync(s) ==
    \/ ReadRows(s) \/ Retry(s) \/ Commit(s)
    \/ \E x \in Rows : DeleteRow(s, x) \/ InsertRow(s, x)

Request(w) ==
    \/ \E r \in Routers, leaf \in Leaves :
           PickVlan(w, r, leaf) \/ ReleaseVlan(w, r, leaf)
    \/ WriteVlan(w) \/ LookUpVlan(w)

Next ==
    /\ (\E s \in Syncers : Sync(s)) \/ (\E w \in Workers : Request(w))
    /\ UNCHANGED home

Spec == Init /\ [][Next]_vars

(* A starting process does not stop in the middle. *)
FairSpec == Spec /\ \A s \in Syncers : WF_vars(Sync(s) /\ UNCHANGED home)

-------------------------------------------------------------------------------
(* Properties *)

(* "so we don't accidentally delete allocated segments"                    *)
(* (border_vlan_manager.py:80): a sync that read a row as free never       *)
(* deletes it from the router that has been given it since.                *)
AllocatedRowsKept ==
    [][\A x \in DOMAIN tab :
          tab[x] # Free /\ sync' # sync =>
              x \in DOMAIN tab' /\ tab'[x] = tab[x]]_vars

(* The rest holds of processes that start together; workers of older ones  *)
(* work under other vlan_ranges.                                           *)
NoOlder == \A w \in Workers : home[w] # None

(* Once one of several processes has started, every configured VLAN has a  *)
(* row, whichever of them inserted it, and a VLAN that is not configured   *)
(* is not free for allocation, not even if its router gives it up while    *)
(* others are starting.                                                    *)
TableConfigured ==
    NoOlder /\ (\E s \in Syncers : sync[s] = "done") =>
        Configured \subseteq DOMAIN tab /\ FreeIds(tab) \subseteq Configured

(* The request's look-up by router and leaf finds the row it has written. *)
Finds(w) == OwnedOn(at[w].leaf, at[w].r) = {at[w].row}

(* Request u, which read the row of w as free, is given it as well. *)
Overwrites(u, w) ==
    at[u].pc = "write" /\ at[u].row = at[w].row /\ at'[u].pc = "look"

(* The look-up that follows an allocation (afc_l3_driver.py:189) finds, by *)
(* router and leaf, the very row that was chosen.  No starting process has *)
(* deleted it before it is written, from under a process that serves       *)
(* requests already; and once written it is kept, by syncs and by releases *)
(* for other routers, unless another request that chose the same row takes *)
(* it: the look-up of the first then says -1, for there is no lock.        *)
AllocationFound ==
    [][\A w \in Workers : at'[w].pc = "look" =>
          /\ at[w].pc = "write" /\ NoOlder => Finds(w)'
          /\ at[w].pc = "look" /\ Finds(w) =>
                Finds(w)' \/ \E u \in Workers \ {w} : Overwrites(u, w)]_vars

(* Every starting process gets through its sync: the retries of processes  *)
(* that start together come to an end, whatever workers do meanwhile.      *)
SyncCompletes == \A s \in Syncers : <>(sync[s] = "done")

===============================================================================
