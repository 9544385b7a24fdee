----------------------------- MODULE Resources -----------------------------
(***************************************************************************)
(* The resource configuration of one machine (server/resources.ts,         *)
(* server/admin/resources-routes.ts): pools of things that can be          *)
(* allocated, and resource groups that are given parts of them.  Several   *)
(* administrators change it: through the routes for one pool or one group, *)
(* and through the editor of the client, which loads the pools and the     *)
(* groups with two requests, keeps a draft, and saves the whole            *)
(* configuration at once (ResourceConfigurationModal).                     *)
(*                                                                         *)
(* A row's version grows by one whenever the row is written, and a request *)
(* names the version it started from.  The only thing a comparison can     *)
(* tell is whether the row was written since it was loaded, so the model   *)
(* keeps, for one editor, the rows it loaded and those not written since,  *)
(* instead of version numbers.  Every other administrator has just loaded  *)
(* the rows it changes.                                                    *)
(*                                                                         *)
(* The numbers of a range and the devices of a list are both units here.   *)
(* Names, labels and the order of rows are left out, and so is what a      *)
(* group is booked for (Scheduling).                                       *)
(***************************************************************************)
EXTENDS Integers, FiniteSetsExt

CONSTANTS
    Pools, Groups,  \* bound: row ids of resource_pools and resource_groups
    Capacities,     \* the pools whose kind is CAPACITY; the others hold units
    Units,          \* range numbers, devices
    MaxCapacity     \* bound: quantities

ASSUME ResourceAssumption ==
    /\ Pools \cap Groups = {}
    /\ Capacities \subseteq Pools
    /\ MaxCapacity \in Nat \ {0}

VARIABLES
    pool,    \* live rows of resource_pools: id -> row
    group,   \* live groups: id -> its allocations, pool -> what of it
    gone,    \* deleted ids; their rows stay in the tables
    loaded,  \* the rows the editor's draft was made from
    fresh,   \* those of them not written since
    changed, \* history: rows that others have changed since the editor loaded them
    last     \* history: the kind of the last request

vars == <<pool, group, gone, loaded, fresh, changed, last>>

Modes == {"EXCLUSIVE", "SHARED"}
UnitPools == Pools \ Capacities

PoolRow(p) ==
    IF p \in Capacities
    THEN [mode : Modes, units : {{}}, capacity : 1..MaxCapacity]
    ELSE [mode : Modes, units : (SUBSET Units) \ {{}}, capacity : {0}]

Share == [units : SUBSET Units, quantity : 0..MaxCapacity]

\* What a request may ask of pool p for a group (allocationSchema).
ShareOf(p) ==
    IF p \in Capacities
    THEN [units : {{}}, quantity : 1..MaxCapacity]
    ELSE [units : (SUBSET Units) \ {{}}, quantity : {0}]

Allocations(S) == {a \in [S -> Share] : \A p \in S : a[p] \in ShareOf(p)}

\* A group has at least one allocation.
Requested(live) == UNION {Allocations(S) : S \in (SUBSET live) \ {{}}}

TypeOK ==
    /\ DOMAIN pool \subseteq Pools
    /\ \A p \in DOMAIN pool : pool[p] \in PoolRow(p)
    /\ DOMAIN group \subseteq Groups
    /\ \A g \in DOMAIN group : \A p \in DOMAIN group[g] : group[g][p] \in ShareOf(p)
    /\ gone \subseteq (Pools \cup Groups) \ (DOMAIN pool \cup DOMAIN group)
    /\ fresh \subseteq loaded
    /\ loaded \subseteq Pools \cup Groups

-----------------------------------------------------------------------------
NoRows == [x \in {} |-> {}]

With(table, new) ==
    [x \in DOMAIN table \cup DOMAIN new |-> IF x \in DOMAIN new THEN new[x] ELSE table[x]]

Without(table, S) == [x \in DOMAIN table \ S |-> table[x]]

Live == DOMAIN pool \cup DOMAIN group

\* The groups of a configuration that have a share of p.
UsersOf(groups, p) == {g \in DOMAIN groups : p \in DOMAIN groups[g]}

Claimed(groups, p) == UNION {groups[g][p].units : g \in UsersOf(groups, p)}

\* SELECT SUM(quantity_milli)
Allocated(groups, p) ==
    MapThenSumSet(LAMBDA g : groups[g][p].quantity, UsersOf(groups, p))

\* A share of a shared capacity is all of it, whatever was asked for.
Resolved(pools, shares) ==
    [p \in DOMAIN shares |->
        IF p \in Capacities /\ pools[p].mode = "SHARED"
        THEN [shares[p] EXCEPT !.quantity = pools[p].capacity]
        ELSE shares[p]]

-----------------------------------------------------------------------------
(* The two validations *)

\* validateAndResolveGroupAllocations for one allocation, given the other groups.
ShareAccepted(groups, p, share) ==
    IF p \in Capacities
    THEN pool[p].mode = "EXCLUSIVE" =>
            Allocated(groups, p) + share.quantity <= pool[p].capacity
    ELSE /\ share.units \subseteq pool[p].units
         /\ pool[p].mode = "EXCLUSIVE" => share.units \cap Claimed(groups, p) = {}

\* validateAndResolveGroupAllocations: a kind that does not fit is refused too.
SharesAccepted(groups, shares) ==
    \A p \in DOMAIN shares : p \in DOMAIN pool /\ ShareAccepted(groups, p, shares[p])

\* Mutant of Valid: the units of a shared pool are not compared with its range.
ValidUnlessShared(pools, groups) ==
    \A p \in DOMAIN pools :
        pools[p].mode = "EXCLUSIVE" =>
            /\ Claimed(groups, p) \subseteq pools[p].units
            /\ p \in Capacities => Allocated(groups, p) <= pools[p].capacity

\* validateResourceConfiguration, on the whole configuration
Valid(pools, groups) ==
    /\ \A g \in DOMAIN groups : DOMAIN groups[g] \subseteq DOMAIN pools
    /\ \A p \in DOMAIN pools :
          /\ Claimed(groups, p) \subseteq pools[p].units
          /\ pools[p].mode = "EXCLUSIVE" =>
                /\ p \in Capacities => Allocated(groups, p) <= pools[p].capacity
                /\ \A g, h \in UsersOf(groups, p) :
                      g # h => groups[g][p].units \cap groups[h][p].units = {}

-----------------------------------------------------------------------------
(* One pool or group at a time *)

\* The rows these requests write are no longer those the editor loaded.
Others(written) ==
    /\ fresh' = fresh \ written
    /\ last' = "other"
    /\ UNCHANGED loaded

\* POST /machines/:id/resource-pools
CreatePool(p, row) ==
    /\ p \notin Live \cup gone
    /\ pool' = With(pool, [x \in {p} |-> row])
    /\ UNCHANGED <<group, gone>>
    /\ Others({})

\* PATCH /resource-pools/:id.  A new capacity of a shared pool is written to every
\* group's share of it; the versions of those groups stay.
EditPool(p, row) ==
    /\ Claimed(group, p) \subseteq row.units
    /\ p \in Capacities /\ row.mode = "EXCLUSIVE" => Allocated(group, p) <= row.capacity
    /\ pool' = [pool EXCEPT ![p] = row]
    /\ group' = [g \in DOMAIN group |->
            IF g \in UsersOf(group, p)
            THEN [group[g] EXCEPT ![p] = Resolved(pool', group[g])[p]]
            ELSE group[g]]
    /\ UNCHANGED gone
    /\ Others({p})

\* DELETE /resource-pools/:id, tombstoneResourcePool
DeletePool(p) ==
    /\ UsersOf(group, p) = {}
    /\ pool' = Without(pool, {p})
    /\ gone' = gone \cup {p}
    /\ UNCHANGED group
    /\ Others({p})

\* POST /machines/:id/groups
CreateGroup(g, shares) ==
    /\ g \notin Live \cup gone
    /\ SharesAccepted(group, shares)
    /\ group' = With(group, [x \in {g} |-> Resolved(pool, shares)])
    /\ UNCHANGED <<pool, gone>>
    /\ Others({})

\* Mutant of Written: an edit of a group leaves its version.
WrittenNot(g) == {}

\* The rows whose version an edit of a group advances.
Written(g) == {g}

\* PATCH /groups/:id
EditGroup(g, shares) ==
    /\ SharesAccepted(Without(group, {g}), shares)
    /\ group' = [group EXCEPT ![g] = Resolved(pool, shares)]
    /\ UNCHANGED <<pool, gone>>
    /\ Others(Written(g))

\* deleteResourceGroupRecords
DeleteGroup(g) ==
    /\ group' = Without(group, {g})
    /\ gone' = gone \cup {g}
    /\ UNCHANGED pool
    /\ Others({g})

-----------------------------------------------------------------------------
(* The editor *)

\* An untouched draft follows the server; pools and groups arrive apart.
Load(part, rows) ==
    /\ loaded' = (loaded \ part) \cup rows
    /\ fresh' = (fresh \ part) \cup rows
    /\ changed' = changed \ part
    /\ last' = "load"
    /\ UNCHANGED <<pool, group, gone>>

\* A draft: the loaded rows, edited, without the pools its author removed (groups cannot
\* be), and new rows, whose ids are random: nobody has used them.
Draft(pools, groups, removed) ==
    /\ removed = (loaded \cap Pools) \ DOMAIN pools
    /\ loaded \cap Groups \subseteq DOMAIN groups
    /\ ((DOMAIN pools \cup DOMAIN groups) \ loaded) \cap (Live \cup gone) = {}

\* What an overwriting save adds to the body: the live rows the draft does not name.
UnseenPools(named) == Without(pool, named)
UnseenGroups(named) == Without(group, named)

\* The body leaves nothing out.
Complete(pools, groups, removed) ==
    Live \subseteq DOMAIN pools \cup DOMAIN groups \cup removed

\* What the draft was loaded from is still there and, unless it may be overwritten, as it
\* was: checkEditVersion for every row.
Admitted(overwrite) ==
    /\ loaded \subseteq Live
    /\ overwrite \/ loaded \subseteq fresh

\* PUT /machines/:id/resource-configuration
Save(pools, groups, removed, overwrite) ==
    LET allPools  == IF overwrite
                     THEN With(UnseenPools(DOMAIN pools \cup removed), pools) ELSE pools
        allGroups == IF overwrite
                     THEN With(UnseenGroups(DOMAIN groups), groups) ELSE groups
    IN  /\ Admitted(overwrite)
        /\ Draft(pools, groups, removed)
        /\ Complete(allPools, allGroups, removed)
        /\ Valid(allPools, allGroups)
        /\ pool' = allPools
        /\ group' = [g \in DOMAIN allGroups |-> Resolved(allPools, allGroups[g])]
        /\ gone' = gone \cup removed
        /\ loaded' = DOMAIN pool' \cup DOMAIN group'   \* onSaved loads them again
        /\ fresh' = loaded'
        /\ last' = IF overwrite THEN "overwrite" ELSE "save"

-----------------------------------------------------------------------------
Init ==
    /\ pool = NoRows
    /\ group = NoRows
    /\ gone = {}
    /\ loaded = {}
    /\ fresh = {}
    /\ changed = {}
    /\ last = "load"

\* What others have done to the rows of the editor's draft, quantities aside: a share
\* of a shared capacity has none of its own.
Changed ==
    LET Content(row) == [p \in DOMAIN row |-> row[p].units]
    IN  {p \in Pools : (p \in DOMAIN pool) # (p \in DOMAIN pool')}
        \cup {p \in (DOMAIN pool) \cap DOMAIN pool' : pool[p] # pool'[p]}
        \cup {g \in Groups : (g \in DOMAIN group) # (g \in DOMAIN group')}
        \cup {g \in (DOMAIN group) \cap DOMAIN group' : Content(group[g]) # Content(group'[g])}

RowStep ==
    /\ \/ \E p \in Pools : \E row \in PoolRow(p) : CreatePool(p, row)
       \/ \E p \in DOMAIN pool :
             \/ \E row \in PoolRow(p) : EditPool(p, row)
             \/ DeletePool(p)
       \/ \E g \in Groups, shares \in Requested(DOMAIN pool) :
             \/ CreateGroup(g, shares)
             \/ g \in DOMAIN group /\ EditGroup(g, shares)
       \/ \E g \in DOMAIN group : DeleteGroup(g)
    /\ changed' = (changed \cup Changed) \ (gone' \ loaded)   \* made and deleted since

LoadStep == Load(Pools, DOMAIN pool) \/ Load(Groups, DOMAIN group)

\* Bound: a save submits at most one row otherwise than it is stored; the rows of a stale
\* draft may differ from what is stored in any way.
Submitted(table, ids) == [x \in ids \cap (DOMAIN table) |-> table[x]]

Edited(table, ids, rows) ==
    {With(table, [y \in {x} |-> row]) : x \in ids \ gone, row \in rows}

SaveStep ==
    /\ \E overwrite \in {o \in BOOLEAN : Admitted(o)},
          removed \in SUBSET (loaded \cap Pools) :
          LET pools  == Submitted(pool, (loaded \cap Pools) \ removed)
              groups == Submitted(group, loaded \cap Groups)
          IN  \/ Save(pools, groups, removed, overwrite)
              \/ \E p \in Pools \ removed : \E edited \in Edited(pools, {p}, PoolRow(p)) :
                    Save(edited, groups, removed, overwrite)
              \/ \E edited \in Edited(groups, Groups, Requested(DOMAIN pool)) :
                    Save(pools, edited, removed, overwrite)
    /\ changed' = {}

Next == RowStep \/ LoadStep \/ SaveStep

Spec == Init /\ [][Next]_vars

-----------------------------------------------------------------------------
(* Properties *)

\* Every share is of a live pool, its units are the pool's, and a share of a shared capacity
\* is all of it.
SharesFit ==
    /\ \A g \in DOMAIN group : \A p \in DOMAIN group[g] :
          p \in DOMAIN pool /\ group[g][p].units \subseteq pool[p].units
    /\ \A p \in (DOMAIN pool) \cap Capacities :
          pool[p].mode = "SHARED" =>
             \A g \in UsersOf(group, p) : group[g][p].quantity = pool[p].capacity

\* Whatever is allocated exists, whichever of the two validations let it in and however
\* pools are edited, shrunk and deleted later: the shares fit, and the groups never have
\* more of an exclusive capacity than there is.
AllocationsFit ==
    /\ SharesFit
    /\ \A p \in (DOMAIN pool) \cap Capacities :
          pool[p].mode = "EXCLUSIVE" => Allocated(group, p) <= pool[p].capacity

\* A save that was not confirmed as an overwrite never undoes what another administrator
\* has done since the editor loaded its rows, although pools and groups are loaded apart;
\* a confirmed one keeps the pools and groups the draft does not know, with their
\* allocations (docs/manual/machine-admin.md:32).
OthersEditsKept ==
    [][/\ last' = "save" => changed = {}
       /\ last' = "overwrite" =>
            /\ \A p \in DOMAIN pool \ loaded : p \in DOMAIN pool'
            /\ \A g \in DOMAIN group \ loaded :
                  /\ g \in DOMAIN group'
                  /\ DOMAIN group'[g] = DOMAIN group[g]
                  /\ \A p \in DOMAIN group[g] : group'[g][p].units = group[g][p].units]_vars

=============================================================================
