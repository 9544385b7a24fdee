----------------------------- MODULE Scheduling -----------------------------
(***************************************************************************)
(* The booking core of Allocube: the tables reservations,                  *)
(* resource_unavailability, machines, resource_groups (status and          *)
(* tombstones), machine_access_memberships and users (status), and every   *)
(* handler that changes the first three or releases bookings: those of     *)
(* server/scheduling.ts, server/unavailability.ts, server/machine-access.ts*)
(* and server/admin/ (deletion-service, access-routes, users-routes).      *)
(*                                                                         *)
(* A handler runs inside withImmediateTransaction (server/db.ts:1064), on  *)
(* the only thread that writes these tables, so it is one action.  What is *)
(* not atomic is the wall clock: a handler that reads it several times may *)
(* see the minute change between two reads.  Such a handler reads clock    *)
(* first and `late' last, with late <= clock + MaxSkew; the later reads    *)
(* agree with each other.  MaxSkew = 0 is the assumption that no minute    *)
(* boundary falls inside a transaction.                                    *)
(*                                                                         *)
(* Times are minutes.  Reservation and window bounds are whole minutes     *)
(* (minuteDateTimeSchema, normalizePlannedTimes), so every comparison of a *)
(* bound with nowIso() depends on the minute alone: start <= now iff       *)
(* start <= minute(now), and "less than 60 s after the start" iff          *)
(* start = minute(now).                                                    *)
(***************************************************************************)
EXTENDS Integers, FiniteSets

CONSTANTS
    Machines, Groups,   \* machines and resource groups
    MachineOf,          \* the machine of each group (resource_groups.machine_id)
    Users,
    Admins,             \* users whose role is SYSTEM_ADMIN
    BlockAdminBookings, \* the setting blockAdminBookings
    AdvanceMinutes,     \* the setting advanceDays, in minutes
    ResIds, WinIds,     \* bound: row ids of the two tables
    MaxMinute,          \* bound: the last minute the clock reaches
    MaxRevision,        \* bound: the schedule changes of a behaviour
    MaxBatch,           \* bound: segments in one request (100 in the code)
    MaxSkew             \* minute boundaries that fall inside a transaction

ASSUME TargetAssumption ==
    /\ Machines \cap Groups = {}
    /\ MachineOf \in [Groups -> Machines]
    /\ Admins \subseteq Users
    /\ BlockAdminBookings \in BOOLEAN

ASSUME BoundAssumption ==
    /\ MaxMinute \in Nat
    /\ MaxRevision \in Nat
    /\ MaxBatch \in Nat
    /\ MaxSkew \in Nat
    /\ AdvanceMinutes \in Nat

VARIABLES
    clock,     \* the current minute
    res,       \* reservations: id -> row
    win,       \* resource_unavailability: id -> row
    status,    \* machines.status and resource_groups.status
    deleted,   \* deleted_machine_tombstones and deleted_resource_group_tombstones
    access,    \* machine_access_memberships.expires_at; NotMember: no row
    account,   \* users.status, and whether the user has a tombstone
    revision   \* the schedule revision (bumpScheduleRevision)

vars == <<clock, res, win, status, deleted, access, account, revision>>

-----------------------------------------------------------------------------
(* Types *)

Minutes == 0..MaxMinute
DistantFuture == MaxMinute + 1   \* DISTANT_FUTURE; also "no expiry" (NULL)
NotMember == 0                   \* an expiry lies after the minute it is set in

Targets == Machines \cup Groups
Scopes == {"RESOURCE_GROUP", "MACHINE"}
Segment == [group : Groups, scope : Scopes, start : Minutes, end : Minutes]
ResRow == [user : Users, group : Groups, scope : Scopes,
           start : Minutes, end : Minutes,
           status : {"CONFIRMED", "CANCELLED", "CANCELLED_UNAVAILABILITY"}]
WinRow == [target : Targets, kind : {"PLANNED", "LONG_TERM"},
           start : Minutes, end : Minutes \cup {DistantFuture},
           status : {"ACTIVE", "CANCELLED"}]

TypeOK ==
    /\ clock \in Minutes
    /\ DOMAIN res \subseteq ResIds
    /\ \A i \in DOMAIN res : res[i] \in ResRow
    /\ DOMAIN win \subseteq WinIds
    /\ \A w \in DOMAIN win : win[w] \in WinRow
    /\ status \in [Targets -> {"ACTIVE", "DISABLED"}]
    /\ deleted \subseteq Targets
    /\ access \in [Users -> [Machines -> Minutes \cup {DistantFuture}]]
    /\ account \in [Users -> {"ACTIVE", "DISABLED", "DELETED"}]
    /\ revision \in 0..MaxRevision

-----------------------------------------------------------------------------
(* Reading the tables *)

Later(a, b) == IF a >= b THEN a ELSE b
Overlap(a, b) == a.start < b.end /\ b.start < a.end

MachineOfTarget(t) == IF t \in Machines THEN t ELSE MachineOf[t]

\* Two bookings, or requests, that need the same hardware.
Contend(a, b) ==
    /\ MachineOf[a.group] = MachineOf[b.group]
    /\ a.group = b.group \/ a.scope = "MACHINE" \/ b.scope = "MACHINE"

\* A window on target t concerns booking r: reservationImpacts' WHERE clause and,
\* read from the request's side, the one of getBusyIntervals.
Concerns(t, r) ==
    /\ MachineOfTarget(t) = MachineOf[r.group]
    /\ t \in Machines \/ t = r.group \/ r.scope = "MACHINE"

Confirmed == {i \in DOMAIN res : res[i].status = "CONFIRMED"}
ActiveWin == {w \in DOMAIN win : win[w].status = "ACTIVE"}

LiveTarget(t) == t \notin deleted /\ MachineOfTarget(t) \notin deleted

\* previewSegments: the group and its machine exist and are ACTIVE and, for a
\* whole-machine request, no row of resource_groups on the machine has another
\* status; that last query does not leave out deleted groups.
TargetUsable(seg) ==
    LET m == MachineOf[seg.group] IN
    /\ LiveTarget(seg.group)
    /\ status[seg.group] = "ACTIVE"
    /\ status[m] = "ACTIVE"
    /\ seg.scope = "MACHINE" =>
         \A g \in Groups : MachineOf[g] = m => status[g] = "ACTIVE"

\* Mutant of BusyBookings: whole-machine bookings do not count.
BusyBookingsIgnoringScope(seg, excluded) ==
    {i \in Confirmed \ excluded :
        res[i].group = seg.group /\ Overlap(res[i], seg)}

\* getBusyIntervals: the bookings and windows in the way of seg.
BusyBookings(seg, excluded) ==
    {i \in Confirmed \ excluded : Contend(res[i], seg) /\ Overlap(res[i], seg)}

\* Mutant of BusyWindows: windows of the machine do not count.
BusyWindowsOfGroupOnly(seg) ==
    {w \in ActiveWin : win[w].target = seg.group /\ Overlap(win[w], seg)}

\* The windows of getBusyIntervals.
BusyWindows(seg) ==
    {w \in ActiveWin : Concerns(win[w].target, seg) /\ Overlap(win[w], seg)}

Available(seg, excluded) ==
    /\ TargetUsable(seg)
    /\ BusyBookings(seg, excluded) = {}
    /\ BusyWindows(seg) = {}

\* A minute of a request that no busy interval covers.
FreeMinute(seg, excluded, t) ==
    LET minute == [seg EXCEPT !.start = t, !.end = t + 1]
    IN  BusyBookings(minute, excluded) = {} /\ BusyWindows(minute) = {}

\* Mutant of FreePieces: each free minute is taken with the next one.
FreePiecesOneTooLong(seg, excluded) ==
    LET free == {t \in seg.start..(seg.end - 1) : FreeMinute(seg, excluded, t)}
    IN  {[seg EXCEPT !.start = t, !.end = t + 2] : t \in free}

\* splitByBusy: the maximal free pieces of a request.
FreePieces(seg, excluded) ==
    LET free == {t \in seg.start..(seg.end - 1) : FreeMinute(seg, excluded, t)}
        runs == {x \in free \X free :
                    /\ x[1]..x[2] # {} /\ x[1]..x[2] \subseteq free
                    /\ x[1] - 1 \notin free /\ x[2] + 1 \notin free}
    IN  {[seg EXCEPT !.start = x[1], !.end = x[2] + 1] : x \in runs}

\* normalizeSegmentStart; an IMMEDIATE request is one that starts at this minute.
Normalize(seg, minute) == [seg EXCEPT !.start = Later(seg.start, minute)]

\* validateSegmentTimes
ValidTimes(seg, minute) ==
    /\ seg.start < seg.end
    /\ seg.start >= minute
    /\ seg.end <= minute + AdvanceMinutes

\* assertUserCanSubmitReservations
MaySubmit(u) == ~(BlockAdminBookings /\ u \in Admins)

\* userCanAccessMachine at a minute
CanAccess(u, m, minute) ==
    /\ account[u] = "ACTIVE"
    /\ m \notin deleted
    /\ u \in Admins \/ access[u][m] > minute

\* assertMachineAccessEnd
WithinExpiry(u, m, end) == access[u][m] = NotMember \/ end <= access[u][m]

\* Mutant of AccessAllows: a booking may outlast the membership.
AccessIgnoringExpiry(u, segs, minute) ==
    \A s \in segs : CanAccess(u, MachineOf[s.group], minute)

\* assertUserCanAccessSegments
AccessAllows(u, segs, minute) ==
    \A s \in segs :
        LiveTarget(s.group) =>
            /\ WithinExpiry(u, MachineOf[s.group], s.end)
            /\ CanAccess(u, MachineOf[s.group], minute)

\* validateNoInternalOverlap
NoInternalOverlap(segs) ==
    \A a, b \in segs : a # b => ~(Contend(a, b) /\ Overlap(a, b))

OneScope(segs) == \A a, b \in segs : a.scope = b.scope

-----------------------------------------------------------------------------
(* Writing the tables *)

FreeRes == ResIds \ DOMAIN res
FreeWin == WinIds \ DOMAIN win

NoRows == [i \in {} |-> {}]

Injections(S, T) == {f \in [S -> T] : \A a, b \in S : f[a] = f[b] => a = b}

Booking(u, seg) ==
    [user |-> u, group |-> seg.group, scope |-> seg.scope,
     start |-> seg.start, end |-> seg.end, status |-> "CONFIRMED"]

\* Rows `table' with the rows `new' inserted.
With(table, new) ==
    [i \in DOMAIN table \cup DOMAIN new |->
        IF i \in DOMAIN new THEN new[i] ELSE table[i]]

\* insertReservationBatch: one fresh row per segment; idOf names them.
NewBookings(u, segs, idOf) ==
    [i \in {idOf[s] : s \in segs} |->
        Booking(u, CHOOSE s \in segs : idOf[s] = i)]

Bump == revision < MaxRevision /\ revision' = revision + 1

-----------------------------------------------------------------------------
(* Bookings: server/scheduling.ts *)

RequestSegments == {s \in Segment : s.start < s.end}

\* The batches a client can send: one to MaxBatch segments.  Those that overlap in
\* themselves are refused (RequestAccepted) and left out here.
Requests ==
    {r \in {{f[i] : i \in 1..MaxBatch} : f \in [1..MaxBatch -> RequestSegments]} :
        NoInternalOverlap(r)}

\* The minutes a later clock read of the same transaction may return.
LateReads == {m \in Minutes : clock <= m /\ m <= clock + MaxSkew}

Exact(req) == {Normalize(s, clock) : s \in req}

\* The segments a request ends up as: itself, or with autoAdjust its free pieces
\* (previewAvailableSegments, availableSegments).
Pieces(req, excluded, adjust) ==
    IF adjust
    THEN UNION {FreePieces(s, excluded) :
                  s \in {x \in Exact(req) : x.start < x.end /\ TargetUsable(x)}}
    ELSE Exact(req)

\* What a batch must satisfy whoever sends it.  A segment that has elapsed is
\* dropped with autoAdjust and refused without.  Two segments overlap before
\* normalisation iff they do after it, when both still have a future.
RequestAccepted(u, req, excluded, adjust, late) ==
    /\ MaySubmit(u)
    /\ \A s \in Exact(req) : s.start < s.end \/ ~adjust => ValidTimes(s, clock)
    /\ NoInternalOverlap(req)
    /\ AccessAllows(u, Exact(req), late)
    /\ ~adjust => \A s \in Exact(req) : Available(s, excluded)

\* commitReservationBatch
CommitBatch(u, req, adjust, late) ==
    /\ OneScope(req)
    /\ RequestAccepted(u, req, {}, adjust, late)
    /\ LET segs == Pieces(req, {}, adjust) IN
       /\ segs # {}
       /\ \E idOf \in Injections(segs, FreeRes) :
             res' = With(res, NewBookings(u, segs, idOf))
    /\ Bump
    /\ clock' = late
    /\ UNCHANGED <<win, status, deleted, access, account>>

\* Mutant of OwnConfirmed: the owner is not compared.
ConfirmedOfAnyone(u, i, minute) ==
    /\ i \in Confirmed
    /\ CanAccess(u, MachineOf[res[i].group], minute)

\* getReplaceableReservation; updateReservation makes the same checks.
OwnConfirmed(u, i, minute) ==
    /\ i \in Confirmed
    /\ res[i].user = u
    /\ CanAccess(u, MachineOf[res[i].group], minute)

\* Mutant of CutShort: a booking under way is cancelled, not cut.
CancelledWhole(row, minute) == [row EXCEPT !.status = "CANCELLED"]

\* What is left of a booking its owner replaces at a minute.
CutShort(row, minute) ==
    IF row.start < minute THEN [row EXCEPT !.end = minute]
                          ELSE [row EXCEPT !.status = "CANCELLED"]

\* replaceReservationBatch: serverMinute is read before actionAt, and an original
\* that ended between the two reads is left as it is.
ReplaceBatch(u, i, req, late) ==
    /\ OwnConfirmed(u, i, late)
    /\ RequestAccepted(u, req, {i}, FALSE, late)
    /\ \A s \in req : s.scope = res[i].scope
    /\ LET segs == Exact(req)
           rest == IF res[i].end <= late THEN res[i] ELSE CutShort(res[i], clock)
       IN  \E idOf \in Injections(segs, FreeRes) :
             res' = With([res EXCEPT ![i] = rest], NewBookings(u, segs, idOf))
    /\ Bump
    /\ clock' = late
    /\ UNCHANGED <<win, status, deleted, access, account>>

\* replaceMultipleReservations: one clock read, no rule about the scopes.  The
\* state tokens only say that the client has read the rows since they changed.
ReplaceMany(u, originals, req, adjust, late) ==
    /\ \A i \in originals : OwnConfirmed(u, i, late) /\ res[i].end > clock
    /\ RequestAccepted(u, req, originals, adjust, late)
    /\ LET segs == Pieces(req, originals, adjust)
           rest == [i \in DOMAIN res |-> IF i \in originals
                                         THEN CutShort(res[i], clock)
                                         ELSE res[i]]
       IN  /\ segs # {}
           /\ \E idOf \in Injections(segs, FreeRes) :
                 res' = With(rest, NewBookings(u, segs, idOf))
    /\ Bump
    /\ clock' = late
    /\ UNCHANGED <<win, status, deleted, access, account>>

\* updateReservation: nowIso(), then the minute validateSegmentTimes reads, then
\* the one previewSegments reads and moves the start up to.  The row receives the
\* start that was asked for.  A booking that has started keeps its times.
UpdateAccepted(u, i, start, end, validated, previewed) ==
    LET m == MachineOf[res[i].group]
        seg == [group |-> res[i].group, scope |-> res[i].scope,
                start |-> start, end |-> end]
        checked == Normalize(seg, previewed)
    IN
    /\ MaySubmit(u)
    /\ OwnConfirmed(u, i, clock)
    /\ WithinExpiry(u, m, end)
    /\ res[i].end > clock
    /\ \/ /\ res[i].start <= clock
          /\ start = res[i].start /\ end = res[i].end
          /\ previewed = clock
       \/ /\ res[i].start > clock
          /\ ValidTimes(seg, validated)
          /\ ValidTimes(checked, previewed)
          /\ Available(checked, {i})

UpdateBooking(u, i, start, end, validated, previewed) ==
    /\ UpdateAccepted(u, i, start, end, validated, previewed)
    /\ res' = [res EXCEPT ![i].start = start, ![i].end = end]
    /\ Bump
    /\ clock' = previewed
    /\ UNCHANGED <<win, status, deleted, access, account>>

\* cancelReservation, by the owner or by a manager of the machine
CancelBooking(i) ==
    /\ i \in Confirmed
    /\ res[i].start > clock
    /\ res' = [res EXCEPT ![i].status = "CANCELLED"]
    /\ Bump
    /\ UNCHANGED <<clock, win, status, deleted, access, account>>

\* endReservationEarly: within its first minute a booking is deleted.
EndEarly(i) ==
    /\ i \in Confirmed
    /\ res[i].start <= clock /\ clock < res[i].end
    /\ res' = IF res[i].start = clock
              THEN [j \in DOMAIN res \ {i} |-> res[j]]
              ELSE [res EXCEPT ![i].end = clock]
    /\ Bump
    /\ UNCHANGED <<clock, win, status, deleted, access, account>>

-----------------------------------------------------------------------------
(* Maintenance and deactivation: server/unavailability.ts *)

\* reservationImpacts
Impacted(t, w) == {i \in Confirmed : Concerns(t, res[i]) /\ Overlap(res[i], w)}

\* classifyImpact: CANCEL, TRIM_START, or TRIM_END and the first half of a SPLIT
Shrink(row, w) ==
    IF w.start <= row.start /\ row.end <= w.end
    THEN [row EXCEPT !.status = "CANCELLED_UNAVAILABILITY"]
    ELSE IF w.start <= row.start
         THEN [row EXCEPT !.start = w.end]
         ELSE [row EXCEPT !.end = w.start]

\* Mutant of SplitByWindow: the second half of a split is lost.
NeverSplit(t, w) == {}

\* The bookings that reach beyond the window on both sides (kind SPLIT).
SplitByWindow(t, w) ==
    {i \in Impacted(t, w) : res[i].start < w.start /\ w.end < res[i].end}

\* applyReservationImpacts: childOf names the row of each second half.
Adjusted(t, w, childOf) ==
    With([i \in DOMAIN res |-> IF i \in Impacted(t, w) THEN Shrink(res[i], w) ELSE res[i]],
         [c \in {childOf[i] : i \in DOMAIN childOf} |->
            [res[CHOOSE i \in DOMAIN childOf : childOf[i] = c] EXCEPT !.start = w.end]])

NewWindow(t, kind, start, end) ==
    [target |-> t, kind |-> kind, start |-> start, end |-> end, status |-> "ACTIVE"]

\* createPlannedUnavailability.  The start moves up to the current minute; the check
\* of the previewed revision is skipped when the caller asks to overwrite.
CreatePlanned(t, start, end) ==
    LET w == NewWindow(t, "PLANNED", Later(start, clock), end) IN
    /\ w.start < w.end
    /\ LiveTarget(t)
    /\ status[t] = "ACTIVE" /\ status[MachineOfTarget(t)] = "ACTIVE"
    /\ \A v \in ActiveWin : win[v].target = t => ~Overlap(win[v], w)
    /\ \E id \in FreeWin : win' = With(win, [v \in {id} |-> w])
    /\ \E childOf \in Injections(SplitByWindow(t, w), FreeRes) :
          res' = Adjusted(t, w, childOf)
    /\ Bump
    /\ UNCHANGED <<clock, status, deleted, access, account>>

\* cancelUnavailability; bookings the window changed stay as they are.
CancelPlanned(id) ==
    /\ id \in ActiveWin
    /\ win[id].kind = "PLANNED"
    /\ win[id].end > clock
    /\ win' = [win EXCEPT ![id].status = "CANCELLED"]
    /\ Bump
    /\ UNCHANGED <<clock, res, status, deleted, access, account>>

\* stopPlannedMaintenanceForDisable: of the planned windows of t, and of the groups
\* of a machine t, those under way end now and those to come are cancelled.
StoppedForDisable(t, w, minute) ==
    IF /\ w.status = "ACTIVE" /\ w.kind = "PLANNED"
       /\ MachineOfTarget(w.target) = MachineOfTarget(t)
       /\ t \in Machines \/ w.target = t
       /\ w.end > minute
    THEN IF w.start < minute THEN [w EXCEPT !.end = minute]
                             ELSE [w EXCEPT !.status = "CANCELLED"]
    ELSE w

\* disableLongTerm: startAt is read before the transaction begins.  A resource
\* group can be disabled while its machine is.
Disable(t, late) ==
    LET w == NewWindow(t, "LONG_TERM", clock, DistantFuture) IN
    /\ LiveTarget(t)
    /\ status[t] = "ACTIVE"
    /\ status' = [status EXCEPT ![t] = "DISABLED"]
    /\ \E id \in FreeWin :
          win' = With([v \in DOMAIN win |-> StoppedForDisable(t, win[v], clock)],
                      [v \in {id} |-> w])
    /\ res' = Adjusted(t, w, NoRows)
    /\ Bump
    /\ clock' = late
    /\ UNCHANGED <<deleted, access, account>>

OpenLongTerm(t) ==
    {w \in ActiveWin : win[w].target = t /\ win[w].kind = "LONG_TERM"}

\* enableTarget, once the target is known to be disabled: each window of an earlier
\* deactivation that is still ACTIVE must still be open, or the handler throws.
EnableAccepted(t) ==
    /\ LiveTarget(t)
    /\ status[t] = "DISABLED"
    /\ \A w \in OpenLongTerm(t) : win[w].start >= clock \/ win[w].end > clock

\* Mutant of ClosedByEnable: the deactivation window stays open.
LeftOpenByEnable(t, w) == win[w]

\* What enableTarget makes of window w.
ClosedByEnable(t, w) ==
    IF w \notin OpenLongTerm(t) THEN win[w]
    ELSE IF win[w].start >= clock THEN [win[w] EXCEPT !.status = "CANCELLED"]
                                  ELSE [win[w] EXCEPT !.end = clock]

Enable(t) ==
    /\ EnableAccepted(t)
    /\ status' = [status EXCEPT ![t] = "ACTIVE"]
    /\ win' = [w \in DOMAIN win |-> ClosedByEnable(t, w)]
    /\ Bump
    /\ UNCHANGED <<clock, res, deleted, access, account>>

-----------------------------------------------------------------------------
(* Deletion: server/admin/deletion-service.ts *)

\* DELETE /admin/groups/:id, deleteResourceGroupRecords
DeleteGroup(g) ==
    /\ LiveTarget(g)
    /\ status[g] = "DISABLED"
    /\ win' = [w \in DOMAIN win |->
                 IF win[w].target = g THEN [win[w] EXCEPT !.status = "CANCELLED"]
                                      ELSE win[w]]
    /\ deleted' = deleted \cup {g}
    /\ Bump
    /\ UNCHANGED <<clock, res, status, access, account>>

GroupsOf(m) == {g \in Groups : MachineOf[g] = m}

\* DELETE /admin/machines/:id, deleteMachineRecords
DeleteMachine(m) ==
    /\ LiveTarget(m)
    /\ status[m] = "DISABLED"
    /\ win' = [w \in DOMAIN win |->
                 IF MachineOfTarget(win[w].target) = m
                 THEN [win[w] EXCEPT !.status = "CANCELLED"]
                 ELSE win[w]]
    /\ status' = [t \in Targets |-> IF t \in GroupsOf(m) THEN "DISABLED" ELSE status[t]]
    /\ deleted' = deleted \cup GroupsOf(m) \cup {m}
    /\ access' = [u \in Users |-> [access[u] EXCEPT ![m] = NotMember]]
    /\ Bump
    /\ UNCHANGED <<clock, res, account>>

-----------------------------------------------------------------------------
(* Membership: server/machine-access.ts and server/admin/access-routes.ts *)

Expiries == {e \in Minutes : e > clock} \cup {DistantFuture}

BookingsOn(u, m) == {i \in Confirmed : res[i].user = u /\ MachineOf[res[i].group] = m}

\* grantMachineAccess, reached by an invitation (no membership that has not expired)
\* or by an approval, whose effectiveExpiry never shortens a membership.
GrantAccess(u, m, expiry) ==
    /\ u \notin Admins
    /\ account[u] = "ACTIVE"
    /\ m \notin deleted
    /\ access' = [access EXCEPT ![u][m] = Later(access[u][m], expiry)]
    /\ Bump
    /\ UNCHANGED <<clock, res, win, status, deleted, account>>

\* trimMachineAccessReservations
TrimToExpiry(row, expiry) ==
    IF row.end <= expiry THEN row
    ELSE IF row.start >= expiry THEN [row EXCEPT !.status = "CANCELLED"]
                                ELSE [row EXCEPT !.end = expiry]

\* PATCH /admin/machines/:id/members/:userId/expiry
SetExpiry(u, m, expiry) ==
    /\ m \notin deleted
    /\ access[u][m] # NotMember
    /\ access' = [access EXCEPT ![u][m] = expiry]
    /\ res' = [i \in DOMAIN res |->
                 IF i \in BookingsOn(u, m) /\ expiry < access[u][m]
                 THEN TrimToExpiry(res[i], expiry)
                 ELSE res[i]]
    /\ Bump
    /\ UNCHANGED <<clock, win, status, deleted, account>>

\* releaseMachineResources and the same statements of the handler that disables a
\* user, on the bookings `mine': now is read before currentMinute.
Released(mine, late) ==
    LET justStarted == {i \in mine : late <= res[i].start /\ res[i].start <= clock
                                                         /\ res[i].end > clock}
    IN  [i \in DOMAIN res \ justStarted |->
            IF i \notin mine THEN res[i]
            ELSE IF res[i].start > clock THEN [res[i] EXCEPT !.status = "CANCELLED"]
            ELSE IF res[i].start < late /\ res[i].end > clock
                 THEN [res[i] EXCEPT !.end = late]
                 ELSE res[i]]

\* removeMachineMembership, by a manager or by the member
RemoveMember(u, m, late) ==
    /\ access[u][m] # NotMember
    /\ res' = Released(BookingsOn(u, m), late)
    /\ access' = [access EXCEPT ![u][m] = NotMember]
    /\ Bump
    /\ clock' = late
    /\ UNCHANGED <<win, status, deleted, account>>

-----------------------------------------------------------------------------
(* Accounts: server/admin/users-routes.ts *)

\* POST /admin/users/:id/disable; memberships stay.
DisableUser(u, late) ==
    /\ u \notin Admins
    /\ account[u] = "ACTIVE"
    /\ account' = [account EXCEPT ![u] = "DISABLED"]
    /\ res' = Released({i \in Confirmed : res[i].user = u}, late)
    /\ Bump
    /\ clock' = late
    /\ UNCHANGED <<win, status, deleted, access>>

\* POST /admin/users/:id/enable; what was released stays released.
EnableUser(u) ==
    /\ u \notin Admins
    /\ account[u] = "DISABLED"
    /\ account' = [account EXCEPT ![u] = "ACTIVE"]
    /\ Bump
    /\ UNCHANGED <<clock, res, win, status, deleted, access>>

\* DELETE /admin/users/:id, deleteUserRecords
DeleteUser(u) ==
    /\ u \notin Admins
    /\ account[u] = "DISABLED"
    /\ account' = [account EXCEPT ![u] = "DELETED"]
    /\ access' = [access EXCEPT ![u] = [m \in Machines |-> NotMember]]
    /\ Bump
    /\ UNCHANGED <<clock, res, win, status, deleted>>

-----------------------------------------------------------------------------
Tick ==
    /\ clock < MaxMinute
    /\ clock' = clock + 1
    /\ UNCHANGED <<res, win, status, deleted, access, account, revision>>

Init ==
    /\ clock = 0
    /\ res = NoRows
    /\ win = NoRows
    /\ status = [t \in Targets |-> "ACTIVE"]
    /\ deleted = {}
    /\ access \in [Users -> [Machines -> {NotMember, DistantFuture}]]
    /\ \A u \in Admins : access[u] = [m \in Machines |-> NotMember]
    /\ account = [u \in Users |-> "ACTIVE"]
    /\ revision = 0

BookingStep ==
    /\ revision < MaxRevision
    /\ \E u \in Users, late \in LateReads :
          \/ \E req \in Requests, adjust \in BOOLEAN :
                \/ CommitBatch(u, req, adjust, late)
                \/ \E originals \in (SUBSET Confirmed) \ {{}} :
                      ReplaceMany(u, originals, req, adjust, late)
          \/ \E i \in Confirmed :
                \/ \E req \in Requests : ReplaceBatch(u, i, req, late)
                \/ \E start, end \in Minutes, validated \in LateReads :
                      validated <= late /\ UpdateBooking(u, i, start, end, validated, late)

ReleaseStep == \E i \in Confirmed : CancelBooking(i) \/ EndEarly(i)

AvailabilityStep ==
    \/ \E t \in Targets :
          \/ \E start, end \in Minutes : CreatePlanned(t, start, end)
          \/ \E late \in LateReads : Disable(t, late)
          \/ Enable(t)
    \/ \E w \in ActiveWin : CancelPlanned(w)

DeletionStep ==
    \/ \E g \in Groups : DeleteGroup(g)
    \/ \E m \in Machines : DeleteMachine(m)

MembershipStep ==
    \E u \in Users, m \in Machines :
       \/ \E expiry \in Expiries : GrantAccess(u, m, expiry) \/ SetExpiry(u, m, expiry)
       \/ \E late \in LateReads : RemoveMember(u, m, late)

AccountStep ==
    \E u \in Users :
       \/ \E late \in LateReads : DisableUser(u, late)
       \/ EnableUser(u)
       \/ DeleteUser(u)

Next ==
    \/ Tick
    \/ BookingStep
    \/ ReleaseStep
    \/ AvailabilityStep
    \/ DeletionStep
    \/ MembershipStep
    \/ AccountStep

Spec == Init /\ [][Next]_vars

-----------------------------------------------------------------------------
(* Properties *)

\* Two confirmed bookings that need the same hardware never overlap, whatever
\* mixture of batches, replacements, updates, splits and releases made them
\* (previewSegments and validateNoInternalOverlap together).
NoDoubleBooking ==
    \A i, j \in Confirmed :
        i # j /\ Contend(res[i], res[j]) => ~Overlap(res[i], res[j])

\* A confirmed booking never lies inside a maintenance or deactivation window of
\* its group or machine, nor a whole-machine booking inside one of any group of the
\* machine: later windows cut bookings, later bookings avoid windows.
BookingsClearOfWindows ==
    \A i \in Confirmed, w \in ActiveWin :
        Concerns(win[w].target, res[i]) => ~Overlap(res[i], win[w])

\* The active windows of one target are disjoint, so deactivating in the middle of
\* a maintenance, enabling, and planning again never leave two of them on top of
\* each other (stopPlannedMaintenanceForDisable, enableTarget).
WindowsOfTargetDisjoint ==
    \A v, w \in ActiveWin :
        v # w /\ win[v].target = win[w].target => ~Overlap(win[v], win[w])

\* A target is DISABLED iff an active LONG_TERM window of its own reaches past now:
\* status column and windows table tell the calendar the same story.
StatusMatchesWindows ==
    \A t \in Targets :
        LiveTarget(t) =>
            (status[t] = "DISABLED" <=> \E w \in OpenLongTerm(t) : win[w].end > clock)

\* While a target is disabled no planned maintenance of it, or of a group of a
\* disabled machine, is under way or still to come.
NoMaintenanceWhileDisabled ==
    \A w \in ActiveWin :
        LET t == win[w].target IN
        /\ win[w].kind = "PLANNED"
        /\ status[t] = "DISABLED" \/ status[MachineOfTarget(t)] = "DISABLED"
        => win[w].end <= clock

\* Windows and status of a target agree through any history of maintenance,
\* deactivation, enabling and deletion: no two active windows on top of each other,
\* the status column as the windows say, no maintenance of what is disabled.
WindowsConsistent ==
    /\ WindowsOfTargetDisjoint
    /\ StatusMatchesWindows
    /\ NoMaintenanceWhileDisabled

\* A booking that is not over belongs to an active account, and to a system
\* administrator or a member whose membership lasts at least as long as the booking:
\* disabling a user, removing or shortening a membership and deleting a machine
\* release what may no longer be used.
LiveBookingHasAccess ==
    \A i \in Confirmed :
        res[i].end > clock =>
            /\ account[res[i].user] = "ACTIVE"
            /\ \/ res[i].user \in Admins
               \/ access[res[i].user][MachineOf[res[i].group]] >= res[i].end

\* The minutes a user holds of a group, under a scope.
Held(u, g, scope) ==
    {t \in Minutes : \E i \in Confirmed :
        /\ res[i].user = u /\ res[i].group = g /\ res[i].scope = scope
        /\ res[i].start <= t /\ t < res[i].end}

\* What was used stays on record: no handler adds or removes a minute that has
\* elapsed (early end, replacement, trimming and first-minute withdrawal included).
HistoryKept ==
    [][\A u \in Users, g \in Groups, scope \in Scopes :
          LET elapsed == {t \in Minutes : t < clock}
          IN  Held(u, g, scope)' \cap elapsed = Held(u, g, scope) \cap elapsed]_vars

\* A new window takes from each booking it concerns exactly the minutes it covers,
\* the second half of a split included, and nothing from any other booking.
WindowTakesExactly ==
    [][\A w \in DOMAIN win' \ DOMAIN win, u \in Users, g \in Groups, scope \in Scopes :
          LET taken == IF Concerns(win'[w].target, [group |-> g, scope |-> scope])
                       THEN {t \in Minutes : win'[w].start <= t /\ t < win'[w].end}
                       ELSE {}
          IN  Held(u, g, scope)' = Held(u, g, scope) \ taken]_vars

=============================================================================
