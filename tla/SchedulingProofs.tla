-------------------------- MODULE SchedulingProofs --------------------------
(***************************************************************************)
(* Proofs about Scheduling, for every value of its constants: the types,   *)
(* the windows, the bookings against each other and against windows; and   *)
(* what the handlers do to the minutes users hold: the past is kept and    *)
(* windows take what they cover.  When no minute boundary falls inside a   *)
(* transaction (MaxSkew = 0), bookings stay within what their users may    *)
(* use, and the resource calendar is implemented.                          *)
(*                                                                         *)
(* And about OpenApi, for any number of tokens and operations.  What it    *)
(* does to the schedule is a step of the booking core: what an operation   *)
(* stores is a request a client could send today, so its confirmation is   *)
(* a batch, an update, a cancellation or an early end like any other.  All *)
(* that is proved about Scheduling then holds of a schedule that the Open  *)
(* API writes too.  Its ledger: how often an operation ran, what was       *)
(* answered and what its row says agree.                                   *)
(***************************************************************************)
EXTENDS OpenApi, CalendarRefinement, TLAPS

ResTable(table) ==
    /\ DOMAIN table \subseteq ResIds
    /\ \A i \in DOMAIN table : table[i] \in ResRow
WinTable(table) ==
    /\ DOMAIN table \subseteq WinIds
    /\ \A w \in DOMAIN table : table[w] \in WinRow

-----------------------------------------------------------------------------
(* Types of the operators *)

\* The arithmetic of the bounds.
LEMMA MinutesFacts ==
    /\ \A m \in Minutes : m \in Nat /\ m \in Int /\ m < DistantFuture
    /\ \A a, b \in Minutes : Later(a, b) \in Minutes
    /\ \A a, b \in Minutes : Later(a, b) >= a /\ Later(a, b) >= b
    /\ DistantFuture \in Nat
BY BoundAssumption DEF Minutes, DistantFuture, Later

LEMMA RequestType ==
    ASSUME NEW req \in Requests
    PROVE  req \subseteq Segment /\ (\A s \in req : s.start < s.end)
           /\ NoInternalOverlap(req)
<1>1. PICK f \in [1..MaxBatch -> RequestSegments] : req = {f[i] : i \in 1..MaxBatch}
    BY DEF Requests
<1> QED
    BY <1>1 DEF Requests, RequestSegments

\* normalizeSegmentStart yields a segment.
LEMMA NormalizeType ==
    ASSUME NEW s \in Segment, NEW m \in Minutes
    PROVE  /\ Normalize(s, m) \in Segment
           /\ Normalize(s, m) = [group |-> s.group, scope |-> s.scope,
                                 start |-> Later(s.start, m), end |-> s.end]
<1>1. Later(s.start, m) \in Minutes
    BY MinutesFacts DEF Segment
<1> QED
    BY <1>1 DEF Normalize, Segment

\* splitByBusy yields non-empty segments inside the request.
LEMMA FreePiecesType ==
    ASSUME NEW s \in Segment, NEW excluded, NEW x \in FreePieces(s, excluded)
    PROVE  /\ x \in Segment
           /\ x.group = s.group /\ x.scope = s.scope
           /\ s.start <= x.start /\ x.start < x.end /\ x.end <= s.end
<1> DEFINE free == {t \in s.start..(s.end - 1) : FreeMinute(s, excluded, t)}
<1>0. s.end \in Minutes /\ s.start \in Minutes
    BY DEF Segment
<1>1. PICK a \in free, b \in free :
          a..b # {} /\ x = [s EXCEPT !.start = a, !.end = b + 1]
    <2>1. PICK p \in free \X free :
              p[1]..p[2] # {} /\ x = [s EXCEPT !.start = p[1], !.end = p[2] + 1]
        BY DEF FreePieces
    <2>2. p[1] \in free /\ p[2] \in free
        OBVIOUS
    <2> HIDE DEF free
    <2> QED
        BY <2>1, <2>2
<1>2. s.start \in Int /\ s.end \in Int /\ s.end \in Minutes /\ s.start \in Minutes
    BY <1>0, MinutesFacts
<1>3. a \in s.start..(s.end - 1) /\ b \in s.start..(s.end - 1)
    OBVIOUS
<1> HIDE DEF free
<1>4. /\ a \in Int /\ b \in Int
      /\ s.start <= a /\ a <= s.end - 1 /\ s.start <= b /\ b <= s.end - 1
    BY <1>2, <1>3
<1>5. a <= b
    BY <1>1, <1>4
<1>6. a \in Minutes /\ b + 1 \in Minutes
    BY <1>2, <1>4, BoundAssumption DEF Minutes
<1>7. x = [group |-> s.group, scope |-> s.scope, start |-> a, end |-> b + 1]
    BY <1>1 DEF Segment
<1>8. x \in Segment
    BY <1>6, <1>7 DEF Segment
<1> QED
    BY <1>2, <1>4, <1>5, <1>7, <1>8

LEMMA PiecesType ==
    ASSUME clock \in Minutes, NEW req \in Requests, NEW excluded,
           NEW adjust \in BOOLEAN
    PROVE  Pieces(req, excluded, adjust) \subseteq Segment
<1>1. Exact(req) \subseteq Segment
    BY RequestType, NormalizeType DEF Exact
<1>2. CASE adjust
    BY <1>1, <1>2, FreePiecesType DEF Pieces
<1>3. CASE ~adjust
    BY <1>1, <1>3 DEF Pieces
<1> QED
    BY <1>2, <1>3

\* insertReservationBatch: what the rows it adds are.
LEMMA NewBookingsFacts ==
    ASSUME NEW u \in Users, NEW segs, segs \subseteq Segment,
           NEW idOf \in Injections(segs, FreeRes)
    PROVE  /\ DOMAIN NewBookings(u, segs, idOf) = {idOf[s] : s \in segs}
           /\ DOMAIN NewBookings(u, segs, idOf) \subseteq FreeRes
           /\ \A s \in segs :
                 NewBookings(u, segs, idOf)[idOf[s]] = Booking(u, s)
           /\ \A i \in DOMAIN NewBookings(u, segs, idOf) :
                 NewBookings(u, segs, idOf)[i] \in ResRow
<1>1. \A s \in segs : (CHOOSE r \in segs : idOf[r] = idOf[s]) = s
    BY DEF Injections
<1>2. \A s \in segs : Booking(u, s) \in ResRow
    BY DEF Booking, ResRow, Segment
<1>3. \A s \in segs : idOf[s] \in FreeRes
    BY DEF Injections
<1> QED
    BY <1>1, <1>2, <1>3 DEF NewBookings

\* Inserting rows under fresh ids keeps a table of reservations one.
LEMMA InsertType ==
    ASSUME NEW u \in Users, NEW segs, segs \subseteq Segment,
           NEW idOf \in Injections(segs, FreeRes),
           NEW table, ResTable(table)
    PROVE  ResTable(With(table, NewBookings(u, segs, idOf)))
BY NewBookingsFacts DEF With, ResTable, FreeRes

LEMMA CutShortType ==
    ASSUME NEW row \in ResRow, NEW m \in Minutes
    PROVE  CutShort(row, m) \in ResRow
BY DEF CutShort, ResRow

\* classifyImpact yields a row for a booking the window touches.
LEMMA ShrinkType ==
    ASSUME NEW row \in ResRow, NEW w \in WinRow
    PROVE  Shrink(row, w) \in ResRow
<1>1. /\ row.end \in Minutes /\ row.start \in Minutes
      /\ w.start \in Minutes /\ w.end \in Minutes \cup {DistantFuture}
    BY DEF ResRow, WinRow
<1>2. ~(row.end <= w.end) => w.end \in Minutes
    BY <1>1, MinutesFacts
<1> QED
    BY <1>1, <1>2 DEF Shrink, ResRow

LEMMA TrimType ==
    ASSUME NEW row \in ResRow, NEW e \in Minutes \cup {DistantFuture}
    PROVE  TrimToExpiry(row, e) \in ResRow
<1>1. row.end \in Minutes
    BY DEF ResRow
<1>2. ~(row.end <= e) => e \in Minutes
    BY <1>1, MinutesFacts
<1> QED
    BY <1>2 DEF TrimToExpiry, ResRow

\* applyReservationImpacts keeps the reservations a table.
LEMMA AdjustedType ==
    ASSUME ResTable(res), NEW t, NEW w \in WinRow,
           NEW childOf, childOf \in Injections(SplitByWindow(t, w), FreeRes)
                        \/ childOf = NoRows
    PROVE  ResTable(Adjusted(t, w, childOf))
<1> DEFINE old == [i \in DOMAIN res |->
                     IF i \in Impacted(t, w) THEN Shrink(res[i], w) ELSE res[i]]
           parent(c) == CHOOSE i \in DOMAIN childOf : childOf[i] = c
           children == [c \in {childOf[i] : i \in DOMAIN childOf} |->
                          [res[parent(c)] EXCEPT !.start = w.end]]
<1>1. ResTable(old)
    BY ShrinkType DEF ResTable
<1>2. ResTable(children)
    <2>1. CASE childOf = NoRows
        BY <2>1 DEF ResTable, NoRows
    <2>2. CASE childOf \in Injections(SplitByWindow(t, w), FreeRes)
        <3>1. DOMAIN childOf = SplitByWindow(t, w)
              /\ \A i \in DOMAIN childOf : childOf[i] \in ResIds
            BY <2>2 DEF Injections, FreeRes
        <3>2. \A i \in SplitByWindow(t, w) :
                 i \in DOMAIN res /\ res[i] \in ResRow /\ w.end \in Minutes
            <4>1. \A i \in SplitByWindow(t, w) :
                     i \in DOMAIN res /\ res[i] \in ResRow /\ w.end < res[i].end
                BY DEF SplitByWindow, Impacted, Confirmed, ResTable
            <4>2. w.end \in Minutes \cup {DistantFuture}
                BY DEF WinRow
            <4>3. \A r \in ResRow : r.end \in Minutes
                BY DEF ResRow
            <4> QED
                BY <4>1, <4>2, <4>3, MinutesFacts
        <3>3. \A c \in DOMAIN children : parent(c) \in SplitByWindow(t, w)
            BY <3>1
        <3>4. \A c \in DOMAIN children : children[c] \in ResRow
            BY <3>2, <3>3 DEF ResRow
        <3>5. DOMAIN children \subseteq ResIds
            BY <3>1
        <3> QED
            BY <3>4, <3>5 DEF ResTable
    <2> QED
        BY <2>1, <2>2
<1>3. Adjusted(t, w, childOf) = With(old, children)
    BY DEF Adjusted
<1> HIDE DEF old, children
<1> QED
    BY <1>1, <1>2, <1>3 DEF With, ResTable

\* releaseMachineResources keeps the reservations a table.
LEMMA ReleasedType ==
    ASSUME ResTable(res), NEW mine, NEW late \in Minutes
    PROVE  ResTable(Released(mine, late))
BY DEF Released, ResTable, ResRow

LEMMA StoppedType ==
    ASSUME NEW w \in WinRow, NEW t, NEW minute \in Minutes
    PROVE  StoppedForDisable(t, w, minute) \in WinRow
BY DEF StoppedForDisable, WinRow

LEMMA ClosedType ==
    ASSUME WinTable(win), clock \in Minutes, NEW t, NEW w \in DOMAIN win
    PROVE  ClosedByEnable(t, w) \in WinRow
BY DEF ClosedByEnable, WinRow, WinTable

LEMMA NewWindowType ==
    ASSUME NEW t \in Targets, NEW kind \in {"PLANNED", "LONG_TERM"},
           NEW start \in Minutes, NEW end \in Minutes \cup {DistantFuture}
    PROVE  NewWindow(t, kind, start, end) \in WinRow
BY DEF NewWindow, WinRow

-----------------------------------------------------------------------------
(* Type correctness *)

\* A request commits: the rows left over and the rows inserted form a table.
LEMMA CommitType ==
    ASSUME TypeOK, NEW u \in Users, NEW req \in Requests, NEW adjust \in BOOLEAN,
           NEW late \in LateReads, CommitBatch(u, req, adjust, late)
    PROVE  ResTable(res')
<1>1. ResTable(res)
    BY DEF TypeOK, ResTable
<1>2. Pieces(req, {}, adjust) \subseteq Segment
    BY PiecesType DEF TypeOK
<1> QED
    BY <1>1, <1>2, InsertType DEF CommitBatch

LEMMA ReplaceType ==
    ASSUME TypeOK, NEW u \in Users, NEW i \in Confirmed, NEW req \in Requests,
           NEW late \in LateReads, ReplaceBatch(u, i, req, late)
    PROVE  ResTable(res')
<1> DEFINE rest == IF res[i].end <= late THEN res[i] ELSE CutShort(res[i], clock)
           table == [res EXCEPT ![i] = rest]
<1>1. i \in DOMAIN res /\ res[i] \in ResRow
    BY DEF TypeOK, Confirmed
<1>2. rest \in ResRow
    BY <1>1, CutShortType DEF TypeOK
<1>3. ResTable(table)
    BY <1>1, <1>2 DEF ResTable, TypeOK
<1>4. Exact(req) \subseteq Segment
    BY RequestType, NormalizeType DEF Exact, TypeOK
<1>5. PICK idOf \in Injections(Exact(req), FreeRes) :
          res' = With(table, NewBookings(u, Exact(req), idOf))
    BY DEF ReplaceBatch
<1> HIDE DEF table
<1> QED
    BY <1>3, <1>4, <1>5, InsertType

LEMMA ReplaceManyType ==
    ASSUME TypeOK, NEW u \in Users, NEW originals \in SUBSET Confirmed,
           NEW req \in Requests, NEW adjust \in BOOLEAN,
           NEW late \in LateReads, ReplaceMany(u, originals, req, adjust, late)
    PROVE  ResTable(res')
<1> DEFINE table == [i \in DOMAIN res |-> IF i \in originals
                                          THEN CutShort(res[i], clock)
                                          ELSE res[i]]
           segs == Pieces(req, originals, adjust)
<1>1. ResTable(table)
    BY CutShortType DEF ResTable, TypeOK
<1>2. segs \subseteq Segment
    BY PiecesType DEF TypeOK
<1>3. PICK idOf \in Injections(segs, FreeRes) :
          res' = With(table, NewBookings(u, segs, idOf))
    BY DEF ReplaceMany
<1> HIDE DEF table, segs
<1> QED
    BY <1>1, <1>2, <1>3, InsertType

LEMMA UpdateType ==
    ASSUME TypeOK, NEW u \in Users, NEW i \in Confirmed,
           NEW start \in Minutes, NEW end \in Minutes,
           NEW validated, NEW previewed,
           UpdateBooking(u, i, start, end, validated, previewed)
    PROVE  ResTable(res')
<1>1. i \in DOMAIN res /\ res[i] \in ResRow
    BY DEF TypeOK, Confirmed
<1>2. res' = [res EXCEPT ![i].start = start, ![i].end = end]
    BY DEF UpdateBooking, UpdateAccepted
<1>3. \A j \in DOMAIN res : res'[j] = IF j = i THEN [res[i] EXCEPT !.start = start, !.end = end]
                                              ELSE res[j]
    BY <1>1, <1>2
<1>4. DOMAIN res' = DOMAIN res
    BY <1>2
<1>5. [res[i] EXCEPT !.start = start, !.end = end] \in ResRow
    BY <1>1 DEF ResRow
<1> QED
    BY <1>3, <1>4, <1>5 DEF TypeOK, ResTable

LEMMA ReleaseStepType ==
    ASSUME TypeOK, NEW i \in Confirmed, CancelBooking(i) \/ EndEarly(i)
    PROVE  ResTable(res')
<1>1. i \in DOMAIN res /\ res[i] \in ResRow
    BY DEF TypeOK, Confirmed
<1>2. CASE CancelBooking(i)
    BY <1>1, <1>2 DEF CancelBooking, TypeOK, ResTable, ResRow
<1>3. CASE EndEarly(i)
    BY <1>1, <1>3 DEF EndEarly, TypeOK, ResTable, ResRow
<1> QED
    BY <1>2, <1>3

\* A plan: both tables.
LEMMA CreatePlannedType ==
    ASSUME TypeOK, NEW t \in Targets, NEW start \in Minutes, NEW end \in Minutes,
           CreatePlanned(t, start, end)
    PROVE  ResTable(res') /\ WinTable(win')
<1> DEFINE w == NewWindow(t, "PLANNED", Later(start, clock), end)
<1>1. w \in WinRow
    BY MinutesFacts, NewWindowType DEF TypeOK
<1>2. ResTable(res')
    <2>1. PICK childOf \in Injections(SplitByWindow(t, w), FreeRes) :
              res' = Adjusted(t, w, childOf)
        BY DEF CreatePlanned
    <2> HIDE DEF w
    <2> QED
        BY <1>1, <2>1, AdjustedType DEF TypeOK, ResTable
<1>3. WinTable(win')
    <2>1. PICK id \in FreeWin : win' = With(win, [v \in {id} |-> w])
        BY DEF CreatePlanned
    <2> HIDE DEF w
    <2> QED
        BY <1>1, <2>1 DEF With, WinTable, TypeOK, FreeWin
<1> QED
    BY <1>2, <1>3

LEMMA DisableType ==
    ASSUME TypeOK, NEW t \in Targets, NEW late \in LateReads, Disable(t, late)
    PROVE  ResTable(res') /\ WinTable(win')
<1> DEFINE w == NewWindow(t, "LONG_TERM", clock, DistantFuture)
           stopped == [v \in DOMAIN win |-> StoppedForDisable(t, win[v], clock)]
<1>1. w \in WinRow
    BY NewWindowType DEF TypeOK
<1>2. ResTable(res')
    <2>1. res' = Adjusted(t, w, NoRows)
        BY DEF Disable
    <2> HIDE DEF w
    <2> QED
        BY <1>1, <2>1, AdjustedType DEF TypeOK, ResTable
<1>3. WinTable(stopped)
    BY StoppedType DEF TypeOK, WinTable
<1>4. WinTable(win')
    <2>1. PICK id \in FreeWin : win' = With(stopped, [v \in {id} |-> w])
        BY DEF Disable
    <2> HIDE DEF w, stopped
    <2> QED
        BY <1>1, <1>3, <2>1 DEF With, WinTable, FreeWin
<1> QED
    BY <1>2, <1>4

LEMMA SetExpiryType ==
    ASSUME TypeOK, NEW u \in Users, NEW m \in Machines, NEW expiry \in Expiries,
           SetExpiry(u, m, expiry)
    PROVE  ResTable(res')
<1>1. expiry \in Minutes \cup {DistantFuture}
    BY DEF Expiries
<1> QED
    BY <1>1, TrimType DEF SetExpiry, TypeOK, ResTable

LEMMA InitType == Init => TypeOK
BY BoundAssumption
   DEF Init, TypeOK, NoRows, Minutes, NotMember, DistantFuture, Targets

LEMMA LateReadsType == \A late \in LateReads : late \in Minutes
BY DEF LateReads

LEMMA BumpType == TypeOK /\ Bump => revision' \in 0..MaxRevision
BY BoundAssumption DEF TypeOK, Bump

LEMMA TickType == TypeOK /\ Tick => TypeOK'
<1> SUFFICES ASSUME TypeOK, Tick PROVE TypeOK'
    OBVIOUS
<1>1. clock' \in Minutes
    BY BoundAssumption DEF TypeOK, Tick, Minutes
<1> QED
    BY <1>1 DEF TypeOK, Tick

\* What a booking handler leaves alone, and what it does to clock and revision.
LEMMA BookingFrame ==
    ASSUME BookingStep
    PROVE  \E late \in LateReads :
              /\ Bump /\ clock' = late
              /\ UNCHANGED <<win, status, deleted, access, account>>
<1>0. PICK u \in Users, late \in LateReads :
          \/ \E req \in Requests, adjust \in BOOLEAN :
                \/ CommitBatch(u, req, adjust, late)
                \/ \E originals \in (SUBSET Confirmed) \ {{}} :
                      ReplaceMany(u, originals, req, adjust, late)
          \/ \E i \in Confirmed :
                \/ \E req \in Requests : ReplaceBatch(u, i, req, late)
                \/ \E start, end \in Minutes, validated \in LateReads :
                      validated <= late /\ UpdateBooking(u, i, start, end, validated, late)
    BY DEF BookingStep
<1>1. CASE \E req \in Requests, adjust \in BOOLEAN : CommitBatch(u, req, adjust, late)
    BY <1>1 DEF CommitBatch
<1>2. CASE \E req \in Requests, adjust \in BOOLEAN :
             \E originals \in (SUBSET Confirmed) \ {{}} :
                ReplaceMany(u, originals, req, adjust, late)
    BY <1>2 DEF ReplaceMany
<1>3. CASE \E i \in Confirmed, req \in Requests : ReplaceBatch(u, i, req, late)
    BY <1>3 DEF ReplaceBatch
<1>4. CASE \E i \in Confirmed : \E start, end \in Minutes, validated \in LateReads :
             UpdateBooking(u, i, start, end, validated, late)
    BY <1>4 DEF UpdateBooking, UpdateAccepted
<1> QED
    BY <1>0, <1>1, <1>2, <1>3, <1>4

LEMMA BookingStepType == TypeOK /\ BookingStep => TypeOK'
<1> SUFFICES ASSUME TypeOK, BookingStep PROVE TypeOK'
    OBVIOUS
<1>0. PICK u \in Users, late \in LateReads :
          \/ \E req \in Requests, adjust \in BOOLEAN :
                \/ CommitBatch(u, req, adjust, late)
                \/ \E originals \in (SUBSET Confirmed) \ {{}} :
                      ReplaceMany(u, originals, req, adjust, late)
          \/ \E i \in Confirmed :
                \/ \E req \in Requests : ReplaceBatch(u, i, req, late)
                \/ \E start, end \in Minutes, validated \in LateReads :
                      validated <= late /\ UpdateBooking(u, i, start, end, validated, late)
    BY DEF BookingStep
<1>1. ResTable(res')
    <2>1. CASE \E req \in Requests, adjust \in BOOLEAN : CommitBatch(u, req, adjust, late)
        BY <2>1, CommitType
    <2>2. CASE \E req \in Requests, adjust \in BOOLEAN :
                 \E originals \in (SUBSET Confirmed) \ {{}} :
                    ReplaceMany(u, originals, req, adjust, late)
        BY <2>2, ReplaceManyType
    <2>3. CASE \E i \in Confirmed, req \in Requests : ReplaceBatch(u, i, req, late)
        BY <2>3, ReplaceType
    <2>4. CASE \E i \in Confirmed : \E start, end \in Minutes, validated \in LateReads :
                 UpdateBooking(u, i, start, end, validated, late)
        BY <2>4, UpdateType
    <2> QED
        BY <1>0, <2>1, <2>2, <2>3, <2>4
<1>2. /\ clock' \in Minutes /\ revision' \in 0..MaxRevision
      /\ UNCHANGED <<win, status, deleted, access, account>>
    BY BookingFrame, LateReadsType, BumpType
<1> QED
    BY <1>1, <1>2 DEF TypeOK, ResTable

LEMMA ReleaseType == TypeOK /\ ReleaseStep => TypeOK'
<1> SUFFICES ASSUME TypeOK, ReleaseStep PROVE TypeOK'
    OBVIOUS
<1>1. /\ ResTable(res')
      /\ Bump
      /\ UNCHANGED <<clock, win, status, deleted, access, account>>
    BY ReleaseStepType DEF ReleaseStep, CancelBooking, EndEarly
<1> QED
    BY <1>1, BumpType DEF TypeOK, ResTable

LEMMA AvailabilityType == TypeOK /\ AvailabilityStep => TypeOK'
<1> SUFFICES ASSUME TypeOK, AvailabilityStep PROVE TypeOK'
    OBVIOUS
<1>1. CASE \E t \in Targets, start, end \in Minutes : CreatePlanned(t, start, end)
    <2>1. /\ ResTable(res') /\ WinTable(win')
          /\ Bump
          /\ UNCHANGED <<clock, status, deleted, access, account>>
        BY <1>1, CreatePlannedType DEF CreatePlanned
    <2> QED
        BY <2>1, BumpType DEF TypeOK, ResTable, WinTable
<1>2. CASE \E t \in Targets, late \in LateReads : Disable(t, late)
    <2>1. PICK t \in Targets, late \in LateReads : Disable(t, late)
        BY <1>2
    <2>2. /\ ResTable(res') /\ WinTable(win')
          /\ Bump /\ clock' = late
          /\ status' = [status EXCEPT ![t] = "DISABLED"]
          /\ UNCHANGED <<deleted, access, account>>
        BY <2>1, DisableType DEF Disable
    <2> QED
        BY <2>2, BumpType, LateReadsType DEF TypeOK, ResTable, WinTable
<1>3. CASE \E t \in Targets : Enable(t)
    <2>1. PICK t \in Targets : Enable(t)
        BY <1>3
    <2>2. /\ win' = [w \in DOMAIN win |-> ClosedByEnable(t, w)]
          /\ Bump
          /\ status' = [status EXCEPT ![t] = "ACTIVE"]
          /\ UNCHANGED <<clock, res, deleted, access, account>>
        BY <2>1 DEF Enable
    <2>3. WinTable(win')
        BY <2>2, ClosedType DEF TypeOK, WinTable
    <2> QED
        BY <2>2, <2>3, BumpType DEF TypeOK, WinTable
<1>4. CASE \E w \in ActiveWin : CancelPlanned(w)
    <2>1. PICK w \in ActiveWin : CancelPlanned(w)
        BY <1>4
    <2>2. WinTable(win')
        BY <2>1 DEF CancelPlanned, ActiveWin, TypeOK, WinTable, WinRow
    <2> QED
        BY <2>1, <2>2, BumpType DEF CancelPlanned, TypeOK, WinTable
<1> QED
    BY <1>1, <1>2, <1>3, <1>4 DEF AvailabilityStep

LEMMA DeletionType == TypeOK /\ DeletionStep => TypeOK'
<1> SUFFICES ASSUME TypeOK, DeletionStep PROVE TypeOK'
    OBVIOUS
<1>1. CASE \E g \in Groups : DeleteGroup(g)
    <2>1. PICK g \in Groups : DeleteGroup(g)
        BY <1>1
    <2>2. WinTable(win')
        BY <2>1 DEF DeleteGroup, TypeOK, WinTable, WinRow
    <2> QED
        BY <2>1, <2>2, BumpType DEF DeleteGroup, TypeOK, WinTable, Targets
<1>2. CASE \E m \in Machines : DeleteMachine(m)
    <2>1. PICK m \in Machines : DeleteMachine(m)
        BY <1>2
    <2>2. WinTable(win')
        BY <2>1 DEF DeleteMachine, TypeOK, WinTable, WinRow
    <2>3. status' \in [Targets -> {"ACTIVE", "DISABLED"}] /\ deleted' \subseteq Targets
        BY <2>1 DEF DeleteMachine, TypeOK, Targets, GroupsOf
    <2>4. access' \in [Users -> [Machines -> Minutes \cup {DistantFuture}]]
        BY <2>1, BoundAssumption DEF DeleteMachine, TypeOK, Minutes, NotMember
    <2> QED
        BY <2>1, <2>2, <2>3, <2>4, BumpType DEF DeleteMachine, TypeOK, WinTable
<1> QED
    BY <1>1, <1>2 DEF DeletionStep

LEMMA MembershipType == TypeOK /\ MembershipStep => TypeOK'
<1> SUFFICES ASSUME TypeOK, MembershipStep PROVE TypeOK'
    OBVIOUS
<1>0. NotMember \in Minutes
    BY BoundAssumption DEF Minutes, NotMember
<1>1. PICK u \in Users, m \in Machines :
          \/ \E expiry \in Expiries : GrantAccess(u, m, expiry) \/ SetExpiry(u, m, expiry)
          \/ \E late \in LateReads : RemoveMember(u, m, late)
    BY DEF MembershipStep
<1>2. CASE \E expiry \in Expiries : GrantAccess(u, m, expiry)
    <2>1. PICK expiry \in Expiries : GrantAccess(u, m, expiry)
        BY <1>2
    <2>2. Later(access[u][m], expiry) \in Minutes \cup {DistantFuture}
        BY DEF Later, Expiries, TypeOK
    <2>3. access' \in [Users -> [Machines -> Minutes \cup {DistantFuture}]]
        BY <2>1, <2>2 DEF GrantAccess, TypeOK
    <2> QED
        BY <2>1, <2>3, BumpType DEF GrantAccess, TypeOK
<1>3. CASE \E expiry \in Expiries : SetExpiry(u, m, expiry)
    <2>1. PICK expiry \in Expiries : SetExpiry(u, m, expiry)
        BY <1>3
    <2>2. ResTable(res')
        BY <2>1, SetExpiryType
    <2>3. access' \in [Users -> [Machines -> Minutes \cup {DistantFuture}]]
        BY <2>1 DEF SetExpiry, TypeOK, Expiries
    <2> QED
        BY <2>1, <2>2, <2>3, BumpType DEF SetExpiry, TypeOK, ResTable
<1>4. CASE \E late \in LateReads : RemoveMember(u, m, late)
    <2>1. PICK late \in LateReads : RemoveMember(u, m, late)
        BY <1>4
    <2>2. late \in Minutes
        BY LateReadsType
    <2>3. ResTable(res')
        BY <2>1, <2>2, ReleasedType DEF RemoveMember, TypeOK, ResTable
    <2>4. access' \in [Users -> [Machines -> Minutes \cup {DistantFuture}]]
        BY <1>0, <2>1 DEF RemoveMember, TypeOK
    <2> QED
        BY <2>1, <2>2, <2>3, <2>4, BumpType DEF RemoveMember, TypeOK, ResTable
<1> QED
    BY <1>1, <1>2, <1>3, <1>4

LEMMA AccountType == TypeOK /\ AccountStep => TypeOK'
<1> SUFFICES ASSUME TypeOK, AccountStep PROVE TypeOK'
    OBVIOUS
<1>0. NotMember \in Minutes
    BY BoundAssumption DEF Minutes, NotMember
<1>1. PICK u \in Users :
          \/ \E late \in LateReads : DisableUser(u, late)
          \/ EnableUser(u)
          \/ DeleteUser(u)
    BY DEF AccountStep
<1>2. CASE \E late \in LateReads : DisableUser(u, late)
    <2>1. PICK late \in LateReads : DisableUser(u, late)
        BY <1>2
    <2>2. late \in Minutes
        BY LateReadsType
    <2>3. ResTable(res')
        BY <2>1, <2>2, ReleasedType DEF DisableUser, TypeOK, ResTable
    <2>4. account' \in [Users -> {"ACTIVE", "DISABLED", "DELETED"}]
        BY <2>1 DEF DisableUser, TypeOK
    <2> QED
        BY <2>1, <2>2, <2>3, <2>4, BumpType DEF DisableUser, TypeOK, ResTable
<1>3. CASE EnableUser(u)
    <2>1. account' \in [Users -> {"ACTIVE", "DISABLED", "DELETED"}]
        BY <1>3 DEF EnableUser, TypeOK
    <2> QED
        BY <1>3, <2>1, BumpType DEF EnableUser, TypeOK
<1>4. CASE DeleteUser(u)
    <2>1. account' \in [Users -> {"ACTIVE", "DISABLED", "DELETED"}]
        BY <1>4 DEF DeleteUser, TypeOK
    <2>2. access' \in [Users -> [Machines -> Minutes \cup {DistantFuture}]]
        BY <1>0, <1>4 DEF DeleteUser, TypeOK
    <2> QED
        BY <1>4, <2>1, <2>2, BumpType DEF DeleteUser, TypeOK
<1> QED
    BY <1>1, <1>2, <1>3, <1>4

LEMMA NextType == TypeOK /\ [Next]_vars => TypeOK'
<1>1. TypeOK /\ UNCHANGED vars => TypeOK'
    BY DEF TypeOK, vars
<1> QED
    BY <1>1, TickType, BookingStepType, ReleaseType, AvailabilityType, DeletionType,
       MembershipType, AccountType DEF Next

\* Every handler of the booking core keeps the rows of its tables well formed: bounds
\* are minutes of the horizon, trimmed, split and adjusted bookings included.
THEOREM TypeCorrect == Spec => []TypeOK
BY InitType, NextType, PTL DEF Spec

-----------------------------------------------------------------------------
(***************************************************************************)
(* Windows, MaxSkew included: none of the handlers that write them reads   *)
(* the clock twice in a way that matters.                                  *)
(***************************************************************************)

\* What Enable leaves of a deactivation is over; what Disable opens has no end.
LongTermOpenOrOver ==
    \A w \in ActiveWin :
        win[w].kind = "LONG_TERM" => win[w].end <= clock \/ win[w].end = DistantFuture

\* The inductive invariant.  LongTermOpenOrOver is what StatusMatchesWindows lacks: a
\* deactivation that is open now must still be open when the clock has moved.
WindowsInv ==
    /\ TypeOK
    /\ WindowsOfTargetDisjoint
    /\ StatusMatchesWindows
    /\ NoMaintenanceWhileDisabled
    /\ LongTermOpenOrOver

WindowParts == /\ WindowsOfTargetDisjoint /\ StatusMatchesWindows
               /\ NoMaintenanceWhileDisabled /\ LongTermOpenOrOver

-----------------------------------------------------------------------------
(* Steps that leave the windows alone *)

LEMMA ClockMoves ==
    ASSUME WindowsInv, clock' \in Minutes, clock <= clock',
           UNCHANGED <<win, status, deleted>>
    PROVE  WindowParts'
<1>1. clock \in Nat /\ clock' \in Nat /\ clock' < DistantFuture
    BY MinutesFacts DEF WindowsInv, TypeOK
<1>2. \A w \in ActiveWin : win[w].end \in Nat
    BY MinutesFacts DEF WindowsInv, TypeOK, ActiveWin, WinRow
<1>3. ActiveWin' = ActiveWin
    BY DEF ActiveWin
<1>4. \A t : OpenLongTerm(t)' = OpenLongTerm(t)
    BY <1>3 DEF OpenLongTerm
<1>5. LongTermOpenOrOver'
    BY <1>1, <1>2, <1>3 DEF LongTermOpenOrOver, WindowsInv
<1>6. NoMaintenanceWhileDisabled'
    BY <1>1, <1>2, <1>3 DEF NoMaintenanceWhileDisabled, WindowsInv
<1>7. WindowsOfTargetDisjoint'
    BY <1>3 DEF WindowsOfTargetDisjoint, WindowsInv
<1>8. \A t : \A w \in OpenLongTerm(t) : win[w].end > clock <=> win[w].end > clock'
    BY <1>1, <1>2 DEF OpenLongTerm, LongTermOpenOrOver, WindowsInv
<1>9. StatusMatchesWindows'
    BY <1>4, <1>8 DEF StatusMatchesWindows, WindowsInv, LiveTarget
<1> QED
    BY <1>5, <1>6, <1>7, <1>9 DEF WindowParts

-----------------------------------------------------------------------------
(* Steps that close windows *)

\* The windows of a table that are active.
ActiveIn(table) == {w \in DOMAIN table : table[w].status = "ACTIVE"}

DisjointIn(table) ==
    \A v, w \in ActiveIn(table) :
        v # w /\ table[v].target = table[w].target => ~Overlap(table[v], table[w])

\* Row `new' is row `old', cut at its end or cancelled.
CutOf(new, old) ==
    /\ new.target = old.target /\ new.kind = old.kind /\ new.start = old.start
    /\ new.end <= old.end
    /\ new.status = "ACTIVE" => old.status = "ACTIVE"

\* Cutting windows keeps the windows of a target disjoint.
LEMMA CutDisjoint ==
    ASSUME WindowsInv, NEW table, WinTable(table), DOMAIN table = DOMAIN win,
           \A w \in DOMAIN win : CutOf(table[w], win[w])
    PROVE  DisjointIn(table)
<1> SUFFICES ASSUME NEW v \in ActiveIn(table), NEW w \in ActiveIn(table), v # w,
                    table[v].target = table[w].target,
                    Overlap(table[v], table[w])
             PROVE  FALSE
    BY DEF DisjointIn
<1>1. /\ v \in ActiveWin /\ w \in ActiveWin
      /\ win[v].target = win[w].target
      /\ table[v].start = win[v].start /\ table[w].start = win[w].start
      /\ table[v].end <= win[v].end /\ table[w].end <= win[w].end
    BY DEF ActiveIn, ActiveWin, CutOf
<1>2. \A x \in WinRow : x.start \in Nat /\ x.end \in Nat
    BY MinutesFacts DEF WinRow
<1>3. /\ table[v] \in WinRow /\ table[w] \in WinRow
      /\ win[v] \in WinRow /\ win[w] \in WinRow
    BY DEF ActiveIn, WinTable, WindowsInv, TypeOK
<1>4. Overlap(win[v], win[w])
    BY <1>1, <1>2, <1>3 DEF Overlap
<1> QED
    BY <1>1, <1>4 DEF WindowsInv, WindowsOfTargetDisjoint

LEMMA StoppedCut ==
    ASSUME NEW w \in WinRow, NEW t, NEW minute \in Minutes
    PROVE  /\ CutOf(StoppedForDisable(t, w, minute), w)
           /\ w.kind = "LONG_TERM" => StoppedForDisable(t, w, minute) = w
<1>1. w.end \in Nat /\ minute \in Nat
    BY MinutesFacts DEF WinRow
<1> QED
    BY <1>1 DEF CutOf, StoppedForDisable, WinRow

LEMMA CancelPlannedParts ==
    ASSUME WindowsInv, NEW id \in ActiveWin, CancelPlanned(id), TypeOK'
    PROVE  WindowParts'
<1>1. /\ win' = [win EXCEPT ![id].status = "CANCELLED"]
      /\ id \in DOMAIN win /\ win[id].kind = "PLANNED"
      /\ UNCHANGED <<clock, status, deleted>>
    BY DEF CancelPlanned, ActiveWin
<1>2. /\ DOMAIN win' = DOMAIN win
      /\ \A w \in DOMAIN win : win[w] \in WinRow
      /\ \A w \in DOMAIN win :
            win'[w] = IF w = id THEN [win[id] EXCEPT !.status = "CANCELLED"] ELSE win[w]
    BY <1>1 DEF WindowsInv, TypeOK
<1>3. ActiveWin' = ActiveWin \ {id} /\ \A w \in ActiveWin' : win'[w] = win[w]
    BY <1>2 DEF ActiveWin, WinRow
<1>4. \A t : OpenLongTerm(t)' = OpenLongTerm(t)
    BY <1>1, <1>3 DEF OpenLongTerm
<1>5. \A t : LiveTarget(t)' = LiveTarget(t)
    BY <1>1 DEF LiveTarget
<1>6. LongTermOpenOrOver'
    BY <1>1, <1>3 DEF LongTermOpenOrOver, WindowsInv
<1>7. NoMaintenanceWhileDisabled'
    BY <1>1, <1>3 DEF NoMaintenanceWhileDisabled, WindowsInv
<1>8. WindowsOfTargetDisjoint'
    BY <1>3 DEF WindowsOfTargetDisjoint, WindowsInv
<1>9. StatusMatchesWindows'
    BY <1>1, <1>3, <1>4, <1>5 DEF StatusMatchesWindows, WindowsInv, OpenLongTerm
<1> QED
    BY <1>6, <1>7, <1>8, <1>9 DEF WindowParts

LEMMA DeleteGroupParts ==
    ASSUME WindowsInv, NEW g \in Groups, DeleteGroup(g), TypeOK'
    PROVE  WindowParts'
<1>1. /\ UNCHANGED <<clock, status>> /\ deleted' = deleted \cup {g}
      /\ win' = [w \in DOMAIN win |->
                   IF win[w].target = g THEN [win[w] EXCEPT !.status = "CANCELLED"]
                                        ELSE win[w]]
    BY DEF DeleteGroup
<1>2. \A w \in DOMAIN win : win[w] \in WinRow
    BY DEF WindowsInv, TypeOK
<1>3. /\ ActiveWin' = {w \in ActiveWin : win[w].target # g}
      /\ \A w \in ActiveWin' : win'[w] = win[w]
    BY <1>1, <1>2 DEF ActiveWin, WinRow
<1>4. \A t : t # g => OpenLongTerm(t)' = OpenLongTerm(t)
    BY <1>3 DEF OpenLongTerm
<1>5. \A t : LiveTarget(t)' => LiveTarget(t) /\ t # g
    BY <1>1 DEF LiveTarget
<1>6. LongTermOpenOrOver'
    BY <1>1, <1>3 DEF LongTermOpenOrOver, WindowsInv
<1>7. NoMaintenanceWhileDisabled'
    BY <1>1, <1>3 DEF NoMaintenanceWhileDisabled, WindowsInv
<1>8. WindowsOfTargetDisjoint'
    BY <1>3 DEF WindowsOfTargetDisjoint, WindowsInv
<1>9. StatusMatchesWindows'
    <2> SUFFICES ASSUME NEW t \in Targets, LiveTarget(t)'
                 PROVE  status'[t] = "DISABLED" <=>
                           \E w \in OpenLongTerm(t)' : win'[w].end > clock'
        BY DEF StatusMatchesWindows
    <2>1. OpenLongTerm(t)' = OpenLongTerm(t) /\ LiveTarget(t)
        BY <1>4, <1>5
    <2>2. \A w \in OpenLongTerm(t) : win'[w] = win[w]
        BY <1>3, <2>1 DEF OpenLongTerm
    <2>3. status[t] = "DISABLED" <=> \E w \in OpenLongTerm(t) : win[w].end > clock
        BY <2>1 DEF WindowsInv, StatusMatchesWindows
    <2> QED
        BY <1>1, <2>1, <2>2, <2>3
<1> QED
    BY <1>6, <1>7, <1>8, <1>9 DEF WindowParts

LEMMA DeleteMachineParts ==
    ASSUME WindowsInv, NEW m \in Machines, DeleteMachine(m), TypeOK'
    PROVE  WindowParts'
<1>1. /\ clock' = clock /\ deleted' = deleted \cup GroupsOf(m) \cup {m}
      /\ status' = [t \in Targets |-> IF t \in GroupsOf(m) THEN "DISABLED" ELSE status[t]]
      /\ win' = [w \in DOMAIN win |->
                   IF MachineOfTarget(win[w].target) = m
                   THEN [win[w] EXCEPT !.status = "CANCELLED"]
                   ELSE win[w]]
    BY DEF DeleteMachine
<1>2. \A w \in DOMAIN win : win[w] \in WinRow
    BY DEF WindowsInv, TypeOK
<1>3. /\ ActiveWin' = {w \in ActiveWin : MachineOfTarget(win[w].target) # m}
      /\ \A w \in ActiveWin' : win'[w] = win[w]
    BY <1>1, <1>2 DEF ActiveWin, WinRow
<1>4. \A t \in Targets : MachineOfTarget(t) # m =>
          /\ OpenLongTerm(t)' = OpenLongTerm(t)
          /\ status'[t] = status[t]
    <2>1. \A t : MachineOfTarget(t) # m => t \notin GroupsOf(m)
        BY TargetAssumption DEF MachineOfTarget, GroupsOf
    <2> QED
        BY <1>1, <1>3, <2>1 DEF OpenLongTerm
<1>5. \A t \in Targets : LiveTarget(t)' => LiveTarget(t) /\ MachineOfTarget(t) # m
    BY <1>1 DEF LiveTarget
<1>6. LongTermOpenOrOver'
    BY <1>1, <1>3 DEF LongTermOpenOrOver, WindowsInv
<1>7. NoMaintenanceWhileDisabled'
    <2>1. \A w \in ActiveWin' :
             LET t == win[w].target IN
             /\ w \in ActiveWin /\ win'[w] = win[w] /\ t \in Targets
             /\ MachineOfTarget(t) # m
             /\ MachineOfTarget(t) \in Targets
             /\ MachineOfTarget(MachineOfTarget(t)) = MachineOfTarget(t)
        BY <1>2, <1>3, TargetAssumption
           DEF ActiveWin, WinRow, MachineOfTarget, Targets
    <2>2. \A w \in ActiveWin' :
             LET t == win[w].target IN
             status'[t] = status[t] /\ status'[MachineOfTarget(t)] = status[MachineOfTarget(t)]
        BY <1>4, <2>1
    <2> QED
        BY <1>1, <2>1, <2>2 DEF NoMaintenanceWhileDisabled, WindowsInv
<1>8. WindowsOfTargetDisjoint'
    BY <1>3 DEF WindowsOfTargetDisjoint, WindowsInv
<1>9. StatusMatchesWindows'
    <2> SUFFICES ASSUME NEW t \in Targets, LiveTarget(t)'
                 PROVE  status'[t] = "DISABLED" <=>
                           \E w \in OpenLongTerm(t)' : win'[w].end > clock'
        BY DEF StatusMatchesWindows
    <2>1. OpenLongTerm(t)' = OpenLongTerm(t) /\ LiveTarget(t) /\ status'[t] = status[t]
        BY <1>4, <1>5
    <2>2. \A w \in OpenLongTerm(t) : win'[w] = win[w]
        BY <1>3, <2>1 DEF OpenLongTerm
    <2>3. status[t] = "DISABLED" <=> \E w \in OpenLongTerm(t) : win[w].end > clock
        BY <2>1 DEF WindowsInv, StatusMatchesWindows
    <2> QED
        BY <1>1, <2>1, <2>2, <2>3
<1> QED
    BY <1>6, <1>7, <1>8, <1>9 DEF WindowParts

\* enableTarget: what is open of the target ends now or is cancelled.
LEMMA EnableParts ==
    ASSUME WindowsInv, NEW t \in Targets, Enable(t), TypeOK'
    PROVE  WindowParts'
<1>1. /\ clock' = clock /\ deleted' = deleted
      /\ status' = [status EXCEPT ![t] = "ACTIVE"]
      /\ win' = [w \in DOMAIN win |-> ClosedByEnable(t, w)]
    BY DEF Enable
<1>2. /\ \A w \in DOMAIN win : win[w] \in WinRow
      /\ clock \in Minutes /\ clock \in Nat
      /\ status \in [Targets -> {"ACTIVE", "DISABLED"}]
    BY MinutesFacts DEF WindowsInv, TypeOK
<1>3. \A x \in WinRow : x.start \in Nat /\ x.end \in Nat
    BY MinutesFacts DEF WinRow
<1>4. \A w \in OpenLongTerm(t) :
          /\ w \in DOMAIN win /\ win[w] \in WinRow /\ win[w].status = "ACTIVE"
          /\ win[w].kind = "LONG_TERM" /\ win[w].target = t
          /\ win[w].start >= clock \/ win[w].end > clock
    BY <1>2 DEF Enable, EnableAccepted, OpenLongTerm, ActiveWin
<1>5. \A w \in DOMAIN win : w \notin OpenLongTerm(t) => win'[w] = win[w]
    BY <1>1 DEF ClosedByEnable
<1>6. \A w \in OpenLongTerm(t) :
          /\ win'[w].kind = "LONG_TERM" /\ win'[w].target = t
          /\ win'[w].start = win[w].start
          /\ \/ win'[w].status = "CANCELLED" /\ win'[w].end = win[w].end
             \/ /\ win'[w].status = "ACTIVE" /\ win'[w].end = clock
                /\ win[w].start < clock /\ clock < win[w].end
    <2> SUFFICES ASSUME NEW w \in OpenLongTerm(t)
                 PROVE  /\ win'[w].kind = "LONG_TERM" /\ win'[w].target = t
                        /\ win'[w].start = win[w].start
                        /\ \/ win'[w].status = "CANCELLED" /\ win'[w].end = win[w].end
                           \/ /\ win'[w].status = "ACTIVE" /\ win'[w].end = clock
                              /\ win[w].start < clock /\ clock < win[w].end
        OBVIOUS
    <2>1. win'[w] = IF win[w].start >= clock
                    THEN [win[w] EXCEPT !.status = "CANCELLED"]
                    ELSE [win[w] EXCEPT !.end = clock]
        BY <1>1, <1>4 DEF ClosedByEnable
    <2>2. win[w].start \in Nat /\ win[w].end \in Nat
        BY <1>3, <1>4
    <2>3. CASE win[w].start >= clock
        BY <1>4, <2>1, <2>3 DEF WinRow
    <2>4. CASE ~(win[w].start >= clock)
        BY <1>2, <1>4, <2>1, <2>2, <2>4 DEF WinRow
    <2> QED
        BY <2>3, <2>4
<1>7. WindowsOfTargetDisjoint'
    <2>1. \A w \in DOMAIN win : CutOf(win'[w], win[w])
        <3> SUFFICES ASSUME NEW w \in DOMAIN win PROVE CutOf(win'[w], win[w])
            OBVIOUS
        <3>1. win[w].end \in Nat
            BY <1>2, <1>3
        <3>2. CASE w \in OpenLongTerm(t)
            BY <1>2, <1>4, <1>6, <3>1, <3>2 DEF CutOf
        <3>3. CASE w \notin OpenLongTerm(t)
            BY <1>5, <3>1, <3>3 DEF CutOf
        <3> QED
            BY <3>2, <3>3
    <2>2. WinTable(win') /\ DOMAIN win' = DOMAIN win
        BY <1>1 DEF WinTable, TypeOK
    <2>3. DisjointIn(win')
        BY <2>1, <2>2, CutDisjoint
    <2> QED
        BY <2>3 DEF DisjointIn, ActiveIn, WindowsOfTargetDisjoint, ActiveWin
<1>8. LongTermOpenOrOver'
    <2> SUFFICES ASSUME NEW w \in ActiveWin', win'[w].kind = "LONG_TERM"
                 PROVE  win'[w].end <= clock' \/ win'[w].end = DistantFuture
        BY DEF LongTermOpenOrOver
    <2>1. CASE w \in OpenLongTerm(t)
        BY <1>1, <1>2, <1>6, <2>1 DEF ActiveWin
    <2>2. CASE w \notin OpenLongTerm(t)
        <3>1. w \in ActiveWin /\ win'[w] = win[w]
            BY <1>1, <1>5, <2>2 DEF ActiveWin
        <3> QED
            BY <1>1, <3>1 DEF WindowsInv, LongTermOpenOrOver
    <2> QED
        BY <2>1, <2>2
<1>9. NoMaintenanceWhileDisabled'
    <2> SUFFICES ASSUME NEW w \in ActiveWin', win'[w].kind = "PLANNED",
                        \/ status'[win'[w].target] = "DISABLED"
                        \/ status'[MachineOfTarget(win'[w].target)] = "DISABLED"
                 PROVE  win'[w].end <= clock'
        BY DEF NoMaintenanceWhileDisabled
    <2>1. w \notin OpenLongTerm(t)
        BY <1>6
    <2>2. w \in ActiveWin /\ win'[w] = win[w]
        BY <1>1, <1>5, <2>1 DEF ActiveWin
    <2>3. \A x : status'[x] = "DISABLED" /\ x \in Targets => status[x] = "DISABLED"
        BY <1>1, <1>2
    <2>4. win[w].target \in Targets /\ MachineOfTarget(win[w].target) \in Targets
        BY <1>2, <2>2, TargetAssumption
           DEF ActiveWin, WinRow, MachineOfTarget, Targets
    <2> QED
        BY <1>1, <2>2, <2>3, <2>4 DEF WindowsInv, NoMaintenanceWhileDisabled
<1>10. StatusMatchesWindows'
    <2> SUFFICES ASSUME NEW x \in Targets, LiveTarget(x)'
                 PROVE  status'[x] = "DISABLED" <=>
                           \E w \in OpenLongTerm(x)' : win'[w].end > clock'
        BY DEF StatusMatchesWindows
    <2>0. LiveTarget(x)
        BY <1>1 DEF LiveTarget
    <2>1. CASE x = t
        <3>1. \A w \in OpenLongTerm(x)' : w \in OpenLongTerm(t) /\ win'[w].status = "ACTIVE"
            BY <1>1, <1>5, <2>1 DEF OpenLongTerm, ActiveWin
        <3>2. \A w \in OpenLongTerm(x)' : ~(win'[w].end > clock')
            BY <1>1, <1>2, <1>6, <3>1
        <3>3. status'[x] = "ACTIVE"
            BY <1>1, <1>2, <2>1
        <3> QED
            BY <3>2, <3>3
    <2>2. CASE x # t
        <3>1. \A w \in DOMAIN win : win'[w].target = x => w \notin OpenLongTerm(t)
            BY <1>6, <2>2
        <3>2. \A w \in OpenLongTerm(x) : w \notin OpenLongTerm(t)
            BY <2>2 DEF OpenLongTerm
        <3>3. OpenLongTerm(x)' = OpenLongTerm(x)
              /\ \A w \in OpenLongTerm(x) : win'[w] = win[w]
            BY <1>1, <1>5, <3>1, <3>2 DEF OpenLongTerm, ActiveWin
        <3>4. status'[x] = status[x]
            BY <1>1, <1>2, <2>2
        <3>5. status[x] = "DISABLED" <=> \E w \in OpenLongTerm(x) : win[w].end > clock
            BY <2>0 DEF WindowsInv, StatusMatchesWindows
        <3> QED
            BY <1>1, <3>3, <3>4, <3>5
    <2> QED
        BY <2>1, <2>2
<1> QED
    BY <1>7, <1>8, <1>9, <1>10 DEF WindowParts

-----------------------------------------------------------------------------
(* Steps that open a window *)

\* createPlannedUnavailability
LEMMA CreatePlannedParts ==
    ASSUME WindowsInv, NEW t \in Targets, NEW start \in Minutes, NEW end \in Minutes,
           CreatePlanned(t, start, end), TypeOK'
    PROVE  WindowParts'
<1> DEFINE w == NewWindow(t, "PLANNED", Later(start, clock), end)
<1>1. /\ status[t] = "ACTIVE" /\ status[MachineOfTarget(t)] = "ACTIVE"
      /\ \A v \in ActiveWin : win[v].target = t => ~Overlap(win[v], w)
      /\ UNCHANGED <<clock, status, deleted>>
    BY DEF CreatePlanned
<1>2. /\ w.target = t /\ w.kind = "PLANNED" /\ w.status = "ACTIVE"
    BY DEF NewWindow
<1>3. PICK id \in FreeWin : win' = With(win, [v \in {id} |-> w])
    BY DEF CreatePlanned
<1> HIDE DEF w
<1>4. /\ id \notin DOMAIN win
      /\ DOMAIN win' = DOMAIN win \cup {id}
      /\ win'[id] = w
      /\ \A v \in DOMAIN win : win'[v] = win[v]
    BY <1>3 DEF With, FreeWin
<1>5. ActiveWin' = ActiveWin \cup {id}
    BY <1>2, <1>4 DEF ActiveWin
<1>6. \A v \in ActiveWin : v # id /\ win'[v] = win[v]
    BY <1>4 DEF ActiveWin
<1>7. \A x : OpenLongTerm(x)' = OpenLongTerm(x)
    BY <1>2, <1>4, <1>5, <1>6 DEF OpenLongTerm
<1>8. \A x : LiveTarget(x)' = LiveTarget(x)
    BY <1>1 DEF LiveTarget
<1>9. LongTermOpenOrOver'
    BY <1>1, <1>2, <1>4, <1>5, <1>6 DEF LongTermOpenOrOver, WindowsInv
<1>10. NoMaintenanceWhileDisabled'
    BY <1>1, <1>2, <1>4, <1>5, <1>6 DEF NoMaintenanceWhileDisabled, WindowsInv
<1>11. WindowsOfTargetDisjoint'
    BY <1>1, <1>2, <1>4, <1>5, <1>6 DEF WindowsOfTargetDisjoint, WindowsInv, Overlap
<1>12. StatusMatchesWindows'
    BY <1>1, <1>6, <1>7, <1>8 DEF StatusMatchesWindows, WindowsInv, OpenLongTerm
<1> QED
    BY <1>9, <1>10, <1>11, <1>12 DEF WindowParts

\* disableLongTerm: what is planned for the target makes way first.
LEMMA DisableParts ==
    ASSUME WindowsInv, NEW t \in Targets, NEW late \in LateReads, Disable(t, late),
           TypeOK'
    PROVE  WindowParts'
<1> DEFINE w == NewWindow(t, "LONG_TERM", clock, DistantFuture)
           stopped == [v \in DOMAIN win |-> StoppedForDisable(t, win[v], clock)]
<1>1. /\ LiveTarget(t) /\ status[t] = "ACTIVE"
      /\ status' = [status EXCEPT ![t] = "DISABLED"]
      /\ clock' = late /\ deleted' = deleted
    BY DEF Disable
<1>2. /\ w.target = t /\ w.kind = "LONG_TERM" /\ w.status = "ACTIVE"
      /\ w.start = clock /\ w.end = DistantFuture
    BY DEF NewWindow
<1>3. PICK id \in FreeWin : win' = With(stopped, [v \in {id} |-> w])
    BY DEF Disable
<1>4. /\ \A v \in DOMAIN win : win[v] \in WinRow
      /\ clock \in Minutes /\ late \in Minutes
      /\ status \in [Targets -> {"ACTIVE", "DISABLED"}]
      /\ clock \in Nat /\ late \in Nat /\ clock <= late /\ late < DistantFuture
      /\ DistantFuture \in Nat
    BY MinutesFacts, LateReadsType DEF WindowsInv, TypeOK, LateReads
<1>5. \A x \in WinRow : x.start \in Nat /\ x.end \in Nat
    BY MinutesFacts DEF WinRow
<1>6. /\ WinTable(stopped) /\ DOMAIN stopped = DOMAIN win
      /\ \A v \in DOMAIN win : stopped[v] = StoppedForDisable(t, win[v], clock)
    BY <1>4, StoppedType DEF WindowsInv, TypeOK, WinTable
<1> HIDE DEF w, stopped
<1>7. /\ id \notin DOMAIN win
      /\ DOMAIN win' = DOMAIN win \cup {id}
      /\ win'[id] = w
      /\ \A v \in DOMAIN win : win'[v] = stopped[v]
    BY <1>3, <1>6 DEF With, FreeWin
<1>8. ActiveWin' = ActiveIn(stopped) \cup {id}
    BY <1>2, <1>6, <1>7 DEF ActiveWin, ActiveIn
<1>9. \A v \in DOMAIN win :
          /\ CutOf(stopped[v], win[v])
          /\ win[v].kind = "LONG_TERM" => stopped[v] = win[v]
    BY <1>4, <1>6, StoppedCut
<1>10. \A v \in ActiveIn(stopped) :
          /\ v \in ActiveWin /\ v \in DOMAIN win /\ v # id /\ win'[v] = stopped[v]
          /\ stopped[v].kind = win[v].kind /\ stopped[v].target = win[v].target
    BY <1>6, <1>7, <1>9 DEF ActiveIn, ActiveWin, CutOf
\* The maintenance of the target, and of its groups, is over.
<1>11. \A v \in ActiveIn(stopped) :
          /\ stopped[v].kind = "PLANNED"
          /\ MachineOfTarget(win[v].target) = MachineOfTarget(t)
          /\ t \in Machines \/ win[v].target = t
          => stopped[v].end <= clock
    <2> SUFFICES ASSUME NEW v \in ActiveIn(stopped), stopped[v].kind = "PLANNED",
                        MachineOfTarget(win[v].target) = MachineOfTarget(t),
                        t \in Machines \/ win[v].target = t
                 PROVE  stopped[v].end <= clock
        OBVIOUS
    <2>1. /\ win[v].status = "ACTIVE" /\ win[v].kind = "PLANNED" /\ win[v] \in WinRow
          /\ stopped[v].status = "ACTIVE"
        BY <1>4, <1>10 DEF ActiveIn, ActiveWin
    <2>2. stopped[v] = IF win[v].end > clock
                       THEN IF win[v].start < clock
                            THEN [win[v] EXCEPT !.end = clock]
                            ELSE [win[v] EXCEPT !.status = "CANCELLED"]
                       ELSE win[v]
        BY <1>6, <1>10, <2>1 DEF StoppedForDisable
    <2>3. CASE ~(win[v].end > clock)
        BY <1>4, <1>5, <2>1, <2>2, <2>3
    <2>4. CASE win[v].end > clock
        BY <1>4, <2>1, <2>2, <2>4 DEF WinRow
    <2> QED
        BY <2>3, <2>4
\* No deactivation of the target is open.
<1>12. \A v \in ActiveWin :
          win[v].kind = "LONG_TERM" /\ win[v].target = t => win[v].end <= clock
    <2>1. \A v \in OpenLongTerm(t) : ~(win[v].end > clock)
        BY <1>1 DEF WindowsInv, StatusMatchesWindows
    <2> QED
        BY <1>4, <1>5, <2>1 DEF OpenLongTerm, ActiveWin
<1>13. \A x \in WinRow : x.target \in Targets /\ x.kind \in {"PLANNED", "LONG_TERM"}
    BY DEF WinRow
<1>14. WindowsOfTargetDisjoint'
    <2>1. DisjointIn(stopped)
        BY <1>6, <1>9, CutDisjoint
    <2>2. \A v \in ActiveIn(stopped) : stopped[v].target = t => stopped[v].end <= clock
        <3> SUFFICES ASSUME NEW v \in ActiveIn(stopped), stopped[v].target = t
                     PROVE  stopped[v].end <= clock
            OBVIOUS
        <3>1. CASE stopped[v].kind = "PLANNED"
            BY <1>10, <1>11, <3>1
        <3>2. CASE stopped[v].kind = "LONG_TERM"
            BY <1>9, <1>10, <1>12, <3>2
        <3>3. stopped[v].kind \in {"PLANNED", "LONG_TERM"}
            BY <1>4, <1>10, <1>13
        <3> QED
            BY <3>1, <3>2, <3>3
    <2>3. \A v \in ActiveIn(stopped) : stopped[v] \in WinRow
        BY <1>6 DEF WinTable, ActiveIn
    <2>4. \A v \in ActiveIn(stopped) : stopped[v].target = t =>
              ~Overlap(stopped[v], w) /\ ~Overlap(w, stopped[v])
        BY <1>2, <1>4, <1>5, <2>2, <2>3 DEF Overlap
    <2> QED
        BY <1>2, <1>7, <1>8, <1>10, <2>1, <2>4 DEF WindowsOfTargetDisjoint, DisjointIn
<1>15. LongTermOpenOrOver'
    <2> SUFFICES ASSUME NEW v \in ActiveIn(stopped), stopped[v].kind = "LONG_TERM"
                 PROVE  stopped[v].end <= late \/ stopped[v].end = DistantFuture
        BY <1>1, <1>2, <1>7, <1>8, <1>10 DEF LongTermOpenOrOver
    <2>1. stopped[v] = win[v] /\ v \in ActiveWin /\ win[v].kind = "LONG_TERM"
        BY <1>9, <1>10
    <2>2. win[v].end <= clock \/ win[v].end = DistantFuture
        BY <2>1 DEF WindowsInv, LongTermOpenOrOver
    <2>3. win[v].end \in Nat
        BY <1>4, <1>5, <2>1 DEF ActiveWin
    <2> QED
        BY <1>4, <2>1, <2>2, <2>3
<1>16. NoMaintenanceWhileDisabled'
    <2> SUFFICES ASSUME NEW v \in ActiveIn(stopped), stopped[v].kind = "PLANNED",
                        \/ status'[win[v].target] = "DISABLED"
                        \/ status'[MachineOfTarget(win[v].target)] = "DISABLED"
                 PROVE  stopped[v].end <= late
        BY <1>1, <1>2, <1>7, <1>8, <1>10 DEF NoMaintenanceWhileDisabled
    <2>0. /\ v \in ActiveWin /\ win[v].kind = "PLANNED" /\ win[v] \in WinRow
          /\ stopped[v] \in WinRow
          /\ stopped[v].end <= win[v].end
          /\ win[v].target \in Targets /\ MachineOfTarget(win[v].target) \in Targets
          /\ stopped[v].end \in Nat /\ win[v].end \in Nat
        <3>1. v \in ActiveWin /\ win[v] \in WinRow /\ win[v].kind = "PLANNED"
              /\ win[v].target \in Targets
            BY <1>4, <1>10, <1>13
        <3>2. stopped[v] \in WinRow /\ stopped[v].end <= win[v].end
            BY <1>6, <1>9, <1>10 DEF WinTable, CutOf
        <3>3. MachineOfTarget(win[v].target) \in Targets
            BY <3>1, TargetAssumption DEF MachineOfTarget, Targets
        <3> QED
            BY <1>5, <3>1, <3>2, <3>3
    <2>1. CASE \/ status[win[v].target] = "DISABLED"
               \/ status[MachineOfTarget(win[v].target)] = "DISABLED"
        <3>1. win[v].end <= clock
            BY <2>0, <2>1 DEF WindowsInv, NoMaintenanceWhileDisabled
        <3> QED
            BY <1>4, <2>0, <3>1
    <2>2. CASE ~(\/ status[win[v].target] = "DISABLED"
                 \/ status[MachineOfTarget(win[v].target)] = "DISABLED")
        <3>1. win[v].target = t \/ MachineOfTarget(win[v].target) = t
            BY <1>1, <1>4, <2>0, <2>2
        <3>2. /\ MachineOfTarget(win[v].target) = MachineOfTarget(t)
              /\ t \in Machines \/ win[v].target = t
            BY <2>0, <3>1, TargetAssumption DEF MachineOfTarget, Targets
        <3> QED
            BY <1>4, <1>11, <2>0, <3>2
    <2> QED
        BY <2>1, <2>2
<1>17. StatusMatchesWindows'
    <2> SUFFICES ASSUME NEW x \in Targets, LiveTarget(x)'
                 PROVE  status'[x] = "DISABLED" <=>
                           \E v \in OpenLongTerm(x)' : win'[v].end > clock'
        BY DEF StatusMatchesWindows
    <2>0. LiveTarget(x)
        BY <1>1 DEF LiveTarget
    <2>1. CASE x = t
        <3>1. id \in OpenLongTerm(x)' /\ win'[id].end > clock'
            BY <1>1, <1>2, <1>4, <1>7, <1>8, <2>1 DEF OpenLongTerm
        <3> QED
            BY <1>1, <1>4, <2>1, <3>1
    <2>2. CASE x # t
        <3>1. \A v : v \in OpenLongTerm(x)' <=> v \in OpenLongTerm(x)
            <4>1. \A v \in OpenLongTerm(x) : v \in ActiveIn(stopped)
                BY <1>6, <1>9 DEF OpenLongTerm, ActiveWin, ActiveIn
            <4> QED
                BY <1>2, <1>7, <1>8, <1>10, <2>2, <4>1 DEF OpenLongTerm
        <3>2. \A v \in OpenLongTerm(x) : win'[v] = win[v]
            BY <1>7, <1>9 DEF OpenLongTerm, ActiveWin
        <3>3. \A v \in OpenLongTerm(x) : win[v].end > clock <=> win[v].end > late
            <4> SUFFICES ASSUME NEW v \in OpenLongTerm(x)
                         PROVE  win[v].end > clock <=> win[v].end > late
                OBVIOUS
            <4>1. win[v].end <= clock \/ win[v].end = DistantFuture
                BY DEF WindowsInv, LongTermOpenOrOver, OpenLongTerm
            <4>2. win[v].end \in Nat
                BY <1>4, <1>5 DEF OpenLongTerm, ActiveWin
            <4> QED
                BY <1>4, <4>1, <4>2
        <3>4. status'[x] = status[x]
            BY <1>1, <1>4, <2>2
        <3>5. status[x] = "DISABLED" <=> \E v \in OpenLongTerm(x) : win[v].end > clock
            BY <2>0 DEF WindowsInv, StatusMatchesWindows
        <3> QED
            BY <1>1, <3>1, <3>2, <3>3, <3>4, <3>5
    <2> QED
        BY <2>1, <2>2
<1> QED
    BY <1>14, <1>15, <1>16, <1>17 DEF WindowParts

-----------------------------------------------------------------------------
(* The theorems *)

LEMMA WindowsInit == Init => WindowsInv
<1> SUFFICES ASSUME Init PROVE WindowsInv
    OBVIOUS
<1>1. ActiveWin = {} /\ (\A t : OpenLongTerm(t) = {})
    BY DEF Init, NoRows, ActiveWin, OpenLongTerm
<1>2. \A t \in Targets : status[t] = "ACTIVE"
    BY DEF Init
<1> QED
    BY <1>1, <1>2, InitType
       DEF WindowsInv, WindowsOfTargetDisjoint, StatusMatchesWindows,
           NoMaintenanceWhileDisabled, LongTermOpenOrOver

LEMMA WindowsNext == WindowsInv /\ [Next]_vars => WindowsInv'
<1> SUFFICES ASSUME WindowsInv, [Next]_vars PROVE WindowsInv'
    OBVIOUS
<1>1. TypeOK' /\ clock \in Minutes /\ clock' \in Minutes
    BY NextType DEF WindowsInv, TypeOK
<1>2. \A late \in LateReads : clock <= late
    BY DEF LateReads
<1>3. clock \in Nat
    BY <1>1, MinutesFacts
<1>4. ASSUME UNCHANGED <<win, status, deleted>>, clock <= clock'
      PROVE  WindowsInv'
    BY <1>1, <1>4, ClockMoves DEF WindowParts, WindowsInv
<1>5. CASE Tick
    BY <1>3, <1>4, <1>5 DEF Tick
<1>6. CASE BookingStep
    <2>1. PICK late \in LateReads :
              UNCHANGED <<win, status, deleted>> /\ clock' = late
        BY <1>6, BookingFrame
    <2> QED
        BY <1>2, <1>4, <2>1
<1>7. CASE ReleaseStep
    BY <1>3, <1>4, <1>7 DEF ReleaseStep, CancelBooking, EndEarly
<1>8. CASE AvailabilityStep
    BY <1>1, <1>8, CreatePlannedParts, DisableParts, EnableParts, CancelPlannedParts
       DEF AvailabilityStep, WindowParts, WindowsInv
<1>9. CASE DeletionStep
    BY <1>1, <1>9, DeleteGroupParts, DeleteMachineParts
       DEF DeletionStep, WindowParts, WindowsInv
<1>10. CASE MembershipStep
    BY <1>2, <1>3, <1>4, <1>10 DEF MembershipStep, GrantAccess, SetExpiry, RemoveMember
<1>11. CASE AccountStep
    <2>1. CASE \E u \in Users, late \in LateReads : DisableUser(u, late)
        BY <1>2, <1>4, <2>1 DEF DisableUser
    <2>2. CASE \E u \in Users : EnableUser(u) \/ DeleteUser(u)
        BY <1>3, <1>4, <2>2 DEF EnableUser, DeleteUser
    <2> QED
        BY <1>11, <2>1, <2>2 DEF AccountStep
<1>12. CASE UNCHANGED vars
    BY <1>3, <1>4, <1>12 DEF vars
<1> QED
    BY <1>5, <1>6, <1>7, <1>8, <1>9, <1>10, <1>11, <1>12 DEF Next

\* Whatever the handlers of unavailability.ts and deletion-service.ts do, in any order,
\* the windows of each target stay in agreement with each other and with its status.
THEOREM WindowsInvariant == Spec => []WindowsInv
BY WindowsInit, WindowsNext, PTL DEF Spec

\* However often a target is maintained, deactivated and enabled, in any order, its
\* active windows never lie on top of each other.
THEOREM WindowsDisjoint == Spec => []WindowsOfTargetDisjoint
BY WindowsInvariant, PTL DEF WindowsInv

\* The status of a target and its open deactivation never disagree, even when the
\* minute changes inside disableLongTerm.
THEOREM StatusAgrees == Spec => []StatusMatchesWindows
BY WindowsInvariant, PTL DEF WindowsInv

\* Deactivating ends the maintenance of the target and, for a machine, of its groups;
\* none can be planned until it is enabled.
THEOREM MaintenanceStops == Spec => []NoMaintenanceWhileDisabled
BY WindowsInvariant, PTL DEF WindowsInv

\* Windows and status of every target tell one story: the three facts together.
THEOREM WindowsAreConsistent == Spec => []WindowsConsistent
BY WindowsInvariant, PTL DEF WindowsInv, WindowsConsistent

-----------------------------------------------------------------------------
(***************************************************************************)
(* Bookings against bookings and against windows, provided that no minute  *)
(* boundary falls inside a transaction (MaxSkew = 0): two reads of the     *)
(* clock in one transaction agree.                                         *)
(***************************************************************************)

ConfirmedIn(table) == {i \in DOMAIN table : table[i].status = "CONFIRMED"}

NoDoubleIn(table) ==
    \A i, j \in ConfirmedIn(table) :
        i # j /\ Contend(table[i], table[j]) => ~Overlap(table[i], table[j])

NotEmptyIn(table) == \A i \in ConfirmedIn(table) : table[i].start < table[i].end

ClearIn(table, windows) ==
    \A i \in ConfirmedIn(table), w \in ActiveIn(windows) :
        Concerns(windows[w].target, table[i]) => ~Overlap(table[i], windows[w])

\* The inductive invariant.  That bookings and windows are not empty is needed because
\* only an interval with a minute of its own is sure to be found minute by minute
\* (FreePieces), and because the two halves of a split must not meet.
BookingsInv ==
    /\ TypeOK
    /\ NoDoubleIn(res)
    /\ NotEmptyIn(res)
    /\ \A w \in ActiveWin : win[w].start < win[w].end
    /\ ClearIn(res, win)

-----------------------------------------------------------------------------
(* Tables whose rows lie inside those of res *)

\* Booking `new' keeps at least a minute of booking `old' and nothing else.
Within(new, old) ==
    /\ new.group = old.group /\ new.scope = old.scope
    /\ old.start <= new.start /\ new.start < new.end /\ new.end <= old.end

LEMMA RowFacts ==
    /\ \A r \in ResRow : r.start \in Nat /\ r.end \in Nat
                         /\ r.start \in Minutes /\ r.end \in Minutes
    /\ \A s \in Segment : s.start \in Nat /\ s.end \in Nat
                          /\ s.start \in Minutes /\ s.end \in Minutes
    /\ \A w \in WinRow : w.start \in Nat /\ w.end \in Nat /\ w.target \in Targets
BY MinutesFacts DEF ResRow, Segment, WinRow

\* Rows that lie inside earlier ones, disjoint when they come from the same one, can
\* contend for nothing the earlier ones did not contend for.
LEMMA WithinKeeps ==
    ASSUME BookingsInv, NEW table, ResTable(table),
           NEW parent \in [ConfirmedIn(table) -> Confirmed],
           \A i \in ConfirmedIn(table) : Within(table[i], res[parent[i]]),
           \A i, j \in ConfirmedIn(table) :
              i # j /\ parent[i] = parent[j] => ~Overlap(table[i], table[j])
    PROVE  NoDoubleIn(table) /\ NotEmptyIn(table) /\ ClearIn(table, win)
<1>0. \A i \in ConfirmedIn(table) :
          /\ parent[i] \in ConfirmedIn(res) /\ parent[i] \in DOMAIN res
          /\ res[parent[i]] \in ResRow /\ table[i] \in ResRow
    BY DEF BookingsInv, TypeOK, ResTable, Confirmed, ConfirmedIn
<1>1. NoDoubleIn(table)
    <2> SUFFICES ASSUME NEW i \in ConfirmedIn(table), NEW j \in ConfirmedIn(table),
                        i # j, Contend(table[i], table[j]), Overlap(table[i], table[j])
                 PROVE  FALSE
        BY DEF NoDoubleIn
    <2>1. Contend(res[parent[i]], res[parent[j]])
        BY DEF Within, Contend
    <2>2. Overlap(res[parent[i]], res[parent[j]])
        BY <1>0, RowFacts DEF Within, Overlap
    <2>3. parent[i] # parent[j]
        OBVIOUS
    <2> QED
        BY <1>0, <2>1, <2>2, <2>3 DEF BookingsInv, NoDoubleIn
<1>2. NotEmptyIn(table)
    BY DEF NotEmptyIn, Within
<1>3. ClearIn(table, win)
    <2> SUFFICES ASSUME NEW i \in ConfirmedIn(table), NEW w \in ActiveIn(win),
                        Concerns(win[w].target, table[i]), Overlap(table[i], win[w])
                 PROVE  FALSE
        BY DEF ClearIn
    <2>1. Concerns(win[w].target, res[parent[i]])
        BY DEF Within, Concerns
    <2>2. win[w] \in WinRow
        BY DEF ActiveIn, BookingsInv, TypeOK
    <2>3. Overlap(res[parent[i]], win[w])
        BY <1>0, <2>2, RowFacts DEF Within, Overlap
    <2> QED
        BY <1>0, <2>1, <2>3 DEF BookingsInv, ClearIn
<1> QED
    BY <1>1, <1>2, <1>3

\* The same for rows that stay under their ids.
LEMMA KeptRows ==
    ASSUME BookingsInv, NEW table, ResTable(table),
           \A i \in ConfirmedIn(table) : i \in Confirmed /\ Within(table[i], res[i])
    PROVE  NoDoubleIn(table) /\ NotEmptyIn(table) /\ ClearIn(table, win)
<1> DEFINE parent == [i \in ConfirmedIn(table) |-> i]
<1>1. parent \in [ConfirmedIn(table) -> Confirmed]
    OBVIOUS
<1>2. \A i \in ConfirmedIn(table) : parent[i] = i
    OBVIOUS
<1> HIDE DEF parent
<1> QED
    BY <1>1, <1>2, WithinKeeps

-----------------------------------------------------------------------------
(* Inserting the segments of a request *)

\* No two segments of a set contend for a minute, and each has one.
Packed(segs) ==
    /\ \A s \in segs : s.start < s.end
    /\ \A a, b \in segs : a # b => ~(Contend(a, b) /\ Overlap(a, b))

\* Nothing of a table of bookings, and no window, is in the way of the segments.
Unobstructed(segs, table) ==
    /\ \A s \in segs, i \in ConfirmedIn(table) :
          ~(Contend(table[i], s) /\ Overlap(table[i], s))
    /\ \A s \in segs, w \in ActiveWin :
          ~(Concerns(win[w].target, s) /\ Overlap(win[w], s))

LEMMA InsertKeeps ==
    ASSUME NEW u \in Users, NEW segs, segs \subseteq Segment,
           NEW idOf \in Injections(segs, FreeRes),
           NEW table, ResTable(table), DOMAIN table \subseteq DOMAIN res,
           NoDoubleIn(table), NotEmptyIn(table), ClearIn(table, win),
           Packed(segs), Unobstructed(segs, table)
    PROVE  LET all == With(table, NewBookings(u, segs, idOf)) IN
           NoDoubleIn(all) /\ NotEmptyIn(all) /\ ClearIn(all, win)
<1> DEFINE new == NewBookings(u, segs, idOf)
           all == With(table, new)
<1>1. /\ DOMAIN new = {idOf[s] : s \in segs}
      /\ DOMAIN new \cap DOMAIN table = {}
      /\ \A s \in segs : new[idOf[s]] = Booking(u, s)
    <2>1. DOMAIN new = {idOf[s] : s \in segs}
        BY DEF NewBookings
    <2>2. DOMAIN new \subseteq FreeRes /\ \A s \in segs : new[idOf[s]] = Booking(u, s)
        BY NewBookingsFacts
    <2> HIDE DEF new
    <2> QED
        BY <2>1, <2>2 DEF FreeRes
<1> HIDE DEF new
<1>2. /\ DOMAIN all = DOMAIN table \cup DOMAIN new
      /\ \A i \in DOMAIN new : all[i] = new[i]
      /\ \A i \in DOMAIN table : all[i] = table[i]
    BY <1>1 DEF With
<1> HIDE DEF all
\* A confirmed row is an old one or comes from a segment.
<1>3. \A i \in ConfirmedIn(all) :
          \/ i \in ConfirmedIn(table) /\ all[i] = table[i]
          \/ \E s \in segs : i = idOf[s] /\ all[i] = Booking(u, s)
    BY <1>1, <1>2 DEF ConfirmedIn
<1>4. NoDoubleIn(all)
    <2> SUFFICES ASSUME NEW i \in ConfirmedIn(all), NEW j \in ConfirmedIn(all),
                        i # j, Contend(all[i], all[j]), Overlap(all[i], all[j])
                 PROVE  FALSE
        BY DEF NoDoubleIn
    <2>1. CASE i \in ConfirmedIn(table) /\ all[i] = table[i]
        <3>1. CASE j \in ConfirmedIn(table) /\ all[j] = table[j]
            BY <2>1, <3>1 DEF NoDoubleIn
        <3>2. CASE \E s \in segs : all[j] = Booking(u, s)
            BY <2>1, <3>2 DEF Unobstructed, Booking, Contend, Overlap
        <3> QED
            BY <1>3, <3>1, <3>2
    <2>2. CASE \E s \in segs : i = idOf[s] /\ all[i] = Booking(u, s)
        <3>0. PICK s \in segs : i = idOf[s] /\ all[i] = Booking(u, s)
            BY <2>2
        <3>1. CASE j \in ConfirmedIn(table) /\ all[j] = table[j]
            BY <3>0, <3>1 DEF Unobstructed, Booking, Contend, Overlap
        <3>2. CASE \E r \in segs : j = idOf[r] /\ all[j] = Booking(u, r)
            BY <3>0, <3>2 DEF Packed, Booking, Contend, Overlap
        <3> QED
            BY <1>3, <3>1, <3>2
    <2> QED
        BY <1>3, <2>1, <2>2
<1>5. NotEmptyIn(all)
    <2> SUFFICES ASSUME NEW i \in ConfirmedIn(all) PROVE all[i].start < all[i].end
        BY DEF NotEmptyIn
    <2>1. CASE i \in ConfirmedIn(table) /\ all[i] = table[i]
        BY <2>1 DEF NotEmptyIn
    <2>2. CASE \E s \in segs : all[i] = Booking(u, s)
        BY <2>2 DEF Packed, Booking
    <2> QED
        BY <1>3, <2>1, <2>2
<1>6. ClearIn(all, win)
    <2> SUFFICES ASSUME NEW i \in ConfirmedIn(all), NEW w \in ActiveIn(win),
                        Concerns(win[w].target, all[i]), Overlap(all[i], win[w])
                 PROVE  FALSE
        BY DEF ClearIn
    <2>1. CASE i \in ConfirmedIn(table) /\ all[i] = table[i]
        BY <2>1 DEF ClearIn
    <2>2. CASE \E s \in segs : all[i] = Booking(u, s)
        BY <2>2 DEF Unobstructed, Booking, Concerns, Overlap, ActiveIn, ActiveWin
    <2> QED
        BY <1>3, <2>1, <2>2
<1> QED
    BY <1>4, <1>5, <1>6 DEF all, new

-----------------------------------------------------------------------------
(* The segments a request ends up as *)

FreeMinutes(s, excluded) ==
    {t \in s.start..(s.end - 1) : FreeMinute(s, excluded, t)}

\* A free piece is a maximal run of free minutes.
LEMMA PieceIsRun ==
    ASSUME NEW s \in Segment, NEW excluded, NEW x \in FreePieces(s, excluded)
    PROVE  /\ x.start \in Int /\ x.end \in Int /\ x.start < x.end
           /\ \A t \in Int : x.start <= t /\ t < x.end => t \in FreeMinutes(s, excluded)
           /\ x.start - 1 \notin FreeMinutes(s, excluded)
           /\ x.end \notin FreeMinutes(s, excluded)
<1> DEFINE free == FreeMinutes(s, excluded)
<1>1. PICK a \in free, b \in free :
          /\ a..b # {} /\ a..b \subseteq free
          /\ a - 1 \notin free /\ b + 1 \notin free
          /\ x = [s EXCEPT !.start = a, !.end = b + 1]
    <2>1. PICK p \in free \X free :
              /\ p[1]..p[2] # {} /\ p[1]..p[2] \subseteq free
              /\ p[1] - 1 \notin free /\ p[2] + 1 \notin free
              /\ x = [s EXCEPT !.start = p[1], !.end = p[2] + 1]
        BY DEF FreePieces, FreeMinutes
    <2>2. p[1] \in free /\ p[2] \in free
        OBVIOUS
    <2> HIDE DEF free
    <2> QED
        BY <2>1, <2>2
<1>2. s.start \in Int /\ s.end \in Int
    BY RowFacts
<1>3. a \in Int /\ b \in Int
    BY <1>2 DEF FreeMinutes
<1>4. x.start = a /\ x.end = b + 1
    BY <1>1 DEF Segment
<1> HIDE DEF free
<1>5. a <= b
    BY <1>1, <1>3
<1>6. \A t \in Int : a <= t /\ t < b + 1 => t \in a..b
    BY <1>3
<1> QED
    BY <1>1, <1>3, <1>4, <1>5, <1>6 DEF free

\* Two maximal runs are one or do not meet.
LEMMA PiecesApart ==
    ASSUME NEW s \in Segment, NEW excluded,
           NEW x \in FreePieces(s, excluded), NEW y \in FreePieces(s, excluded),
           Overlap(x, y)
    PROVE  x = y
<1> DEFINE free == FreeMinutes(s, excluded)
<1>1. /\ x.start \in Int /\ x.end \in Int /\ x.start < x.end
      /\ \A t \in Int : x.start <= t /\ t < x.end => t \in free
      /\ x.start - 1 \notin free /\ x.end \notin free
    BY PieceIsRun
<1>2. /\ y.start \in Int /\ y.end \in Int /\ y.start < y.end
      /\ \A t \in Int : y.start <= t /\ t < y.end => t \in free
      /\ y.start - 1 \notin free /\ y.end \notin free
    BY PieceIsRun
<1> HIDE DEF free
<1>3. x.start < y.end /\ y.start < x.end
    BY DEF Overlap
<1>4. ~(x.start < y.start)
    <2> SUFFICES ASSUME x.start < y.start PROVE FALSE
        OBVIOUS
    <2>1. y.start - 1 \in Int /\ x.start <= y.start - 1 /\ y.start - 1 < x.end
        BY <1>1, <1>2, <1>3
    <2> QED
        BY <1>1, <1>2, <2>1
<1>5. ~(y.start < x.start)
    <2> SUFFICES ASSUME y.start < x.start PROVE FALSE
        OBVIOUS
    <2>1. x.start - 1 \in Int /\ y.start <= x.start - 1 /\ x.start - 1 < y.end
        BY <1>1, <1>2, <1>3
    <2> QED
        BY <1>1, <1>2, <2>1
<1>6. ~(x.end < y.end)
    BY <1>1, <1>2, <1>3
<1>7. ~(y.end < x.end)
    BY <1>1, <1>2, <1>3
<1>8. x.start = y.start /\ x.end = y.end
    BY <1>1, <1>2, <1>4, <1>5, <1>6, <1>7
<1>9. /\ x \in Segment /\ x.group = s.group /\ x.scope = s.scope
      /\ y \in Segment /\ y.group = s.group /\ y.scope = s.scope
    BY FreePiecesType
<1> QED
    BY <1>8, <1>9 DEF Segment

\* What normalizeSegmentStart does to the segments of a request.
LEMMA ExactFacts ==
    ASSUME clock \in Minutes, NEW req \in Requests
    PROVE  /\ Exact(req) \subseteq Segment
           /\ \A x \in Exact(req) : clock <= x.start
           /\ \A x, y \in Exact(req) : x # y => ~(Contend(x, y) /\ Overlap(x, y))
<1>1. req \subseteq Segment /\ NoInternalOverlap(req)
    BY RequestType
<1>2. \A s \in req :
          /\ Normalize(s, clock) \in Segment
          /\ Normalize(s, clock) = [group |-> s.group, scope |-> s.scope,
                                    start |-> Later(s.start, clock), end |-> s.end]
          /\ s.start <= Later(s.start, clock) /\ clock <= Later(s.start, clock)
    BY <1>1, NormalizeType, MinutesFacts, RowFacts
<1>3. Exact(req) \subseteq Segment /\ \A x \in Exact(req) : clock <= x.start
    BY <1>2 DEF Exact
<1>4. ASSUME NEW x \in Exact(req), NEW y \in Exact(req), x # y,
             Contend(x, y), Overlap(x, y)
      PROVE  FALSE
    <2>1. PICK a \in req : x = Normalize(a, clock)
        BY DEF Exact
    <2>2. PICK b \in req : y = Normalize(b, clock)
        BY DEF Exact
    <2>3. a # b
        BY <1>4, <2>1, <2>2
    <2>4. Contend(a, b)
        BY <1>2, <1>4, <2>1, <2>2 DEF Contend
    <2>5. Overlap(a, b)
        <3>1. x.start < y.end /\ y.start < x.end
            BY <1>4 DEF Overlap
        <3>2. /\ a.start <= x.start /\ x.end = a.end
              /\ b.start <= y.start /\ y.end = b.end
            BY <1>2, <2>1, <2>2
        <3>3. /\ a \in Segment /\ b \in Segment /\ x \in Segment /\ y \in Segment
            BY <1>1, <1>3
        <3> QED
            BY <3>1, <3>2, <3>3, RowFacts DEF Overlap
    <2> QED
        BY <1>1, <2>3, <2>4, <2>5 DEF NoInternalOverlap
<1> QED
    BY <1>3, <1>4

\* Nothing busy covers a minute of a free piece.
LEMMA PieceFree ==
    ASSUME BookingsInv, NEW s \in Segment, NEW excluded,
           NEW x \in FreePieces(s, excluded)
    PROVE  /\ \A i \in Confirmed \ excluded :
                 ~(Contend(res[i], x) /\ Overlap(res[i], x))
           /\ \A w \in ActiveWin : ~(Concerns(win[w].target, x) /\ Overlap(win[w], x))
<1>1. /\ x \in Segment /\ x.group = s.group /\ x.scope = s.scope
      /\ x.start \in Int /\ x.end \in Int /\ x.start < x.end
      /\ \A t \in Int : x.start <= t /\ t < x.end => FreeMinute(s, excluded, t)
    <2>1. \A t \in FreeMinutes(s, excluded) : FreeMinute(s, excluded, t)
        BY DEF FreeMinutes
    <2> QED
        BY <2>1, FreePiecesType, PieceIsRun
<1>2. ASSUME NEW i \in Confirmed \ excluded, Contend(res[i], x), Overlap(res[i], x)
      PROVE  FALSE
    <2>0. /\ i \in ConfirmedIn(res) /\ res[i] \in ResRow
          /\ res[i].start \in Int /\ res[i].end \in Int /\ res[i].start < res[i].end
        BY RowFacts DEF Confirmed, ConfirmedIn, BookingsInv, TypeOK, NotEmptyIn
    <2>1. PICK t \in Int : /\ x.start <= t /\ t < x.end
                           /\ res[i].start <= t /\ t < res[i].end
        <3>1. x.start <= res[i].start \/ res[i].start <= x.start
            BY <1>1, <2>0
        <3> QED
            BY <1>1, <1>2, <2>0, <3>1 DEF Overlap
    <2> DEFINE minute == [s EXCEPT !.start = t, !.end = t + 1]
    <2>2. /\ minute.group = s.group /\ minute.scope = s.scope
          /\ minute.start = t /\ minute.end = t + 1
        BY DEF Segment
    <2>3. BusyBookings(minute, excluded) = {}
        BY <1>1, <2>1 DEF FreeMinute
    <2> HIDE DEF minute
    <2>4. Contend(res[i], minute)
        BY <1>1, <1>2, <2>2 DEF Contend
    <2>5. Overlap(res[i], minute)
        BY <2>0, <2>1, <2>2 DEF Overlap
    <2> QED
        BY <2>3, <2>4, <2>5 DEF BusyBookings
<1>3. ASSUME NEW w \in ActiveWin, Concerns(win[w].target, x), Overlap(win[w], x)
      PROVE  FALSE
    <2>0. win[w].start \in Int /\ win[w].end \in Int /\ win[w].start < win[w].end
        BY RowFacts DEF ActiveWin, BookingsInv, TypeOK
    <2>1. PICK t \in Int : /\ x.start <= t /\ t < x.end
                           /\ win[w].start <= t /\ t < win[w].end
        <3>1. x.start <= win[w].start \/ win[w].start <= x.start
            BY <1>1, <2>0
        <3> QED
            BY <1>1, <1>3, <2>0, <3>1 DEF Overlap
    <2> DEFINE minute == [s EXCEPT !.start = t, !.end = t + 1]
    <2>2. /\ minute.group = s.group /\ minute.scope = s.scope
          /\ minute.start = t /\ minute.end = t + 1
        BY DEF Segment
    <2>3. BusyWindows(minute) = {}
        BY <1>1, <2>1 DEF FreeMinute
    <2> HIDE DEF minute
    <2>4. Concerns(win[w].target, minute)
        BY <1>1, <1>3, <2>2 DEF Concerns
    <2>5. Overlap(win[w], minute)
        BY <2>0, <2>1, <2>2 DEF Overlap
    <2> QED
        BY <2>3, <2>4, <2>5 DEF BusyWindows
<1> QED
    BY <1>2, <1>3

\* The segments of an accepted request fit, next to the rows that stay and to one
\* another.
LEMMA PiecesFit ==
    ASSUME BookingsInv, NEW u, NEW req \in Requests, NEW excluded,
           NEW adjust \in BOOLEAN, NEW late,
           RequestAccepted(u, req, excluded, adjust, late),
           NEW table, ResTable(table),
           \A i \in ConfirmedIn(table) :
              \/ i \in Confirmed \ excluded /\ table[i] = res[i]
              \/ table[i].end <= clock
    PROVE  LET segs == Pieces(req, excluded, adjust) IN
           /\ segs \subseteq Segment
           /\ Packed(segs)
           /\ Unobstructed(segs, table)
<1> DEFINE segs == Pieces(req, excluded, adjust)
<1>0. clock \in Minutes /\ clock \in Int
    BY MinutesFacts DEF BookingsInv, TypeOK
<1>1. segs \subseteq Segment
    BY <1>0, PiecesType
<1>2. adjust => \A x \in segs : \E s \in Exact(req) : x \in FreePieces(s, excluded)
    BY DEF Pieces
<1>3. ~adjust => segs = Exact(req)
    BY DEF Pieces
<1>4. ~adjust => \A x \in segs : x.start < x.end /\ Available(x, excluded)
    BY <1>3 DEF RequestAccepted, ValidTimes
<1> HIDE DEF segs
<1>5. \A x \in segs : clock <= x.start /\ x.start < x.end
    <2>1. CASE adjust
        <3> SUFFICES ASSUME NEW x \in segs PROVE clock <= x.start /\ x.start < x.end
            OBVIOUS
        <3>1. PICK s \in Exact(req) : x \in FreePieces(s, excluded)
            BY <1>2, <2>1
        <3>2. s \in Segment /\ clock <= s.start
            BY <1>0, ExactFacts
        <3>3. s.start <= x.start /\ x.start < x.end
            BY <3>1, <3>2, FreePiecesType
        <3>4. s.start \in Int /\ x.start \in Int
            BY <1>1, <3>2, RowFacts
        <3> QED
            BY <1>0, <3>2, <3>3, <3>4
    <2>2. CASE ~adjust
        BY <1>0, <1>3, <1>4, <2>2, ExactFacts
    <2> QED
        BY <2>1, <2>2
<1>6. ASSUME NEW x \in segs, NEW y \in segs, x # y, Contend(x, y), Overlap(x, y)
      PROVE  FALSE
    <2>1. CASE adjust
        <3>1. PICK s \in Exact(req) : x \in FreePieces(s, excluded)
            BY <1>2, <2>1
        <3>2. PICK r \in Exact(req) : y \in FreePieces(r, excluded)
            BY <1>2, <2>1
        <3>3. s \in Segment /\ r \in Segment
            BY <1>0, ExactFacts
        <3>4. s # r
            BY <1>6, <3>1, <3>2, <3>3, PiecesApart
        <3>5. /\ x.group = s.group /\ x.scope = s.scope
              /\ s.start <= x.start /\ x.end <= s.end
              /\ y.group = r.group /\ y.scope = r.scope
              /\ r.start <= y.start /\ y.end <= r.end
            BY <3>1, <3>2, <3>3, FreePiecesType
        <3>6. Contend(s, r)
            BY <1>6, <3>5 DEF Contend
        <3>7. Overlap(s, r)
            <4>1. x.start < y.end /\ y.start < x.end
                BY <1>6 DEF Overlap
            <4>2. x \in Segment /\ y \in Segment
                BY <1>1
            <4> QED
                BY <3>3, <3>5, <4>1, <4>2, RowFacts DEF Overlap
        <3> QED
            BY <1>0, <3>4, <3>6, <3>7, ExactFacts
    <2>2. CASE ~adjust
        BY <1>0, <1>3, <1>6, <2>2, ExactFacts
    <2> QED
        BY <2>1, <2>2
<1>7. \A x \in segs :
          /\ \A i \in Confirmed \ excluded :
                ~(Contend(res[i], x) /\ Overlap(res[i], x))
          /\ \A w \in ActiveWin : ~(Concerns(win[w].target, x) /\ Overlap(win[w], x))
    <2>1. CASE adjust
        <3>1. Exact(req) \subseteq Segment
            BY <1>0, ExactFacts
        <3> QED
            BY <1>2, <2>1, <3>1, PieceFree
    <2>2. CASE ~adjust
        BY <1>4, <2>2 DEF Available, BusyBookings, BusyWindows
    <2> QED
        BY <2>1, <2>2
<1>8. Packed(segs)
    BY <1>5, <1>6 DEF Packed
<1>9. Unobstructed(segs, table)
    <2>1. ASSUME NEW x \in segs, NEW i \in ConfirmedIn(table),
                 Contend(table[i], x), Overlap(table[i], x)
          PROVE  FALSE
        <3>1. CASE i \in Confirmed \ excluded /\ table[i] = res[i]
            BY <1>7, <2>1, <3>1
        <3>2. CASE table[i].end <= clock
            <4>1. table[i] \in ResRow /\ x \in Segment
                BY <1>1 DEF ResTable, ConfirmedIn
            <4>2. table[i].end \in Int /\ x.start \in Int
                BY <4>1, RowFacts
            <4>3. x.start < table[i].end
                BY <2>1 DEF Overlap
            <4> QED
                BY <1>0, <1>5, <3>2, <4>2, <4>3
        <3> QED
            BY <3>1, <3>2
    <2> QED
        BY <1>7, <2>1 DEF Unobstructed
<1> QED
    BY <1>1, <1>8, <1>9 DEF segs

-----------------------------------------------------------------------------
(* Booking handlers *)

LEMMA NoSkew ==
    ASSUME MaxSkew = 0, TypeOK, NEW late \in LateReads
    PROVE  late = clock
<1>1. clock \in Int /\ late \in Int
    BY MinutesFacts DEF LateReads, TypeOK
<1>2. clock <= late /\ late <= clock + 0
    BY DEF LateReads
<1> QED
    BY <1>1, <1>2

LEMMA CommitKeeps ==
    ASSUME BookingsInv, NEW u \in Users, NEW req \in Requests, NEW adjust \in BOOLEAN,
           NEW late, CommitBatch(u, req, adjust, late)
    PROVE  NoDoubleIn(res') /\ NotEmptyIn(res') /\ ClearIn(res', win)
<1> DEFINE segs == Pieces(req, {}, adjust)
<1>1. ResTable(res) /\ RequestAccepted(u, req, {}, adjust, late)
    BY DEF BookingsInv, TypeOK, ResTable, CommitBatch
<1>2. PICK idOf \in Injections(segs, FreeRes) : res' = With(res, NewBookings(u, segs, idOf))
    BY DEF CommitBatch
<1>3. \A i \in ConfirmedIn(res) : i \in Confirmed \ {} /\ res[i] = res[i]
    BY DEF Confirmed, ConfirmedIn
<1>4. segs \subseteq Segment /\ Packed(segs) /\ Unobstructed(segs, res)
    BY <1>1, <1>3, PiecesFit
<1> HIDE DEF segs
<1> QED
    BY <1>1, <1>2, <1>4, InsertKeeps DEF BookingsInv

\* A booking that is under way or to come, cut short or cancelled now.
LEMMA CutShortWithin ==
    ASSUME NEW row \in ResRow, NEW minute \in Minutes, minute < row.end,
           CutShort(row, minute).status = "CONFIRMED"
    PROVE  Within(CutShort(row, minute), row) /\ CutShort(row, minute).end = minute
<1>1. row.start \in Int /\ row.end \in Int /\ minute \in Int
    BY RowFacts, MinutesFacts
<1>2. row.start < minute /\ CutShort(row, minute) = [row EXCEPT !.end = minute]
    BY DEF CutShort, ResRow
<1> QED
    BY <1>1, <1>2 DEF Within, ResRow

LEMMA ReplaceManyKeeps ==
    ASSUME BookingsInv, NEW u \in Users, NEW originals \in SUBSET Confirmed,
           NEW req \in Requests, NEW adjust \in BOOLEAN,
           NEW late, ReplaceMany(u, originals, req, adjust, late)
    PROVE  NoDoubleIn(res') /\ NotEmptyIn(res') /\ ClearIn(res', win)
<1> DEFINE table == [i \in DOMAIN res |-> IF i \in originals
                                          THEN CutShort(res[i], clock)
                                          ELSE res[i]]
           segs == Pieces(req, originals, adjust)
<1>1. /\ clock \in Minutes /\ clock \in Int
      /\ \A i \in DOMAIN res : res[i] \in ResRow
    BY MinutesFacts DEF BookingsInv, TypeOK
<1>2. /\ \A i \in originals : res[i].end > clock
      /\ RequestAccepted(u, req, originals, adjust, late)
    BY DEF ReplaceMany
<1>3. ResTable(table) /\ DOMAIN table = DOMAIN res
    BY <1>1, CutShortType DEF ResTable, BookingsInv, TypeOK
<1>4. PICK idOf \in Injections(segs, FreeRes) :
          res' = With(table, NewBookings(u, segs, idOf))
    BY DEF ReplaceMany
<1>5. \A i \in ConfirmedIn(table) :
          IF i \in originals THEN table[i] = CutShort(res[i], clock)
                             ELSE i \in Confirmed /\ table[i] = res[i]
    BY DEF ConfirmedIn, Confirmed
<1> HIDE DEF table
<1>6. \A i \in ConfirmedIn(table) :
          /\ i \in Confirmed /\ Within(table[i], res[i])
          /\ i \in originals => table[i].end <= clock
    <2> SUFFICES ASSUME NEW i \in ConfirmedIn(table)
                 PROVE  /\ i \in Confirmed /\ Within(table[i], res[i])
                        /\ i \in originals => table[i].end <= clock
        OBVIOUS
    <2>1. CASE i \in originals
        <3>1. i \in Confirmed /\ res[i] \in ResRow /\ clock < res[i].end
            BY <1>1, <1>2, <2>1, RowFacts DEF Confirmed
        <3>2. CutShort(res[i], clock).status = "CONFIRMED"
            BY <1>5, <2>1 DEF ConfirmedIn
        <3> QED
            BY <1>1, <1>5, <2>1, <3>1, <3>2, CutShortWithin
    <2>2. CASE i \notin originals
        <3>1. i \in Confirmed /\ res[i] \in ResRow /\ i \in ConfirmedIn(res)
              /\ table[i] = res[i]
            BY <1>1, <1>5, <2>2 DEF Confirmed, ConfirmedIn
        <3> QED
            BY <2>2, <3>1, RowFacts DEF Within, BookingsInv, NotEmptyIn
    <2> QED
        BY <2>1, <2>2
<1>7. NoDoubleIn(table) /\ NotEmptyIn(table) /\ ClearIn(table, win)
    BY <1>3, <1>6, KeptRows
<1>8. \A i \in ConfirmedIn(table) :
          \/ i \in Confirmed \ originals /\ table[i] = res[i]
          \/ table[i].end <= clock
    BY <1>5, <1>6
<1>9. segs \subseteq Segment /\ Packed(segs) /\ Unobstructed(segs, table)
    BY <1>2, <1>3, <1>8, PiecesFit
<1> HIDE DEF segs
<1> QED
    BY <1>3, <1>4, <1>7, <1>9, InsertKeeps

LEMMA ReplaceKeeps ==
    ASSUME BookingsInv, NEW u \in Users, NEW i \in Confirmed, NEW req \in Requests,
           ReplaceBatch(u, i, req, clock)
    PROVE  NoDoubleIn(res') /\ NotEmptyIn(res') /\ ClearIn(res', win)
<1> DEFINE rest == IF res[i].end <= clock THEN res[i] ELSE CutShort(res[i], clock)
           table == [res EXCEPT ![i] = rest]
           segs == Exact(req)
<1>1. /\ clock \in Minutes /\ clock \in Int
      /\ \A j \in DOMAIN res : res[j] \in ResRow
      /\ i \in DOMAIN res /\ i \in ConfirmedIn(res)
      /\ res[i].end \in Int
    BY MinutesFacts, RowFacts DEF BookingsInv, TypeOK, Confirmed, ConfirmedIn
<1>2. RequestAccepted(u, req, {i}, FALSE, clock)
    BY DEF ReplaceBatch
<1>3. rest \in ResRow
    BY <1>1, CutShortType
<1>4. /\ ResTable(table) /\ DOMAIN table = DOMAIN res
      /\ table[i] = rest /\ \A j \in DOMAIN res : j # i => table[j] = res[j]
    BY <1>1, <1>3 DEF ResTable, BookingsInv, TypeOK
<1>5. PICK idOf \in Injections(segs, FreeRes) :
          res' = With(table, NewBookings(u, segs, idOf))
    BY DEF ReplaceBatch
<1>6. rest.status = "CONFIRMED" => Within(rest, res[i]) /\ rest.end <= clock
    <2>1. CASE res[i].end <= clock
        BY <1>1, <2>1, RowFacts DEF Within, BookingsInv, NotEmptyIn
    <2>2. CASE ~(res[i].end <= clock)
        <3>1. clock < res[i].end /\ rest = CutShort(res[i], clock)
            BY <1>1, <2>2
        <3> QED
            BY <1>1, <3>1, CutShortWithin
    <2> QED
        BY <2>1, <2>2
<1> HIDE DEF table, rest
<1>7. \A j \in ConfirmedIn(table) :
          /\ j \in Confirmed /\ Within(table[j], res[j])
          /\ \/ j \in Confirmed \ {i} /\ table[j] = res[j]
             \/ table[j].end <= clock
    <2> SUFFICES ASSUME NEW j \in ConfirmedIn(table)
                 PROVE  /\ j \in Confirmed /\ Within(table[j], res[j])
                        /\ \/ j \in Confirmed \ {i} /\ table[j] = res[j]
                           \/ table[j].end <= clock
        OBVIOUS
    <2>1. CASE j = i
        BY <1>4, <1>6, <2>1 DEF ConfirmedIn
    <2>2. CASE j # i
        <3>1. j \in DOMAIN res /\ table[j] = res[j] /\ j \in Confirmed /\ j \in ConfirmedIn(res)
            BY <1>4, <2>2 DEF ConfirmedIn, Confirmed
        <3> QED
            BY <1>1, <2>2, <3>1, RowFacts DEF Within, BookingsInv, NotEmptyIn
    <2> QED
        BY <2>1, <2>2
<1>8. NoDoubleIn(table) /\ NotEmptyIn(table) /\ ClearIn(table, win)
    BY <1>4, <1>7, KeptRows
<1>9. segs \subseteq Segment /\ Packed(segs) /\ Unobstructed(segs, table)
    <2>1. Pieces(req, {i}, FALSE) = segs
        BY DEF Pieces
    <2> HIDE DEF segs
    <2> QED
        BY <1>2, <1>4, <1>7, <2>1, PiecesFit
<1> HIDE DEF segs
<1> QED
    BY <1>4, <1>5, <1>8, <1>9, InsertKeeps

\* The start that is stored is the one that was checked: both are read at clock.
LEMMA UpdateKeeps ==
    ASSUME BookingsInv, NEW u \in Users, NEW i \in Confirmed,
           NEW start \in Minutes, NEW end \in Minutes,
           UpdateBooking(u, i, start, end, clock, clock)
    PROVE  NoDoubleIn(res') /\ NotEmptyIn(res') /\ ClearIn(res', win)
<1> DEFINE seg == [group |-> res[i].group, scope |-> res[i].scope,
                   start |-> start, end |-> end]
           checked == Normalize(seg, clock)
<1>1. /\ i \in DOMAIN res /\ i \in ConfirmedIn(res) /\ res[i] \in ResRow
      /\ \A j \in DOMAIN res : res[j] \in ResRow
      /\ clock \in Int /\ start \in Int /\ end \in Int
    BY MinutesFacts DEF BookingsInv, TypeOK, Confirmed, ConfirmedIn
<1>2. res' = [res EXCEPT ![i].start = start, ![i].end = end]
    BY DEF UpdateBooking, UpdateAccepted
<1>3. /\ DOMAIN res' = DOMAIN res
      /\ \A j \in DOMAIN res : j # i => res'[j] = res[j]
      /\ res'[i].group = res[i].group /\ res'[i].scope = res[i].scope
      /\ res'[i].start = start /\ res'[i].end = end
      /\ res'[i].status = res[i].status
    BY <1>1, <1>2 DEF ResRow
<1>4. ConfirmedIn(res') = ConfirmedIn(res)
    BY <1>3 DEF ConfirmedIn
<1>5. CASE res[i].start <= clock /\ start = res[i].start /\ end = res[i].end
    <2>1. \A j \in DOMAIN res : /\ res'[j].group = res[j].group
                                /\ res'[j].scope = res[j].scope
                                /\ res'[j].start = res[j].start
                                /\ res'[j].end = res[j].end
        BY <1>3, <1>5
    <2>2. \A j \in ConfirmedIn(res) : j \in DOMAIN res
        BY DEF ConfirmedIn
    <2> QED
        BY <1>4, <2>1, <2>2
           DEF NoDoubleIn, NotEmptyIn, ClearIn, BookingsInv, Contend, Overlap, Concerns
<1>6. CASE ValidTimes(seg, clock) /\ Available(checked, {i})
    <2>1. start < end /\ clock <= start
        BY <1>1, <1>6 DEF ValidTimes
    <2>2. /\ checked.group = res[i].group /\ checked.scope = res[i].scope
          /\ checked.start = start /\ checked.end = end
        BY <1>1, <2>1 DEF Normalize, Later
    <2> HIDE DEF checked
    <2>3. \A j \in Confirmed \ {i} : ~(Contend(res[j], checked) /\ Overlap(res[j], checked))
        BY <1>6 DEF Available, BusyBookings
    <2>4. \A w \in ActiveWin :
              ~(Concerns(win[w].target, checked) /\ Overlap(win[w], checked))
        BY <1>6 DEF Available, BusyWindows
    <2>5. \A j \in ConfirmedIn(res) : j # i => j \in Confirmed \ {i} /\ res'[j] = res[j]
        BY <1>3 DEF Confirmed, ConfirmedIn
    <2>6. \A j \in ConfirmedIn(res) : j # i =>
              /\ ~(Contend(res'[j], res'[i]) /\ Overlap(res'[j], res'[i]))
              /\ ~(Contend(res'[i], res'[j]) /\ Overlap(res'[i], res'[j]))
        BY <1>3, <2>2, <2>3, <2>5 DEF Contend, Overlap
    <2>7. NoDoubleIn(res')
        BY <1>4, <2>5, <2>6 DEF NoDoubleIn, BookingsInv
    <2>8. NotEmptyIn(res')
        BY <1>3, <1>4, <2>1, <2>5 DEF NotEmptyIn, BookingsInv
    <2>9. \A w \in ActiveIn(win) : Concerns(win[w].target, res'[i]) => ~Overlap(res'[i], win[w])
        BY <1>3, <2>2, <2>4 DEF Concerns, Overlap, ActiveIn, ActiveWin
    <2>10. ClearIn(res', win)
        BY <1>4, <2>5, <2>9 DEF ClearIn, BookingsInv
    <2> QED
        BY <2>7, <2>8, <2>10
<1> QED
    BY <1>5, <1>6 DEF UpdateBooking, UpdateAccepted

-----------------------------------------------------------------------------
(* Handlers that release bookings *)

LEMMA ReleaseKeeps ==
    ASSUME BookingsInv, NEW i \in Confirmed, CancelBooking(i) \/ EndEarly(i)
    PROVE  NoDoubleIn(res') /\ NotEmptyIn(res') /\ ClearIn(res', win)
<1>1. /\ i \in DOMAIN res
      /\ \A j \in DOMAIN res : res[j] \in ResRow
      /\ clock \in Int
    BY MinutesFacts DEF BookingsInv, TypeOK, Confirmed
<1>2. ResTable(res')
    BY ReleaseStepType DEF BookingsInv
<1>3. \A j \in Confirmed : Within(res[j], res[j])
    BY <1>1, RowFacts DEF Within, BookingsInv, NotEmptyIn, ConfirmedIn, Confirmed
<1>4. \A j \in ConfirmedIn(res') : j \in Confirmed /\ Within(res'[j], res[j])
    <2>1. CASE CancelBooking(i) \/ (EndEarly(i) /\ res[i].start = clock)
        <3>1. \A j \in ConfirmedIn(res') : j \in Confirmed /\ res'[j] = res[j]
            BY <1>1, <2>1 DEF CancelBooking, EndEarly, ConfirmedIn, Confirmed, ResRow
        <3> QED
            BY <1>3, <3>1
    <2>2. CASE EndEarly(i) /\ res[i].start # clock
        <3>1. /\ res' = [res EXCEPT ![i].end = clock]
              /\ res[i].start <= clock /\ clock < res[i].end
            BY <2>2 DEF EndEarly
        <3>2. \A j \in DOMAIN res' : j \in DOMAIN res /\ (j # i => res'[j] = res[j])
            BY <3>1
        <3>3. /\ res'[i].group = res[i].group /\ res'[i].scope = res[i].scope
              /\ res'[i].start = res[i].start /\ res'[i].end = clock
              /\ res'[i].status = res[i].status
            BY <1>1, <3>1 DEF ResRow
        <3>4. res[i].start \in Int /\ res[i].end \in Int
            BY <1>1, RowFacts
        <3>5. Within(res'[i], res[i])
            BY <1>1, <2>2, <3>1, <3>3, <3>4 DEF Within
        <3> QED
            BY <1>3, <3>2, <3>3, <3>5 DEF ConfirmedIn, Confirmed
    <2> QED
        BY <2>1, <2>2
<1> QED
    BY <1>2, <1>4, KeptRows

LEMMA SetExpiryKeeps ==
    ASSUME BookingsInv, NEW u \in Users, NEW m \in Machines, NEW expiry \in Expiries,
           SetExpiry(u, m, expiry)
    PROVE  NoDoubleIn(res') /\ NotEmptyIn(res') /\ ClearIn(res', win)
<1>1. /\ \A j \in DOMAIN res : res[j] \in ResRow
      /\ expiry \in Int
    BY MinutesFacts DEF BookingsInv, TypeOK, Expiries
<1>2. ResTable(res')
    BY SetExpiryType DEF BookingsInv
<1>3. \A j \in DOMAIN res' : j \in DOMAIN res /\ res'[j] \in {res[j], TrimToExpiry(res[j], expiry)}
    BY DEF SetExpiry
<1>4. \A row \in ResRow : TrimToExpiry(row, expiry).status = "CONFIRMED" =>
          row.status = "CONFIRMED" /\ (row.start < row.end => Within(TrimToExpiry(row, expiry), row))
    <2> SUFFICES ASSUME NEW row \in ResRow, TrimToExpiry(row, expiry).status = "CONFIRMED"
                 PROVE  row.status = "CONFIRMED"
                        /\ (row.start < row.end => Within(TrimToExpiry(row, expiry), row))
        OBVIOUS
    <2>1. row.start \in Int /\ row.end \in Int
        BY RowFacts
    <2>2. CASE row.end <= expiry
        BY <2>1, <2>2 DEF TrimToExpiry, Within
    <2>3. CASE ~(row.end <= expiry)
        <3>1. ~(row.start >= expiry) /\ TrimToExpiry(row, expiry) = [row EXCEPT !.end = expiry]
            BY <2>3 DEF TrimToExpiry, ResRow
        <3> QED
            BY <1>1, <2>1, <2>3, <3>1 DEF Within, ResRow
    <2> QED
        BY <2>2, <2>3
<1>5. \A j \in Confirmed : res[j].start < res[j].end /\ Within(res[j], res[j])
    BY <1>1, RowFacts DEF Within, BookingsInv, NotEmptyIn, ConfirmedIn, Confirmed
<1>6. \A j \in ConfirmedIn(res') : j \in Confirmed /\ Within(res'[j], res[j])
    <2> SUFFICES ASSUME NEW j \in ConfirmedIn(res')
                 PROVE  j \in Confirmed /\ Within(res'[j], res[j])
        OBVIOUS
    <2>1. /\ j \in DOMAIN res /\ res[j] \in ResRow
          /\ res'[j].status = "CONFIRMED"
          /\ res'[j] \in {res[j], TrimToExpiry(res[j], expiry)}
        BY <1>1, <1>3 DEF ConfirmedIn
    <2>2. j \in Confirmed
        BY <1>4, <2>1 DEF Confirmed
    <2> QED
        BY <1>4, <1>5, <2>1, <2>2
<1> QED
    BY <1>2, <1>6, KeptRows

\* releaseMachineResources, when its two clock reads agree.
LEMMA ReleasedKeeps ==
    ASSUME BookingsInv, NEW mine, res' = Released(mine, clock)
    PROVE  NoDoubleIn(res') /\ NotEmptyIn(res') /\ ClearIn(res', win)
<1>1. /\ \A j \in DOMAIN res : res[j] \in ResRow
      /\ clock \in Minutes /\ clock \in Int
    BY MinutesFacts DEF BookingsInv, TypeOK
<1>2. ResTable(res')
    BY <1>1, ReleasedType DEF BookingsInv, TypeOK, ResTable
<1>3. \A j \in Confirmed : res[j].start < res[j].end /\ Within(res[j], res[j])
    BY <1>1, RowFacts DEF Within, BookingsInv, NotEmptyIn, ConfirmedIn, Confirmed
<1>4. \A j \in DOMAIN res' :
          /\ j \in DOMAIN res
          /\ \/ res'[j] = res[j]
             \/ res'[j] = [res[j] EXCEPT !.status = "CANCELLED"]
             \/ /\ res'[j] = [res[j] EXCEPT !.end = clock]
                /\ res[j].start < clock /\ res[j].end > clock
    BY DEF Released
<1>5. \A j \in ConfirmedIn(res') : j \in Confirmed /\ Within(res'[j], res[j])
    <2> SUFFICES ASSUME NEW j \in ConfirmedIn(res')
                 PROVE  j \in Confirmed /\ Within(res'[j], res[j])
        OBVIOUS
    <2>1. j \in DOMAIN res' /\ j \in DOMAIN res /\ res[j] \in ResRow
          /\ res'[j].status = "CONFIRMED"
        BY <1>1, <1>4 DEF ConfirmedIn
    <2>2. CASE res'[j] = res[j]
        BY <1>3, <2>1, <2>2 DEF Confirmed
    <2>3. CASE res'[j] = [res[j] EXCEPT !.status = "CANCELLED"]
        BY <2>1, <2>3 DEF ResRow
    <2>4. CASE res'[j] = [res[j] EXCEPT !.end = clock] /\ res[j].start < clock /\ res[j].end > clock
        <3>1. res[j].start \in Int /\ res[j].end \in Int
            BY <2>1, RowFacts
        <3> QED
            BY <1>1, <2>1, <2>4, <3>1 DEF Within, Confirmed, ResRow
    <2> QED
        BY <1>4, <2>1, <2>2, <2>3, <2>4
<1> QED
    BY <1>2, <1>5, KeptRows

-----------------------------------------------------------------------------
(* Handlers that write windows *)

\* applyReservationImpacts: what it leaves of the bookings lies inside what was booked,
\* and outside the window.
LEMMA AdjustedKeeps ==
    ASSUME BookingsInv, NEW t \in Targets, NEW w \in WinRow, w.start < w.end,
           NEW childOf \in Injections(SplitByWindow(t, w), FreeRes)
    PROVE  LET table == Adjusted(t, w, childOf) IN
           /\ NoDoubleIn(table) /\ NotEmptyIn(table) /\ ClearIn(table, win)
           /\ \A i \in ConfirmedIn(table) :
                 Concerns(t, table[i]) => ~Overlap(table[i], w)
<1> DEFINE Split == SplitByWindow(t, w)
           old == [i \in DOMAIN res |->
                     IF i \in Impacted(t, w) THEN Shrink(res[i], w) ELSE res[i]]
           parentOf(c) == CHOOSE i \in DOMAIN childOf : childOf[i] = c
           children == [c \in {childOf[i] : i \in DOMAIN childOf} |->
                          [res[parentOf(c)] EXCEPT !.start = w.end]]
           table == Adjusted(t, w, childOf)
<1>1. /\ \A i \in DOMAIN res : res[i] \in ResRow
      /\ w.start \in Int /\ w.end \in Int
      /\ \A i \in DOMAIN res : res[i].start \in Int /\ res[i].end \in Int
    BY RowFacts DEF BookingsInv, TypeOK
<1>2. ResTable(table)
    BY AdjustedType DEF BookingsInv, TypeOK, ResTable
<1>3. /\ DOMAIN childOf = Split
      /\ \A i \in Split : childOf[i] \in ResIds \ DOMAIN res
      /\ \A i, j \in Split : childOf[i] = childOf[j] => i = j
      /\ \A i \in Split : /\ i \in Impacted(t, w) /\ i \in DOMAIN res
                          /\ res[i].start < w.start /\ w.end < res[i].end
    BY DEF Injections, FreeRes, SplitByWindow, Impacted, Confirmed
<1>4. \A i \in Split : parentOf(childOf[i]) = i
    BY <1>3
<1>5. table = With(old, children)
    BY DEF Adjusted
<1>6. /\ DOMAIN old = DOMAIN res
      /\ \A i \in DOMAIN res :
            old[i] = IF i \in Impacted(t, w) THEN Shrink(res[i], w) ELSE res[i]
    OBVIOUS
<1>7. /\ DOMAIN children = {childOf[i] : i \in Split}
      /\ \A i \in Split : children[childOf[i]] = [res[i] EXCEPT !.start = w.end]
    BY <1>3, <1>4
<1> HIDE DEF old, children, table, parentOf, Split
<1>8. /\ DOMAIN table = DOMAIN res \cup {childOf[i] : i \in Split}
      /\ \A i \in DOMAIN res : table[i] = old[i]
      /\ \A i \in Split : table[childOf[i]] = [res[i] EXCEPT !.start = w.end]
    BY <1>3, <1>5, <1>6, <1>7 DEF With
\* The rows that keep their ids.
<1>9. \A i \in ConfirmedIn(table) : i \in DOMAIN res =>
          /\ i \in Confirmed /\ Within(table[i], res[i])
          /\ Concerns(t, table[i]) => ~Overlap(table[i], w)
          /\ i \in Split => table[i].end <= w.start
    <2> SUFFICES ASSUME NEW i \in ConfirmedIn(table), i \in DOMAIN res
                 PROVE  /\ i \in Confirmed /\ Within(table[i], res[i])
                        /\ Concerns(t, table[i]) => ~Overlap(table[i], w)
                        /\ i \in Split => table[i].end <= w.start
        OBVIOUS
    <2>1. CASE i \in Impacted(t, w)
        <3>1. /\ i \in Confirmed /\ Overlap(res[i], w) /\ res[i] \in ResRow
              /\ table[i] = Shrink(res[i], w) /\ table[i].status = "CONFIRMED"
              /\ res[i].start \in Int /\ res[i].end \in Int
            BY <1>1, <1>6, <1>8, <2>1 DEF Impacted, ConfirmedIn
        <3>2. ~(w.start <= res[i].start /\ res[i].end <= w.end)
            BY <3>1 DEF Shrink, ResRow
        <3>3. CASE w.start <= res[i].start
            <4>1. table[i] = [res[i] EXCEPT !.start = w.end]
                BY <3>1, <3>2, <3>3 DEF Shrink
            <4> QED
                BY <1>1, <1>3, <3>1, <3>2, <3>3, <4>1 DEF Within, Overlap, ResRow
        <3>4. CASE ~(w.start <= res[i].start)
            <4>1. table[i] = [res[i] EXCEPT !.end = w.start]
                BY <3>1, <3>4 DEF Shrink
            <4> QED
                BY <1>1, <3>1, <3>4, <4>1 DEF Within, Overlap, ResRow
        <3> QED
            BY <3>3, <3>4
    <2>2. CASE i \notin Impacted(t, w)
        <3>1. table[i] = res[i] /\ i \in Confirmed /\ i \in ConfirmedIn(res)
            BY <1>6, <1>8, <2>2 DEF Confirmed, ConfirmedIn
        <3>2. Within(table[i], res[i])
            BY <1>1, <3>1 DEF Within, BookingsInv, NotEmptyIn
        <3>3. Concerns(t, table[i]) => ~Overlap(table[i], w)
            BY <2>2, <3>1 DEF Impacted
        <3>4. i \notin Split
            BY <1>3, <2>2
        <3> QED
            BY <3>1, <3>2, <3>3, <3>4
    <2> QED
        BY <2>1, <2>2
\* The second halves.
<1>10. \A i \in Split :
          /\ i \in Confirmed
          /\ Within(table[childOf[i]], res[i])
          /\ table[childOf[i]].start = w.end
          /\ ~Overlap(table[childOf[i]], w)
    <2> SUFFICES ASSUME NEW i \in Split
                 PROVE  /\ i \in Confirmed
                        /\ Within(table[childOf[i]], res[i])
                        /\ table[childOf[i]].start = w.end
                        /\ ~Overlap(table[childOf[i]], w)
        OBVIOUS
    <2>1. /\ res[i] \in ResRow /\ res[i].start \in Int /\ res[i].end \in Int
          /\ res[i].start < w.start /\ w.end < res[i].end
          /\ i \in Confirmed
        BY <1>1, <1>3 DEF Impacted
    <2>2. table[childOf[i]] = [res[i] EXCEPT !.start = w.end]
        BY <1>8
    <2> QED
        BY <1>1, <2>1, <2>2 DEF Within, Overlap, ResRow
<1> DEFINE parent == [i \in ConfirmedIn(table) |->
                        IF i \in DOMAIN res THEN i ELSE parentOf(i)]
<1>11. \A i \in ConfirmedIn(table) :
          \/ i \in DOMAIN res /\ parent[i] = i
          \/ i \notin DOMAIN res /\ \E j \in Split : i = childOf[j] /\ parent[i] = j
    BY <1>3, <1>4, <1>8 DEF ConfirmedIn
<1>12. parent \in [ConfirmedIn(table) -> Confirmed]
    BY <1>9, <1>10, <1>11
<1> HIDE DEF parent
<1>13. \A i \in ConfirmedIn(table) : Within(table[i], res[parent[i]])
    BY <1>9, <1>10, <1>11
<1>14. ASSUME NEW i \in ConfirmedIn(table), NEW j \in ConfirmedIn(table),
              i # j, parent[i] = parent[j], Overlap(table[i], table[j])
       PROVE  FALSE
    <2>0. \A k \in ConfirmedIn(table) : table[k].start \in Int /\ table[k].end \in Int
        BY <1>2, RowFacts DEF ResTable, ConfirmedIn
    <2>1. CASE i \in DOMAIN res /\ j \in DOMAIN res
        BY <1>11, <1>14, <2>1
    <2>2. CASE i \in DOMAIN res /\ j \notin DOMAIN res
        <3>1. i \in Split /\ j = childOf[i]
            BY <1>11, <1>14, <2>2
        <3>2. table[i].end <= w.start /\ table[j].start = w.end
            BY <1>9, <1>10, <2>2, <3>1
        <3> QED
            BY <1>1, <1>14, <2>0, <3>2 DEF Overlap
    <2>3. CASE i \notin DOMAIN res /\ j \in DOMAIN res
        <3>1. j \in Split /\ i = childOf[j]
            BY <1>11, <1>14, <2>3
        <3>2. table[j].end <= w.start /\ table[i].start = w.end
            BY <1>9, <1>10, <2>3, <3>1
        <3> QED
            BY <1>1, <1>14, <2>0, <3>2 DEF Overlap
    <2>4. CASE i \notin DOMAIN res /\ j \notin DOMAIN res
        BY <1>11, <1>14, <2>4
    <2> QED
        BY <2>1, <2>2, <2>3, <2>4
<1>15. NoDoubleIn(table) /\ NotEmptyIn(table) /\ ClearIn(table, win)
    BY <1>2, <1>12, <1>13, <1>14, WithinKeeps
<1>16. \A i \in ConfirmedIn(table) : Concerns(t, table[i]) => ~Overlap(table[i], w)
    BY <1>9, <1>10, <1>11
<1> QED
    BY <1>15, <1>16 DEF table

\* Windows that are cut, and new ones that bookings have made way for.
LEMMA ClearOfNew ==
    ASSUME BookingsInv, NEW table, ResTable(table), ClearIn(table, win),
           NEW windows, WinTable(windows),
           \A v \in ActiveIn(windows) :
              \/ v \in ActiveWin /\ CutOf(windows[v], win[v])
              \/ \A i \in ConfirmedIn(table) :
                    Concerns(windows[v].target, table[i]) => ~Overlap(table[i], windows[v])
    PROVE  ClearIn(table, windows)
<1> SUFFICES ASSUME NEW i \in ConfirmedIn(table), NEW v \in ActiveIn(windows),
                    Concerns(windows[v].target, table[i]), Overlap(table[i], windows[v])
             PROVE  FALSE
    BY DEF ClearIn
<1>1. v \in ActiveWin /\ v \in ActiveIn(win) /\ CutOf(windows[v], win[v])
    BY DEF ActiveWin, ActiveIn
<1>2. table[i] \in ResRow /\ win[v] \in WinRow /\ windows[v] \in WinRow
    BY <1>1 DEF ResTable, ConfirmedIn, ActiveWin, WinTable, ActiveIn, BookingsInv, TypeOK
<1>3. Overlap(table[i], win[v])
    BY <1>1, <1>2, RowFacts DEF Overlap, CutOf
<1>4. Concerns(win[v].target, table[i])
    BY <1>1 DEF CutOf
<1> QED
    BY <1>1, <1>3, <1>4 DEF ClearIn

BookingParts == /\ NoDoubleIn(res) /\ NotEmptyIn(res)
                /\ \A w \in ActiveWin : win[w].start < win[w].end
                /\ ClearIn(res, win)

LEMMA CreatePlannedKeeps ==
    ASSUME BookingsInv, NEW t \in Targets, NEW start \in Minutes, NEW end \in Minutes,
           CreatePlanned(t, start, end)
    PROVE  BookingParts'
<1> DEFINE w == NewWindow(t, "PLANNED", Later(start, clock), end)
<1>1. w \in WinRow /\ w.target = t /\ w.start < w.end
    BY MinutesFacts, NewWindowType DEF BookingsInv, TypeOK, CreatePlanned, NewWindow
<1>2. ResTable(res') /\ WinTable(win')
    BY CreatePlannedType DEF BookingsInv
<1>3. PICK childOf \in Injections(SplitByWindow(t, w), FreeRes) : res' = Adjusted(t, w, childOf)
    BY DEF CreatePlanned
<1>4. PICK id \in FreeWin : win' = With(win, [v \in {id} |-> w])
    BY DEF CreatePlanned
<1> HIDE DEF w
<1>5. /\ NoDoubleIn(res') /\ NotEmptyIn(res') /\ ClearIn(res', win)
      /\ \A i \in ConfirmedIn(res') : Concerns(t, res'[i]) => ~Overlap(res'[i], w)
    BY <1>1, <1>3, AdjustedKeeps
<1>6. \A v \in ActiveIn(win') : win'[v] = w \/ (v \in ActiveWin /\ win'[v] = win[v])
    BY <1>4 DEF With, FreeWin, ActiveIn, ActiveWin
<1>7. \A v \in ActiveWin : CutOf(win[v], win[v])
    BY RowFacts DEF CutOf, ActiveWin, BookingsInv, TypeOK
<1>8. \A v \in ActiveIn(win') :
          \/ v \in ActiveWin /\ CutOf(win'[v], win[v])
          \/ \A i \in ConfirmedIn(res') :
                Concerns(win'[v].target, res'[i]) => ~Overlap(res'[i], win'[v])
    BY <1>1, <1>5, <1>6, <1>7
<1>9. ClearIn(res', win')
    BY <1>2, <1>5, <1>8, ClearOfNew
<1>10. \A v \in ActiveWin' : win'[v].start < win'[v].end
    BY <1>1, <1>6 DEF ActiveWin, ActiveIn, BookingsInv
<1> QED
    BY <1>5, <1>9, <1>10 DEF BookingParts

LEMMA DisableKeeps ==
    ASSUME BookingsInv, NEW t \in Targets, NEW late \in LateReads, Disable(t, late)
    PROVE  BookingParts'
<1> DEFINE w == NewWindow(t, "LONG_TERM", clock, DistantFuture)
           stopped == [v \in DOMAIN win |-> StoppedForDisable(t, win[v], clock)]
<1>1. /\ clock \in Minutes /\ clock < DistantFuture /\ clock \in Int
      /\ DistantFuture \in Int
      /\ \A v \in DOMAIN win : win[v] \in WinRow
    BY MinutesFacts DEF BookingsInv, TypeOK
<1>2. w \in WinRow /\ w.target = t /\ w.start < w.end /\ w.end = DistantFuture
    BY <1>1, NewWindowType DEF NewWindow
<1>3. ResTable(res') /\ WinTable(win')
    BY DisableType DEF BookingsInv
<1>4. PICK id \in FreeWin : win' = With(stopped, [v \in {id} |-> w])
    BY DEF Disable
<1>5. res' = Adjusted(t, w, NoRows)
    BY DEF Disable
<1>6. \A v \in DOMAIN win : stopped[v] = StoppedForDisable(t, win[v], clock)
    OBVIOUS
<1>7. DOMAIN stopped = DOMAIN win
    OBVIOUS
<1> HIDE DEF w, stopped
\* No booking outlasts a deactivation: none is split.
<1>8. NoRows \in Injections(SplitByWindow(t, w), FreeRes)
    <2>1. \A i \in SplitByWindow(t, w) :
              i \in DOMAIN res /\ res[i] \in ResRow /\ w.end < res[i].end
        BY DEF SplitByWindow, Impacted, Confirmed, BookingsInv, TypeOK
    <2>2. SplitByWindow(t, w) = {}
        BY <1>1, <1>2, <2>1, RowFacts, MinutesFacts
    <2> QED
        BY <2>2 DEF NoRows, Injections
<1>9. /\ NoDoubleIn(res') /\ NotEmptyIn(res') /\ ClearIn(res', win)
      /\ \A i \in ConfirmedIn(res') : Concerns(t, res'[i]) => ~Overlap(res'[i], w)
    BY <1>2, <1>5, <1>8, AdjustedKeeps
<1>10. \A v \in ActiveIn(win') :
          win'[v] = w \/ (v \in DOMAIN win /\ win'[v] = stopped[v])
    BY <1>4, <1>7 DEF With, ActiveIn
<1>11. \A v \in DOMAIN win : CutOf(stopped[v], win[v])
    BY <1>1, <1>6, StoppedCut
<1>12. \A v \in ActiveIn(win') :
          win'[v] = w \/ (v \in ActiveWin /\ CutOf(win'[v], win[v]))
    BY <1>10, <1>11 DEF ActiveIn, ActiveWin, CutOf
<1>13. \A v \in ActiveIn(win') :
          \/ v \in ActiveWin /\ CutOf(win'[v], win[v])
          \/ \A i \in ConfirmedIn(res') :
                Concerns(win'[v].target, res'[i]) => ~Overlap(res'[i], win'[v])
    BY <1>2, <1>9, <1>12
<1>14. ClearIn(res', win')
    BY <1>3, <1>9, <1>13, ClearOfNew
<1>15. \A v \in ActiveWin' : win'[v].start < win'[v].end
    <2> SUFFICES ASSUME NEW v \in ActiveIn(win'), win'[v] # w
                 PROVE  win'[v].start < win'[v].end
        BY <1>2 DEF ActiveWin, ActiveIn
    <2>1. /\ v \in ActiveWin /\ v \in DOMAIN win
          /\ win'[v] = StoppedForDisable(t, win[v], clock)
        BY <1>6, <1>10, <1>12 DEF ActiveWin
    <2>2. win[v].start < win[v].end /\ win[v] \in WinRow
        BY <1>1, <2>1 DEF BookingsInv
    <2>3. \/ win'[v] = win[v]
          \/ win'[v] = [win[v] EXCEPT !.end = clock] /\ win[v].start < clock
          \/ win'[v] = [win[v] EXCEPT !.status = "CANCELLED"]
        BY <2>1 DEF StoppedForDisable
    <2> QED
        BY <2>2, <2>3 DEF WinRow
<1> QED
    BY <1>9, <1>14, <1>15 DEF BookingParts

\* Steps that leave the bookings alone and only cut or cancel windows.
LEMMA WindowsCutKeeps ==
    ASSUME BookingsInv, TypeOK', res' = res,
           \A v \in ActiveWin' :
              /\ v \in ActiveWin /\ CutOf(win'[v], win[v])
              /\ win'[v].start < win'[v].end
    PROVE  BookingParts'
<1>1. ResTable(res) /\ WinTable(win')
    BY DEF BookingsInv, TypeOK, ResTable, WinTable
<1>2. \A v \in ActiveIn(win') : v \in ActiveWin /\ CutOf(win'[v], win[v])
    BY DEF ActiveIn, ActiveWin
<1>3. ClearIn(res, win')
    BY <1>1, <1>2, ClearOfNew DEF BookingsInv
<1> QED
    BY <1>3 DEF BookingParts, BookingsInv

LEMMA EnableKeeps ==
    ASSUME BookingsInv, TypeOK', NEW t \in Targets, Enable(t)
    PROVE  BookingParts'
<1>1. /\ res' = res
      /\ win' = [w \in DOMAIN win |-> ClosedByEnable(t, w)]
      /\ \A w \in OpenLongTerm(t) : win[w].start >= clock \/ win[w].end > clock
      /\ clock \in Int
      /\ \A w \in DOMAIN win : win[w] \in WinRow
    BY MinutesFacts DEF Enable, EnableAccepted, BookingsInv, TypeOK
<1>2. ASSUME NEW v \in ActiveWin'
      PROVE  /\ v \in ActiveWin /\ CutOf(win'[v], win[v])
             /\ win'[v].start < win'[v].end
    <2>1. v \in DOMAIN win /\ win'[v] = ClosedByEnable(t, v) /\ win'[v].status = "ACTIVE"
        BY <1>1 DEF ActiveWin
    <2>2. win[v] \in WinRow /\ win[v].start \in Int /\ win[v].end \in Int
        BY <1>1, <2>1, RowFacts
    <2>3. CASE v \notin OpenLongTerm(t)
        <3>1. win'[v] = win[v] /\ v \in ActiveWin
            BY <2>1, <2>3 DEF ClosedByEnable, ActiveWin
        <3> QED
            BY <2>2, <3>1 DEF CutOf, BookingsInv
    <2>4. CASE v \in OpenLongTerm(t)
        <3>1. v \in ActiveWin
            BY <2>4 DEF OpenLongTerm
        <3>2. win'[v] = [win[v] EXCEPT !.end = clock] /\ ~(win[v].start >= clock)
            BY <2>1, <2>2, <2>4 DEF ClosedByEnable, WinRow
        <3>3. win[v].end > clock
            BY <1>1, <2>4, <3>2
        <3> QED
            BY <1>1, <2>2, <3>1, <3>2, <3>3 DEF CutOf, WinRow, ActiveWin
    <2> QED
        BY <2>3, <2>4
<1> QED
    BY <1>1, <1>2, WindowsCutKeeps

LEMMA OtherWindowsKeep ==
    ASSUME BookingsInv, TypeOK',
           \/ \E v \in ActiveWin : CancelPlanned(v)
           \/ \E g \in Groups : DeleteGroup(g)
           \/ \E m \in Machines : DeleteMachine(m)
    PROVE  BookingParts'
<1>1. \A w \in DOMAIN win : win[w] \in WinRow
    BY DEF BookingsInv, TypeOK
<1>2. /\ res' = res
      /\ \A v \in DOMAIN win' :
            /\ v \in DOMAIN win
            /\ win'[v] = win[v] \/ win'[v] = [win[v] EXCEPT !.status = "CANCELLED"]
    <2>1. CASE \E v \in ActiveWin : CancelPlanned(v)
        BY <2>1 DEF CancelPlanned
    <2>2. CASE \E g \in Groups : DeleteGroup(g)
        BY <2>2 DEF DeleteGroup
    <2>3. CASE \E m \in Machines : DeleteMachine(m)
        BY <2>3 DEF DeleteMachine
    <2> QED
        BY <2>1, <2>2, <2>3
<1>3. \A v \in ActiveWin' : v \in ActiveWin /\ win'[v] = win[v]
    BY <1>1, <1>2 DEF ActiveWin, WinRow
<1>4. \A v \in ActiveWin : CutOf(win[v], win[v]) /\ win[v].start < win[v].end
    BY <1>1, RowFacts DEF CutOf, ActiveWin, BookingsInv
<1> QED
    BY <1>2, <1>3, <1>4, WindowsCutKeeps

-----------------------------------------------------------------------------
(* The theorems *)

LEMMA BookingsInit == Init => BookingsInv
<1> SUFFICES ASSUME Init PROVE BookingsInv
    OBVIOUS
<1>1. ConfirmedIn(res) = {} /\ ActiveWin = {}
    BY DEF Init, NoRows, ConfirmedIn, ActiveWin
<1> QED
    BY <1>1, InitType DEF BookingsInv, NoDoubleIn, NotEmptyIn, ClearIn

LEMMA BookingsNext ==
    ASSUME MaxSkew = 0
    PROVE  BookingsInv /\ [Next]_vars => BookingsInv'
<1> SUFFICES ASSUME BookingsInv, [Next]_vars PROVE BookingParts'
    BY NextType DEF BookingsInv, BookingParts
<1>1. TypeOK /\ TypeOK'
    BY NextType DEF BookingsInv
<1>2. \A late \in LateReads : late = clock
    BY <1>1, NoSkew
<1>3. ASSUME win' = win, NoDoubleIn(res') /\ NotEmptyIn(res') /\ ClearIn(res', win)
      PROVE  BookingParts'
    BY <1>3 DEF BookingParts, BookingsInv, ActiveWin
<1>4. ASSUME win' = win, res' = res
      PROVE  BookingParts'
    BY <1>4 DEF BookingParts, BookingsInv, ActiveWin
<1>5. CASE Tick
    BY <1>4, <1>5 DEF Tick
<1>6. CASE BookingStep
    <2>0. win' = win
        BY <1>6, BookingFrame
    <2>1. PICK u \in Users, late \in LateReads :
              \/ \E req \in Requests, adjust \in BOOLEAN :
                    \/ CommitBatch(u, req, adjust, late)
                    \/ \E originals \in (SUBSET Confirmed) \ {{}} :
                          ReplaceMany(u, originals, req, adjust, late)
              \/ \E i \in Confirmed :
                    \/ \E req \in Requests : ReplaceBatch(u, i, req, late)
                    \/ \E start, end \in Minutes, validated \in LateReads :
                          validated <= late
                          /\ UpdateBooking(u, i, start, end, validated, late)
        BY <1>6 DEF BookingStep
    <2>2. CASE \E req \in Requests, adjust \in BOOLEAN : CommitBatch(u, req, adjust, late)
        BY <1>3, <2>0, <2>2, CommitKeeps
    <2>3. CASE \E req \in Requests, adjust \in BOOLEAN :
                  \E originals \in (SUBSET Confirmed) \ {{}} :
                     ReplaceMany(u, originals, req, adjust, late)
        BY <1>3, <2>0, <2>3, ReplaceManyKeeps
    <2>4. CASE \E i \in Confirmed, req \in Requests : ReplaceBatch(u, i, req, late)
        BY <1>2, <1>3, <2>0, <2>4, ReplaceKeeps
    <2>5. CASE \E i \in Confirmed : \E start, end \in Minutes, validated \in LateReads :
                  UpdateBooking(u, i, start, end, validated, late)
        BY <1>2, <1>3, <2>0, <2>5, UpdateKeeps
    <2> QED
        BY <2>1, <2>2, <2>3, <2>4, <2>5
<1>7. CASE ReleaseStep
    <2>1. PICK i \in Confirmed : CancelBooking(i) \/ EndEarly(i)
        BY <1>7 DEF ReleaseStep
    <2>2. win' = win
        BY <2>1 DEF CancelBooking, EndEarly
    <2> QED
        BY <1>3, <2>1, <2>2, ReleaseKeeps
<1>8. CASE AvailabilityStep
    BY <1>1, <1>8, CreatePlannedKeeps, DisableKeeps, EnableKeeps, OtherWindowsKeep
       DEF AvailabilityStep
<1>9. CASE DeletionStep
    BY <1>1, <1>9, OtherWindowsKeep DEF DeletionStep
<1>10. CASE MembershipStep
    <2>1. PICK u \in Users, m \in Machines :
              \/ \E expiry \in Expiries : GrantAccess(u, m, expiry) \/ SetExpiry(u, m, expiry)
              \/ \E late \in LateReads : RemoveMember(u, m, late)
        BY <1>10 DEF MembershipStep
    <2>2. CASE \E expiry \in Expiries : GrantAccess(u, m, expiry)
        BY <1>4, <2>2 DEF GrantAccess
    <2>3. CASE \E expiry \in Expiries : SetExpiry(u, m, expiry)
        <3>1. win' = win
            BY <2>3 DEF SetExpiry
        <3> QED
            BY <1>3, <2>3, <3>1, SetExpiryKeeps
    <2>4. CASE \E late \in LateReads : RemoveMember(u, m, late)
        <3>1. win' = win /\ res' = Released(BookingsOn(u, m), clock)
            BY <1>2, <2>4 DEF RemoveMember
        <3> QED
            BY <1>3, <3>1, ReleasedKeeps
    <2> QED
        BY <2>1, <2>2, <2>3, <2>4
<1>11. CASE AccountStep
    <2>1. CASE \E u \in Users, late \in LateReads : DisableUser(u, late)
        <3>1. PICK u \in Users, late \in LateReads : DisableUser(u, late)
            BY <2>1
        <3>2. win' = win /\ res' = Released({i \in Confirmed : res[i].user = u}, clock)
            BY <1>2, <3>1 DEF DisableUser
        <3> QED
            BY <1>3, <3>2, ReleasedKeeps
    <2>2. CASE \E u \in Users : EnableUser(u) \/ DeleteUser(u)
        BY <1>4, <2>2 DEF EnableUser, DeleteUser
    <2> QED
        BY <1>11, <2>1, <2>2 DEF AccountStep
<1>12. CASE UNCHANGED vars
    BY <1>4, <1>12 DEF vars
<1> QED
    BY <1>5, <1>6, <1>7, <1>8, <1>9, <1>10, <1>11, <1>12 DEF Next

\* Whatever the handlers of scheduling.ts, unavailability.ts and machine-access.ts do, in
\* any order: bookings are disjoint, never empty, and clear of non-empty windows.
THEOREM BookingsInvariant ==
    ASSUME MaxSkew = 0
    PROVE  Spec => []BookingsInv
<1>1. BookingsInv /\ [Next]_vars => BookingsInv'
    BY BookingsNext
<1> QED
    BY <1>1, BookingsInit, PTL DEF Spec

\* With any number of users, machines, segments and minutes, no sequence of handlers
\* leaves two confirmed bookings that need the same hardware at the same time.
THEOREM NoDoubleBookings ==
    ASSUME MaxSkew = 0
    PROVE  Spec => []NoDoubleBooking
<1>1. BookingsInv => NoDoubleBooking
    BY DEF BookingsInv, NoDoubleIn, NoDoubleBooking, ConfirmedIn, Confirmed
<1> QED
    BY <1>1, BookingsInvariant, PTL

\* Nor a confirmed booking inside a maintenance or deactivation window that concerns it.
THEOREM BookingsStayClear ==
    ASSUME MaxSkew = 0
    PROVE  Spec => []BookingsClearOfWindows
<1>1. BookingsInv => BookingsClearOfWindows
    BY DEF BookingsInv, ClearIn, BookingsClearOfWindows, ConfirmedIn, Confirmed,
           ActiveIn, ActiveWin
<1> QED
    BY <1>1, BookingsInvariant, PTL

-----------------------------------------------------------------------------
(* What a handler leaves of the bookings *)

SameHolder(new, old) == new.user = old.user /\ new.group = old.group /\ new.scope = old.scope

Inside(new, old) == SameHolder(new, old) /\ old.start <= new.start /\ new.end <= old.end

\* Minute t is one of the row's.
Spans(row, t) == row.start <= t /\ t < row.end

SamePast(new, old) ==
    SameHolder(new, old) /\ \A t \in Minutes : t < clock => (Spans(new, t) <=> Spans(old, t))

\* Rows that begin before now keep the minutes that have elapsed.
PastKept(table) ==
    /\ \A i \in Confirmed :
          \/ i \in ConfirmedIn(table) /\ SamePast(table[i], res[i])
          \/ res[i].start >= clock
    /\ \A i \in ConfirmedIn(table) :
          \/ i \in Confirmed /\ SamePast(table[i], res[i])
          \/ table[i].start >= clock

\* Nothing is held that was not held before.
Lessened(table) ==
    \A i \in ConfirmedIn(table) : \E j \in Confirmed : Inside(table[i], res[j])

LEMMA TableFacts ==
    ASSUME TypeOK
    PROVE  /\ clock \in Minutes /\ clock \in Int
           /\ \A i \in DOMAIN res : /\ res[i] \in ResRow
                                    /\ res[i].start \in Int /\ res[i].end \in Int
           /\ \A t \in Minutes : t \in Int
           /\ \A i \in Confirmed : i \in DOMAIN res /\ res[i].status = "CONFIRMED"
           /\ Confirmed = ConfirmedIn(res)
           /\ ResTable(res) /\ WinTable(win)
BY MinutesFacts, RowFacts DEF TypeOK, Confirmed, ConfirmedIn, ResTable, WinTable

LEMMA SameInside ==
    ASSUME TypeOK, NEW i \in DOMAIN res
    PROVE  Inside(res[i], res[i]) /\ SamePast(res[i], res[i])
BY TableFacts DEF Inside, SamePast, SameHolder

\* A row that ends now instead of later
LEMMA EndedNow ==
    ASSUME TypeOK, NEW i \in DOMAIN res, clock < res[i].end
    PROVE  LET new == [res[i] EXCEPT !.end = clock] IN
           /\ Inside(new, res[i]) /\ SamePast(new, res[i])
           /\ new.status = res[i].status /\ new.end = clock
<1> DEFINE new == [res[i] EXCEPT !.end = clock]
<1>1. /\ SameHolder(new, res[i]) /\ new.start = res[i].start /\ new.end = clock
      /\ new.status = res[i].status
    BY TableFacts DEF SameHolder, ResRow
<1> HIDE DEF new
<1>2. Inside(new, res[i]) /\ SamePast(new, res[i])
    BY <1>1, TableFacts DEF Inside, SamePast, Spans
<1> QED
    BY <1>1, <1>2 DEF new

\* A row that is left out, or cut, where it has not begun
LEMMA CutLater ==
    ASSUME TypeOK, NEW table, DOMAIN table \subseteq DOMAIN res,
           \A i \in DOMAIN res \ DOMAIN table : i \in Confirmed => res[i].start >= clock,
           \A i \in DOMAIN table :
              \/ table[i] = res[i]
              \/ res[i].start >= clock /\ table[i].status # "CONFIRMED"
              \/ table[i].status = res[i].status /\ SamePast(table[i], res[i])
    PROVE  PastKept(table)
<1>1. \A i \in ConfirmedIn(table) : i \in Confirmed /\ SamePast(table[i], res[i])
    BY SameInside DEF ConfirmedIn, Confirmed
<1>2. ASSUME NEW i \in Confirmed, i \notin ConfirmedIn(table)
      PROVE  res[i].start >= clock
    BY <1>2, TableFacts DEF ConfirmedIn, Confirmed
<1> QED
    BY <1>1, <1>2 DEF PastKept

LEMMA OnlyCut ==
    ASSUME TypeOK, NEW table, DOMAIN table \subseteq DOMAIN res,
           \A i \in DOMAIN table :
              \/ table[i] = res[i]
              \/ table[i].status # "CONFIRMED"
              \/ table[i].status = res[i].status /\ Inside(table[i], res[i])
    PROVE  Lessened(table)
BY SameInside DEF Lessened, ConfirmedIn, Confirmed

-----------------------------------------------------------------------------
(* Handlers that release *)

LEMMA ReleasePast ==
    ASSUME TypeOK, NEW i \in Confirmed, CancelBooking(i) \/ EndEarly(i)
    PROVE  PastKept(res') /\ Lessened(res')
<1>1. i \in DOMAIN res /\ res[i] \in ResRow /\ res[i].start \in Int /\ res[i].end \in Int
      /\ clock \in Int
    BY TableFacts
<1>2. CASE CancelBooking(i)
    <2>1. /\ res' = [res EXCEPT ![i].status = "CANCELLED"] /\ res[i].start > clock
        BY <1>2 DEF CancelBooking
    <2>2. /\ DOMAIN res' = DOMAIN res /\ res'[i].status # "CONFIRMED"
          /\ \A j \in DOMAIN res : j # i => res'[j] = res[j]
          /\ res[i].start >= clock
        BY <1>1, <2>1 DEF ResRow
    <2> QED
        BY <2>2, CutLater, OnlyCut
<1>3. CASE EndEarly(i) /\ res[i].start = clock
    <2>1. res' = [j \in DOMAIN res \ {i} |-> res[j]]
        BY <1>3 DEF EndEarly
    <2>2. /\ DOMAIN res' = DOMAIN res \ {i} /\ \A j \in DOMAIN res' : res'[j] = res[j]
          /\ res[i].start >= clock
        BY <1>1, <1>3, <2>1
    <2>3. /\ DOMAIN res' \subseteq DOMAIN res
          /\ \A j \in DOMAIN res \ DOMAIN res' : res[j].start >= clock
        BY <2>2
    <2> QED
        BY <2>2, <2>3, CutLater, OnlyCut
<1>4. CASE EndEarly(i) /\ res[i].start # clock
    <2> DEFINE new == [res[i] EXCEPT !.end = clock]
    <2>1. res' = [res EXCEPT ![i] = new] /\ clock < res[i].end
        BY <1>4 DEF EndEarly
    <2>2. Inside(new, res[i]) /\ SamePast(new, res[i]) /\ new.status = res[i].status
        BY <1>1, <2>1, EndedNow
    <2> HIDE DEF new
    <2>3. /\ DOMAIN res' = DOMAIN res /\ res'[i] = new
          /\ \A j \in DOMAIN res : j # i => res'[j] = res[j]
        BY <1>1, <2>1
    <2> QED
        BY <2>2, <2>3, CutLater, OnlyCut
<1> QED
    BY <1>2, <1>3, <1>4

LEMMA SetExpiryPast ==
    ASSUME TypeOK, NEW u \in Users, NEW m \in Machines, NEW expiry \in Expiries,
           SetExpiry(u, m, expiry)
    PROVE  PastKept(res') /\ Lessened(res')
<1>1. expiry \in Int /\ clock < expiry /\ clock \in Int
    BY TableFacts, MinutesFacts DEF Expiries, DistantFuture, Minutes
<1>2. DOMAIN res' = DOMAIN res
      /\ \A j \in DOMAIN res : res'[j] \in {res[j], TrimToExpiry(res[j], expiry)}
    BY DEF SetExpiry
<1>3. ASSUME NEW j \in DOMAIN res, res'[j] = TrimToExpiry(res[j], expiry)
      PROVE  \/ res'[j] = res[j]
             \/ res[j].start >= clock /\ res'[j].status # "CONFIRMED"
             \/ /\ res'[j].status = res[j].status
                /\ Inside(res'[j], res[j])
                /\ SamePast(res'[j], res[j])
    <2>1. res[j] \in ResRow /\ res[j].start \in Int /\ res[j].end \in Int
        BY TableFacts
    <2>2. CASE res[j].end <= expiry
        BY <1>3, <2>2 DEF TrimToExpiry
    <2>3. CASE ~(res[j].end <= expiry) /\ res[j].start >= expiry
        <3>1. res'[j] = [res[j] EXCEPT !.status = "CANCELLED"]
            BY <1>3, <2>3 DEF TrimToExpiry
        <3> QED
            BY <1>1, <2>1, <2>3, <3>1 DEF ResRow
    <2>4. CASE ~(res[j].end <= expiry) /\ ~(res[j].start >= expiry)
        <3>1. res'[j] = [res[j] EXCEPT !.end = expiry]
            BY <1>3, <2>4 DEF TrimToExpiry
        <3>2. /\ SameHolder(res'[j], res[j]) /\ res'[j].start = res[j].start
              /\ res'[j].end = expiry /\ res'[j].status = res[j].status
            BY <2>1, <3>1 DEF ResRow, SameHolder
        <3> QED
            BY <1>1, <2>1, <2>4, <3>2, TableFacts DEF Inside, SamePast, Spans
    <2> QED
        BY <2>2, <2>3, <2>4
<1> QED
    BY <1>2, <1>3, CutLater, OnlyCut

\* releaseMachineResources: the minute that ends is the one it reads last.
LEMMA ReleasedPast ==
    ASSUME TypeOK, NEW mine, NEW late \in LateReads, res' = Released(mine, late)
    PROVE  PastKept(res') /\ (late = clock => Lessened(res'))
<1>1. late \in Int /\ clock <= late /\ clock \in Int
    BY MinutesFacts, TableFacts DEF LateReads
<1> DEFINE gone == {i \in mine : late <= res[i].start /\ res[i].start <= clock
                                                     /\ res[i].end > clock}
<1>2. DOMAIN res' = DOMAIN res \ gone
    BY DEF Released
<1>3. \A j \in DOMAIN res' :
         \/ res'[j] = res[j]
         \/ res'[j] = [res[j] EXCEPT !.status = "CANCELLED"] /\ res[j].start > clock
         \/ /\ res'[j] = [res[j] EXCEPT !.end = late]
            /\ res[j].start < late /\ res[j].end > clock
            /\ ~(res[j].start > clock)
    BY DEF Released
<1>4. \A j \in gone : res[j].start >= clock \/ j \notin DOMAIN res
    BY <1>1, TableFacts
<1> HIDE DEF gone
<1>5. ASSUME NEW j \in DOMAIN res'
      PROVE  \/ res'[j] = res[j]
             \/ res[j].start >= clock /\ res'[j].status # "CONFIRMED"
             \/ /\ res'[j].status = res[j].status
                /\ SamePast(res'[j], res[j])
                /\ late = clock => Inside(res'[j], res[j])
    <2>1. j \in DOMAIN res /\ res[j] \in ResRow /\ res[j].start \in Int /\ res[j].end \in Int
        BY <1>2, TableFacts
    <2>2. CASE res'[j] = [res[j] EXCEPT !.status = "CANCELLED"] /\ res[j].start > clock
        BY <1>1, <2>1, <2>2 DEF ResRow
    <2>3. CASE /\ res'[j] = [res[j] EXCEPT !.end = late]
               /\ res[j].start < late /\ res[j].end > clock
        <3>1. /\ SameHolder(res'[j], res[j]) /\ res'[j].start = res[j].start
              /\ res'[j].end = late /\ res'[j].status = res[j].status
            BY <2>1, <2>3 DEF ResRow, SameHolder
        <3> QED
            BY <1>1, <2>1, <2>3, <3>1, TableFacts DEF Inside, SamePast, Spans
    <2> QED
        BY <1>3, <2>2, <2>3
<1>6. PastKept(res')
    BY <1>2, <1>4, <1>5, CutLater, TableFacts
<1>7. late = clock => Lessened(res')
    BY <1>2, <1>5, OnlyCut
<1> QED
    BY <1>6, <1>7

-----------------------------------------------------------------------------
(* Handlers that book *)

LEMMA CutShortPast ==
    ASSUME TypeOK, NEW i \in Confirmed, clock < res[i].end
    PROVE  LET new == CutShort(res[i], clock) IN
           \/ res[i].start >= clock /\ new.status # "CONFIRMED"
           \/ /\ new.status = res[i].status /\ new.end = clock
              /\ Inside(new, res[i]) /\ SamePast(new, res[i])
<1>1. i \in DOMAIN res /\ res[i] \in ResRow /\ res[i].start \in Int /\ clock \in Int
    BY TableFacts
<1>2. CASE res[i].start < clock
    BY <1>1, <1>2, EndedNow DEF CutShort
<1>3. CASE ~(res[i].start < clock)
    BY <1>1, <1>3 DEF CutShort, ResRow
<1> QED
    BY <1>2, <1>3

\* Every segment that is booked begins now or later, inside one that was asked for.
LEMMA PiecesLater ==
    ASSUME clock \in Minutes, NEW req \in Requests, NEW excluded, NEW adjust \in BOOLEAN,
           NEW x \in Pieces(req, excluded, adjust)
    PROVE  /\ x \in Segment /\ x.start >= clock
           /\ \E s \in Exact(req) : /\ x.group = s.group /\ x.end <= s.end
                                    /\ adjust => TargetUsable(s)
                                    /\ ~adjust => x = s
<1>1. Exact(req) \subseteq Segment /\ \A s \in Exact(req) : clock <= s.start
    BY ExactFacts
<1>2. clock \in Int
    BY MinutesFacts
<1>3. CASE adjust
    <2>1. PICK s \in Exact(req) : TargetUsable(s) /\ x \in FreePieces(s, excluded)
        BY <1>3 DEF Pieces
    <2>2. /\ x \in Segment /\ x.group = s.group
          /\ s.start <= x.start /\ x.end <= s.end
        BY <1>1, <2>1, FreePiecesType
    <2>3. s.start \in Int /\ x.start \in Int
        BY <1>1, <2>2, RowFacts
    <2> QED
        BY <1>1, <1>2, <1>3, <2>1, <2>2, <2>3
<1>4. CASE ~adjust
    <2>1. x \in Exact(req)
        BY <1>4 DEF Pieces
    <2>2. x \in Segment /\ x.start \in Int /\ x.end \in Int
        BY <1>1, <2>1, RowFacts
    <2> QED
        BY <1>1, <1>2, <1>4, <2>1, <2>2
<1> QED
    BY <1>3, <1>4

\* Rows that are inserted, besides those that stay
LEMMA InsertRows ==
    ASSUME NEW u \in Users, NEW segs, segs \subseteq Segment,
           NEW idOf \in Injections(segs, FreeRes),
           NEW table, DOMAIN table \subseteq DOMAIN res
    PROVE  LET all == With(table, NewBookings(u, segs, idOf)) IN
           /\ \A i \in ConfirmedIn(table) : i \in ConfirmedIn(all) /\ all[i] = table[i]
           /\ \A i \in ConfirmedIn(all) :
                 \/ i \in ConfirmedIn(table) /\ all[i] = table[i]
                 \/ \E s \in segs : all[i] = Booking(u, s)
           /\ \A s \in segs : \E i \in ConfirmedIn(all) : all[i] = Booking(u, s)
<1> DEFINE new == NewBookings(u, segs, idOf)
           all == With(table, new)
<1>1. /\ DOMAIN new = {idOf[s] : s \in segs}
      /\ DOMAIN new \subseteq FreeRes /\ \A s \in segs : new[idOf[s]] = Booking(u, s)
    <2>1. DOMAIN new = {idOf[s] : s \in segs}
        BY DEF NewBookings
    <2>2. DOMAIN new \subseteq FreeRes /\ \A s \in segs : new[idOf[s]] = Booking(u, s)
        BY NewBookingsFacts
    <2> QED
        BY <2>1, <2>2
<1>2. \A s \in segs : Booking(u, s).status = "CONFIRMED"
    BY DEF Booking
<1> HIDE DEF new
<1>3. /\ DOMAIN all = DOMAIN table \cup DOMAIN new
      /\ \A i \in DOMAIN new : all[i] = new[i]
      /\ \A i \in DOMAIN table : i \notin DOMAIN new /\ all[i] = table[i]
    BY <1>1 DEF With, FreeRes
<1> HIDE DEF all
<1>4. \A i \in ConfirmedIn(table) : i \in ConfirmedIn(all) /\ all[i] = table[i]
    BY <1>3 DEF ConfirmedIn
<1>5. \A i \in ConfirmedIn(all) :
         \/ i \in ConfirmedIn(table) /\ all[i] = table[i]
         \/ \E s \in segs : all[i] = Booking(u, s)
    BY <1>1, <1>3 DEF ConfirmedIn
<1>6. \A s \in segs : \E i \in ConfirmedIn(all) : all[i] = Booking(u, s)
    <2> TAKE s \in segs
    <2>1. idOf[s] \in DOMAIN new
        BY <1>1
    <2>2. idOf[s] \in ConfirmedIn(all) /\ all[idOf[s]] = Booking(u, s)
        BY <1>1, <1>2, <1>3, <2>1 DEF ConfirmedIn
    <2> QED
        BY <2>2
<1> QED
    BY <1>4, <1>5, <1>6 DEF all, new

LEMMA InsertPast ==
    ASSUME TypeOK, NEW u \in Users, NEW segs, segs \subseteq Segment,
           \A s \in segs : s.start >= clock,
           NEW idOf \in Injections(segs, FreeRes),
           NEW table, DOMAIN table \subseteq DOMAIN res, PastKept(table)
    PROVE  PastKept(With(table, NewBookings(u, segs, idOf)))
<1> DEFINE all == With(table, NewBookings(u, segs, idOf))
<1>1. /\ \A i \in ConfirmedIn(table) : i \in ConfirmedIn(all) /\ all[i] = table[i]
      /\ \A i \in ConfirmedIn(all) :
            \/ i \in ConfirmedIn(table) /\ all[i] = table[i]
            \/ \E s \in segs : all[i] = Booking(u, s)
    BY InsertRows
<1>2. \A s \in segs : Booking(u, s).start >= clock
    BY DEF Booking
<1> HIDE DEF all
<1>3. PastKept(all)
    BY <1>1, <1>2 DEF PastKept
<1> QED
    BY <1>3 DEF all

LEMMA SamePastKept ==
    ASSUME TypeOK
    PROVE  PastKept(res) /\ Lessened(res)
BY SameInside, TableFacts DEF PastKept, Lessened

LEMMA CommitPast ==
    ASSUME TypeOK, NEW u \in Users, NEW req \in Requests, NEW adjust \in BOOLEAN,
           NEW late, CommitBatch(u, req, adjust, late)
    PROVE  PastKept(res')
<1> DEFINE segs == Pieces(req, {}, adjust)
<1>1. PICK idOf \in Injections(segs, FreeRes) : res' = With(res, NewBookings(u, segs, idOf))
    BY DEF CommitBatch
<1>2. segs \subseteq Segment /\ \A s \in segs : s.start >= clock
    BY PiecesLater, TableFacts
<1> HIDE DEF segs
<1> QED
    BY <1>1, <1>2, InsertPast, SamePastKept

\* What a replacement leaves of the originals
LEMMA OriginalsCut ==
    ASSUME TypeOK, NEW originals \in SUBSET Confirmed,
           \A i \in originals : clock < res[i].end,
           NEW table, DOMAIN table = DOMAIN res,
           \A i \in DOMAIN res :
              table[i] = IF i \in originals THEN CutShort(res[i], clock) ELSE res[i]
    PROVE  /\ PastKept(table) /\ Lessened(table)
           /\ \A i \in ConfirmedIn(table) :
                 \/ i \in Confirmed \ originals /\ table[i] = res[i]
                 \/ i \in originals /\ table[i].end = clock
<1>1. \A i \in originals :
         \/ res[i].start >= clock /\ table[i].status # "CONFIRMED"
         \/ /\ table[i].status = res[i].status /\ table[i].end = clock
            /\ Inside(table[i], res[i]) /\ SamePast(table[i], res[i])
    <2> TAKE i \in originals
    <2>1. i \in Confirmed /\ i \in DOMAIN res /\ clock < res[i].end
        BY TableFacts
    <2>2. table[i] = CutShort(res[i], clock)
        BY <2>1
    <2> QED
        BY <2>1, <2>2, CutShortPast
<1>2. PastKept(table) /\ Lessened(table)
    BY <1>1, CutLater, OnlyCut
<1>3. \A i \in ConfirmedIn(table) :
         \/ i \in Confirmed \ originals /\ table[i] = res[i]
         \/ i \in originals /\ table[i].end = clock
    BY <1>1 DEF ConfirmedIn, Confirmed
<1> QED
    BY <1>2, <1>3

LEMMA ReplaceManyPast ==
    ASSUME TypeOK, NEW u \in Users, NEW originals \in SUBSET Confirmed,
           NEW req \in Requests, NEW adjust \in BOOLEAN,
           NEW late, ReplaceMany(u, originals, req, adjust, late)
    PROVE  PastKept(res')
<1> DEFINE table == [i \in DOMAIN res |-> IF i \in originals
                                          THEN CutShort(res[i], clock)
                                          ELSE res[i]]
           segs == Pieces(req, originals, adjust)
<1>1. PICK idOf \in Injections(segs, FreeRes) :
          res' = With(table, NewBookings(u, segs, idOf))
    BY DEF ReplaceMany
<1>2. segs \subseteq Segment /\ \A s \in segs : s.start >= clock
    BY PiecesLater, TableFacts
<1>3. \A i \in originals : clock < res[i].end
    BY TableFacts DEF ReplaceMany
<1>4. DOMAIN table = DOMAIN res
      /\ \A i \in DOMAIN res :
            table[i] = IF i \in originals THEN CutShort(res[i], clock) ELSE res[i]
    OBVIOUS
<1> HIDE DEF table, segs
<1>5. PastKept(table)
    BY <1>3, <1>4, OriginalsCut
<1> QED
    BY <1>1, <1>2, <1>4, <1>5, InsertPast

\* replaceReservationBatch leaves an original alone that ended before its second clock read.
LEMMA ReplacePast ==
    ASSUME TypeOK, NEW u \in Users, NEW i \in Confirmed, NEW req \in Requests,
           NEW late \in LateReads, ReplaceBatch(u, i, req, late)
    PROVE  PastKept(res')
<1> DEFINE rest == IF res[i].end <= late THEN res[i] ELSE CutShort(res[i], clock)
           table == [res EXCEPT ![i] = rest]
           segs == Exact(req)
<1>1. PICK idOf \in Injections(segs, FreeRes) :
          res' = With(table, NewBookings(u, segs, idOf))
    BY DEF ReplaceBatch
<1>2. segs \subseteq Segment /\ \A s \in segs : s.start >= clock
    <2>1. segs = Pieces(req, {}, FALSE)
        BY DEF Pieces
    <2> HIDE DEF segs
    <2> QED
        BY <2>1, PiecesLater, TableFacts
<1>3. i \in DOMAIN res /\ res[i].end \in Int /\ clock \in Int /\ late \in Int /\ clock <= late
    BY TableFacts, MinutesFacts DEF LateReads
<1>4. DOMAIN table = DOMAIN res
      /\ \A j \in DOMAIN res : table[j] = IF j = i THEN rest ELSE res[j]
    BY <1>3
<1>5. CASE res[i].end <= late
    <2>1. \A j \in DOMAIN res : table[j] = res[j]
        BY <1>4, <1>5
    <2> HIDE DEF table, segs
    <2>2. PastKept(table)
        BY <1>4, <2>1, CutLater
    <2> QED
        BY <1>1, <1>2, <1>4, <2>2, InsertPast
<1>6. CASE ~(res[i].end <= late)
    <2>1. clock < res[i].end
        BY <1>3, <1>6
    <2>2. \A j \in DOMAIN res :
             table[j] = IF j \in {i} THEN CutShort(res[j], clock) ELSE res[j]
        BY <1>4, <1>6
    <2> HIDE DEF table, segs
    <2>3. PastKept(table)
        BY <1>4, <2>1, <2>2, OriginalsCut
    <2> QED
        BY <1>1, <1>2, <1>4, <2>3, InsertPast
<1> QED
    BY <1>5, <1>6

LEMMA UpdatePast ==
    ASSUME TypeOK, NEW u \in Users, NEW i \in Confirmed,
           NEW start \in Minutes, NEW end \in Minutes,
           NEW validated \in LateReads, NEW previewed \in LateReads,
           UpdateBooking(u, i, start, end, validated, previewed)
    PROVE  PastKept(res')
<1>1. /\ i \in DOMAIN res /\ res[i] \in ResRow /\ res[i].start \in Int /\ res[i].end \in Int
      /\ clock \in Int /\ start \in Int /\ validated \in Int /\ clock <= validated
    BY TableFacts, MinutesFacts DEF LateReads
<1> DEFINE begun == [res[i] EXCEPT !.start = start]
           new == [begun EXCEPT !.end = end]
<1>2. begun \in ResRow /\ SameHolder(begun, res[i]) /\ begun.start = start
      /\ begun.status = res[i].status /\ begun.end = res[i].end
    BY <1>1 DEF ResRow, SameHolder
<1>3. res' = [res EXCEPT ![i] = new]
    BY Zenon DEF UpdateBooking
<1> HIDE DEF begun
<1>4. SameHolder(new, res[i]) /\ new.start = start /\ new.end = end /\ new.status = res[i].status
    BY <1>2 DEF ResRow, SameHolder
<1> HIDE DEF new
<1>5. /\ DOMAIN res' = DOMAIN res /\ res'[i] = new
      /\ \A j \in DOMAIN res : j # i => res'[j] = res[j]
    BY <1>1, <1>3
<1>6. \/ start = res[i].start /\ end = res[i].end
      \/ res[i].start > clock /\ start >= clock
    BY <1>1 DEF UpdateBooking, UpdateAccepted, ValidTimes
<1>7. CASE start = res[i].start /\ end = res[i].end
    <2>1. SamePast(res'[i], res[i])
        BY <1>4, <1>5, <1>7, TableFacts DEF SamePast, Spans
    <2> QED
        BY <1>4, <1>5, <2>1, CutLater
<1>8. CASE res[i].start > clock /\ start >= clock
    <2>1. res[i].start >= clock
        BY <1>1, <1>8
    <2>2. \A j \in Confirmed : j # i => j \in ConfirmedIn(res') /\ SamePast(res'[j], res[j])
        BY <1>5, SameInside DEF Confirmed, ConfirmedIn
    <2>3. \A j \in ConfirmedIn(res') : j # i => j \in Confirmed /\ SamePast(res'[j], res[j])
        BY <1>5, SameInside DEF Confirmed, ConfirmedIn
    <2> QED
        BY <1>4, <1>5, <1>8, <2>1, <2>2, <2>3 DEF PastKept
<1> QED
    BY <1>6, <1>7, <1>8

-----------------------------------------------------------------------------
(* Windows *)

\* Of the minutes of the bookings, those of window w on target t are gone and no other.
Taking(table, t, w) ==
    /\ \A i \in Confirmed, x \in Minutes :
          Spans(res[i], x) /\ ~(Concerns(t, res[i]) /\ Spans(w, x)) =>
             \E j \in ConfirmedIn(table) : SameHolder(table[j], res[i]) /\ Spans(table[j], x)
    /\ \A j \in ConfirmedIn(table) : \E i \in Confirmed :
          /\ Inside(table[j], res[i])
          /\ Concerns(t, res[i]) => \A x \in Minutes : ~(Spans(table[j], x) /\ Spans(w, x))

\* classifyImpact, on a booking that overlaps the window
LEMMA ShrinkTakes ==
    ASSUME NEW row \in ResRow, NEW w \in WinRow, row.status = "CONFIRMED", Overlap(row, w)
    PROVE  /\ SameHolder(Shrink(row, w), row)
           /\ Shrink(row, w).status # "CONFIRMED" =>
                 \A x \in Minutes : Spans(row, x) => Spans(w, x)
           /\ Shrink(row, w).status = "CONFIRMED" =>
                 /\ Inside(Shrink(row, w), row)
                 /\ \A x \in Minutes :
                       /\ Spans(Shrink(row, w), x) => Spans(row, x) /\ ~Spans(w, x)
                       /\ Spans(row, x) /\ ~Spans(w, x) =>
                             \/ Spans(Shrink(row, w), x)
                             \/ row.start < w.start /\ w.end < row.end /\ w.end <= x
<1>1. row.start \in Int /\ row.end \in Int /\ w.start \in Int /\ w.end \in Int
      /\ \A x \in Minutes : x \in Int
    BY RowFacts, MinutesFacts
<1>2. CASE w.start <= row.start /\ row.end <= w.end
    <2>1. Shrink(row, w) = [row EXCEPT !.status = "CANCELLED_UNAVAILABILITY"]
        BY <1>2 DEF Shrink
    <2> QED
        BY <1>1, <1>2, <2>1 DEF ResRow, SameHolder, Spans
<1>3. CASE ~(w.start <= row.start /\ row.end <= w.end) /\ w.start <= row.start
    <2>1. Shrink(row, w) = [row EXCEPT !.start = w.end]
        BY <1>3 DEF Shrink
    <2>2. /\ SameHolder(Shrink(row, w), row) /\ Shrink(row, w).start = w.end
          /\ Shrink(row, w).end = row.end /\ Shrink(row, w).status = "CONFIRMED"
        BY <2>1 DEF ResRow, SameHolder
    <2> QED
        BY <1>1, <1>3, <2>2 DEF Inside, Spans, Overlap
<1>4. CASE ~(w.start <= row.start)
    <2>1. Shrink(row, w) = [row EXCEPT !.end = w.start]
        BY <1>4 DEF Shrink
    <2>2. /\ SameHolder(Shrink(row, w), row) /\ Shrink(row, w).start = row.start
          /\ Shrink(row, w).end = w.start /\ Shrink(row, w).status = "CONFIRMED"
        BY <2>1 DEF ResRow, SameHolder
    <2> QED
        BY <1>1, <1>4, <2>2 DEF Inside, Spans, Overlap
<1> QED
    BY <1>2, <1>3, <1>4

\* applyReservationImpacts
LEMMA AdjustedTakes ==
    ASSUME TypeOK, NEW t, NEW w \in WinRow, w.start < w.end,
           NEW childOf \in Injections(SplitByWindow(t, w), FreeRes)
    PROVE  Taking(Adjusted(t, w, childOf), t, w)
<1> DEFINE Split == SplitByWindow(t, w)
           old == [i \in DOMAIN res |->
                     IF i \in Impacted(t, w) THEN Shrink(res[i], w) ELSE res[i]]
           parentOf(c) == CHOOSE i \in DOMAIN childOf : childOf[i] = c
           children == [c \in {childOf[i] : i \in DOMAIN childOf} |->
                          [res[parentOf(c)] EXCEPT !.start = w.end]]
           table == Adjusted(t, w, childOf)
<1>1. /\ \A i \in DOMAIN res : /\ res[i] \in ResRow
                               /\ res[i].start \in Int /\ res[i].end \in Int
      /\ w.start \in Int /\ w.end \in Int
      /\ \A i \in Confirmed : i \in DOMAIN res /\ res[i].status = "CONFIRMED"
      /\ \A x \in Minutes : x \in Int
    BY TableFacts, RowFacts
<1>2. /\ DOMAIN childOf = Split
      /\ \A i \in Split : childOf[i] \in ResIds \ DOMAIN res
      /\ \A i, j \in Split : childOf[i] = childOf[j] => i = j
      /\ \A i \in Split : /\ i \in Impacted(t, w) /\ i \in Confirmed
                          /\ res[i].start < w.start /\ w.end < res[i].end
    BY DEF Injections, FreeRes, SplitByWindow, Impacted
<1>3. \A i \in Split : parentOf(childOf[i]) = i
    BY <1>2
<1>4. table = With(old, children)
    BY DEF Adjusted
<1>5. /\ DOMAIN old = DOMAIN res
      /\ \A i \in DOMAIN res :
            old[i] = IF i \in Impacted(t, w) THEN Shrink(res[i], w) ELSE res[i]
    OBVIOUS
<1>6. /\ DOMAIN children = {childOf[i] : i \in Split}
      /\ \A i \in Split : children[childOf[i]] = [res[i] EXCEPT !.start = w.end]
    BY <1>2, <1>3
<1> HIDE DEF old, children, table, parentOf, Split
<1>7. /\ DOMAIN table = DOMAIN res \cup {childOf[i] : i \in Split}
      /\ \A i \in DOMAIN res : table[i] = old[i]
      /\ \A i \in Split : table[childOf[i]] = [res[i] EXCEPT !.start = w.end]
    BY <1>2, <1>4, <1>5, <1>6 DEF With
<1>8. \A i \in Split :
         /\ childOf[i] \in ConfirmedIn(table) /\ Inside(table[childOf[i]], res[i])
         /\ table[childOf[i]].start = w.end /\ table[childOf[i]].end = res[i].end
    <2> TAKE i \in Split
    <2>1. i \in DOMAIN res /\ res[i] \in ResRow /\ res[i].status = "CONFIRMED"
        BY <1>1, <1>2
    <2>2. /\ table[childOf[i]].status = "CONFIRMED" /\ SameHolder(table[childOf[i]], res[i])
          /\ table[childOf[i]].start = w.end /\ table[childOf[i]].end = res[i].end
        BY <1>7, <2>1 DEF ResRow, SameHolder
    <2> QED
        BY <1>1, <1>2, <1>7, <2>1, <2>2 DEF Inside, ConfirmedIn
\* A booking the window concerns, minute by minute
<1>9. \A i \in Impacted(t, w) :
         /\ i \in Confirmed /\ i \in DOMAIN res /\ table[i] = Shrink(res[i], w)
         /\ Overlap(res[i], w) /\ Concerns(t, res[i])
         /\ res[i].start < w.start /\ w.end < res[i].end => i \in Split
    BY <1>1, <1>5, <1>7 DEF Impacted, SplitByWindow, Split
<1>10. \A i \in Confirmed : i \notin Impacted(t, w) =>
          /\ i \in ConfirmedIn(table) /\ table[i] = res[i]
          /\ Concerns(t, res[i]) => \A x \in Minutes : ~(Spans(res[i], x) /\ Spans(w, x))
    BY <1>1, <1>5, <1>7 DEF Impacted, ConfirmedIn, Overlap, Spans
<1>11. ASSUME NEW i \in Confirmed, NEW x \in Minutes, Spans(res[i], x),
              ~(Concerns(t, res[i]) /\ Spans(w, x))
       PROVE  \E j \in ConfirmedIn(table) : SameHolder(table[j], res[i]) /\ Spans(table[j], x)
    <2>1. CASE i \notin Impacted(t, w)
        BY <1>10, <1>11, <2>1 DEF SameHolder
    <2>2. CASE i \in Impacted(t, w)
        <3>1. /\ i \in DOMAIN res /\ res[i] \in ResRow /\ res[i].status = "CONFIRMED"
              /\ Overlap(res[i], w) /\ table[i] = Shrink(res[i], w) /\ ~Spans(w, x)
            BY <1>1, <1>9, <1>11, <2>2
        <3>2. table[i].status = "CONFIRMED" /\ SameHolder(table[i], res[i])
            BY <1>11, <3>1, ShrinkTakes
        <3>3. \/ Spans(table[i], x)
              \/ res[i].start < w.start /\ w.end < res[i].end /\ w.end <= x
            BY <1>11, <3>1, <3>2, ShrinkTakes
        <3>4. CASE Spans(table[i], x)
            BY <1>7, <3>1, <3>2, <3>4 DEF ConfirmedIn
        <3>5. CASE res[i].start < w.start /\ w.end < res[i].end /\ w.end <= x
            <4>1. i \in Split
                BY <1>9, <2>2, <3>5
            <4> QED
                BY <1>8, <1>11, <3>5, <4>1 DEF Spans, Inside
        <3> QED
            BY <3>3, <3>4, <3>5
    <2> QED
        BY <2>1, <2>2
<1>12. ASSUME NEW j \in ConfirmedIn(table)
       PROVE  \E i \in Confirmed :
                 /\ Inside(table[j], res[i])
                 /\ Concerns(t, res[i]) =>
                       \A x \in Minutes : ~(Spans(table[j], x) /\ Spans(w, x))
    <2>1. CASE j \in DOMAIN res /\ j \notin Impacted(t, w)
        <3>1. j \in Confirmed
            BY <1>5, <1>7, <2>1 DEF ConfirmedIn, Confirmed
        <3> QED
            BY <1>10, <2>1, <3>1, SameInside
    <2>2. CASE j \in Impacted(t, w)
        <3>1. /\ j \in Confirmed /\ res[j] \in ResRow /\ res[j].status = "CONFIRMED"
              /\ Overlap(res[j], w) /\ table[j] = Shrink(res[j], w)
              /\ table[j].status = "CONFIRMED"
            BY <1>1, <1>9, <2>2 DEF ConfirmedIn
        <3> QED
            BY <3>1, ShrinkTakes
    <2>3. CASE j \notin DOMAIN res
        <3>1. PICK i \in Split : j = childOf[i]
            BY <1>7, <2>3 DEF ConfirmedIn
        <3>2. \A x \in Minutes : ~(Spans(table[j], x) /\ Spans(w, x))
            BY <1>1, <1>8, <3>1 DEF Spans
        <3> QED
            BY <1>2, <1>8, <3>1, <3>2
    <2> QED
        BY <2>1, <2>2, <2>3, <1>9
<1> QED
    BY <1>11, <1>12 DEF Taking, table

\* What a step that writes a new window does with the bookings: createPlannedUnavailability
\* and disableLongTerm.
WindowOpened(t, w) ==
    /\ w \in WinRow /\ w.target = t /\ clock <= w.start /\ w.start < w.end
    /\ \A v \in DOMAIN win' \ DOMAIN win : win'[v] = w
    /\ Taking(res', t, w)

LEMMA CreatePlannedOpens ==
    ASSUME TypeOK, NEW t \in Targets, NEW start \in Minutes, NEW end \in Minutes,
           CreatePlanned(t, start, end)
    PROVE  \E w : WindowOpened(t, w)
<1> DEFINE w == NewWindow(t, "PLANNED", Later(start, clock), end)
<1>1. w \in WinRow /\ w.target = t /\ w.start < w.end /\ clock <= w.start
    BY MinutesFacts, TableFacts, NewWindowType DEF CreatePlanned, NewWindow
<1>2. PICK childOf \in Injections(SplitByWindow(t, w), FreeRes) : res' = Adjusted(t, w, childOf)
    BY DEF CreatePlanned
<1>3. PICK id \in FreeWin : win' = With(win, [v \in {id} |-> w])
    BY DEF CreatePlanned
<1> HIDE DEF w
<1>4. \A v \in DOMAIN win' \ DOMAIN win : win'[v] = w
    BY <1>3 DEF With
<1>5. Taking(res', t, w)
    BY <1>1, <1>2, AdjustedTakes
<1> QED
    BY <1>1, <1>4, <1>5 DEF WindowOpened

LEMMA DisableOpens ==
    ASSUME TypeOK, NEW t \in Targets, NEW late \in LateReads, Disable(t, late)
    PROVE  \E w : WindowOpened(t, w)
<1> DEFINE w == NewWindow(t, "LONG_TERM", clock, DistantFuture)
           stopped == [v \in DOMAIN win |-> StoppedForDisable(t, win[v], clock)]
<1>1. /\ clock \in Minutes /\ clock < DistantFuture /\ clock \in Int /\ DistantFuture \in Int
    BY MinutesFacts, TableFacts
<1>2. /\ w \in WinRow /\ w.target = t /\ w.start < w.end /\ clock <= w.start
      /\ w.end = DistantFuture
    BY <1>1, NewWindowType DEF NewWindow
<1>3. PICK id \in FreeWin : win' = With(stopped, [v \in {id} |-> w])
    BY DEF Disable
<1>4. DOMAIN stopped = DOMAIN win /\ res' = Adjusted(t, w, NoRows)
    BY DEF Disable
<1> HIDE DEF w, stopped
\* No booking outlasts a deactivation: none is split.
<1>5. NoRows \in Injections(SplitByWindow(t, w), FreeRes)
    <2>1. \A i \in SplitByWindow(t, w) : res[i] \in ResRow /\ w.end < res[i].end
        BY TableFacts DEF SplitByWindow, Impacted
    <2>2. SplitByWindow(t, w) = {}
        BY <1>1, <1>2, <2>1, RowFacts, MinutesFacts
    <2> QED
        BY <2>2 DEF NoRows, Injections
<1>6. \A v \in DOMAIN win' \ DOMAIN win : win'[v] = w
    BY <1>3, <1>4 DEF With
<1>7. Taking(res', t, w)
    BY <1>2, <1>4, <1>5, AdjustedTakes
<1> QED
    BY <1>2, <1>6, <1>7 DEF WindowOpened

-----------------------------------------------------------------------------
(* The minutes that are held *)

\* The step leaves the minutes before now as they are.
SameElapsed ==
    \A u \in Users, g \in Groups, scope \in Scopes, x \in Minutes :
        x < clock => (x \in Held(u, g, scope)' <=> x \in Held(u, g, scope))

LEMMA HeldFacts ==
    ASSUME NEW u, NEW g, NEW scope, NEW x \in Minutes
    PROVE  /\ x \in Held(u, g, scope) <=>
                 \E i \in Confirmed : /\ res[i].user = u /\ res[i].group = g
                                      /\ res[i].scope = scope /\ Spans(res[i], x)
           /\ x \in Held(u, g, scope)' <=>
                 \E i \in ConfirmedIn(res') :
                    /\ res'[i].user = u /\ res'[i].group = g
                    /\ res'[i].scope = scope /\ Spans(res'[i], x)
BY DEF Held, Spans, Confirmed, ConfirmedIn

LEMMA PastSame ==
    ASSUME TypeOK, TypeOK', PastKept(res')
    PROVE  SameElapsed
<1> SUFFICES ASSUME NEW u \in Users, NEW g \in Groups, NEW scope \in Scopes,
                    NEW x \in Minutes, x < clock
             PROVE  x \in Held(u, g, scope)' <=> x \in Held(u, g, scope)
    BY DEF SameElapsed
<1>1. /\ clock \in Int /\ x \in Int
      /\ \A i \in Confirmed : res[i].start \in Int
      /\ \A i \in ConfirmedIn(res') : res'[i].start \in Int
    BY TableFacts, RowFacts DEF TypeOK, ConfirmedIn
<1>2. ASSUME x \in Held(u, g, scope)
      PROVE  x \in Held(u, g, scope)'
    <2>1. PICK i \in Confirmed : /\ res[i].user = u /\ res[i].group = g
                                 /\ res[i].scope = scope /\ Spans(res[i], x)
        BY <1>2, HeldFacts
    <2>2. i \in ConfirmedIn(res') /\ SamePast(res'[i], res[i])
        BY <1>1, <2>1 DEF PastKept, Spans
    <2>3. SameHolder(res'[i], res[i]) /\ Spans(res'[i], x)
        BY <2>1, <2>2 DEF SamePast
    <2> QED
        BY <2>1, <2>2, <2>3, HeldFacts DEF SameHolder
<1>3. ASSUME x \in Held(u, g, scope)'
      PROVE  x \in Held(u, g, scope)
    <2>1. PICK i \in ConfirmedIn(res') : /\ res'[i].user = u /\ res'[i].group = g
                                         /\ res'[i].scope = scope /\ Spans(res'[i], x)
        BY <1>3, HeldFacts
    <2>2. i \in Confirmed /\ SamePast(res'[i], res[i])
        BY <1>1, <2>1 DEF PastKept, Spans
    <2>3. SameHolder(res'[i], res[i]) /\ Spans(res[i], x)
        BY <2>1, <2>2 DEF SamePast
    <2> QED
        BY <2>1, <2>2, <2>3, HeldFacts DEF SameHolder
<1> QED
    BY <1>2, <1>3

\* The minutes window w takes from the bookings of a group, under a scope
TakenBy(w, g, scope) ==
    {x \in Minutes : Concerns(w.target, [group |-> g, scope |-> scope]) /\ Spans(w, x)}

LEMMA OpenedTakes ==
    ASSUME TypeOK, TypeOK', NEW t, NEW w, WindowOpened(t, w),
           NEW u \in Users, NEW g \in Groups, NEW scope \in Scopes
    PROVE  Held(u, g, scope)' = Held(u, g, scope) \ TakenBy(w, g, scope)
<1> DEFINE bare == [group |-> g, scope |-> scope]
<1>0. w.target = t /\ Taking(res', t, w)
    BY DEF WindowOpened
<1>1. \A row : row.group = g /\ row.scope = scope => (Concerns(t, row) <=> Concerns(t, bare))
    BY DEF Concerns
<1> HIDE DEF bare
<1>2. \A x \in Minutes : x \in TakenBy(w, g, scope) <=> Concerns(t, bare) /\ Spans(w, x)
    BY <1>0 DEF TakenBy, bare
<1>3. ASSUME NEW x \in Minutes, x \in Held(u, g, scope), x \notin TakenBy(w, g, scope)
      PROVE  x \in Held(u, g, scope)'
    <2>1. PICK i \in Confirmed : /\ res[i].user = u /\ res[i].group = g
                                 /\ res[i].scope = scope /\ Spans(res[i], x)
        BY <1>3, HeldFacts
    <2>2. ~(Concerns(t, res[i]) /\ Spans(w, x))
        BY <1>1, <1>2, <1>3, <2>1
    <2>3. PICK j \in ConfirmedIn(res') : SameHolder(res'[j], res[i]) /\ Spans(res'[j], x)
        BY <1>0, <2>1, <2>2 DEF Taking
    <2> QED
        BY <2>1, <2>3, HeldFacts DEF SameHolder
<1>4. ASSUME NEW x \in Minutes, x \in Held(u, g, scope)'
      PROVE  x \in Held(u, g, scope) /\ x \notin TakenBy(w, g, scope)
    <2>1. PICK j \in ConfirmedIn(res') : /\ res'[j].user = u /\ res'[j].group = g
                                         /\ res'[j].scope = scope /\ Spans(res'[j], x)
        BY <1>4, HeldFacts
    <2>2. PICK i \in Confirmed :
             /\ Inside(res'[j], res[i])
             /\ Concerns(t, res[i]) =>
                   \A y \in Minutes : ~(Spans(res'[j], y) /\ Spans(w, y))
        BY <1>0 DEF Taking
    <2>3. /\ res[i].user = u /\ res[i].group = g /\ res[i].scope = scope
          /\ res[i].start <= res'[j].start /\ res'[j].end <= res[i].end
        BY <2>1, <2>2 DEF Inside, SameHolder
    <2>4. /\ res[i].start \in Int /\ res[i].end \in Int /\ x \in Int
          /\ res'[j].start \in Int /\ res'[j].end \in Int
        BY TableFacts, RowFacts DEF TypeOK, ConfirmedIn
    <2>5. Spans(res[i], x)
        BY <2>1, <2>3, <2>4 DEF Spans
    <2>6. ~(Concerns(t, res[i]) /\ Spans(w, x))
        BY <2>1, <2>2
    <2> QED
        BY <1>1, <1>2, <2>3, <2>5, <2>6, HeldFacts
<1>5. Held(u, g, scope) \subseteq Minutes /\ Held(u, g, scope)' \subseteq Minutes
    BY DEF Held
<1> QED
    BY <1>3, <1>4, <1>5

LEMMA OpenedPast ==
    ASSUME TypeOK, TypeOK', NEW t, NEW w, WindowOpened(t, w)
    PROVE  SameElapsed
<1> SUFFICES ASSUME NEW u \in Users, NEW g \in Groups, NEW scope \in Scopes,
                    NEW x \in Minutes, x < clock
             PROVE  x \in Held(u, g, scope)' <=> x \in Held(u, g, scope)
    BY DEF SameElapsed
<1>1. Held(u, g, scope)' = Held(u, g, scope) \ TakenBy(w, g, scope)
    BY OpenedTakes
<1>2. ~Spans(w, x)
    BY TableFacts, RowFacts DEF WindowOpened, Spans
<1> QED
    BY <1>1, <1>2 DEF TakenBy

\* A step that opens no window keeps the rows' past; one that opens a window takes what it
\* covers and no more.
LEMMA EveryStepTakes ==
    ASSUME TypeOK, [Next]_vars
    PROVE  \/ PastKept(res') /\ DOMAIN win' \subseteq DOMAIN win
           \/ \E t \in Targets : \E w : WindowOpened(t, w)
<1>1. ASSUME res' = res PROVE PastKept(res')
    BY <1>1, SamePastKept
<1>2. CASE Tick \/ UNCHANGED vars
    BY <1>1, <1>2 DEF Tick, vars
<1>3. CASE BookingStep
    <2>0. win' = win
        BY <1>3, BookingFrame
    <2>1. PICK u \in Users, late \in LateReads :
              \/ \E req \in Requests, adjust \in BOOLEAN :
                    \/ CommitBatch(u, req, adjust, late)
                    \/ \E originals \in (SUBSET Confirmed) \ {{}} :
                          ReplaceMany(u, originals, req, adjust, late)
              \/ \E i \in Confirmed :
                    \/ \E req \in Requests : ReplaceBatch(u, i, req, late)
                    \/ \E start, end \in Minutes, validated \in LateReads :
                          validated <= late
                          /\ UpdateBooking(u, i, start, end, validated, late)
        BY <1>3 DEF BookingStep
    <2>2. PastKept(res')
        BY <2>1, CommitPast, ReplaceManyPast, ReplacePast, UpdatePast
    <2> QED
        BY <2>0, <2>2
<1>4. CASE ReleaseStep
    <2>1. PICK i \in Confirmed : CancelBooking(i) \/ EndEarly(i)
        BY <1>4 DEF ReleaseStep
    <2>2. win' = win
        BY <2>1 DEF CancelBooking, EndEarly
    <2> QED
        BY <2>1, <2>2, ReleasePast
<1>5. CASE AvailabilityStep
    <2>1. CASE \E t \in Targets :
                  \/ \E start, end \in Minutes : CreatePlanned(t, start, end)
                  \/ \E late \in LateReads : Disable(t, late)
        BY <2>1, CreatePlannedOpens, DisableOpens
    <2>2. CASE \E t \in Targets : Enable(t)
        BY <1>1, <2>2 DEF Enable
    <2>3. CASE \E v \in ActiveWin : CancelPlanned(v)
        BY <1>1, <2>3 DEF CancelPlanned
    <2> QED
        BY <1>5, <2>1, <2>2, <2>3 DEF AvailabilityStep
<1>6. CASE DeletionStep
    BY <1>1, <1>6 DEF DeletionStep, DeleteGroup, DeleteMachine
<1>7. CASE MembershipStep
    <2>1. PICK u \in Users, m \in Machines :
              \/ \E expiry \in Expiries : GrantAccess(u, m, expiry) \/ SetExpiry(u, m, expiry)
              \/ \E late \in LateReads : RemoveMember(u, m, late)
        BY <1>7 DEF MembershipStep
    <2>2. CASE \E expiry \in Expiries : GrantAccess(u, m, expiry)
        BY <1>1, <2>2 DEF GrantAccess
    <2>3. CASE \E expiry \in Expiries : SetExpiry(u, m, expiry)
        <3>1. win' = win
            BY <2>3 DEF SetExpiry
        <3> QED
            BY <2>3, <3>1, SetExpiryPast
    <2>4. CASE \E late \in LateReads : RemoveMember(u, m, late)
        <3>1. PICK late \in LateReads : win' = win /\ res' = Released(BookingsOn(u, m), late)
            BY <2>4 DEF RemoveMember
        <3> QED
            BY <3>1, ReleasedPast
    <2> QED
        BY <2>1, <2>2, <2>3, <2>4
<1>8. CASE AccountStep
    <2>1. CASE \E u \in Users, late \in LateReads : DisableUser(u, late)
        <3>1. PICK u \in Users, late \in LateReads :
                 win' = win /\ res' = Released({i \in Confirmed : res[i].user = u}, late)
            BY <2>1 DEF DisableUser
        <3> QED
            BY <3>1, ReleasedPast
    <2>2. CASE \E u \in Users : EnableUser(u) \/ DeleteUser(u)
        BY <1>1, <2>2 DEF EnableUser, DeleteUser
    <2> QED
        BY <1>8, <2>1, <2>2 DEF AccountStep
<1> QED
    BY <1>2, <1>3, <1>4, <1>5, <1>6, <1>7, <1>8 DEF Next

\* Whatever handler runs, and wherever a minute boundary falls inside it, nobody's elapsed
\* minutes change.
THEOREM ElapsedStaysOnRecord == Spec => HistoryKept
<1> DEFINE Kept == \A u \in Users, g \in Groups, scope \in Scopes :
                      LET elapsed == {t \in Minutes : t < clock}
                      IN  Held(u, g, scope)' \cap elapsed = Held(u, g, scope) \cap elapsed
<1>1. TypeOK /\ TypeOK' /\ [Next]_vars => [Kept]_vars
    <2> SUFFICES ASSUME TypeOK, TypeOK', [Next]_vars PROVE Kept
        OBVIOUS
    <2>1. SameElapsed
        BY EveryStepTakes, PastSame, OpenedPast
    <2> QED
        BY <2>1 DEF SameElapsed
<1> HIDE DEF Kept
<1>2. Spec => [][Kept]_vars
    BY <1>1, TypeCorrect, PTL DEF Spec
<1> QED
    BY <1>2 DEF HistoryKept, Kept

\* createPlannedUnavailability and disableLongTerm take from every booking the minutes their
\* window covers, halves of a split included, and no other.
THEOREM WindowsTakeExactly == Spec => WindowTakesExactly
<1> DEFINE Exactly ==
      \A w \in DOMAIN win' \ DOMAIN win, u \in Users, g \in Groups, scope \in Scopes :
          LET taken == IF Concerns(win'[w].target, [group |-> g, scope |-> scope])
                       THEN {t \in Minutes : win'[w].start <= t /\ t < win'[w].end}
                       ELSE {}
          IN  Held(u, g, scope)' = Held(u, g, scope) \ taken
<1>1. TypeOK /\ TypeOK' /\ [Next]_vars => [Exactly]_vars
    <2> SUFFICES ASSUME TypeOK, TypeOK', [Next]_vars,
                        NEW v \in DOMAIN win' \ DOMAIN win,
                        NEW u \in Users, NEW g \in Groups, NEW scope \in Scopes
                 PROVE  Held(u, g, scope)' = Held(u, g, scope) \
                           IF Concerns(win'[v].target, [group |-> g, scope |-> scope])
                           THEN {t \in Minutes : win'[v].start <= t /\ t < win'[v].end}
                           ELSE {}
        OBVIOUS
    <2>0. PICK t \in Targets : \E w : WindowOpened(t, w)
        BY EveryStepTakes
    <2>1. PICK w : WindowOpened(t, w)
        BY <2>0
    <2>2. win'[v] = w
        BY <2>1 DEF WindowOpened
    <2>3. Held(u, g, scope)' = Held(u, g, scope) \ TakenBy(w, g, scope)
        BY <2>1, OpenedTakes
    <2>4. TakenBy(w, g, scope) =
             IF Concerns(w.target, [group |-> g, scope |-> scope])
             THEN {x \in Minutes : w.start <= x /\ x < w.end} ELSE {}
        <3> DEFINE bare == [group |-> g, scope |-> scope]
        <3> HIDE DEF bare
        <3>1. {x \in Minutes : Concerns(w.target, bare) /\ Spans(w, x)} =
                 IF Concerns(w.target, bare)
                 THEN {x \in Minutes : w.start <= x /\ x < w.end} ELSE {}
            BY DEF Spans
        <3> QED
            BY <3>1 DEF TakenBy, bare
    <2> QED
        BY <2>2, <2>3, <2>4, Zenon
<1> HIDE DEF Exactly
<1>2. Spec => [][Exactly]_vars
    BY <1>1, TypeCorrect, PTL DEF Spec
<1> QED
    BY <1>2, PTL DEF WindowTakesExactly, Exactly

-----------------------------------------------------------------------------
(* What users may use *)

\* User u may book machine m until minute e; and may still, after the step.
May(u, m, e) == account[u] = "ACTIVE" /\ (u \in Admins \/ access[u][m] >= e)
MayStill(u, m, e) == account'[u] = "ACTIVE" /\ (u \in Admins \/ access'[u][m] >= e)

LEMMA RightsFacts ==
    ASSUME TypeOK
    PROVE  /\ \A u \in Users, m \in Machines : access[u][m] \in Int
           /\ \A g \in Groups : MachineOf[g] \in Machines
           /\ \A i \in Confirmed : /\ res[i].user \in Users /\ res[i].group \in Groups
                                   /\ res[i].end \in Int
           /\ NotMember = 0
<1>1. \A u \in Users, m \in Machines : access[u][m] \in Minutes \cup {DistantFuture}
    BY DEF TypeOK
<1>2. \A x \in Minutes \cup {DistantFuture} : x \in Int
    BY MinutesFacts
<1>3. \A g \in Groups : MachineOf[g] \in Machines
    BY TargetAssumption
<1>4. \A i \in Confirmed : res[i] \in ResRow /\ res[i].end \in Int
    BY TableFacts
<1>5. \A row \in ResRow : row.user \in Users /\ row.group \in Groups
    BY DEF ResRow
<1> QED
    BY <1>1, <1>2, <1>3, <1>4, <1>5 DEF NotMember

LEMMA LiveRights ==
    ASSUME LiveBookingHasAccess, NEW i \in Confirmed, res[i].end > clock
    PROVE  May(res[i].user, MachineOf[res[i].group], res[i].end)
BY DEF LiveBookingHasAccess, May

LEMMA RightsShown ==
    ASSUME \A i \in ConfirmedIn(res') : res'[i].end > clock' =>
              MayStill(res'[i].user, MachineOf[res'[i].group], res'[i].end)
    PROVE  LiveBookingHasAccess'
BY DEF LiveBookingHasAccess, MayStill, Confirmed, ConfirmedIn

\* What is left of a booking may be used when its user has lost nothing.
LEMMA RightCarried ==
    ASSUME TypeOK, LiveBookingHasAccess, NEW row \in ResRow, NEW j \in Confirmed,
           Inside(row, res[j]), row.end > clock,
           LET u == res[j].user
               m == MachineOf[res[j].group]
           IN  account'[u] = account[u] /\ (u \in Admins \/ access'[u][m] = access[u][m]
                                            \/ access'[u][m] >= row.end)
    PROVE  MayStill(row.user, MachineOf[row.group], row.end)
<1>1. /\ row.end \in Int /\ res[j].end \in Int /\ clock \in Int
      /\ row.user = res[j].user /\ row.group = res[j].group /\ row.end <= res[j].end
    BY TableFacts, RowFacts DEF Inside, SameHolder
<1>2. May(res[j].user, MachineOf[res[j].group], res[j].end)
    BY <1>1, LiveRights
<1>3. access[res[j].user][MachineOf[res[j].group]] \in Int
    BY RightsFacts
<1> QED
    BY <1>1, <1>2, <1>3 DEF May, MayStill

\* Fewer minutes are held, nobody loses a right.
LEMMA FewerRights ==
    ASSUME TypeOK, TypeOK', LiveBookingHasAccess, Lessened(res'), clock <= clock',
           UNCHANGED <<account, access>>
    PROVE  LiveBookingHasAccess'
<1>1. ASSUME NEW i \in ConfirmedIn(res'), res'[i].end > clock'
      PROVE  MayStill(res'[i].user, MachineOf[res'[i].group], res'[i].end)
    <2>1. PICK j \in Confirmed : Inside(res'[i], res[j])
        BY DEF Lessened
    <2>2. /\ res'[i] \in ResRow /\ res'[i].end \in Int /\ clock \in Int /\ clock' \in Int
        BY MinutesFacts, RowFacts DEF TypeOK, ConfirmedIn
    <2> QED
        BY <1>1, <2>1, <2>2, RightCarried
<1> QED
    BY <1>1, RightsShown

\* assertUserCanAccessSegments, for every segment the request ends up as
LEMMA PiecesAllowed ==
    ASSUME TypeOK, NEW u \in Users, NEW req \in Requests, NEW excluded,
           NEW adjust \in BOOLEAN, NEW late \in LateReads,
           RequestAccepted(u, req, excluded, adjust, late),
           NEW x \in Pieces(req, excluded, adjust)
    PROVE  May(u, MachineOf[x.group], x.end)
<1>1. PICK s \in Exact(req) : /\ x.group = s.group /\ x.end <= s.end
                              /\ adjust => TargetUsable(s)
                              /\ ~adjust => x = s
    BY PiecesLater, TableFacts
<1>2. LiveTarget(s.group)
    BY <1>1 DEF RequestAccepted, Available, TargetUsable
<1> DEFINE m == MachineOf[x.group]
<1>3. WithinExpiry(u, m, s.end) /\ CanAccess(u, m, late)
    BY <1>1, <1>2 DEF RequestAccepted, AccessAllows
<1>4. /\ x.end \in Int /\ s.end \in Int /\ x.group \in Groups
    BY <1>1, PiecesLater, ExactFacts, TableFacts, RowFacts DEF Segment
<1>5. access[u][m] \in Int /\ NotMember = 0 /\ late \in Nat
    BY <1>4, RightsFacts, MinutesFacts DEF LateReads
<1>6. u \notin Admins => access[u][m] # NotMember
    BY <1>3, <1>5 DEF CanAccess
<1>7. u \notin Admins => access[u][m] >= x.end
    BY <1>1, <1>3, <1>4, <1>5, <1>6 DEF WithinExpiry
<1> QED
    BY <1>3, <1>7 DEF May, CanAccess

LEMMA InsertRights ==
    ASSUME TypeOK, TypeOK', LiveBookingHasAccess, NEW u \in Users, NEW segs,
           segs \subseteq Segment, \A s \in segs : May(u, MachineOf[s.group], s.end),
           NEW idOf \in Injections(segs, FreeRes),
           NEW table, DOMAIN table \subseteq DOMAIN res, Lessened(table),
           res' = With(table, NewBookings(u, segs, idOf)), clock <= clock',
           UNCHANGED <<account, access>>
    PROVE  LiveBookingHasAccess'
<1>1. \A i \in ConfirmedIn(res') :
         \/ i \in ConfirmedIn(table) /\ res'[i] = table[i]
         \/ \E s \in segs : res'[i] = Booking(u, s)
    BY InsertRows
<1>2. ASSUME NEW i \in ConfirmedIn(res'), res'[i].end > clock'
      PROVE  MayStill(res'[i].user, MachineOf[res'[i].group], res'[i].end)
    <2>1. /\ res'[i] \in ResRow /\ res'[i].end \in Int /\ clock \in Int /\ clock' \in Int
        BY MinutesFacts, RowFacts DEF TypeOK, ConfirmedIn
    <2>2. CASE i \in ConfirmedIn(table) /\ res'[i] = table[i]
        <3>1. PICK j \in Confirmed : Inside(res'[i], res[j])
            BY <2>2 DEF Lessened
        <3> QED
            BY <1>2, <2>1, <3>1, RightCarried
    <2>3. CASE \E s \in segs : res'[i] = Booking(u, s)
        <3>1. PICK s \in segs : res'[i] = Booking(u, s)
            BY <2>3
        <3>2. res'[i].user = u /\ res'[i].group = s.group /\ res'[i].end = s.end
            BY <3>1 DEF Booking
        <3>3. May(u, MachineOf[s.group], s.end)
            OBVIOUS
        <3> QED
            BY <3>2, <3>3 DEF May, MayStill
    <2> QED
        BY <1>1, <2>2, <2>3
<1> QED
    BY <1>2, RightsShown

\* Steps that leave the bookings alone and cut or cancel windows
OnlyCutsWindows ==
    /\ UNCHANGED <<res, clock>>
    /\ DOMAIN win' = DOMAIN win
    /\ \A v \in DOMAIN win : CutOf(win'[v], win[v])

LEMMA CancelledCut ==
    ASSUME NEW w \in WinRow
    PROVE  CutOf(w, w) /\ CutOf([w EXCEPT !.status = "CANCELLED"], w)
BY RowFacts DEF CutOf, WinRow

LEMMA WindowsEnded ==
    ASSUME TypeOK,
           \/ \E t \in Targets : Enable(t)
           \/ \E v \in ActiveWin : CancelPlanned(v)
           \/ DeletionStep
    PROVE  OnlyCutsWindows
<1>0. \A w \in DOMAIN win : win[w] \in WinRow
    BY DEF TypeOK
<1>1. CASE \E t \in Targets : Enable(t)
    <2>1. PICK t \in Targets : Enable(t)
        BY <1>1
    <2>2. /\ UNCHANGED <<res, clock>>
          /\ win' = [w \in DOMAIN win |-> ClosedByEnable(t, w)]
          /\ \A w \in OpenLongTerm(t) : win[w].start >= clock \/ win[w].end > clock
        BY <2>1 DEF Enable, EnableAccepted
    <2>3. ASSUME NEW w \in DOMAIN win
          PROVE  CutOf(win'[w], win[w])
        <3>1. win'[w] = ClosedByEnable(t, w) /\ win[w] \in WinRow
            BY <1>0, <2>2
        <3>2. CASE win'[w] = win[w] \/ win'[w] = [win[w] EXCEPT !.status = "CANCELLED"]
            BY <3>1, <3>2, CancelledCut
        <3>3. CASE /\ win'[w] = [win[w] EXCEPT !.end = clock]
                   /\ w \in OpenLongTerm(t) /\ ~(win[w].start >= clock)
            <4>1. clock < win[w].end /\ clock \in Int /\ win[w].end \in Int
                BY <2>2, <3>1, <3>3, TableFacts, RowFacts
            <4> QED
                BY <3>1, <3>3, <4>1 DEF CutOf, WinRow
        <3> QED
            BY <3>1, <3>2, <3>3 DEF ClosedByEnable
    <2> QED
        BY <2>2, <2>3 DEF OnlyCutsWindows
<1>2. CASE (\E v \in ActiveWin : CancelPlanned(v)) \/ DeletionStep
    <2>1. /\ UNCHANGED <<res, clock>> /\ DOMAIN win' = DOMAIN win
          /\ \A w \in DOMAIN win :
                win'[w] = win[w] \/ win'[w] = [win[w] EXCEPT !.status = "CANCELLED"]
        <3>1. CASE \E v \in ActiveWin : CancelPlanned(v)
            BY <3>1 DEF CancelPlanned
        <3>2. CASE \E g \in Groups : DeleteGroup(g)
            BY <3>2 DEF DeleteGroup
        <3>3. CASE \E m \in Machines : DeleteMachine(m)
            BY <3>3 DEF DeleteMachine
        <3> QED
            BY <1>2, <3>1, <3>2, <3>3 DEF DeletionStep
    <2>2. \A w \in DOMAIN win : CutOf(win'[w], win[w])
        BY <1>0, <2>1, CancelledCut
    <2> QED
        BY <2>1, <2>2 DEF OnlyCutsWindows
<1> QED
    BY <1>1, <1>2

\* The windows a disabling leaves, and the one it opens
LEMMA DisableWindows ==
    ASSUME TypeOK, NEW t \in Targets, NEW late \in LateReads, Disable(t, late)
    PROVE  LET w == NewWindow(t, "LONG_TERM", clock, DistantFuture) IN
           \E id \in FreeWin :
              /\ DOMAIN win' = DOMAIN win \cup {id} /\ win'[id] = w
              /\ \A v \in DOMAIN win : /\ win'[v] = StoppedForDisable(t, win[v], clock)
                                       /\ CutOf(win'[v], win[v])
<1> DEFINE w == NewWindow(t, "LONG_TERM", clock, DistantFuture)
           stopped == [v \in DOMAIN win |-> StoppedForDisable(t, win[v], clock)]
<1>1. PICK id \in FreeWin : win' = With(stopped, [v \in {id} |-> w])
    BY DEF Disable
<1>2. /\ DOMAIN stopped = DOMAIN win
      /\ \A v \in DOMAIN win : stopped[v] = StoppedForDisable(t, win[v], clock)
    OBVIOUS
<1>3. \A v \in DOMAIN win : CutOf(StoppedForDisable(t, win[v], clock), win[v])
    BY StoppedCut, TableFacts DEF TypeOK
<1> HIDE DEF w, stopped
<1>4. /\ DOMAIN win' = DOMAIN win \cup {id} /\ win'[id] = w
      /\ \A v \in DOMAIN win : win'[v] = stopped[v]
    BY <1>1, <1>2 DEF With, FreeWin
<1> QED
    BY <1>2, <1>3, <1>4 DEF w

LEMMA CreatePlannedWindows ==
    ASSUME NEW t \in Targets, NEW start \in Minutes, NEW end \in Minutes,
           CreatePlanned(t, start, end)
    PROVE  LET w == NewWindow(t, "PLANNED", Later(start, clock), end) IN
           \E id \in FreeWin :
              /\ DOMAIN win' = DOMAIN win \cup {id} /\ win'[id] = w
              /\ \A v \in DOMAIN win : win'[v] = win[v]
<1> DEFINE w == NewWindow(t, "PLANNED", Later(start, clock), end)
<1>1. PICK id \in FreeWin : win' = With(win, [v \in {id} |-> w])
    BY DEF CreatePlanned
<1> HIDE DEF w
<1>2. /\ DOMAIN win' = DOMAIN win \cup {id} /\ win'[id] = w
      /\ \A v \in DOMAIN win : win'[v] = win[v]
    BY <1>1 DEF With, FreeWin
<1> QED
    BY <1>2 DEF w

\* A deactivation begins when it is ordered.
LongTermBegun == \A w \in DOMAIN win : win[w].kind = "LONG_TERM" => win[w].start <= clock

\* Time does not run backwards, and every step that does not open a window leaves the
\* windows' kinds and starts.
LEMMA ClockForward ==
    ASSUME TypeOK, [Next]_vars
    PROVE  clock <= clock'
<1>1. clock \in Int /\ \A late \in LateReads : clock <= late
    BY TableFacts DEF LateReads
<1>2. CASE Tick \/ UNCHANGED vars
    BY <1>1, <1>2 DEF Tick, vars
<1>3. CASE BookingStep
    BY <1>1, <1>3, BookingFrame
<1>4. CASE ReleaseStep
    BY <1>1, <1>4 DEF ReleaseStep, CancelBooking, EndEarly
<1>5. CASE AvailabilityStep
    BY <1>1, <1>5 DEF AvailabilityStep, CreatePlanned, Disable, Enable, CancelPlanned
<1>6. CASE DeletionStep
    BY <1>1, <1>6 DEF DeletionStep, DeleteGroup, DeleteMachine
<1>7. CASE MembershipStep
    BY <1>1, <1>7 DEF MembershipStep, GrantAccess, SetExpiry, RemoveMember
<1>8. CASE AccountStep
    <2>1. CASE \E u \in Users, late \in LateReads : DisableUser(u, late)
        BY <1>1, <2>1 DEF DisableUser
    <2>2. CASE \E u \in Users : EnableUser(u) \/ DeleteUser(u)
        BY <1>1, <2>2 DEF EnableUser, DeleteUser
    <2> QED
        BY <1>8, <2>1, <2>2 DEF AccountStep
<1> QED
    BY <1>2, <1>3, <1>4, <1>5, <1>6, <1>7, <1>8 DEF Next

LEMMA BegunKept ==
    ASSUME TypeOK, LongTermBegun, [Next]_vars
    PROVE  LongTermBegun'
<1>1. /\ clock <= clock' /\ clock \in Int
      /\ \A v \in DOMAIN win : win[v] \in WinRow /\ win[v].start \in Int
    BY ClockForward, TableFacts, RowFacts DEF TypeOK
<1>2. clock' \in Int
    BY NextType, MinutesFacts DEF TypeOK
<1>3. ASSUME \A v \in DOMAIN win' :
                \/ v \in DOMAIN win /\ CutOf(win'[v], win[v])
                \/ win'[v].kind = "PLANNED" \/ win'[v].start = clock
      PROVE  LongTermBegun'
    BY <1>1, <1>2, <1>3 DEF LongTermBegun, CutOf
<1>4. ASSUME win' = win
      PROVE  LongTermBegun'
    BY <1>1, <1>3, <1>4, CancelledCut
<1>5. CASE Tick \/ ReleaseStep \/ MembershipStep \/ AccountStep \/ UNCHANGED vars
    BY <1>4, <1>5 DEF Tick, vars, ReleaseStep, CancelBooking, EndEarly, MembershipStep,
       GrantAccess, SetExpiry, RemoveMember, AccountStep, DisableUser, EnableUser, DeleteUser
<1>6. CASE BookingStep
    BY <1>4, <1>6, BookingFrame
<1>7. CASE DeletionStep \/ (\E t \in Targets : Enable(t))
                        \/ (\E v \in ActiveWin : CancelPlanned(v))
    BY <1>3, <1>7, WindowsEnded DEF OnlyCutsWindows
<1>8. CASE \E t \in Targets : \E start, end \in Minutes : CreatePlanned(t, start, end)
    <2>1. PICK t \in Targets, start \in Minutes, end \in Minutes :
              CreatePlanned(t, start, end)
        BY <1>8
    <2> DEFINE w == NewWindow(t, "PLANNED", Later(start, clock), end)
    <2>2. w.kind = "PLANNED"
        BY DEF NewWindow
    <2>3. \E id \in FreeWin :
              /\ DOMAIN win' = DOMAIN win \cup {id} /\ win'[id] = w
              /\ \A v \in DOMAIN win : win'[v] = win[v]
        BY <2>1, CreatePlannedWindows, Zenon
    <2> HIDE DEF w
    <2>4. \A v \in DOMAIN win' : \/ v \in DOMAIN win /\ win'[v] = win[v]
                                 \/ win'[v] = w
        BY <2>3
    <2> QED
        BY <1>1, <1>3, <2>2, <2>4, CancelledCut
<1>9. CASE \E t \in Targets, late \in LateReads : Disable(t, late)
    <2>1. PICK t \in Targets, late \in LateReads : Disable(t, late)
        BY <1>9
    <2> DEFINE w == NewWindow(t, "LONG_TERM", clock, DistantFuture)
    <2>2. w.start = clock
        BY DEF NewWindow
    <2>3. \A v \in DOMAIN win' : \/ v \in DOMAIN win /\ CutOf(win'[v], win[v])
                                 \/ win'[v] = w
        BY <2>1, DisableWindows
    <2> QED
        BY <1>3, <2>2, <2>3
<1> QED
    BY <1>5, <1>6, <1>7, <1>8, <1>9 DEF Next, AvailabilityStep

LEMMA CommitRights ==
    ASSUME TypeOK, TypeOK', LiveBookingHasAccess, clock <= clock',
           NEW u \in Users, NEW req \in Requests, NEW adjust \in BOOLEAN,
           NEW late \in LateReads, CommitBatch(u, req, adjust, late)
    PROVE  LiveBookingHasAccess'
<1> DEFINE segs == Pieces(req, {}, adjust)
<1>1. PICK idOf \in Injections(segs, FreeRes) : res' = With(res, NewBookings(u, segs, idOf))
    BY DEF CommitBatch
<1>2. /\ RequestAccepted(u, req, {}, adjust, late)
      /\ UNCHANGED <<account, access>>
    BY DEF CommitBatch
<1>3. segs \subseteq Segment
    BY PiecesLater, TableFacts
<1>4. \A s \in segs : May(u, MachineOf[s.group], s.end)
    BY <1>2, PiecesAllowed
<1> HIDE DEF segs
<1> QED
    BY <1>1, <1>2, <1>3, <1>4, InsertRights, SamePastKept

LEMMA ReplaceManyRights ==
    ASSUME TypeOK, TypeOK', LiveBookingHasAccess, clock <= clock',
           NEW u \in Users, NEW originals \in SUBSET Confirmed,
           NEW req \in Requests, NEW adjust \in BOOLEAN,
           NEW late \in LateReads, ReplaceMany(u, originals, req, adjust, late)
    PROVE  LiveBookingHasAccess'
<1> DEFINE table == [i \in DOMAIN res |-> IF i \in originals
                                          THEN CutShort(res[i], clock)
                                          ELSE res[i]]
           segs == Pieces(req, originals, adjust)
<1>1. PICK idOf \in Injections(segs, FreeRes) :
          res' = With(table, NewBookings(u, segs, idOf))
    BY DEF ReplaceMany
<1>2. /\ RequestAccepted(u, req, originals, adjust, late)
      /\ UNCHANGED <<account, access>>
    BY DEF ReplaceMany
<1>3. segs \subseteq Segment
    BY PiecesLater, TableFacts
<1>4. \A s \in segs : May(u, MachineOf[s.group], s.end)
    BY <1>2, PiecesAllowed
<1>5. \A i \in originals : clock < res[i].end
    BY TableFacts DEF ReplaceMany
<1>6. DOMAIN table = DOMAIN res
      /\ \A i \in DOMAIN res :
            table[i] = IF i \in originals THEN CutShort(res[i], clock) ELSE res[i]
    OBVIOUS
<1> HIDE DEF table, segs
<1>7. Lessened(table)
    BY <1>5, <1>6, OriginalsCut
<1> QED
    BY <1>1, <1>2, <1>3, <1>4, <1>6, <1>7, InsertRights

LEMMA ReplaceRights ==
    ASSUME TypeOK, TypeOK', LiveBookingHasAccess, clock <= clock',
           NEW u \in Users, NEW i \in Confirmed, NEW req \in Requests,
           NEW late \in LateReads, ReplaceBatch(u, i, req, late)
    PROVE  LiveBookingHasAccess'
<1> DEFINE rest == IF res[i].end <= late THEN res[i] ELSE CutShort(res[i], clock)
           table == [res EXCEPT ![i] = rest]
           segs == Pieces(req, {i}, FALSE)
<1>0. segs = Exact(req)
    BY DEF Pieces
<1>1. PICK idOf \in Injections(segs, FreeRes) :
          res' = With(table, NewBookings(u, segs, idOf))
    BY <1>0 DEF ReplaceBatch
<1>2. /\ RequestAccepted(u, req, {i}, FALSE, late)
      /\ UNCHANGED <<account, access>>
    BY DEF ReplaceBatch
<1>3. segs \subseteq Segment
    BY PiecesLater, TableFacts
<1>4. \A s \in segs : May(u, MachineOf[s.group], s.end)
    BY <1>2, PiecesAllowed
<1>5. i \in DOMAIN res /\ res[i].end \in Int /\ clock \in Int /\ late \in Int /\ clock <= late
    BY TableFacts, MinutesFacts DEF LateReads
<1>6. DOMAIN table = DOMAIN res
      /\ \A j \in DOMAIN res : table[j] = IF j = i THEN rest ELSE res[j]
    BY <1>5
<1>7. CASE res[i].end <= late
    <2>1. \A j \in DOMAIN res : table[j] = res[j]
        BY <1>6, <1>7
    <2> HIDE DEF table, segs
    <2>2. Lessened(table)
        BY <1>6, <2>1, OnlyCut
    <2> QED
        BY <1>1, <1>2, <1>3, <1>4, <1>6, <2>2, InsertRights
<1>8. CASE ~(res[i].end <= late)
    <2>1. clock < res[i].end
        BY <1>5, <1>8
    <2>2. \A j \in DOMAIN res :
             table[j] = IF j \in {i} THEN CutShort(res[j], clock) ELSE res[j]
        BY <1>6, <1>8
    <2> HIDE DEF table, segs
    <2>3. Lessened(table)
        BY <1>6, <2>1, <2>2, OriginalsCut
    <2> QED
        BY <1>1, <1>2, <1>3, <1>4, <1>6, <2>3, InsertRights
<1> QED
    BY <1>7, <1>8

LEMMA UpdateRights ==
    ASSUME TypeOK, TypeOK', LiveBookingHasAccess, clock <= clock',
           NEW u \in Users, NEW i \in Confirmed,
           NEW start \in Minutes, NEW end \in Minutes,
           NEW validated, NEW previewed,
           UpdateBooking(u, i, start, end, validated, previewed)
    PROVE  LiveBookingHasAccess'
<1> DEFINE m == MachineOf[res[i].group]
<1>1. /\ i \in DOMAIN res /\ res[i] \in ResRow /\ clock \in Nat /\ clock' \in Int
      /\ end \in Int
    BY TableFacts, MinutesFacts DEF TypeOK
<1> DEFINE begun == [res[i] EXCEPT !.start = start]
           new == [begun EXCEPT !.end = end]
<1>2. begun \in ResRow /\ SameHolder(begun, res[i])
    BY <1>1 DEF ResRow, SameHolder
<1>3. res' = [res EXCEPT ![i] = new]
    BY Zenon DEF UpdateBooking
<1> HIDE DEF begun
<1>4. SameHolder(new, res[i]) /\ new.end = end
    BY <1>2 DEF ResRow, SameHolder
<1> HIDE DEF new
<1>5. /\ DOMAIN res' = DOMAIN res /\ res'[i] = new
      /\ \A j \in DOMAIN res : j # i => res'[j] = res[j]
    BY <1>1, <1>3
<1>6. /\ res[i].user = u /\ CanAccess(u, m, clock) /\ WithinExpiry(u, m, end)
      /\ UNCHANGED <<account, access>>
    BY DEF UpdateBooking, UpdateAccepted, OwnConfirmed
<1>7. access[u][m] \in Int /\ NotMember = 0
    BY <1>6, RightsFacts
<1>8. MayStill(u, m, end)
    BY <1>1, <1>6, <1>7 DEF CanAccess, WithinExpiry, MayStill
<1>9. ASSUME NEW j \in ConfirmedIn(res'), res'[j].end > clock'
      PROVE  MayStill(res'[j].user, MachineOf[res'[j].group], res'[j].end)
    <2>1. CASE j = i
        BY <1>4, <1>5, <1>6, <1>8, <2>1 DEF SameHolder
    <2>2. CASE j # i
        <3>1. j \in Confirmed /\ res'[j] = res[j] /\ res'[j].end \in Int
            BY <1>5, <2>2, TableFacts DEF ConfirmedIn, Confirmed
        <3>2. Inside(res'[j], res[j]) /\ res'[j].end > clock
            BY <1>1, <1>9, <3>1, SameInside, TableFacts
        <3>3. res'[j] \in ResRow
            BY <3>1, TableFacts
        <3> QED
            BY <1>6, <3>1, <3>2, <3>3, RightCarried
    <2> QED
        BY <2>1, <2>2
<1> QED
    BY <1>9, RightsShown

\* Rows that stay as they are, under rights that may have changed
LEMMA RightsChanged ==
    ASSUME TypeOK, TypeOK', LiveBookingHasAccess, clock <= clock',
           \A i \in ConfirmedIn(res') :
              \/ res'[i].end <= clock'
              \/ \E j \in Confirmed :
                    /\ Inside(res'[i], res[j])
                    /\ res[j].end > clock =>
                          LET u == res[j].user
                              m == MachineOf[res[j].group]
                          IN  account'[u] = account[u] /\ (u \in Admins \/ access'[u][m] = access[u][m]
                                                           \/ access'[u][m] >= res'[i].end)
    PROVE  LiveBookingHasAccess'
<1>1. ASSUME NEW i \in ConfirmedIn(res'), res'[i].end > clock'
      PROVE  MayStill(res'[i].user, MachineOf[res'[i].group], res'[i].end)
    <2>1. /\ res'[i] \in ResRow /\ res'[i].end \in Int /\ clock \in Int /\ clock' \in Int
        BY MinutesFacts, RowFacts DEF TypeOK, ConfirmedIn
    <2>2. PICK j \in Confirmed :
             /\ Inside(res'[i], res[j])
             /\ res[j].end > clock =>
                   LET u == res[j].user
                       m == MachineOf[res[j].group]
                   IN  account'[u] = account[u] /\ (u \in Admins \/ access'[u][m] = access[u][m]
                                                    \/ access'[u][m] >= res'[i].end)
        BY <1>1, <2>1
    <2>3. res'[i].end > clock /\ res[j].end > clock
        BY <1>1, <2>1, <2>2, TableFacts DEF Inside
    <2> QED
        BY <2>1, <2>2, <2>3, RightCarried
<1> QED
    BY <1>1, RightsShown

LEMMA SetExpiryRights ==
    ASSUME TypeOK, TypeOK', LiveBookingHasAccess, NEW u \in Users, NEW m \in Machines,
           NEW expiry \in Expiries, SetExpiry(u, m, expiry)
    PROVE  LiveBookingHasAccess'
<1>1. /\ DOMAIN res' = DOMAIN res /\ UNCHANGED <<clock, account>>
      /\ \A i \in DOMAIN res :
            res'[i] = IF i \in BookingsOn(u, m) /\ expiry < access[u][m]
                      THEN TrimToExpiry(res[i], expiry) ELSE res[i]
      /\ access' = [access EXCEPT ![u][m] = expiry]
    BY DEF SetExpiry
<1>2. /\ access'[u][m] = expiry
      /\ \A v \in Users, n \in Machines : v # u \/ n # m => access'[v][n] = access[v][n]
    <2> DEFINE row == [access[u] EXCEPT ![m] = expiry]
    <2>1. access' = [access EXCEPT ![u] = row]
        BY <1>1, Zenon
    <2>2. row[m] = expiry /\ \A n \in Machines : n # m => row[n] = access[u][n]
        BY DEF TypeOK
    <2> HIDE DEF row
    <2>3. access'[u] = row /\ \A v \in Users : v # u => access'[v] = access[v]
        BY <2>1 DEF TypeOK
    <2> QED
        BY <2>2, <2>3
<1>3. expiry \in Int /\ access[u][m] \in Int /\ clock \in Int /\ clock < expiry
    BY RightsFacts, TableFacts, MinutesFacts DEF Expiries, DistantFuture, Minutes
<1>4. \A i \in ConfirmedIn(res') : \E j \in Confirmed :
         /\ Inside(res'[i], res[j])
         /\ res[j].end > clock =>
               LET v == res[j].user
                   n == MachineOf[res[j].group]
               IN  account'[v] = account[v] /\ (v \in Admins \/ access'[v][n] = access[v][n]
                                                \/ access'[v][n] >= res'[i].end)
    <2> TAKE i \in ConfirmedIn(res')
    <2>1. /\ i \in DOMAIN res /\ res[i] \in ResRow /\ res[i].end \in Int
          /\ res[i].start \in Int /\ res'[i].status = "CONFIRMED"
        BY <1>1, TableFacts DEF ConfirmedIn
    <2>2. CASE ~(i \in BookingsOn(u, m))
        <3>1. res'[i] = res[i] /\ i \in Confirmed
            BY <1>1, <2>1, <2>2 DEF Confirmed
        <3>2. /\ res[i].user \in Users /\ MachineOf[res[i].group] \in Machines
              /\ res[i].user # u \/ MachineOf[res[i].group] # m
            BY <2>2, <3>1, RightsFacts DEF BookingsOn
        <3> QED
            BY <1>1, <1>2, <2>1, <3>1, <3>2, SameInside
    <2>3. CASE i \in BookingsOn(u, m) /\ ~(expiry < access[u][m])
        <3>1. /\ res'[i] = res[i] /\ i \in Confirmed
              /\ res[i].user = u /\ MachineOf[res[i].group] = m
            BY <1>1, <2>1, <2>3 DEF Confirmed, BookingsOn
        <3>3. Inside(res'[i], res[i])
            BY <2>1, <3>1, SameInside
        <3>4. ASSUME res[i].end > clock PROVE u \in Admins \/ access[u][m] >= res[i].end
            BY <3>1, <3>4, LiveRights DEF May
        <3> QED
            BY <1>1, <1>2, <1>3, <2>1, <2>3, <3>1, <3>3, <3>4
    <2>4. CASE i \in BookingsOn(u, m) /\ expiry < access[u][m]
        <3>1. /\ res'[i] = TrimToExpiry(res[i], expiry) /\ i \in Confirmed
              /\ res[i].user = u /\ MachineOf[res[i].group] = m
            BY <1>1, <2>1, <2>4 DEF BookingsOn
        <3>2. Inside(res'[i], res[i]) /\ res'[i].end <= expiry /\ res'[i].end \in Int
            <4>1. CASE res[i].end <= expiry
                BY <2>1, <3>1, <4>1, SameInside DEF TrimToExpiry
            <4>2. CASE ~(res[i].end <= expiry) /\ res[i].start >= expiry
                <5>1. res'[i] = [res[i] EXCEPT !.status = "CANCELLED"]
                    BY <3>1, <4>2 DEF TrimToExpiry
                <5> QED
                    BY <2>1, <5>1 DEF ResRow
            <4>3. CASE ~(res[i].end <= expiry) /\ ~(res[i].start >= expiry)
                <5>1. res'[i] = [res[i] EXCEPT !.end = expiry]
                    BY <3>1, <4>3 DEF TrimToExpiry
                <5>2. /\ SameHolder(res'[i], res[i]) /\ res'[i].start = res[i].start
                      /\ res'[i].end = expiry
                    BY <2>1, <5>1 DEF ResRow, SameHolder
                <5> QED
                    BY <1>3, <2>1, <4>3, <5>2 DEF Inside
            <4> QED
                BY <4>1, <4>2, <4>3
        <3> QED
            BY <1>1, <1>2, <1>3, <3>1, <3>2
    <2> QED
        BY <2>2, <2>3, <2>4
<1> QED
    BY <1>1, <1>3, <1>4, RightsChanged

\* Nothing of what is released outlasts the transaction.
LEMMA ReleasedOver ==
    ASSUME TypeOK, NEW mine \in SUBSET Confirmed, NEW late \in LateReads,
           res' = Released(mine, late)
    PROVE  \A i \in ConfirmedIn(res') :
              \/ i \in Confirmed \ mine /\ res'[i] = res[i]
              \/ i \in mine /\ res'[i].end <= late
<1>1. late \in Int /\ clock \in Int /\ clock <= late
    BY TableFacts, MinutesFacts DEF LateReads
<1> DEFINE gone == {i \in mine : late <= res[i].start /\ res[i].start <= clock
                                                     /\ res[i].end > clock}
<1>2. /\ DOMAIN res' = DOMAIN res \ gone
      /\ \A i \in DOMAIN res' :
            res'[i] = IF i \notin mine THEN res[i]
                      ELSE IF res[i].start > clock THEN [res[i] EXCEPT !.status = "CANCELLED"]
                      ELSE IF res[i].start < late /\ res[i].end > clock
                           THEN [res[i] EXCEPT !.end = late]
                           ELSE res[i]
    BY DEF Released
<1>3. \A i \in DOMAIN res' : i \in mine =>
         ~(late <= res[i].start /\ res[i].start <= clock /\ res[i].end > clock)
    BY <1>2
<1> HIDE DEF gone
<1> TAKE i \in ConfirmedIn(res')
<1>4. /\ i \in DOMAIN res' /\ i \in DOMAIN res /\ res[i] \in ResRow
      /\ res[i].start \in Int /\ res[i].end \in Int /\ res'[i].status = "CONFIRMED"
    BY <1>2, TableFacts DEF ConfirmedIn
<1>5. CASE i \notin mine
    BY <1>2, <1>4, <1>5 DEF Confirmed
<1>6. CASE i \in mine
    <2>1. ~(res[i].start > clock)
        <3>1. ASSUME res[i].start > clock
              PROVE  res'[i] = [res[i] EXCEPT !.status = "CANCELLED"]
            BY <1>2, <1>4, <1>6, <3>1
        <3> QED
            BY <1>4, <3>1 DEF ResRow
    <2>2. CASE res[i].end > clock
        <3>1. res[i].start < late
            BY <1>1, <1>3, <1>4, <1>6, <2>1, <2>2
        <3>2. res'[i] = [res[i] EXCEPT !.end = late]
            BY <1>2, <1>4, <1>6, <2>1, <2>2, <3>1
        <3>3. res'[i].end = late
            BY <1>4, <3>2 DEF ResRow
        <3> QED
            BY <1>1, <1>6, <3>3
    <2>3. CASE ~(res[i].end > clock)
        BY <1>1, <1>2, <1>4, <1>6, <2>1, <2>3
    <2> QED
        BY <2>2, <2>3
<1> QED
    BY <1>5, <1>6

\* access with entry [u][m] set
LEMMA EntrySet ==
    ASSUME TypeOK, NEW u \in Users, NEW m \in Machines, NEW x,
           access' = [access EXCEPT ![u][m] = x]
    PROVE  /\ access'[u][m] = x
           /\ \A v \in Users, n \in Machines : v # u \/ n # m => access'[v][n] = access[v][n]
<1> DEFINE row == [access[u] EXCEPT ![m] = x]
<1>1. access' = [access EXCEPT ![u] = row]
    BY Zenon
<1>2. row[m] = x /\ \A n \in Machines : n # m => row[n] = access[u][n]
    BY DEF TypeOK
<1> HIDE DEF row
<1>3. access'[u] = row /\ \A v \in Users : v # u => access'[v] = access[v]
    BY <1>1 DEF TypeOK
<1> QED
    BY <1>2, <1>3

\* Steps that leave the bookings alone
LEMMA SameBookings ==
    ASSUME TypeOK, TypeOK', LiveBookingHasAccess, res' = res, clock <= clock',
           \A j \in Confirmed :
              res[j].end > clock =>
                 LET u == res[j].user
                     m == MachineOf[res[j].group]
                 IN  account'[u] = account[u] /\ (u \in Admins \/ access'[u][m] = access[u][m]
                                                  \/ access'[u][m] >= res[j].end)
    PROVE  LiveBookingHasAccess'
<1>1. ConfirmedIn(res') = Confirmed /\ \A j \in Confirmed : Inside(res'[j], res[j])
    BY SameInside, TableFacts
<1> QED
    BY <1>1, RightsChanged

LEMMA MembershipRights ==
    ASSUME TypeOK, TypeOK', LiveBookingHasAccess, clock <= clock', MembershipStep
    PROVE  LiveBookingHasAccess'
<1>1. PICK u \in Users, m \in Machines :
          \/ \E expiry \in Expiries : GrantAccess(u, m, expiry) \/ SetExpiry(u, m, expiry)
          \/ \E late \in LateReads : RemoveMember(u, m, late)
    BY DEF MembershipStep
<1>2. CASE \E expiry \in Expiries : GrantAccess(u, m, expiry)
    <2>1. PICK expiry \in Expiries : GrantAccess(u, m, expiry)
        BY <1>2
    <2>2. /\ UNCHANGED <<res, clock, account>>
          /\ access' = [access EXCEPT ![u][m] = Later(access[u][m], expiry)]
        BY <2>1 DEF GrantAccess
    <2>3. access[u][m] \in Int /\ expiry \in Int
        BY RightsFacts, MinutesFacts DEF Expiries
    <2> DEFINE later == Later(access[u][m], expiry)
    <2>4. later >= access[u][m] /\ later \in Int
        BY <2>3 DEF Later
    <2> HIDE DEF later
    <2>5. /\ access'[u][m] = later
          /\ \A v \in Users, n \in Machines : v # u \/ n # m => access'[v][n] = access[v][n]
        BY <2>2, EntrySet, ZenonT(60) DEF later
    <2>6. ASSUME NEW j \in Confirmed, res[j].end > clock
          PROVE  LET v == res[j].user
                     n == MachineOf[res[j].group]
                 IN  account'[v] = account[v] /\ (v \in Admins \/ access'[v][n] = access[v][n]
                                                  \/ access'[v][n] >= res[j].end)
        <3>1. /\ res[j].user \in Users /\ MachineOf[res[j].group] \in Machines
              /\ res[j].end \in Int
            BY RightsFacts
        <3>2. May(res[j].user, MachineOf[res[j].group], res[j].end)
            BY <2>6, LiveRights
        <3> QED
            BY <2>2, <2>3, <2>4, <2>5, <3>1, <3>2 DEF May
    <2> QED
        BY <2>2, <2>6, SameBookings
<1>3. CASE \E expiry \in Expiries : SetExpiry(u, m, expiry)
    BY <1>3, SetExpiryRights
<1>4. CASE \E late \in LateReads : RemoveMember(u, m, late)
    <2>1. PICK late \in LateReads : RemoveMember(u, m, late)
        BY <1>4
    <2>2. /\ UNCHANGED account /\ clock' = late
          /\ access' = [access EXCEPT ![u][m] = NotMember]
          /\ res' = Released(BookingsOn(u, m), late)
        BY <2>1 DEF RemoveMember
    <2>3. BookingsOn(u, m) \in SUBSET Confirmed
        BY DEF BookingsOn
    <2> DEFINE none == NotMember
    <2>4. access' = [access EXCEPT ![u][m] = none]
        BY <2>2
    <2> HIDE DEF none
    <2>5. /\ access'[u][m] = none
          /\ \A v \in Users, n \in Machines : v # u \/ n # m => access'[v][n] = access[v][n]
        BY <2>4, EntrySet, ZenonT(60)
    <2>6. ASSUME NEW i \in ConfirmedIn(res')
          PROVE  \/ res'[i].end <= clock'
                 \/ /\ i \in Confirmed /\ Inside(res'[i], res[i])
                    /\ access'[res[i].user][MachineOf[res[i].group]]
                         = access[res[i].user][MachineOf[res[i].group]]
        <3>1. CASE i \in Confirmed \ BookingsOn(u, m) /\ res'[i] = res[i]
            <4>1. /\ res[i].user \in Users /\ MachineOf[res[i].group] \in Machines
                  /\ res[i].user # u \/ MachineOf[res[i].group] # m
                BY <3>1, RightsFacts DEF BookingsOn
            <4>2. i \in Confirmed /\ Inside(res'[i], res[i])
                BY <3>1, SameInside, TableFacts
            <4> QED
                BY <2>5, <4>1, <4>2
        <3> QED
            BY <2>2, <2>3, <3>1, ReleasedOver
    <2> QED
        BY <2>2, <2>6, RightsChanged
<1> QED
    BY <1>1, <1>2, <1>3, <1>4

LEMMA AccountRights ==
    ASSUME TypeOK, TypeOK', LiveBookingHasAccess, clock <= clock', AccountStep
    PROVE  LiveBookingHasAccess'
<1>1. PICK u \in Users : \/ \E late \in LateReads : DisableUser(u, late)
                         \/ EnableUser(u) \/ DeleteUser(u)
    BY DEF AccountStep
<1>2. CASE \E late \in LateReads : DisableUser(u, late)
    <2> DEFINE mine == {i \in Confirmed : res[i].user = u}
    <2>1. PICK late \in LateReads :
              /\ UNCHANGED access /\ clock' = late
              /\ account' = [account EXCEPT ![u] = "DISABLED"]
              /\ res' = Released(mine, late)
        BY <1>2 DEF DisableUser
    <2>2. \A v \in Users : v # u => account'[v] = account[v]
        BY <2>1 DEF TypeOK
    <2>3. mine \in SUBSET Confirmed /\ \A i \in Confirmed \ mine : res[i].user # u
        OBVIOUS
    <2> HIDE DEF mine
    <2>4. ASSUME NEW i \in ConfirmedIn(res')
          PROVE  \/ res'[i].end <= clock'
                 \/ /\ i \in Confirmed /\ Inside(res'[i], res[i])
                    /\ account'[res[i].user] = account[res[i].user]
        <3>1. CASE i \in Confirmed \ mine /\ res'[i] = res[i]
            BY <2>2, <2>3, <3>1, SameInside, TableFacts, RightsFacts
        <3> QED
            BY <2>1, <2>3, <3>1, ReleasedOver
    <2> QED
        BY <2>1, <2>4, RightsChanged
\* An account that is not active has no booking to come.
<1>3. ASSUME account[u] # "ACTIVE", NEW j \in Confirmed, res[j].end > clock
      PROVE  res[j].user # u
    BY <1>3, LiveRights DEF May
<1>4. CASE EnableUser(u)
    <2>1. /\ UNCHANGED <<res, access>> /\ account[u] # "ACTIVE"
          /\ \A v \in Users : v # u => account'[v] = account[v]
        BY <1>4 DEF EnableUser, TypeOK
    <2> QED
        BY <1>3, <2>1, SameBookings, RightsFacts
<1>5. CASE DeleteUser(u)
    <2>1. /\ UNCHANGED res /\ account[u] # "ACTIVE"
          /\ \A v \in Users : v # u => account'[v] = account[v] /\ access'[v] = access[v]
        BY <1>5 DEF DeleteUser, TypeOK
    <2> QED
        BY <1>3, <2>1, SameBookings, RightsFacts
<1> QED
    BY <1>1, <1>2, <1>4, <1>5

\* The inductive invariant: a machine that is deleted is under a deactivation that has
\* begun, no booking of it lies in there, so none is left to come.
RightsInv ==
    /\ WindowsInv
    /\ BookingsInv
    /\ LongTermBegun
    /\ LiveBookingHasAccess

LEMMA DisabledMachineIdle ==
    ASSUME RightsInv, NEW m \in Machines, LiveTarget(m), status[m] = "DISABLED",
           NEW i \in Confirmed, MachineOf[res[i].group] = m
    PROVE  res[i].end <= clock
<1>0. TypeOK /\ m \in Targets /\ MachineOfTarget(m) = m
    BY DEF RightsInv, WindowsInv, Targets, MachineOfTarget
<1>1. PICK w \in OpenLongTerm(m) : win[w].end > clock
    BY <1>0 DEF RightsInv, WindowsInv, StatusMatchesWindows
<1>2. /\ w \in ActiveWin /\ w \in DOMAIN win /\ w \in ActiveIn(win)
      /\ win[w].target = m /\ win[w].kind = "LONG_TERM"
    BY <1>1 DEF OpenLongTerm, ActiveWin, ActiveIn
<1>3. /\ win[w] \in WinRow /\ win[w].start \in Int /\ win[w].end \in Int /\ clock \in Int
      /\ res[i] \in ResRow /\ res[i].start \in Int /\ res[i].end \in Int
      /\ res[i].start < DistantFuture /\ i \in ConfirmedIn(res)
    BY <1>0, <1>2, TableFacts, RowFacts, MinutesFacts DEF TypeOK
<1>4. win[w].end = DistantFuture /\ win[w].start <= clock
    BY <1>1, <1>2, <1>3 DEF RightsInv, WindowsInv, LongTermOpenOrOver, LongTermBegun
<1>5. Concerns(win[w].target, res[i])
    BY <1>0, <1>2 DEF Concerns
<1>6. ~Overlap(res[i], win[w])
    BY <1>2, <1>3, <1>5 DEF RightsInv, BookingsInv, ClearIn
<1> QED
    BY <1>3, <1>4, <1>6 DEF Overlap

LEMMA DeleteMachineRights ==
    ASSUME RightsInv, TypeOK', NEW m \in Machines, DeleteMachine(m)
    PROVE  LiveBookingHasAccess'
<1>0. TypeOK /\ LiveBookingHasAccess /\ clock \in Int
    BY TableFacts DEF RightsInv, WindowsInv
<1>1. /\ UNCHANGED <<res, account, clock>> /\ LiveTarget(m) /\ status[m] = "DISABLED"
      /\ access' = [u \in Users |-> [access[u] EXCEPT ![m] = NotMember]]
    BY DEF DeleteMachine
<1>2. \A u \in Users, n \in Machines : n # m => access'[u][n] = access[u][n]
    <2> TAKE u \in Users, n \in Machines
    <2>1. access'[u] = [access[u] EXCEPT ![m] = NotMember]
        BY <1>1
    <2> QED
        BY <1>0, <2>1 DEF TypeOK
<1>3. ASSUME NEW j \in Confirmed, res[j].end > clock
      PROVE  access'[res[j].user][MachineOf[res[j].group]]
               = access[res[j].user][MachineOf[res[j].group]]
    <2>1. /\ res[j].user \in Users /\ MachineOf[res[j].group] \in Machines
          /\ res[j].end \in Int
        BY <1>0, RightsFacts
    <2>2. MachineOf[res[j].group] # m
        BY <1>0, <1>1, <1>3, <2>1, DisabledMachineIdle
    <2> QED
        BY <1>2, <2>1, <2>2
<1> QED
    BY <1>0, <1>1, <1>3, SameBookings

LEMMA RightsInit == Init => RightsInv
<1> SUFFICES ASSUME Init PROVE RightsInv
    OBVIOUS
<1>1. Confirmed = {} /\ DOMAIN win = {}
    BY DEF Init, NoRows, Confirmed
<1> QED
    BY <1>1, WindowsInit, BookingsInit DEF RightsInv, LongTermBegun, LiveBookingHasAccess

LEMMA RightsNext ==
    ASSUME MaxSkew = 0
    PROVE  RightsInv /\ [Next]_vars => RightsInv'
<1> SUFFICES ASSUME RightsInv, [Next]_vars PROVE LiveBookingHasAccess'
    BY WindowsNext, BookingsNext, BegunKept DEF RightsInv, WindowsInv
<1>1. TypeOK /\ TypeOK' /\ LiveBookingHasAccess /\ clock <= clock'
    BY NextType, ClockForward DEF RightsInv, WindowsInv
<1>2. ASSUME UNCHANGED <<res, account, access>> PROVE LiveBookingHasAccess'
    BY <1>1, <1>2, SameBookings
<1>3. ASSUME Lessened(res'), UNCHANGED <<account, access>> PROVE LiveBookingHasAccess'
    BY <1>1, <1>3, FewerRights
<1>4. CASE Tick \/ UNCHANGED vars
    BY <1>2, <1>4 DEF Tick, vars
<1>5. CASE BookingStep
    <2>1. PICK u \in Users, late \in LateReads :
              \/ \E req \in Requests, adjust \in BOOLEAN :
                    \/ CommitBatch(u, req, adjust, late)
                    \/ \E originals \in (SUBSET Confirmed) \ {{}} :
                          ReplaceMany(u, originals, req, adjust, late)
              \/ \E i \in Confirmed :
                    \/ \E req \in Requests : ReplaceBatch(u, i, req, late)
                    \/ \E start, end \in Minutes, validated \in LateReads :
                          validated <= late
                          /\ UpdateBooking(u, i, start, end, validated, late)
        BY <1>5 DEF BookingStep
    <2> QED
        BY <1>1, <2>1, CommitRights, ReplaceManyRights, ReplaceRights, UpdateRights
<1>6. CASE ReleaseStep
    <2>1. PICK i \in Confirmed : CancelBooking(i) \/ EndEarly(i)
        BY <1>6 DEF ReleaseStep
    <2>2. UNCHANGED <<account, access>>
        BY <2>1 DEF CancelBooking, EndEarly
    <2> QED
        BY <1>1, <1>3, <2>1, <2>2, ReleasePast
<1>7. CASE AvailabilityStep
    <2>1. ASSUME NEW t, NEW w, WindowOpened(t, w) PROVE Lessened(res')
        BY <2>1 DEF WindowOpened, Taking, Lessened
    <2>2. UNCHANGED <<account, access>>
        BY <1>7 DEF AvailabilityStep, CreatePlanned, Disable, Enable, CancelPlanned
    <2>3. CASE \E t \in Targets :
                  \/ \E start, end \in Minutes : CreatePlanned(t, start, end)
                  \/ \E late \in LateReads : Disable(t, late)
        BY <1>1, <1>3, <2>1, <2>2, <2>3, CreatePlannedOpens, DisableOpens
    <2>4. CASE (\E t \in Targets : Enable(t)) \/ (\E v \in ActiveWin : CancelPlanned(v))
        BY <1>1, <1>2, <2>2, <2>4, WindowsEnded DEF OnlyCutsWindows
    <2> QED
        BY <1>7, <2>3, <2>4 DEF AvailabilityStep
<1>8. CASE DeletionStep
    <2>1. CASE \E g \in Groups : DeleteGroup(g)
        BY <1>2, <2>1 DEF DeleteGroup
    <2>2. CASE \E m \in Machines : DeleteMachine(m)
        BY <1>1, <2>2, DeleteMachineRights
    <2> QED
        BY <1>8, <2>1, <2>2 DEF DeletionStep
<1>9. CASE MembershipStep
    BY <1>1, <1>9, MembershipRights
<1>10. CASE AccountStep
    BY <1>1, <1>10, AccountRights
<1> QED
    BY <1>4, <1>5, <1>6, <1>7, <1>8, <1>9, <1>10 DEF Next

\* Through any history of grants, expiries, removals, disabled accounts, deactivations and
\* deletions, whoever holds minutes to come may still use them.
THEOREM BookingsStayWithinRights ==
    ASSUME MaxSkew = 0
    PROVE  Spec => []LiveBookingHasAccess
<1>1. RightsInv /\ [Next]_vars => RightsInv'
    BY RightsNext
<1>2. RightsInv => LiveBookingHasAccess
    BY DEF RightsInv
<1> QED
    BY <1>1, <1>2, RightsInit, PTL DEF Spec

-----------------------------------------------------------------------------
(* The calendar *)

\* The row uses minute t of group g.
Uses(row, g, t) ==
    /\ Spans(row, t)
    /\ row.group = g \/ (row.scope = "MACHINE" /\ MachineOf[row.group] = MachineOf[g])

TakenIn(table, g, t) == {table[i].user : i \in {j \in ConfirmedIn(table) : Uses(table[j], g, t)}}

LEMMA TakenIs ==
    ASSUME NEW g \in Groups, NEW t \in Minutes
    PROVE  Taken[g][t] = TakenIn(res, g, t) /\ Taken'[g][t] = TakenIn(res', g, t)
<1>1. Using(g, t) = {j \in ConfirmedIn(res) : Uses(res[j], g, t)}
    BY DEF Using, Uses, Spans, Confirmed, ConfirmedIn
<1>2. Using(g, t)' = {j \in ConfirmedIn(res') : Uses(res'[j], g, t)}
    BY DEF Using, Uses, Spans, Confirmed, ConfirmedIn
<1>3. Taken[g][t] = {res[i].user : i \in Using(g, t)}
    BY DEF Taken
<1>4. Taken'[g][t] = {res'[i].user : i \in Using(g, t)'}
    BY DEF Taken
<1> QED
    BY <1>1, <1>2, <1>3, <1>4 DEF TakenIn

\* A minute of a group is used by at most one booking.
LEMMA OneUser ==
    ASSUME NEW table, NoDoubleIn(table), NEW g \in Groups, NEW t,
           ResTable(table), t \in Minutes,
           NEW i \in ConfirmedIn(table), Uses(table[i], g, t)
    PROVE  TakenIn(table, g, t) = {table[i].user}
<1>1. ASSUME NEW j \in ConfirmedIn(table), Uses(table[j], g, t)
      PROVE  j = i
    <2>1. /\ table[i] \in ResRow /\ table[i].start \in Int /\ table[i].end \in Int
          /\ table[j] \in ResRow /\ table[j].start \in Int /\ table[j].end \in Int
          /\ t \in Int
        BY RowFacts, MinutesFacts DEF ResTable, ConfirmedIn
    <2>2. Contend(table[i], table[j])
        BY <1>1 DEF Uses, Contend
    <2>3. Overlap(table[i], table[j])
        BY <1>1, <2>1 DEF Uses, Spans, Overlap
    <2> QED
        BY <2>2, <2>3 DEF NoDoubleIn
<1> QED
    BY <1>1 DEF TakenIn

\* Nobody holds a minute that a window closes.
LEMMA ClosedFree ==
    ASSUME NEW table, NEW windows, ResTable(table), WinTable(windows),
           ClearIn(table, windows), NEW g \in Groups, NEW t \in Minutes,
           NEW w \in ActiveIn(windows),
           windows[w].target \in {g, MachineOf[g]}, Spans(windows[w], t)
    PROVE  TakenIn(table, g, t) = {}
<1>1. ASSUME NEW i \in ConfirmedIn(table), Uses(table[i], g, t)
      PROVE  FALSE
    <2>0. table[i] \in ResRow /\ windows[w] \in WinRow
        BY DEF ResTable, WinTable, ConfirmedIn, ActiveIn
    <2>1. /\ table[i].start \in Int /\ table[i].end \in Int
          /\ windows[w].start \in Int /\ windows[w].end \in Int /\ t \in Int
        <3>1. table[i].start \in Int /\ table[i].end \in Int
            BY <2>0, RowFacts
        <3>2. windows[w].start \in Int /\ windows[w].end \in Int
            BY <2>0, RowFacts
        <3>3. t \in Int
            BY MinutesFacts
        <3> QED
            BY <3>1, <3>2, <3>3
    <2>2. MachineOf[g] \in Machines /\ g \notin Machines
        BY TargetAssumption
    <2>3. MachineOf[table[i].group] = MachineOf[g]
          /\ (table[i].group = g \/ table[i].scope = "MACHINE")
        BY <1>1 DEF Uses
    <2>4. Concerns(windows[w].target, table[i])
        BY <2>2, <2>3 DEF Concerns, MachineOfTarget
    <2>5. Overlap(table[i], windows[w])
        BY <1>1, <2>1 DEF Uses, Spans, Overlap
    <2> QED
        BY <2>4, <2>5 DEF ClearIn
<1> QED
    BY <1>1 DEF TakenIn

Covered(windows, g, t) ==
    \E w \in ActiveIn(windows) : windows[w].target \in {g, MachineOf[g]} /\ Spans(windows[w], t)

LEMMA ClosedIs ==
    ASSUME NEW g \in Groups, NEW t
    PROVE  /\ t \in Closed[g] <=> t \in Minutes /\ t >= clock /\ Covered(win, g, t)
           /\ t \in Closed'[g] <=> t \in Minutes /\ t >= clock' /\ Covered(win', g, t)
<1>1. /\ Closed[g] = {x \in Minutes : x >= clock /\ Covered(win, g, x)}
      /\ Closed'[g] = {x \in Minutes : x >= clock' /\ Covered(win', g, x)}
    BY DEF Closed, Covered, ActiveIn, ActiveWin, Spans
<1> QED
    BY <1>1

LEMMA OwnUses ==
    ASSUME NEW new, NEW old, SameHolder(new, old), NEW t, Spans(new, t), NEW g
    PROVE  Spans(old, t) => (Uses(new, g, t) <=> Uses(old, g, t))
BY DEF SameHolder, Uses

LEMMA SlotsAre ==
    ASSUME clock \in Minutes
    PROVE  /\ Calendar!Slots = Minutes
           /\ \A t : t \in Calendar!Future <=> t \in Minutes /\ t >= clock
           /\ \A t : t \in Calendar!Slots \ Calendar!Future => t \in Minutes /\ t < clock
<1>1. Calendar!Slots = Minutes
    BY DEF Calendar!Slots, Minutes
<1>2. \A t : t \in Calendar!Future <=> t \in Minutes /\ t >= clock
    BY <1>1 DEF Calendar!Future
<1> QED
    BY <1>1, <1>2, MinutesFacts

LEMMA PastTaken ==
    ASSUME TypeOK, TypeOK', PastKept(res') \/ (\E t, w : WindowOpened(t, w))
    PROVE  Calendar!OnlyFuture
<1> SUFFICES ASSUME NEW g \in Groups, NEW t \in Minutes, t < clock
             PROVE  TakenIn(res', g, t) = TakenIn(res, g, t)
    BY SlotsAre, TakenIs DEF Calendar!OnlyFuture, TypeOK
<1>0. /\ clock \in Int /\ t \in Int
      /\ \A i \in Confirmed : res[i].start \in Int /\ res[i].end \in Int
      /\ \A i \in ConfirmedIn(res') : res'[i].start \in Int /\ res'[i].end \in Int
      /\ Confirmed = ConfirmedIn(res)
    BY TableFacts, RowFacts, MinutesFacts DEF TypeOK, ConfirmedIn
<1>1. CASE PastKept(res')
    <2>1. \A i \in Confirmed : Uses(res[i], g, t) =>
             i \in ConfirmedIn(res') /\ res'[i].user = res[i].user /\ Uses(res'[i], g, t)
        BY <1>0, <1>1 DEF PastKept, SamePast, SameHolder, Uses, Spans
    <2>2. \A i \in ConfirmedIn(res') : Uses(res'[i], g, t) =>
             i \in Confirmed /\ res'[i].user = res[i].user /\ Uses(res[i], g, t)
        BY <1>0, <1>1 DEF PastKept, SamePast, SameHolder, Uses, Spans
    <2> QED
        BY <1>0, <2>1, <2>2 DEF TakenIn
<1>2. CASE \E x, w : WindowOpened(x, w)
    <2>1. PICK x, w : WindowOpened(x, w)
        BY <1>2
    <2>2. ~Spans(w, t) /\ Taking(res', x, w)
        BY <1>0, <2>1, RowFacts DEF WindowOpened, Spans
    <2>3. \A i \in Confirmed : Uses(res[i], g, t) => \E j \in ConfirmedIn(res') :
             res'[j].user = res[i].user /\ Uses(res'[j], g, t)
        BY <2>2 DEF Taking, SameHolder, Uses
    <2>4. \A j \in ConfirmedIn(res') : Uses(res'[j], g, t) => \E i \in Confirmed :
             res'[j].user = res[i].user /\ Uses(res[i], g, t)
        BY <1>0, <2>2 DEF Taking, Inside, SameHolder, Uses, Spans
    <2> QED
        BY <1>0, <2>3, <2>4 DEF TakenIn
<1> QED
    BY <1>1, <1>2

LEMMA LessTaken ==
    ASSUME TypeOK, TypeOK', NoDoubleIn(res), Lessened(res'),
           NEW g \in Groups, NEW t \in Minutes
    PROVE  Taken'[g][t] \in {Taken[g][t], {}}
<1>0. /\ t \in Int /\ ResTable(res)
      /\ \A i \in Confirmed : res[i].start \in Int /\ res[i].end \in Int
      /\ \A i \in ConfirmedIn(res') : res'[i].start \in Int /\ res'[i].end \in Int
      /\ Confirmed = ConfirmedIn(res)
    BY TableFacts, RowFacts, MinutesFacts DEF TypeOK, ConfirmedIn
<1>1. ASSUME NEW j \in ConfirmedIn(res'), Uses(res'[j], g, t)
      PROVE  \E i \in Confirmed : res'[j].user = res[i].user /\ Uses(res[i], g, t)
    <2>1. PICK i \in Confirmed : Inside(res'[j], res[i])
        BY DEF Lessened
    <2> QED
        BY <1>0, <1>1, <2>1 DEF Inside, SameHolder, Uses, Spans
<1>2. ASSUME NEW j \in ConfirmedIn(res'), Uses(res'[j], g, t)
      PROVE  TakenIn(res, g, t) = {res'[j].user}
    BY <1>0, <1>1, <1>2, OneUser
<1>3. TakenIn(res', g, t) \in {TakenIn(res, g, t), {}}
    BY <1>2 DEF TakenIn
<1> QED
    BY <1>3, TakenIs

-----------------------------------------------------------------------------
(* Every step is a step of the calendar *)

LEMMA FreeMaps ==
    ASSUME TypeOK, TypeOK', NoDoubleIn(res), Lessened(res'), PastKept(res'),
           UNCHANGED <<win, clock>>
    PROVE  Calendar!Free
<1>1. \A g \in Groups, t \in Calendar!Future : Taken'[g][t] \in {Taken[g][t], {}}
    BY SlotsAre, LessTaken DEF TypeOK
<1>2. Closed' = Closed
    BY DEF Closed, ActiveWin
<1> QED
    BY <1>1, <1>2, PastTaken DEF Calendar!Free

\* The rows of users other than u are left as they are.
OthersKept(u) ==
    /\ \A i \in Confirmed : res[i].user # u => i \in ConfirmedIn(res') /\ res'[i] = res[i]
    /\ \A i \in ConfirmedIn(res') : res'[i].user # u => i \in Confirmed /\ res'[i] = res[i]

LEMMA BookMaps ==
    ASSUME BookingsInv, BookingsInv', NEW u \in Users, OthersKept(u), PastKept(res'),
           UNCHANGED <<win, clock>>
    PROVE  Calendar!Book(u)
<1>0. /\ TypeOK /\ TypeOK' /\ clock \in Minutes
      /\ ResTable(res) /\ ResTable(res') /\ WinTable(win')
      /\ NoDoubleIn(res) /\ NoDoubleIn(res') /\ ClearIn(res', win')
      /\ Confirmed = ConfirmedIn(res)
    BY TableFacts DEF BookingsInv, TypeOK, ResTable, WinTable
<1>1. ASSUME NEW g \in Groups, NEW t \in Minutes, t >= clock
      PROVE  \/ Taken'[g][t] = Taken[g][t]
             \/ Taken[g][t] = {u} /\ Taken'[g][t] = {}
             \/ Taken[g][t] = {} /\ Taken'[g][t] = {u} /\ t \notin Closed[g]
    <2> DEFINE old == TakenIn(res, g, t)
               new == TakenIn(res', g, t)
    <2>1. \A i \in Confirmed : Uses(res[i], g, t) => old = {res[i].user}
        BY <1>0, OneUser
    <2>2. \A i \in ConfirmedIn(res') : Uses(res'[i], g, t) => new = {res'[i].user}
        BY <1>0, OneUser
    <2>3. \/ old = {}
          \/ \E i \in Confirmed : Uses(res[i], g, t)
        BY <1>0 DEF TakenIn
    <2>4. \/ new = {}
          \/ \E i \in ConfirmedIn(res') : Uses(res'[i], g, t)
        BY DEF TakenIn
    <2> HIDE DEF old, new
    <2>5. old = {} \/ old = {u} \/ new = old
        BY <2>1, <2>2, <2>3 DEF OthersKept
    <2>6. new = {} \/ new = {u} \/ new = old
        BY <2>1, <2>2, <2>4 DEF OthersKept
    <2>7. new = {} \/ t \notin Closed[g]
        <3>1. ASSUME t \in Closed[g] PROVE new = {}
            <4>1. Covered(win', g, t)
                BY <3>1, ClosedIs
            <4> QED
                BY <1>0, <4>1, ClosedFree DEF Covered, new
        <3> QED
            BY <3>1
    <2>8. Taken[g][t] = old /\ Taken'[g][t] = new
        BY TakenIs DEF old, new
    <2> QED
        BY <2>5, <2>6, <2>7, <2>8
<1>2. Closed' = Closed
    BY DEF Closed, ActiveWin
<1>3. \A g \in Groups, t \in Calendar!Future :
          \/ Taken'[g][t] = Taken[g][t]
          \/ Taken[g][t] = {u} /\ Taken'[g][t] = {}
          \/ Taken[g][t] = {} /\ Taken'[g][t] = {u} /\ t \notin Closed[g]
    BY <1>0, <1>1, SlotsAre
<1> QED
    BY <1>0, <1>2, <1>3, PastTaken DEF Calendar!Book

LEMMA OpenMaps ==
    ASSUME TypeOK, TypeOK', OnlyCutsWindows
    PROVE  Calendar!Open
<1>1. \A v \in ActiveIn(win') : /\ v \in ActiveIn(win)
                                /\ win'[v].target = win[v].target
                                /\ win'[v].start = win[v].start
                                /\ win'[v].end <= win[v].end
    BY DEF OnlyCutsWindows, CutOf, ActiveIn
<1>2. ASSUME NEW v \in ActiveIn(win'), NEW t \in Minutes, Spans(win'[v], t)
      PROVE  Spans(win[v], t)
    <2>1. win[v] \in WinRow /\ win'[v] \in WinRow
        BY <1>1 DEF TypeOK, ActiveIn
    <2>2. win[v].end \in Int /\ win'[v].end \in Int
        BY <2>1, RowFacts
    <2>3. t \in Int
        BY MinutesFacts
    <2> QED
        BY <1>1, <1>2, <2>2, <2>3 DEF Spans
<1>3. \A g \in Groups : Closed'[g] \subseteq Closed[g]
    <2> TAKE g \in Groups
    <2>1. ASSUME NEW t \in Closed'[g] PROVE t \in Closed[g]
        <3>1. t \in Minutes /\ t >= clock' /\ Covered(win', g, t) /\ clock' = clock
            BY <2>1, ClosedIs DEF OnlyCutsWindows
        <3>2. Covered(win, g, t)
            BY <1>1, <1>2, <3>1 DEF Covered
        <3> QED
            BY <3>1, <3>2, ClosedIs
    <2> QED
        BY <2>1
<1>4. Taken' = Taken
    BY DEF OnlyCutsWindows, Taken, Using, Confirmed
<1> QED
    BY <1>3, <1>4 DEF Calendar!Open, OnlyCutsWindows

LEMMA TickMaps ==
    ASSUME TypeOK, Tick
    PROVE  Calendar!Tick
<1>1. Taken' = Taken /\ clock' = clock + 1 /\ win' = win
    BY DEF Tick, Taken, Using, Confirmed
<1>2. \A g \in Groups : Closed'[g] = Closed[g] \ {clock}
    <2> TAKE g \in Groups
    <2>1. \A t \in Minutes : t >= clock + 1 <=> t >= clock /\ t # clock
        <3>1. clock \in Int /\ \A t \in Minutes : t \in Int
            BY TableFacts
        <3> QED
            BY <3>1
    <2>2. \A t : t \in Closed'[g] <=> t \in Closed[g] /\ t # clock
        BY <1>1, <2>1, ClosedIs
    <2> QED
        BY <2>2
<1>3. /\ Closed' = [g \in Groups |-> Closed'[g]]
    BY DEF Closed
<1> QED
    BY <1>1, <1>2, <1>3 DEF Calendar!Tick

LEMMA InsertOthers ==
    ASSUME TypeOK, NEW u \in Users, NEW segs, segs \subseteq Segment,
           NEW idOf \in Injections(segs, FreeRes),
           NEW table, DOMAIN table = DOMAIN res,
           res' = With(table, NewBookings(u, segs, idOf)),
           \A i \in DOMAIN res :
              \/ table[i] = res[i]
              \/ i \in Confirmed /\ res[i].user = u /\ table[i].user = u
    PROVE  OthersKept(u)
<1>1. /\ \A i \in ConfirmedIn(table) : i \in ConfirmedIn(res') /\ res'[i] = table[i]
      /\ \A i \in ConfirmedIn(res') :
            \/ i \in ConfirmedIn(table) /\ res'[i] = table[i]
            \/ \E s \in segs : res'[i] = Booking(u, s)
    BY InsertRows
<1>2. ASSUME NEW i \in Confirmed, res[i].user # u
      PROVE  i \in ConfirmedIn(res') /\ res'[i] = res[i]
    BY <1>1, <1>2 DEF Confirmed, ConfirmedIn
<1>3. ASSUME NEW i \in ConfirmedIn(res'), res'[i].user # u
      PROVE  i \in Confirmed /\ res'[i] = res[i]
    <2>1. \A s \in segs : Booking(u, s).user = u
        BY DEF Booking
    <2>2. i \in ConfirmedIn(table) /\ res'[i] = table[i]
        BY <1>1, <1>3, <2>1
    <2> QED
        BY <1>3, <2>2 DEF Confirmed, ConfirmedIn
<1> QED
    BY <1>2, <1>3 DEF OthersKept

LEMMA CutShortUser ==
    ASSUME NEW row \in ResRow, NEW minute
    PROVE  CutShort(row, minute).user = row.user
BY DEF CutShort, ResRow

LEMMA BookingOthers ==
    ASSUME TypeOK, NEW u \in Users, NEW late \in LateReads,
           \/ \E req \in Requests, adjust \in BOOLEAN :
                 \/ CommitBatch(u, req, adjust, late)
                 \/ \E originals \in (SUBSET Confirmed) \ {{}} :
                       ReplaceMany(u, originals, req, adjust, late)
           \/ \E i \in Confirmed :
                 \/ \E req \in Requests : ReplaceBatch(u, i, req, late)
                 \/ \E start, end \in Minutes, validated \in LateReads :
                       validated <= late
                       /\ UpdateBooking(u, i, start, end, validated, late)
    PROVE  OthersKept(u)
<1>1. CASE \E req \in Requests, adjust \in BOOLEAN : CommitBatch(u, req, adjust, late)
    <2>1. PICK req \in Requests, adjust \in BOOLEAN : CommitBatch(u, req, adjust, late)
        BY <1>1
    <2> DEFINE segs == Pieces(req, {}, adjust)
    <2>2. PICK idOf \in Injections(segs, FreeRes) : res' = With(res, NewBookings(u, segs, idOf))
        BY <2>1 DEF CommitBatch
    <2>3. segs \subseteq Segment
        BY PiecesLater, TableFacts
    <2> HIDE DEF segs
    <2> QED
        BY <2>2, <2>3, InsertOthers
<1>2. CASE \E req \in Requests, adjust \in BOOLEAN :
              \E originals \in (SUBSET Confirmed) \ {{}} :
                 ReplaceMany(u, originals, req, adjust, late)
    <2>1. PICK req \in Requests, adjust \in BOOLEAN, originals \in SUBSET Confirmed :
              ReplaceMany(u, originals, req, adjust, late)
        BY <1>2
    <2> DEFINE table == [i \in DOMAIN res |-> IF i \in originals
                                              THEN CutShort(res[i], clock)
                                              ELSE res[i]]
               segs == Pieces(req, originals, adjust)
    <2>2. PICK idOf \in Injections(segs, FreeRes) :
              res' = With(table, NewBookings(u, segs, idOf))
        BY <2>1 DEF ReplaceMany
    <2>3. segs \subseteq Segment
        BY PiecesLater, TableFacts
    <2>4. \A i \in originals : i \in Confirmed /\ res[i].user = u
        BY <2>1 DEF ReplaceMany, OwnConfirmed
    <2>5. \A i \in DOMAIN res :
             \/ table[i] = res[i]
             \/ i \in Confirmed /\ res[i].user = u /\ table[i].user = u
        BY <2>4, CutShortUser, TableFacts
    <2>6. DOMAIN table = DOMAIN res
        OBVIOUS
    <2> HIDE DEF table, segs
    <2> QED
        BY <2>2, <2>3, <2>5, <2>6, InsertOthers
<1>3. CASE \E i \in Confirmed, req \in Requests : ReplaceBatch(u, i, req, late)
    <2>1. PICK i \in Confirmed, req \in Requests : ReplaceBatch(u, i, req, late)
        BY <1>3
    <2> DEFINE rest == IF res[i].end <= late THEN res[i] ELSE CutShort(res[i], clock)
               table == [res EXCEPT ![i] = rest]
               segs == Pieces(req, {}, FALSE)
    <2>0. segs = Exact(req)
        BY DEF Pieces
    <2>2. PICK idOf \in Injections(segs, FreeRes) :
              res' = With(table, NewBookings(u, segs, idOf))
        BY <2>0, <2>1 DEF ReplaceBatch
    <2>3. segs \subseteq Segment
        BY PiecesLater, TableFacts
    <2>4. res[i].user = u /\ i \in DOMAIN res /\ res[i] \in ResRow
        BY <2>1, TableFacts DEF ReplaceBatch, OwnConfirmed
    <2>5. rest.user = u
        BY <2>4, CutShortUser
    <2> HIDE DEF rest
    <2>6. /\ DOMAIN table = DOMAIN res
          /\ \A j \in DOMAIN res :
                \/ table[j] = res[j]
                \/ j \in Confirmed /\ res[j].user = u /\ table[j].user = u
        BY <2>4, <2>5
    <2> HIDE DEF table, segs
    <2> QED
        BY <2>2, <2>3, <2>6, InsertOthers
<1>4. CASE \E i \in Confirmed : \E start, end \in Minutes, validated \in LateReads :
              UpdateBooking(u, i, start, end, validated, late)
    <2>1. PICK i \in Confirmed, start \in Minutes, end \in Minutes, validated \in LateReads :
              UpdateBooking(u, i, start, end, validated, late)
        BY <1>4
    <2> DEFINE begun == [res[i] EXCEPT !.start = start]
               new == [begun EXCEPT !.end = end]
    <2>2. i \in DOMAIN res /\ res[i] \in ResRow /\ res[i].user = u
        BY <2>1, TableFacts DEF UpdateBooking, UpdateAccepted, OwnConfirmed
    <2>3. begun \in ResRow /\ begun.user = u
        BY <2>2 DEF ResRow
    <2>4. res' = [res EXCEPT ![i] = new]
        BY <2>1, Zenon DEF UpdateBooking
    <2> HIDE DEF begun
    <2>5. new.user = u
        BY <2>3 DEF ResRow
    <2> HIDE DEF new
    <2>6. /\ DOMAIN res' = DOMAIN res /\ res'[i].user = u
          /\ \A j \in DOMAIN res : j # i => res'[j] = res[j]
        BY <2>2, <2>4, <2>5
    <2> QED
        BY <2>2, <2>6 DEF OthersKept, Confirmed, ConfirmedIn
<1> QED
    BY <1>1, <1>2, <1>3, <1>4

LEMMA BookingPast ==
    ASSUME TypeOK, NEW u \in Users, NEW late \in LateReads,
           \/ \E req \in Requests, adjust \in BOOLEAN :
                 \/ CommitBatch(u, req, adjust, late)
                 \/ \E originals \in (SUBSET Confirmed) \ {{}} :
                       ReplaceMany(u, originals, req, adjust, late)
           \/ \E i \in Confirmed :
                 \/ \E req \in Requests : ReplaceBatch(u, i, req, late)
                 \/ \E start, end \in Minutes, validated \in LateReads :
                       validated <= late
                       /\ UpdateBooking(u, i, start, end, validated, late)
    PROVE  PastKept(res')
BY CommitPast, ReplaceManyPast, ReplacePast, UpdatePast

\* createPlannedUnavailability and disableLongTerm close slots; the planned windows that
\* a disabling stops lie under the deactivation it opens.
LEMMA CloseMaps ==
    ASSUME BookingsInv, BookingsInv', clock' = clock,
           NEW t \in Targets,
           \/ \E start, end \in Minutes : CreatePlanned(t, start, end)
           \/ \E late \in LateReads : Disable(t, late)
    PROVE  Calendar!Close
<1>0. /\ TypeOK /\ TypeOK' /\ clock \in Minutes /\ clock \in Int
      /\ ResTable(res') /\ WinTable(win') /\ NoDoubleIn(res) /\ ClearIn(res', win')
      /\ \A v \in DOMAIN win : win[v] \in WinRow
    BY TableFacts DEF BookingsInv, TypeOK, ResTable, WinTable
<1>1. \E w : WindowOpened(t, w)
    BY <1>0, CreatePlannedOpens, DisableOpens
<1>2. Lessened(res')
    BY <1>1 DEF WindowOpened, Taking, Lessened
<1>3. ASSUME NEW g \in Groups, NEW x \in Minutes, x >= clock, Covered(win, g, x)
      PROVE  Covered(win', g, x)
    <2>1. PICK v \in ActiveIn(win) : /\ win[v].target \in {g, MachineOf[g]}
                                     /\ Spans(win[v], x)
        BY <1>3 DEF Covered
    <2>2. CASE \E start, end \in Minutes : CreatePlanned(t, start, end)
        <3>1. PICK start \in Minutes, end \in Minutes : CreatePlanned(t, start, end)
            BY <2>2
        <3>2. PICK id \in FreeWin :
                  /\ DOMAIN win' = DOMAIN win \cup {id}
                  /\ \A y \in DOMAIN win : win'[y] = win[y]
            BY <3>1, CreatePlannedWindows, Zenon
        <3>3. v \in ActiveIn(win') /\ win'[v] = win[v]
            BY <3>2 DEF ActiveIn
        <3> QED
            BY <2>1, <3>3 DEF Covered
    <2>3. CASE \E late \in LateReads : Disable(t, late)
        <3> DEFINE w == NewWindow(t, "LONG_TERM", clock, DistantFuture)
        <3>1. PICK id \in FreeWin :
                  /\ DOMAIN win' = DOMAIN win \cup {id} /\ win'[id] = w
                  /\ \A y \in DOMAIN win : win'[y] = StoppedForDisable(t, win[y], clock)
            BY <1>0, <2>3, DisableWindows, Zenon
        <3>2. /\ w.target = t /\ w.start = clock /\ w.end = DistantFuture
              /\ w.status = "ACTIVE"
            BY DEF NewWindow
        <3> HIDE DEF w
        <3>3. id \in ActiveIn(win') /\ Spans(win'[id], x) /\ win'[id].target = t
            BY <1>3, <3>1, <3>2, MinutesFacts DEF ActiveIn, Spans
        <3>4. v \in DOMAIN win /\ win[v].status = "ACTIVE" /\ win[v] \in WinRow
            BY <1>0 DEF ActiveIn
        <3>5. CASE win'[v] = win[v]
            BY <2>1, <3>1, <3>4, <3>5 DEF Covered, ActiveIn
        <3>6. CASE win'[v] # win[v]
            <4>1. /\ MachineOfTarget(win[v].target) = MachineOfTarget(t)
                  /\ t \in Machines \/ win[v].target = t
                BY <3>1, <3>4, <3>6 DEF StoppedForDisable
            <4>2. MachineOf[g] \in Machines /\ g \notin Machines
                BY TargetAssumption
            <4>3. t \in {g, MachineOf[g]}
                BY <2>1, <4>1, <4>2 DEF MachineOfTarget
            <4> QED
                BY <3>3, <4>3 DEF Covered
        <3> QED
            BY <3>5, <3>6
    <2> QED
        BY <2>2, <2>3
<1>4. ASSUME NEW g \in Groups
      PROVE  /\ Closed[g] \subseteq Closed'[g] /\ Closed'[g] \subseteq Calendar!Future
             /\ \A x \in Calendar!Future : Taken'[g][x] \in {Taken[g][x], {}}
             /\ \A x \in Closed'[g] : Taken'[g][x] = {}
    <2>1. \A x \in Closed[g] : x \in Closed'[g]
        BY <1>0, <1>3, ClosedIs
    <2>2. \A x \in Closed'[g] : x \in Calendar!Future
        BY <1>0, ClosedIs, SlotsAre
    <2>3. \A x \in Calendar!Future : Taken'[g][x] \in {Taken[g][x], {}}
        BY <1>0, <1>2, LessTaken, SlotsAre
    <2>4. ASSUME NEW x \in Closed'[g] PROVE Taken'[g][x] = {}
        <3>1. x \in Minutes /\ Covered(win', g, x)
            BY <2>4, ClosedIs
        <3>2. TakenIn(res', g, x) = {}
            BY <1>0, <3>1, ClosedFree DEF Covered
        <3> QED
            BY <3>1, <3>2, TakenIs
    <2> QED
        BY <2>1, <2>2, <2>3, <2>4
<1>5. Calendar!OnlyFuture
    BY <1>0, <1>1, PastTaken
<1> QED
    BY <1>4, <1>5 DEF Calendar!Close

LEMMA CalendarInit == Init => Calendar!Init
<1> SUFFICES ASSUME Init PROVE Calendar!Init
    OBVIOUS
<1>1. Confirmed = {} /\ ActiveWin = {} /\ clock = 0
    BY DEF Init, NoRows, Confirmed, ActiveWin
<1>2. Closed = [g \in Groups |-> {}]
    BY <1>1 DEF Closed
<1>3. \A g \in Groups, t \in Minutes : {res[i].user : i \in Using(g, t)} = {}
    BY <1>1 DEF Using
<1>4. Taken = [g \in Groups |-> [t \in Minutes |-> {}]]
    BY <1>3 DEF Taken
<1>5. Calendar!Slots = Minutes
    BY DEF Calendar!Slots, Minutes
<1> QED
    BY <1>1, <1>2, <1>4, <1>5 DEF Calendar!Init

LEMMA CalendarStep ==
    ASSUME MaxSkew = 0, BookingsInv, BookingsInv', [Next]_vars
    PROVE  Calendar!Next
<1>0. /\ TypeOK /\ TypeOK' /\ NoDoubleIn(res)
      /\ \A late \in LateReads : late = clock
    BY NoSkew DEF BookingsInv
<1>1. ASSUME Lessened(res'), PastKept(res'), UNCHANGED <<win, clock>>
      PROVE  Calendar!Next
    BY <1>0, <1>1, FreeMaps DEF Calendar!Next
<1>2. ASSUME UNCHANGED <<res, win, clock>> PROVE Calendar!Next
    BY <1>0, <1>1, <1>2, SamePastKept
<1>3. CASE Tick
    BY <1>0, <1>3, TickMaps DEF Calendar!Next
<1>4. CASE UNCHANGED vars
    BY <1>2, <1>4 DEF vars
<1>5. CASE BookingStep
    <2>1. PICK u \in Users, late \in LateReads :
              \/ \E req \in Requests, adjust \in BOOLEAN :
                    \/ CommitBatch(u, req, adjust, late)
                    \/ \E originals \in (SUBSET Confirmed) \ {{}} :
                          ReplaceMany(u, originals, req, adjust, late)
              \/ \E i \in Confirmed :
                    \/ \E req \in Requests : ReplaceBatch(u, i, req, late)
                    \/ \E start, end \in Minutes, validated \in LateReads :
                          validated <= late
                          /\ UpdateBooking(u, i, start, end, validated, late)
        BY <1>5 DEF BookingStep
    <2>2. PastKept(res') /\ OthersKept(u)
        BY <1>0, <2>1, BookingPast, BookingOthers
    <2>3. UNCHANGED <<win, clock>>
        BY <1>0, <1>5, BookingFrame
    <2>4. Calendar!Book(u)
        BY <2>2, <2>3, BookMaps
    <2> QED
        BY <2>4 DEF Calendar!Next
<1>6. CASE ReleaseStep
    <2>1. PICK i \in Confirmed : CancelBooking(i) \/ EndEarly(i)
        BY <1>6 DEF ReleaseStep
    <2>2. UNCHANGED <<win, clock>>
        BY <2>1 DEF CancelBooking, EndEarly
    <2> QED
        BY <1>0, <1>1, <2>1, <2>2, ReleasePast
<1>7. CASE AvailabilityStep
    <2>1. CASE \E t \in Targets :
                  \/ \E start, end \in Minutes : CreatePlanned(t, start, end)
                  \/ \E late \in LateReads : Disable(t, late)
        <3>1. clock' = clock
            BY <1>0, <2>1 DEF CreatePlanned, Disable
        <3>2. Calendar!Close
            BY <2>1, <3>1, CloseMaps
        <3> QED
            BY <3>2 DEF Calendar!Next
    <2>2. CASE (\E t \in Targets : Enable(t)) \/ (\E v \in ActiveWin : CancelPlanned(v))
        BY <1>0, <2>2, WindowsEnded, OpenMaps DEF Calendar!Next
    <2> QED
        BY <1>7, <2>1, <2>2 DEF AvailabilityStep
<1>8. CASE DeletionStep
    BY <1>0, <1>8, WindowsEnded, OpenMaps DEF Calendar!Next
<1>9. CASE MembershipStep
    <2>1. PICK u \in Users, m \in Machines :
              \/ \E expiry \in Expiries : GrantAccess(u, m, expiry) \/ SetExpiry(u, m, expiry)
              \/ \E late \in LateReads : RemoveMember(u, m, late)
        BY <1>9 DEF MembershipStep
    <2>2. CASE \E expiry \in Expiries : GrantAccess(u, m, expiry)
        BY <1>2, <2>2 DEF GrantAccess
    <2>3. CASE \E expiry \in Expiries : SetExpiry(u, m, expiry)
        <3>1. UNCHANGED <<win, clock>>
            BY <2>3 DEF SetExpiry
        <3> QED
            BY <1>0, <1>1, <2>3, <3>1, SetExpiryPast
    <2>4. CASE \E late \in LateReads : RemoveMember(u, m, late)
        <3>1. PICK late \in LateReads : /\ UNCHANGED win /\ clock' = late
                                        /\ res' = Released(BookingsOn(u, m), late)
            BY <2>4 DEF RemoveMember
        <3> QED
            BY <1>0, <1>1, <3>1, ReleasedPast
    <2> QED
        BY <2>1, <2>2, <2>3, <2>4
<1>10. CASE AccountStep
    <2>1. CASE \E u \in Users, late \in LateReads : DisableUser(u, late)
        <3>1. PICK u \in Users, late \in LateReads :
                 /\ UNCHANGED win /\ clock' = late
                 /\ res' = Released({i \in Confirmed : res[i].user = u}, late)
            BY <2>1 DEF DisableUser
        <3> QED
            BY <1>0, <1>1, <3>1, ReleasedPast
    <2>2. CASE \E u \in Users : EnableUser(u) \/ DeleteUser(u)
        BY <1>2, <2>2 DEF EnableUser, DeleteUser
    <2> QED
        BY <1>10, <2>1, <2>2 DEF AccountStep
<1> QED
    BY <1>3, <1>4, <1>5, <1>6, <1>7, <1>8, <1>9, <1>10 DEF Next

\* The booking core implements the resource calendar: every handler, for any number of
\* users, machines, groups, segments and minutes, is a step the calendar allows.
THEOREM SchedulingIsCalendar ==
    ASSUME MaxSkew = 0
    PROVE  Spec => ImplementsCalendar
<1>1. BookingsInv /\ BookingsInv' /\ [Next]_vars => [Calendar!Next]_(Calendar!vars)
    BY CalendarStep
<1>2. Spec => Calendar!Init /\ [][Calendar!Next]_(Calendar!vars)
    BY <1>1, CalendarInit, BookingsInvariant, PTL DEF Spec
<1> QED
    BY <1>2 DEF ImplementsCalendar, Calendar!Spec

-----------------------------------------------------------------------------
(* The Open API: the inductive invariant *)

TokenRow == [user : Users, level : Levels, expires : Minutes \cup Int, revoked : BOOLEAN]

Codes == {"", "API_TOKEN_REVOKED", "STATE_CHANGED", "OPERATION_EXPIRED"}

PreparedRow == [token : Tokens, request : Request,
                status : {"PENDING", "COMMITTED", "REJECTED"}, code : Codes,
                result : 0..MaxRevision, expires : Int, retain : Int]

Outcomes == [code : Codes, result : 0..MaxRevision]

HistoryRow == [runs : {0, 1}, answers : SUBSET Outcomes]

\* A stored request is one a client could send: a batch as it was normalised, or one segment.
Repeatable(q) ==
    /\ q.action = "CREATE" => q.segments \in Requests
    /\ q.action = "UPDATE" => \E s \in Segment : q.segments = {s}

Rows ==
    /\ DOMAIN token \subseteq Tokens
    /\ \A k \in DOMAIN token : token[k] \in TokenRow
    /\ asking \subseteq Users
    /\ \A o \in DOMAIN history : history[o] \in HistoryRow
    /\ DOMAIN prepared \subseteq DOMAIN history
    /\ \A o \in DOMAIN prepared : /\ prepared[o] \in PreparedRow
                                  /\ prepared[o].token \in DOMAIN token
                                  /\ Repeatable(prepared[o].request)

\* What was answered about an operation is what its row says, and nothing before it is decided.
Ledger ==
    /\ \A o \in DOMAIN prepared :
          /\ history[o].runs = 1 <=> prepared[o].status = "COMMITTED"
          /\ prepared[o].status = "PENDING" => history[o].answers = {}
          /\ history[o].answers \subseteq {Outcome(prepared[o])}

ApiInv == TypeOK /\ Rows /\ Ledger /\ OneAnswer /\ PendingHasToken

-----------------------------------------------------------------------------
(* Requests *)

\* What a batch is stored as is a batch.
LEMMA ExactIsRequest ==
    ASSUME TypeOK, NEW req \in Requests, \A s \in Exact(req) : ValidTimes(s, clock)
    PROVE  Exact(req) \in Requests
<1>1. PICK f \in [1..MaxBatch -> RequestSegments] : req = {f[i] : i \in 1..MaxBatch}
    BY DEF Requests
<1>2. clock \in Minutes /\ req \subseteq Segment /\ NoInternalOverlap(req)
    BY RequestType DEF TypeOK
<1> DEFINE h == [i \in 1..MaxBatch |-> Normalize(f[i], clock)]
<1>3. \A i \in 1..MaxBatch : f[i] \in req
    BY <1>1
<1>4. Exact(req) = {h[i] : i \in 1..MaxBatch}
    BY <1>1 DEF Exact
<1>5. h \in [1..MaxBatch -> RequestSegments]
    <2> SUFFICES ASSUME NEW i \in 1..MaxBatch PROVE Normalize(f[i], clock) \in RequestSegments
        OBVIOUS
    <2>1. f[i] \in Segment /\ Normalize(f[i], clock) \in Exact(req)
        BY <1>2, <1>3 DEF Exact
    <2>2. Normalize(f[i], clock) \in Segment
        BY <1>2, <2>1, NormalizeType
    <2> QED
        BY <2>1, <2>2 DEF RequestSegments, ValidTimes
<1>6. NoInternalOverlap(Exact(req))
    <2> SUFFICES ASSUME NEW a \in req, NEW b \in req,
                        Normalize(a, clock) # Normalize(b, clock),
                        Contend(Normalize(a, clock), Normalize(b, clock)),
                        Overlap(Normalize(a, clock), Normalize(b, clock))
                 PROVE  FALSE
        BY DEF NoInternalOverlap, Exact
    <2>1. a \in Segment /\ b \in Segment
        BY <1>2
    <2>2. /\ Normalize(a, clock) = [group |-> a.group, scope |-> a.scope,
                                    start |-> Later(a.start, clock), end |-> a.end]
          /\ Normalize(b, clock) = [group |-> b.group, scope |-> b.scope,
                                    start |-> Later(b.start, clock), end |-> b.end]
        BY <1>2, <2>1, NormalizeType
    <2>3. Contend(a, b)
        BY <2>2 DEF Contend
    <2>4. /\ a.start \in Minutes /\ b.start \in Minutes /\ a.end \in Minutes /\ b.end \in Minutes
          /\ Later(a.start, clock) >= a.start /\ Later(b.start, clock) >= b.start
          /\ Later(a.start, clock) \in Minutes /\ Later(b.start, clock) \in Minutes
        BY <1>2, <2>1, MinutesFacts DEF Segment
    <2>5. Later(a.start, clock) < b.end /\ Later(b.start, clock) < a.end
        BY <2>2 DEF Overlap
    <2>6. Overlap(a, b)
        <3>1. /\ a.start \in Nat /\ b.start \in Nat /\ a.end \in Nat /\ b.end \in Nat
              /\ Later(a.start, clock) \in Nat /\ Later(b.start, clock) \in Nat
            BY <2>4, MinutesFacts
        <3>2. a.start < b.end /\ b.start < a.end
            BY <2>4, <2>5, <3>1
        <3> QED
            BY <3>2 DEF Overlap
    <2>7. a # b
        OBVIOUS
    <2> QED
        BY <1>2, <2>3, <2>6, <2>7 DEF NoInternalOverlap
<1> QED
    BY <1>4, <1>5, <1>6 DEF Requests

\* What Prepare stores is repeatable, whoever asked and whatever the preview saw.
LEMMA PreviewedIsRepeatable ==
    ASSUME TypeOK, NEW u, NEW q, Previewed(u, q)
    PROVE  Repeatable(q)
<1>1. CASE PreviewCreate(u, q)
    <2>1. PICK req \in Requests :
              RequestAccepted(u, req, {}, FALSE, clock) /\ q.segments = Exact(req)
        BY <1>1 DEF PreviewCreate
    <2>2. \A s \in Exact(req) : ValidTimes(s, clock)
        BY <2>1 DEF RequestAccepted
    <2> QED
        BY <1>1, <2>1, <2>2, ExactIsRequest DEF PreviewCreate, Repeatable
<1>2. CASE PreviewUpdate(u, q)
    <2>1. q.booking \in Confirmed /\ q.action = "UPDATE"
        BY <1>2 DEF PreviewUpdate
    <2>2. PICK start \in Minutes, end \in Minutes :
              q.segments = {[group |-> res[q.booking].group, scope |-> res[q.booking].scope,
                             start |-> start, end |-> end]}
        BY <1>2 DEF PreviewUpdate
    <2>3. res[q.booking] \in ResRow
        BY <2>1 DEF TypeOK, Confirmed
    <2>4. [group |-> res[q.booking].group, scope |-> res[q.booking].scope,
           start |-> start, end |-> end] \in Segment
        BY <2>3 DEF ResRow, Segment
    <2> QED
        BY <2>1, <2>2, <2>4 DEF Repeatable
<1>3. CASE PreviewRelease(u, q)
    BY <1>3 DEF PreviewRelease, Repeatable
<1> QED
    BY <1>1, <1>2, <1>3 DEF Previewed

-----------------------------------------------------------------------------
(* The schedule *)

LEMMA UserOfType ==
    ASSUME Rows, NEW o \in DOMAIN prepared
    PROVE  UserOf(o) \in Users
BY DEF Rows, UserOf, TokenRow

\* The handler a confirmation calls is one the calendar's own routes call.
LEMMA HandlerIsStep ==
    ASSUME TypeOK, Rows, NEW o \in DOMAIN prepared,
           NEW validated \in LateReads, NEW late \in LateReads, validated <= late,
           Handler(o, validated, late)
    PROVE  Next
<1> DEFINE q == prepared[o].request
           u == UserOf(o)
           s == SegmentOf(q)
<1>1. u \in Users /\ Repeatable(q)
    BY UserOfType DEF Rows
<1>2. CASE q.action = "CREATE" /\ CommitBatch(u, q.segments, FALSE, late)
    <2>1. q.segments \in Requests
        BY <1>1, <1>2 DEF Repeatable
    <2>2. revision < MaxRevision
        BY <1>2 DEF CommitBatch, Bump
    <2>3. BookingStep
        BY <1>1, <1>2, <2>1, <2>2 DEF BookingStep
    <2> QED
        BY <2>3 DEF Next
<1>3. CASE /\ q.action = "UPDATE" /\ q.booking \in Confirmed
           /\ UpdateBooking(u, q.booking, s.start, s.end, validated, late)
    <2>1. PICK x \in Segment : q.segments = {x}
        BY <1>1, <1>3 DEF Repeatable
    <2>2. s = x
        BY <2>1 DEF SegmentOf
    <2>3. s.start \in Minutes /\ s.end \in Minutes
        BY <2>2 DEF Segment
    <2>4. revision < MaxRevision
        BY <1>3 DEF UpdateBooking, Bump
    <2> HIDE DEF s, u, q
    <2>5. BookingStep
        BY <1>1, <1>3, <2>3, <2>4 DEF BookingStep
    <2> QED
        BY <2>5 DEF Next
<1>4. CASE Own(u, q.booking) /\ (CancelBooking(q.booking) \/ EndEarly(q.booking))
    BY <1>4 DEF Own, ReleaseStep, Next
<1> QED
    BY <1>2, <1>3, <1>4 DEF Handler

\* With at most one minute boundary in a transaction: a rejection only lets the clock run on.
LEMMA ApiStepIsStep ==
    ASSUME MaxSkew \in {0, 1}, TypeOK, Rows, [ApiNext]_allVars
    PROVE  [Next]_vars
<1>1. CASE OtherStep
    BY <1>1 DEF OtherStep, Next, AccountStep
<1>2. CASE TokenStep
    <2>1. CASE \E u \in Users : AccountEnds(u)
        <3>1. AccountStep
            BY <2>1 DEF AccountEnds, AccountStep
        <3> QED
            BY <3>1 DEF Next
    <2>2. CASE UNCHANGED vars
        BY <2>2
    <2> QED
        BY <1>2, <2>1, <2>2 DEF TokenStep, AskToken, CreateToken, RevokeToken
<1>3. CASE OperationStep
    <2>1. CASE \E o \in DOMAIN prepared : Confirm(o)
        <3>1. PICK o \in DOMAIN prepared : Confirm(o)
            BY <2>1
        <3>2. CASE \E late \in LateReads, validated \in LateReads :
                      validated <= late /\ Execute(o, validated, late)
            BY <3>2, HandlerIsStep DEF Execute
        <3>3. CASE \E late \in LateReads, validated \in LateReads : RejectChanged(o, validated, late)
            <4>1. PICK late \in LateReads : /\ clock' = late
                       /\ UNCHANGED <<res, win, status, deleted, access, account, revision>>
                BY <3>3 DEF RejectChanged
            <4>2. late \in Minutes /\ clock \in Minutes /\ clock <= late /\ late <= clock + 1
                <5>1. late \in Minutes /\ clock <= late /\ late <= clock + MaxSkew
                    BY DEF LateReads
                <5>2. clock \in Minutes
                    BY DEF TypeOK
                <5>3. clock \in Nat /\ late \in Nat
                    BY <5>1, <5>2, MinutesFacts
                <5>4. CASE MaxSkew = 0
                    BY <5>1, <5>2, <5>3, <5>4
                <5>5. CASE MaxSkew = 1
                    BY <5>1, <5>2, <5>3, <5>5
                <5> QED
                    BY <5>4, <5>5
            <4>3. late = clock \/ (late = clock + 1 /\ clock < MaxMinute)
                BY <4>2, BoundAssumption DEF Minutes
            <4>4. CASE late = clock
                BY <4>1, <4>4 DEF vars
            <4>5. CASE late = clock + 1 /\ clock < MaxMinute
                BY <4>1, <4>5 DEF Tick, Next
            <4> QED
                BY <4>3, <4>4, <4>5
        <3>4. CASE RejectExpired(o) \/ Replay(o)
            BY <3>4 DEF RejectExpired, Replay
        <3> QED
            BY <3>1, <3>2, <3>3, <3>4 DEF Confirm
    <2>2. CASE UNCHANGED vars
        BY <2>2
    <2> QED
        BY <1>3, <2>1, <2>2 DEF OperationStep, Prepare, Cleanup
<1>4. CASE UNCHANGED allVars
    BY <1>4 DEF allVars
<1> QED
    BY <1>1, <1>2, <1>3, <1>4 DEF ApiNext

-----------------------------------------------------------------------------
(* Rows *)

LEMMA RejectedRow ==
    ASSUME NEW row \in PreparedRow, NEW code \in Codes
    PROVE  /\ Rejected(row, code) \in PreparedRow
           /\ Rejected(row, code).status = "REJECTED"
           /\ Rejected(row, code).token = row.token
           /\ Rejected(row, code).request = row.request
<1> DEFINE a == [row EXCEPT !.status = "REJECTED"]
<1>1. /\ a \in PreparedRow /\ a.status = "REJECTED"
      /\ a.token = row.token /\ a.request = row.request
    BY DEF PreparedRow
<1> HIDE DEF a
<1>2. /\ [a EXCEPT !.code = code] \in PreparedRow
      /\ [a EXCEPT !.code = code].status = "REJECTED"
      /\ [a EXCEPT !.code = code].token = row.token
      /\ [a EXCEPT !.code = code].request = row.request
    BY <1>1 DEF PreparedRow
<1> USE DEF a
<1> QED
    BY <1>2, Zenon DEF Rejected

\* A stopped operation is rejected like any other.
LEMMA StoppedIsRejected ==
    ASSUME NEW keys, NEW o \in DOMAIN prepared
    PROVE  StoppedWith(keys)[o] =
              IF prepared[o].status = "PENDING" /\ prepared[o].token \in keys
              THEN Rejected(prepared[o], "API_TOKEN_REVOKED") ELSE prepared[o]
BY DEF StoppedWith, Rejected

LEMMA CommittedRow ==
    ASSUME NEW row \in PreparedRow, NEW n \in 0..MaxRevision
    PROVE  LET new == [row EXCEPT !.status = "COMMITTED", !.result = n]
           IN  /\ new \in PreparedRow /\ new.status = "COMMITTED"
               /\ new.token = row.token /\ new.request = row.request
<1> DEFINE a == [row EXCEPT !.status = "COMMITTED"]
<1>1. /\ a \in PreparedRow /\ a.status = "COMMITTED"
      /\ a.token = row.token /\ a.request = row.request
    BY DEF PreparedRow
<1> HIDE DEF a
<1>2. LET new == [a EXCEPT !.result = n]
      IN  /\ new \in PreparedRow /\ new.status = "COMMITTED"
          /\ new.token = row.token /\ new.request = row.request
    BY <1>1 DEF PreparedRow
<1> USE DEF a
<1> QED
    BY <1>2, Zenon

\* An entry of the ledger with one field changed.
LEMMA HistoryFields ==
    ASSUME NEW entry \in HistoryRow, NEW n \in {0, 1}, NEW S \in SUBSET Outcomes
    PROVE  /\ [entry EXCEPT !.runs = n] \in HistoryRow
           /\ [entry EXCEPT !.runs = n].runs = n
           /\ [entry EXCEPT !.runs = n].answers = entry.answers
           /\ [entry EXCEPT !.answers = S] \in HistoryRow
           /\ [entry EXCEPT !.answers = S].answers = S
           /\ [entry EXCEPT !.answers = S].runs = entry.runs
BY DEF HistoryRow

LEMMA AnswerAdded ==
    ASSUME NEW o \in DOMAIN history, history[o] \in HistoryRow, NEW x \in Outcomes,
           history' = [history EXCEPT ![o].answers = @ \cup {x}]
    PROVE  /\ DOMAIN history' = DOMAIN history
           /\ \A p \in DOMAIN history : p # o => history'[p] = history[p]
           /\ history'[o] \in HistoryRow /\ history'[o].runs = history[o].runs
           /\ history'[o].answers = history[o].answers \cup {x}
<1>1. /\ DOMAIN history' = DOMAIN history
      /\ \A p \in DOMAIN history : p # o => history'[p] = history[p]
      /\ history'[o] = [history[o] EXCEPT !.answers = history[o].answers \cup {x}]
    OBVIOUS
<1>2. history[o].answers \cup {x} \in SUBSET Outcomes
    BY DEF HistoryRow
<1> QED
    BY <1>1, <1>2, HistoryFields, ZenonT(60)

LEMMA OutcomeType ==
    ASSUME NEW row \in PreparedRow
    PROVE  Outcome(row) \in Outcomes
BY DEF Outcome, Outcomes, PreparedRow

\* Nothing but the API's own tables concern what follows, and accounts that stay active.
LEMMA LedgerFrame ==
    ASSUME Rows, Ledger, OneAnswer, PendingHasToken,
           UNCHANGED <<prepared, history>>,
           asking' \subseteq Users,
           DOMAIN token \subseteq DOMAIN token', DOMAIN token' \subseteq Tokens,
           \A k \in DOMAIN token' : token'[k] \in TokenRow,
           \A k \in DOMAIN token : token'[k] = token[k],
           \A u \in Users : account[u] = "ACTIVE" => account'[u] = "ACTIVE"
    PROVE  Rows' /\ Ledger' /\ OneAnswer' /\ PendingHasToken'
<1>1. Rows' /\ Ledger' /\ OneAnswer'
    BY DEF Rows, Ledger, OneAnswer, Outcome
<1>2. PendingHasToken'
    <2> SUFFICES ASSUME NEW o \in DOMAIN prepared, prepared[o].status = "PENDING"
                 PROVE  ~token'[prepared[o].token].revoked /\ account'[UserOf(o)'] = "ACTIVE"
        BY DEF PendingHasToken
    <2>1. prepared[o].token \in DOMAIN token
        BY DEF Rows
    <2>2. token'[prepared[o].token] = token[prepared[o].token]
        BY <2>1
    <2>3. UserOf(o)' = UserOf(o) /\ UserOf(o) \in Users
        BY <2>2, UserOfType DEF UserOf
    <2>4. ~token[prepared[o].token].revoked /\ account[UserOf(o)] = "ACTIVE"
        BY DEF PendingHasToken
    <2> QED
        BY <2>2, <2>3, <2>4
<1> QED
    BY <1>1, <1>2

\* Tokens are revoked, and their operations with them; an account that ends takes all of its.
LEMMA StoppingKeeps ==
    ASSUME Rows, Ledger, OneAnswer, PendingHasToken, NEW keys,
           token' = Revoked(keys), prepared' = StoppedWith(keys), UNCHANGED <<asking, history>>,
           \A k \in DOMAIN token \ keys :
              account[token[k].user] = "ACTIVE" => account'[token[k].user] = "ACTIVE"
    PROVE  Rows' /\ Ledger' /\ OneAnswer' /\ PendingHasToken'
<1>1. DOMAIN token' = DOMAIN token /\ DOMAIN prepared' = DOMAIN prepared
    BY DEF Revoked, StoppedWith
<1>2. \A k \in DOMAIN token : token'[k] \in TokenRow /\ token'[k].user = token[k].user
                              /\ (k \notin keys => token'[k] = token[k])
    BY DEF Rows, Revoked, TokenRow
<1>3. \A o \in DOMAIN prepared :
         /\ prepared'[o] \in PreparedRow
         /\ prepared'[o].token = prepared[o].token /\ prepared'[o].request = prepared[o].request
         /\ IF prepared[o].status = "PENDING" /\ prepared[o].token \in keys
            THEN prepared'[o].status = "REJECTED" ELSE prepared'[o] = prepared[o]
    <2> TAKE o \in DOMAIN prepared
    <2>1. prepared[o] \in PreparedRow
        BY DEF Rows
    <2>2. prepared'[o] = IF prepared[o].status = "PENDING" /\ prepared[o].token \in keys
                         THEN Rejected(prepared[o], "API_TOKEN_REVOKED") ELSE prepared[o]
        BY StoppedIsRejected
    <2>3. CASE prepared[o].status = "PENDING" /\ prepared[o].token \in keys
        <3> DEFINE row == Rejected(prepared[o], "API_TOKEN_REVOKED")
        <3>1. prepared'[o] = row
            BY <2>2, <2>3
        <3>2. "API_TOKEN_REVOKED" \in Codes
            BY DEF Codes
        <3>3. /\ row \in PreparedRow /\ row.status = "REJECTED"
              /\ row.token = prepared[o].token /\ row.request = prepared[o].request
            BY <2>1, <3>2, RejectedRow
        <3> HIDE DEF row
        <3> QED
            BY <2>3, <3>1, <3>3
    <2>4. CASE ~(prepared[o].status = "PENDING" /\ prepared[o].token \in keys)
        <3>1. prepared'[o] = prepared[o]
            BY <2>2, <2>4
        <3> QED
            BY <2>1, <2>4, <3>1
    <2> QED
        BY <2>3, <2>4
<1>4. Rows'
    BY <1>1, <1>2, <1>3 DEF Rows, Repeatable
<1>5. Ledger'
    <2>1. ASSUME NEW o \in DOMAIN prepared
          PROVE  /\ history[o].runs = 1 <=> prepared'[o].status = "COMMITTED"
                 /\ prepared'[o].status = "PENDING" => history[o].answers = {}
                 /\ history[o].answers \subseteq {Outcome(prepared'[o])}
        BY <1>3 DEF Ledger, Outcome
    <2> QED
        BY <1>1, <2>1 DEF Ledger, Outcome
<1>6. OneAnswer'
    BY DEF OneAnswer
<1>7. PendingHasToken'
    <2> SUFFICES ASSUME NEW o \in DOMAIN prepared, prepared'[o].status = "PENDING"
                 PROVE  ~token'[prepared'[o].token].revoked /\ account'[UserOf(o)'] = "ACTIVE"
        BY <1>1 DEF PendingHasToken
    <2>1. prepared'[o] = prepared[o] /\ prepared[o].token \notin keys
        BY <1>3
    <2>2. token'[prepared[o].token] = token[prepared[o].token] /\ prepared[o].token \in DOMAIN token
        BY <1>2, <2>1 DEF Rows
    <2>3. ~token[prepared[o].token].revoked /\ account[token[prepared[o].token].user] = "ACTIVE"
        BY <2>1 DEF PendingHasToken, UserOf
    <2> QED
        BY <2>1, <2>2, <2>3 DEF UserOf
<1> QED
    BY <1>4, <1>5, <1>6, <1>7

\* One operation is decided, with one answer, and the schedule is left alone or changed once.
LEMMA DecidingKeeps ==
    ASSUME Rows, Ledger, OneAnswer, PendingHasToken, NEW o \in DOMAIN prepared,
           prepared[o].status = "PENDING", NEW row \in PreparedRow,
           row.token = prepared[o].token, row.request = prepared[o].request,
           NEW runs \in {0, 1}, row.status = IF runs = 1 THEN "COMMITTED" ELSE "REJECTED",
           prepared' = [prepared EXCEPT ![o] = row],
           DOMAIN history' = DOMAIN history,
           \A p \in DOMAIN history : p # o => history'[p] = history[p],
           history'[o] \in HistoryRow, history'[o].runs = runs,
           history'[o].answers = history[o].answers \cup {Outcome(row)},
           UNCHANGED <<token, asking, account>>
    PROVE  Rows' /\ Ledger' /\ OneAnswer' /\ PendingHasToken'
<1>1. /\ DOMAIN prepared' = DOMAIN prepared /\ prepared'[o] = row
      /\ \A p \in DOMAIN prepared : p # o => prepared'[p] = prepared[p]
    OBVIOUS
<1>2. o \in DOMAIN history /\ history[o].answers = {}
    BY DEF Rows, Ledger
<1>3. history'[o].runs = runs /\ history'[o].answers = {Outcome(row)}
    BY <1>2
<1>4. Rows'
    <2>1. /\ \A p \in DOMAIN history' : history'[p] \in HistoryRow
          /\ DOMAIN prepared' \subseteq DOMAIN history'
        BY <1>1 DEF Rows
    <2> QED
        BY <1>1, <2>1 DEF Rows, Repeatable
<1>5. Ledger'
    <2>2. ASSUME NEW p \in DOMAIN prepared
          PROVE  /\ history'[p].runs = 1 <=> prepared'[p].status = "COMMITTED"
                 /\ prepared'[p].status = "PENDING" => history'[p].answers = {}
                 /\ history'[p].answers \subseteq {Outcome(prepared'[p])}
        <3>1. CASE p = o
            BY <1>1, <1>3, <3>1
        <3>2. CASE p # o
            <4>1. prepared'[p] = prepared[p] /\ history'[p] = history[p]
                BY <1>1, <3>2 DEF Rows
            <4> QED
                BY <4>1 DEF Ledger, Outcome
        <3> QED
            BY <3>1, <3>2
    <2> QED
        BY <1>1, <2>2 DEF Ledger, Outcome
<1>6. OneAnswer'
    BY <1>3 DEF OneAnswer
<1>7. PendingHasToken'
    BY <1>1 DEF PendingHasToken, UserOf
<1> QED
    BY <1>4, <1>5, <1>6, <1>7

-----------------------------------------------------------------------------
(* The steps *)

LEMMA AccountsStay ==
    ASSUME OtherStep
    PROVE  \A u \in Users : account[u] = "ACTIVE" => account'[u] = "ACTIVE"
<1>1. CASE Tick \/ BookingStep \/ ReleaseStep
    <2>1. CASE Tick
        BY <2>1 DEF Tick
    <2>2. CASE BookingStep
        <3>1. \A u, req, adjust, late : CommitBatch(u, req, adjust, late) => account' = account
            BY DEF CommitBatch
        <3>2. \A u, originals, req, adjust, late :
                  ReplaceMany(u, originals, req, adjust, late) => account' = account
            BY DEF ReplaceMany
        <3>3. \A u, i, req, late : ReplaceBatch(u, i, req, late) => account' = account
            BY DEF ReplaceBatch
        <3>4. \A u, i, start, end, validated, late :
                  UpdateBooking(u, i, start, end, validated, late) => account' = account
            BY DEF UpdateBooking
        <3> QED
            BY <2>2, <3>1, <3>2, <3>3, <3>4 DEF BookingStep
    <2>3. CASE ReleaseStep
        BY <2>3 DEF ReleaseStep, CancelBooking, EndEarly
    <2> QED
        BY <1>1, <2>1, <2>2, <2>3
<1>2. CASE AvailabilityStep
    <2>1. account' = account
        BY <1>2 DEF AvailabilityStep, CreatePlanned, Disable, Enable, CancelPlanned
    <2> QED
        BY <2>1
<1>3. CASE MembershipStep
    <2>1. account' = account
        BY <1>3 DEF MembershipStep, GrantAccess, SetExpiry, RemoveMember
    <2> QED
        BY <2>1
<1>4. CASE \E u \in Users : EnableUser(u)
    <2>1. PICK v \in Users : account' = [account EXCEPT ![v] = "ACTIVE"]
        BY <1>4 DEF EnableUser
    <2> QED
        BY <2>1
<1> QED
    BY <1>1, <1>2, <1>3, <1>4 DEF OtherStep

LEMMA SendableType ==
    ASSUME TypeOK, NEW q \in Sendable
    PROVE  q \in Request
<1>1. clock \in Minutes /\ Confirmed \subseteq ResIds
    BY DEF TypeOK, Confirmed
<1>2. \A r \in Requests : Exact(r) \subseteq Segment
    <2> SUFFICES ASSUME NEW r \in Requests, NEW s \in r PROVE Normalize(s, clock) \in Segment
        BY DEF Exact
    <2>1. s \in Segment
        BY RequestType
    <2> QED
        BY <1>1, <2>1, NormalizeType
<1>3. CASE q \in [action : {"CREATE"}, booking : {NoBooking},
                  segments : {Exact(r) : r \in Requests}]
    BY <1>2, <1>3 DEF Request
<1>4. CASE q \in [action : {"UPDATE"}, booking : Confirmed,
                  segments : {{s} : s \in {x \in Segment : x.start < x.end}}]
    BY <1>1, <1>4 DEF Request
<1>5. CASE q \in [action : {"CANCEL", "END"}, booking : Confirmed, segments : {{}}]
    BY <1>1, <1>5 DEF Request
<1> QED
    BY <1>3, <1>4, <1>5 DEF Sendable

LEMMA PrepareKeeps ==
    ASSUME ApiInv, NEW k \in DOMAIN token, NEW o \in Ops, NEW q \in Sendable, Prepare(k, o, q)
    PROVE  Rows' /\ Ledger' /\ OneAnswer' /\ PendingHasToken'
<1> USE DEF ApiInv
<1>1. /\ o \notin DOMAIN history /\ o \notin DOMAIN prepared
      /\ MayWrite(k) /\ Previewed(token[k].user, q)
      /\ UNCHANGED <<vars, token, asking>>
    BY DEF Prepare, Rows
<1> DEFINE row == NewOperation(k, q)
<1>2. /\ DOMAIN prepared' = DOMAIN prepared \cup {o} /\ DOMAIN history' = DOMAIN history \cup {o}
      /\ prepared'[o] = row /\ history'[o] = [runs |-> 0, answers |-> {}]
      /\ \A p \in DOMAIN prepared : prepared'[p] = prepared[p]
      /\ \A p \in DOMAIN history : history'[p] = history[p]
    BY <1>1 DEF Prepare, With
<1>3. Repeatable(q)
    BY <1>1, PreviewedIsRepeatable
<1>4. row.token = k /\ row.request = q /\ row.status = "PENDING"
    BY DEF NewOperation
<1>5. row \in PreparedRow
    <2>1. clock + PreparedTtl \in Int /\ clock + Retention \in Int
        BY MinutesFacts, ApiAssumption DEF TypeOK
    <2>2. k \in Tokens
        BY DEF Rows
    <2>3. q \in Request
        BY SendableType
    <2>4. 0 \in 0..MaxRevision
        BY BoundAssumption
    <2> QED
        BY <2>1, <2>2, <2>3, <2>4 DEF NewOperation, PreparedRow, Codes
<1> HIDE DEF row
<1>6. Rows'
    <2>1. [runs |-> 0, answers |-> {}] \in HistoryRow
        BY DEF HistoryRow
    <2>2. /\ DOMAIN prepared' \subseteq DOMAIN history'
          /\ \A p \in DOMAIN history' : history'[p] \in HistoryRow
        BY <1>2, <2>1 DEF Rows
    <2>3. \A p \in DOMAIN prepared' :
              /\ prepared'[p] \in PreparedRow
              /\ prepared'[p].token \in DOMAIN token
              /\ Repeatable(prepared'[p].request)
        BY <1>2, <1>3, <1>4, <1>5 DEF Rows
    <2> QED
        BY <1>1, <2>2, <2>3 DEF Rows, Repeatable
<1>7. Ledger'
    BY <1>1, <1>2, <1>4 DEF Ledger, Outcome, Rows
<1>8. OneAnswer'
    BY <1>2 DEF OneAnswer
<1>9. ~token[k].revoked /\ account[token[k].user] = "ACTIVE"
    BY <1>1 DEF MayWrite, Authenticated
<1>10. PendingHasToken'
    BY <1>1, <1>2, <1>4, <1>9 DEF PendingHasToken, UserOf, vars
<1> QED
    BY <1>6, <1>7, <1>8, <1>10

LEMMA ConfirmKeeps ==
    ASSUME ApiInv, TypeOK', NEW o \in DOMAIN prepared, Confirm(o)
    PROVE  Rows' /\ Ledger' /\ OneAnswer' /\ PendingHasToken'
<1> USE DEF ApiInv
<1>1. prepared[o] \in PreparedRow /\ o \in DOMAIN history
    BY DEF Rows
<1>2. CASE \E late \in LateReads, validated \in LateReads : Execute(o, validated, late)
    <2> DEFINE row == [prepared[o] EXCEPT !.status = "COMMITTED", !.result = revision']
    <2>1. /\ prepared[o].status = "PENDING"
          /\ prepared' = [prepared EXCEPT ![o] = row]
          /\ history' = [history EXCEPT ![o].runs = @ + 1,
                                        ![o].answers = @ \cup {Outcome(prepared'[o])}]
          /\ UNCHANGED <<token, asking, account>>
        BY <1>2 DEF Execute, MayExecute, Handler, CommitBatch, UpdateBooking, CancelBooking, EndEarly
    <2>2. /\ row \in PreparedRow /\ row.status = "COMMITTED"
          /\ row.token = prepared[o].token /\ row.request = prepared[o].request
        BY <1>1, CommittedRow DEF TypeOK
    <2>3. prepared'[o] = row
        BY <2>1
    <2> HIDE DEF row
    <2>4. history[o] \in HistoryRow /\ history[o].runs = 0 /\ Outcome(row) \in Outcomes
        BY <1>1, <2>1, <2>2, OutcomeType DEF Rows, Ledger, HistoryRow
    <2> DEFINE ran == [history[o] EXCEPT !.runs = 1]
               all == history[o].answers \cup {Outcome(row)}
               entry == [ran EXCEPT !.answers = all]
    <2>5. all \in SUBSET Outcomes
        BY <2>4 DEF HistoryRow
    <2>6. ran \in HistoryRow /\ ran.runs = 1 /\ ran.answers = history[o].answers
        BY <2>4, HistoryFields
    <2>7. /\ DOMAIN history' = DOMAIN history
          /\ \A p \in DOMAIN history : p # o => history'[p] = history[p]
          /\ history'[o] = entry
        <3> DEFINE h == [history EXCEPT ![o] = ran]
        <3>1. h = [history EXCEPT ![o].runs = @ + 1]
            BY <2>4
        <3>2. history' = [h EXCEPT ![o].answers = @ \cup {Outcome(row)}]
            BY <2>1, <2>3, <3>1
        <3>3. /\ DOMAIN h = DOMAIN history /\ h[o] = ran
              /\ \A p \in DOMAIN history : p # o => h[p] = history[p]
            BY <1>1
        <3> HIDE DEF h, ran
        <3> QED
            BY <1>1, <2>6, <3>2, <3>3
    <2> HIDE DEF all, ran
    <2>8. entry \in HistoryRow /\ entry.runs = 1 /\ entry.answers = all
        BY <2>5, <2>6, HistoryFields
    <2> HIDE DEF entry
    <2> USE DEF all
    <2>9. /\ history'[o] \in HistoryRow /\ history'[o].runs = 1
          /\ history'[o].answers = history[o].answers \cup {Outcome(row)}
          /\ row.status = IF 1 = 1 THEN "COMMITTED" ELSE "REJECTED"
        BY <2>2, <2>7, <2>8
    <2> QED
        BY <2>1, <2>2, <2>7, <2>9, DecidingKeeps
<1>3. ASSUME NEW code \in Codes, prepared[o].status = "PENDING",
             prepared' = [prepared EXCEPT ![o] = Rejected(@, code)],
             Answer(o, Rejected(prepared[o], code)), UNCHANGED <<token, asking, account>>
      PROVE  Rows' /\ Ledger' /\ OneAnswer' /\ PendingHasToken'
    <2> DEFINE row == Rejected(prepared[o], code)
    <2>1. prepared' = [prepared EXCEPT ![o] = row]
        BY <1>3
    <2>2. /\ row \in PreparedRow /\ row.status = "REJECTED"
          /\ row.token = prepared[o].token /\ row.request = prepared[o].request
        BY <1>1, RejectedRow
    <2>3. history' = [history EXCEPT ![o].answers = @ \cup {Outcome(row)}]
        BY <1>3 DEF Answer
    <2> HIDE DEF row
    <2>4. history[o] \in HistoryRow /\ history[o].runs = 0 /\ Outcome(row) \in Outcomes
        BY <1>1, <1>3, <2>2, OutcomeType DEF Rows, Ledger, HistoryRow
    <2>5. history[o].answers \cup {Outcome(row)} \in SUBSET Outcomes
        BY <2>4 DEF HistoryRow
    <2>6. /\ DOMAIN history' = DOMAIN history
          /\ \A p \in DOMAIN history : p # o => history'[p] = history[p]
          /\ history'[o] \in HistoryRow /\ history'[o].runs = 0
          /\ history'[o].answers = history[o].answers \cup {Outcome(row)}
        BY <1>1, <2>3, <2>4, <2>5, AnswerAdded
    <2>7. row.status = IF 0 = 1 THEN "COMMITTED" ELSE "REJECTED"
        BY <2>2
    <2> QED
        BY <1>3, <2>1, <2>2, <2>6, <2>7, DecidingKeeps
<1>4. CASE \E late \in LateReads, validated \in LateReads : RejectChanged(o, validated, late)
    BY <1>3, <1>4 DEF RejectChanged, MayExecute, Codes
<1>5. CASE RejectExpired(o)
    BY <1>3, <1>5 DEF RejectExpired, Codes, vars
<1>6. CASE Replay(o)
    <2>1. /\ prepared[o].status # "PENDING" /\ UNCHANGED <<token, asking, prepared, account>>
          /\ history' = [history EXCEPT ![o].answers = @ \cup {Outcome(prepared[o])}]
        BY <1>6 DEF Replay, Answer, vars
    <2>2. /\ DOMAIN history' = DOMAIN history
          /\ \A p \in DOMAIN history : p # o => history'[p] = history[p]
          /\ history'[o] \in HistoryRow /\ history'[o].runs = history[o].runs
          /\ history'[o].answers = history[o].answers \cup {Outcome(prepared[o])}
        BY <1>1, <2>1, AnswerAdded, OutcomeType DEF Rows
    <2>3. history'[o].answers = {Outcome(prepared[o])}
        BY <2>2 DEF Ledger
    <2>4. Rows' /\ PendingHasToken'
        BY <2>1, <2>2 DEF Rows, PendingHasToken, UserOf
    <2>5. Ledger'
        BY <2>1, <2>2, <2>3 DEF Ledger, Outcome, Rows
    <2>6. OneAnswer'
        BY <2>2, <2>3 DEF OneAnswer
    <2> QED
        BY <2>4, <2>5, <2>6
<1> QED
    BY <1>2, <1>4, <1>5, <1>6 DEF Confirm

LEMMA ApiInvInit == ApiInit => ApiInv
<1> SUFFICES ASSUME ApiInit PROVE ApiInv
    OBVIOUS
<1>1. TypeOK
    BY InitType DEF ApiInit
<1>2. DOMAIN token = {} /\ DOMAIN prepared = {} /\ DOMAIN history = {} /\ asking = {}
    BY DEF ApiInit, NoRows
<1> QED
    BY <1>1, <1>2 DEF ApiInv, Rows, Ledger, OneAnswer, PendingHasToken

LEMMA ApiInvNext ==
    ASSUME MaxSkew \in {0, 1}, ApiInv, [ApiNext]_allVars
    PROVE  ApiInv'
<1> USE DEF ApiInv
<1>1. TypeOK'
    BY ApiStepIsStep, NextType
<1> SUFFICES Rows' /\ Ledger' /\ OneAnswer' /\ PendingHasToken'
    BY <1>1
<1>2. CASE OtherStep
    <2>1. UNCHANGED apiVars
        BY <1>2 DEF OtherStep
    <2> QED
        BY <1>2, <2>1, AccountsStay, LedgerFrame DEF apiVars, Rows
<1>3. CASE \E u \in Users : AskToken(u)
    BY <1>3, LedgerFrame DEF AskToken, Rows, vars
<1>4. CASE \E u \in Users, k \in Tokens, level \in Levels,
              expiry \in {clock + TokenLife, DistantFuture} : CreateToken(u, k, level, expiry)
    <2>1. PICK u \in Users, k \in Tokens, level \in Levels,
              expiry \in {clock + TokenLife, DistantFuture} : CreateToken(u, k, level, expiry)
        BY <1>4
    <2> DEFINE row == [user |-> u, level |-> level, expires |-> expiry, revoked |-> FALSE]
    <2>2. row \in TokenRow
        BY MinutesFacts, ApiAssumption DEF TokenRow, TypeOK
    <2>3. k \notin DOMAIN token /\ UNCHANGED <<vars, prepared, history>>
          /\ asking' \subseteq Users
          /\ token' \in {token, With(token, [x \in {k} |-> row])}
        BY <2>1 DEF CreateToken, Rows
    <2> HIDE DEF row
    <2>4. /\ DOMAIN token \subseteq DOMAIN token' /\ DOMAIN token' \subseteq Tokens
          /\ \A j \in DOMAIN token' : token'[j] \in TokenRow
          /\ \A j \in DOMAIN token : token'[j] = token[j]
        BY <2>2, <2>3 DEF With, Rows
    <2> QED
        BY <2>3, <2>4, LedgerFrame DEF vars
<1>5. CASE \E k \in DOMAIN token : RevokeToken(k)
    BY <1>5, StoppingKeeps DEF RevokeToken, vars
<1>6. CASE \E u \in Users : AccountEnds(u)
    <2>1. PICK u \in Users : AccountEnds(u)
        BY <1>6
    <2>2. \E ended \in {"DISABLED", "DELETED"} : account' = [account EXCEPT ![u] = ended]
        BY <2>1 DEF AccountEnds, DisableUser, DeleteUser
    <2>3. \A v : v # u /\ account[v] = "ACTIVE" /\ v \in Users => account'[v] = "ACTIVE"
        BY <2>2
    <2>4. /\ token' = Revoked(TokensOf(u)) /\ prepared' = StoppedWith(TokensOf(u))
          /\ UNCHANGED <<asking, history>>
        BY <2>1 DEF AccountEnds, RevokeTokensOf
    <2>5. \A k \in DOMAIN token \ TokensOf(u) :
              account[token[k].user] = "ACTIVE" => account'[token[k].user] = "ACTIVE"
        BY <2>3 DEF TokensOf, Rows, TokenRow
    <2> QED
        BY <2>4, <2>5, StoppingKeeps
<1>7. CASE \E k \in DOMAIN token, o \in Ops, q \in Sendable : Prepare(k, o, q)
    BY <1>7, PrepareKeeps
<1>8. CASE \E o \in DOMAIN prepared : Confirm(o)
    BY <1>1, <1>8, ConfirmKeeps
<1>9. CASE Cleanup
    <2>1. /\ DOMAIN prepared' \subseteq DOMAIN prepared
          /\ \A o \in DOMAIN prepared' : prepared'[o] = prepared[o]
          /\ UNCHANGED <<token, asking, history, account>>
        BY <1>9 DEF Cleanup, vars
    <2> QED
        BY <2>1 DEF Rows, Ledger, OneAnswer, PendingHasToken, UserOf, Outcome
<1>10. CASE UNCHANGED allVars
    BY <1>10, LedgerFrame DEF allVars, vars, apiVars, Rows
<1> QED
    BY <1>2, <1>3, <1>4, <1>5, <1>6, <1>7, <1>8, <1>9, <1>10
       DEF ApiNext, TokenStep, OperationStep

-----------------------------------------------------------------------------
(* The theorems *)

\* With at most one minute boundary in a transaction.
THEOREM ApiInvariant ==
    ASSUME MaxSkew \in {0, 1}
    PROVE  ApiSpec => []ApiInv
<1>1. ApiInv /\ [ApiNext]_allVars => ApiInv'
    BY ApiInvNext
<1> QED
    BY <1>1, ApiInvInit, PTL DEF ApiSpec

\* The booking core with the Open API on top is still the booking core: every step of
\* the API is a step of one of the calendar's own handlers, or changes no schedule.
THEOREM ApiImplementsScheduling ==
    ASSUME MaxSkew \in {0, 1}
    PROVE  ApiSpec => ImplementsScheduling
<1>1. ApiInit => Init
    BY DEF ApiInit
<1>2. ApiInv /\ [ApiNext]_allVars => [Next]_vars
    BY ApiStepIsStep DEF ApiInv
<1> QED
    BY <1>1, <1>2, ApiInvariant, PTL DEF ApiSpec, ImplementsScheduling

\* Operations run once, and only the committed ones have.
THEOREM RunsOnce ==
    ASSUME MaxSkew \in {0, 1}
    PROVE  ApiSpec => []ExecutedOnce
<1>1. ApiInv => ExecutedOnce
    BY DEF ApiInv, Rows, Ledger, HistoryRow, ExecutedOnce
<1> QED
    BY <1>1, ApiInvariant, PTL

\* However often a confirmation is repeated, the answer is the same.
THEOREM AnswersAgree ==
    ASSUME MaxSkew \in {0, 1}
    PROVE  ApiSpec => []OneAnswer
<1>1. ApiInv => OneAnswer
    BY DEF ApiInv
<1> QED
    BY <1>1, ApiInvariant, PTL

\* One outcome: the operation ran once or never, and its client was told which.
THEOREM OutcomeIsOne ==
    ASSUME MaxSkew \in {0, 1}
    PROVE  ApiSpec => []OneOutcome
<1>1. ApiInv => OneOutcome
    BY DEF ApiInv, Rows, Ledger, HistoryRow, ExecutedOnce, OneOutcome
<1> QED
    BY <1>1, ApiInvariant, PTL

\* What can still be confirmed belongs to a token and an account that may.
THEOREM RevokedTokensStop ==
    ASSUME MaxSkew \in {0, 1}
    PROVE  ApiSpec => []PendingHasToken
<1>1. ApiInv => PendingHasToken
    BY DEF ApiInv
<1> QED
    BY <1>1, ApiInvariant, PTL

\* What was proved of the booking core holds of a schedule that programs write to as well.
THEOREM ApiNeverDoubleBooks ==
    ASSUME MaxSkew = 0
    PROVE  ApiSpec => []NoDoubleBooking
<1>1. MaxSkew \in {0, 1}
    OBVIOUS
<1>2. ApiSpec => Spec
    BY <1>1, ApiImplementsScheduling, PTL DEF ImplementsScheduling, Spec
<1> QED
    BY <1>2, NoDoubleBookings, PTL
=============================================================================
