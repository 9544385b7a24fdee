---------------------------- MODULE BookingPage ----------------------------
(***************************************************************************)
(* The calendar page of one user.  Drafts are drawn, typed, erased and     *)
(* merged in the browser; a preview asks the server what of them is free   *)
(* and adjusts them; bookings of the user can be taken into an editing     *)
(* sequence, whose drafts replace them when the page submits.  Answers are *)
(* late or lost, a submission may be given up by the page and carried out  *)
(* by the server after all, and others book meanwhile.                     *)
(***************************************************************************)
EXTENDS Naturals, FiniteSets

CONSTANTS
    Groups,        \* the resource groups of one machine
    Targets,       \* what can be booked: sets of groups, one group or all of them
    Held,          \* the bookings the user may have at the start
    LastMinute,    \* bound: minutes are 0..LastMinute
    MaxGestures,   \* bound on what the user does; one submission may follow
    MaxChanges,    \* bound on what others do
    MaxFaults      \* bound on reads that fail and answers that are lost

ASSUME PageAssumption ==
    /\ Targets \subseteq (SUBSET Groups) \ {{}}
    /\ Held \subseteq [target : Targets, from : 0..LastMinute, to : 0..(LastMinute + 1)]
    /\ LastMinute \in Nat /\ MaxGestures \in Nat
    /\ MaxChanges \in Nat /\ MaxFaults \in Nat

VARIABLES
    now,         \* the minute, here and at the server
    others,      \* others[g]: minutes of g taken by others or closed
    own,         \* the user's bookings
    seen,        \* others and own as the timeline last read shows them
    drafts,      \* the draft ranges
    editing,     \* the bookings of the editing sequence, as they were loaded
    adding,      \* the booking being loaded for the editing sequence, in a set
    whole,       \* reservationMode: whole machines are booked, not groups
    typing,      \* a time field has the focus
    changed,     \* editingChanged: the page knows that the sequence is out of date
    uncertain,   \* submissionUncertain: the outcome of a submission is unknown
    awaited,     \* the submission the page waits for, in a set
    posts,       \* submissions the server has not seen, or has answered
    preview,     \* the read of the preview
    inspect,     \* the read that compares the editing sequence with the server
    shown,       \* the drafts shown as available
    reload,      \* the timeline has to be read
    sequence,    \* number of this sequence of drafts: one more after each reset
    commits,     \* commits[n]: how often the server booked sequence n
    selected,    \* selected[t]: minutes the user selected for t and has not withdrawn
    refused,     \* refused[t]: minutes the server found taken when asked about them
    gestures, changes, faults

server == <<now, others, own>>
page == <<drafts, editing, adding, whole, typing, changed, uncertain, awaited, shown, sequence>>
ghosts == <<commits, selected, refused>>
vars == <<server, seen, page, posts, preview, inspect, reload, ghosts, gestures, changes, faults>>

Minutes == 0..LastMinute
Range == {[from |-> x[1], to |-> x[2]] : x \in {y \in Minutes \X (0..(LastMinute + 1)) : y[1] < y[2]}}
During(r) == r.from..(r.to - 1)
Valid(d) == d.from < d.to

-----------------------------------------------------------------------------
(* Ranges and drafts *)

\* mergeTimeRanges: the fewest ranges that cover the minutes; ranges that touch are one.
Ranges(minutes) ==
    {r \in Range : /\ During(r) \subseteq minutes
                   /\ r.to \notin minutes /\ (r.from = 0 \/ r.from - 1 \notin minutes)}

DraftsOn(target, minutes) ==
    {[target |-> target, from |-> r.from, to |-> r.to] : r \in Ranges(minutes)}

Covered(ds, target) == UNION {During(d) : d \in {x \in ds : x.target = target}}

\* mergeCalendarDrafts: per target, valid drafts and additions become disjoint ranges.
Merged(ds) ==
    (UNION {DraftsOn(t, Covered(ds, t)) : t \in Targets}) \cup {d \in ds : ~Valid(d)}

Whole(target) == target = Groups

Contend(target, b) == b.target \cap target # {}

\* subtractBusyTimeRanges, and the minutes that have elapsed.
Left(r, busy) == {m \in During(r) : m >= now} \ busy

\* The minutes of a target taken in a state of the server, bookings ids apart.
Busy(state, target, ids) ==
    (UNION {state.others[g] : g \in target})
    \cup UNION {During(b) : b \in {x \in state.own : Contend(target, x) /\ x.id \notin ids}}

Server == [others |-> others, own |-> own]
Ids(bs) == {b.id : b \in bs}

\* projectDraggedRange: what the timeline shows as free of a requested range.
Projected(target, r) == Left(r, Busy(seen, target, Ids(editing)))

\* previewAvailableSegments: what the server finds free of a draft.
Free(d, ids) == Left(d, Busy(Server, d.target, ids))

\* The drafts that remain of ds: splitSegments of every one.
Available(ds, ids) ==
    UNION {DraftsOn(d.target, Free(d, ids)) : d \in ds}

\* validateNoInternalOverlap: a draft for the machine over one for a group.
Overlapping(ds) ==
    \E d, e \in ds : d # e /\ d.target \cap e.target # {} /\ During(d) \cap During(e) # {}

\* A whole machine and a group cannot be submitted together unless as an edit.
Mixed(ds) == Cardinality({Whole(d.target) : d \in ds}) > 1

\* calendarDraftIssues; the start of a draft may lie behind the clock until it advances.
Issues ==
    \/ \E d \in drafts : ~Valid(d) \/ d.from < now
    \/ Mixed(drafts) /\ editing = {}

Submitting == awaited # {}

-----------------------------------------------------------------------------
(* The reads *)

Wanted == [at |-> "wanted", asked |-> {}, answer |-> {}, current |-> TRUE, again |-> FALSE]
Idle == [Wanted EXCEPT !.at = "idle"]

\* The answer on its way, if any, is about drafts that are no longer these: the
\* request number or the snapshot of the drafts has moved on.
Outdated ==
    IF preview.at \in {"answered", "conflict"} THEN [preview EXCEPT !.current = FALSE] ELSE Wanted

\* A change of the editing sequence gives inspection a new loader, which aborts the old.
Inspection == [at |-> "wanted", verdict |-> FALSE, again |-> FALSE]

Empty == [t \in Targets |-> {}]

Init ==
    /\ now = 0
    /\ others = [g \in Groups |-> {}]
    /\ own \in {{}} \cup {{[id |-> <<0, b.target, b.from>>, target |-> b.target,
                            from |-> b.from, to |-> b.to]} : b \in Held}
    /\ seen = Server
    /\ drafts = {} /\ editing = {} /\ adding = {} /\ whole \in BOOLEAN /\ typing = FALSE
    /\ changed = FALSE /\ uncertain = FALSE /\ awaited = {} /\ posts = {}
    /\ preview = Idle /\ inspect = [Inspection EXCEPT !.at = "idle"]
    /\ shown = {} /\ reload = FALSE
    /\ sequence = 1 /\ commits = [n \in 1..(MaxGestures + 1) |-> 0]
    /\ selected = Empty /\ refused = Empty
    /\ gestures = 0 /\ changes = 0 /\ faults = 0

Gesture == gestures < MaxGestures /\ gestures' = gestures + 1 /\ UNCHANGED <<changes, faults>>
Fault == faults < MaxFaults /\ faults' = faults + 1 /\ UNCHANGED <<gestures, changes>>
System == UNCHANGED <<gestures, changes, faults>>

\* setDrafts with invalidatePreview: nothing is shown as available any more.
Redraw(ds) == drafts' = ds /\ shown' = {} /\ preview' = Outdated

Select(t, minutes) == selected' = [selected EXCEPT ![t] = @ \cup minutes]
Withdraw(t, minutes) == selected' = [selected EXCEPT ![t] = @ \ minutes]

-----------------------------------------------------------------------------
(* Drawing and typing *)

\* The mode buttons: locked by an edit and by drafts of the other mode.
MaySwitch(mode) == editing = {} /\ \A d \in drafts : Whole(d.target) = mode

\* appendDraft: the free part of what is asked for joins the drafts.
Append(target, r) ==
    LET free == Projected(target, r)
    IN  /\ Gesture
        /\ ~Submitting /\ free # {}
        /\ Redraw(Merged(drafts \cup DraftsOn(target, free)))
        /\ Select(target, free)
        /\ whole' = Whole(target)
        /\ UNCHANGED <<server, seen, editing, adding, typing, changed, uncertain, awaited, sequence,
                       posts, inspect, reload, commits, refused>>

\* The pointer on the timeline, in the mode of the page.
Drag(target, r) ==
    /\ Whole(target) = whole \/ MaySwitch(Whole(target))
    /\ Append(target, r)

\* The form, whose mode is locked by drafts only and which refuses a past start.
FillIn(target, r) ==
    /\ Whole(target) = whole \/ drafts = {}
    /\ r.from >= now
    /\ Append(target, r)

\* finishDrag with the other button: eraseCalendarDraftRange, on the targets of the mode.
Erase(target, r) ==
    LET hit == {d \in drafts : d.target = target /\ During(d) \cap During(r) # {}}
    IN  /\ Gesture
        /\ ~Submitting /\ hit # {} /\ Whole(target) = whole
        /\ Redraw((drafts \ hit) \cup UNION {DraftsOn(target, During(d) \ During(r)) : d \in hit})
        /\ Withdraw(target, During(r))
        /\ UNCHANGED <<server, seen, editing, adding, whole, typing, changed, uncertain, awaited, sequence,
                       posts, inspect, reload, commits, refused>>

\* The button of a draft that deletes it.
Remove(d) ==
    /\ Gesture
    /\ ~Submitting
    /\ Redraw(drafts \ {d})
    /\ Withdraw(d.target, During(d))
    /\ UNCHANGED <<server, seen, editing, adding, whole, typing, changed, uncertain, awaited, sequence,
                   posts, inspect, reload, commits, refused>>

Focus ==
    /\ Gesture
    /\ ~Submitting /\ ~typing /\ drafts # {}
    /\ typing' = TRUE
    /\ Redraw(drafts)
    /\ UNCHANGED <<server, seen, editing, adding, whole, changed, uncertain, awaited, sequence,
                   posts, inspect, reload, ghosts>>

Blur ==
    /\ typing
    /\ typing' = FALSE
    /\ preview' = Outdated
    /\ UNCHANGED <<server, seen, drafts, editing, adding, whole, changed, uncertain, awaited, shown, sequence,
                   posts, inspect, reload, ghosts>> /\ System

\* updateDraftTime: what replaces a draft whose times are now those of e.
Retimed(e) ==
    LET free == Projected(e.target, e)
    IN  IF Valid(e) /\ free # {} THEN DraftsOn(e.target, free) ELSE {e}

\* A start in the past becomes the current minute.
Typed(d) ==
    {[d EXCEPT !.from = m] : m \in {x \in Minutes : x >= now}}
    \cup {[d EXCEPT !.to = m] : m \in 0..(LastMinute + 1)}

Retime(d, e) ==
    /\ Gesture
    /\ ~Submitting /\ typing
    /\ LET rest == (drafts \ {d}) \cup Retimed(e)
       IN  Redraw(IF Valid(e) THEN Merged(rest) ELSE rest)
    /\ selected' = [selected EXCEPT ![d.target] =
                      (@ \ During(d)) \cup Covered(Retimed(e), d.target)]
    /\ UNCHANGED <<server, seen, editing, adding, whole, typing, changed, uncertain, awaited, sequence,
                   posts, inspect, reload, commits, refused>>

\* resetReservationDetailsState
Reset ==
    /\ drafts' = {} /\ editing' = {} /\ shown' = {}
    /\ typing' = FALSE /\ changed' = FALSE /\ uncertain' = FALSE
    /\ sequence' = sequence + 1
    /\ selected' = Empty /\ refused' = Empty
    /\ preview' = Outdated /\ inspect' = Inspection

\* clearReservationDetailsWithConfirmation
Clear ==
    /\ Gesture
    /\ ~Submitting /\ drafts \cup editing # {}
    /\ Reset
    /\ UNCHANGED <<server, seen, adding, whole, awaited, posts, reload, commits>>

\* advanceCalendarDrafts: a draft that begins now or earlier moves with the clock.
Advanced ==
    {IF d.from < now THEN [d EXCEPT !.from = now] ELSE d :
        d \in {x \in drafts : x.from > now \/ x.to > now}}

Advance ==
    /\ ~typing /\ ~Submitting
    /\ Advanced # drafts
    /\ Redraw(Merged(Advanced))
    /\ UNCHANGED <<server, seen, editing, adding, whole, typing, changed, uncertain, awaited, sequence,
                   posts, inspect, reload, ghosts>> /\ System

-----------------------------------------------------------------------------
(* The editing sequence *)

\* requestEditingReservation up to its await.
BeginEdit(b) ==
    /\ Gesture
    /\ b.id \notin Ids(editing) /\ adding = {} /\ ~Submitting
    /\ adding' = {b.id}
    /\ UNCHANGED <<server, seen, drafts, editing, whole, typing, changed, uncertain, awaited, shown, sequence,
                   posts, preview, inspect, reload, ghosts>>

\* requestEditingReservation after its await: the booking joins the sequence and its
\* remaining minutes the drafts, whatever the page has done since.
FinishEdit ==
    LET loaded == {b \in own : b.id \in adding /\ b.to > now}
        rest(b) == {m \in During(b) : m >= now}
    IN  /\ adding # {}
        /\ adding' = {}
        /\ \/ /\ loaded = {}
              /\ UNCHANGED <<drafts, editing, whole, shown, preview, inspect, selected>>
           \/ \E b \in loaded :
                 /\ editing' = editing \cup {b}
                 /\ Redraw(Merged(drafts \cup DraftsOn(b.target, rest(b))))
                 /\ Select(b.target, rest(b))
                 /\ whole' = IF editing \cup drafts = {} THEN Whole(b.target) ELSE whole
                 /\ inspect' = Inspection
        /\ UNCHANGED <<server, seen, typing, changed, uncertain, awaited, sequence,
                       posts, reload, commits, refused>> /\ System

\* The button that takes a booking out of the sequence; its drafts stay.
LeaveEdit(b) ==
    /\ Gesture
    /\ ~Submitting
    /\ editing' = editing \ {b}
    /\ shown' = {} /\ preview' = Outdated
    /\ inspect' = Inspection
    /\ UNCHANGED <<server, seen, drafts, adding, whole, typing, changed, uncertain, awaited, sequence,
                   posts, reload, ghosts>>

\* The server accepts the originals of an edit as they were loaded, while they last.
Current(bs) == \A b \in bs : b \in own /\ b.to > now
\* An original that is no longer confirmed is not found; any other difference is a conflict.
Gone(bs) == \E b \in bs : b.id \notin Ids(own)
Differs(bs) == \E b \in bs : b.id \in Ids(own) /\ (b \notin own \/ b.to <= now)

\* inspectEditingReservations
SendInspect ==
    /\ inspect.at = "wanted"
    /\ \/ /\ editing = {}
          /\ inspect' = [inspect EXCEPT !.at = "idle"]
          /\ changed' = FALSE
          /\ preview' = IF changed THEN Outdated ELSE preview
       \/ /\ editing # {}
          /\ inspect' = [Inspection EXCEPT !.at = "answered", !.verdict = ~Current(editing)]
          /\ UNCHANGED <<changed, preview>>
    /\ UNCHANGED <<server, seen, drafts, editing, adding, whole, typing, uncertain, awaited, shown, sequence,
                   posts, reload, ghosts>> /\ System

DeliverInspect ==
    /\ inspect.at = "answered"
    /\ changed' = inspect.verdict
    /\ inspect' = [Inspection EXCEPT !.at = IF inspect.again THEN "wanted" ELSE "idle"]
    /\ preview' = IF changed # inspect.verdict THEN Outdated ELSE preview
    /\ UNCHANGED <<server, seen, drafts, editing, adding, whole, typing, uncertain, awaited, shown, sequence,
                   posts, reload, ghosts>> /\ System

\* A failed read is tried again after five seconds.
FailInspect ==
    /\ Fault
    /\ inspect.at = "answered"
    /\ inspect' = [Inspection EXCEPT !.at = "retry"]
    /\ UNCHANGED <<server, seen, page, posts, preview, reload, ghosts>>

RetryInspect ==
    /\ inspect.at = "retry"
    /\ inspect' = Inspection
    /\ UNCHANGED <<server, seen, page, posts, preview, reload, ghosts>> /\ System

\* The effect that watches the clock: an original has ended.
NoticeEnd ==
    /\ ~changed /\ \E b \in editing : b.to <= now
    /\ changed' = TRUE
    /\ preview' = Outdated
    /\ UNCHANGED <<server, seen, drafts, editing, adding, whole, typing, uncertain, awaited, shown, sequence,
                   posts, inspect, reload, ghosts>> /\ System

-----------------------------------------------------------------------------
(* The preview *)

\* fetchDraftPreview asks only for drafts that are complete and may be submitted.
MayPreview ==
    /\ drafts # {} /\ \A d \in drafts : Valid(d)
    /\ ~typing /\ ~Submitting /\ ~uncertain /\ ~changed

\* fetchDraftPreview up to the answer of the server.
SendPreview ==
    /\ preview.at = "wanted" /\ MayPreview
    /\ \/ /\ Current(editing) /\ (editing = {} \/ ~Overlapping(drafts))
          /\ preview' = [Wanted EXCEPT !.at = "answered", !.asked = drafts,
                                       !.answer = Available(drafts, Ids(editing))]
          /\ refused' = [t \in Targets |->
                refused[t] \cup (Covered(drafts, t) \cap Busy(Server, t, Ids(editing)))]
       \/ /\ Differs(editing)
          /\ preview' = [Wanted EXCEPT !.at = "conflict"]
          /\ UNCHANGED refused
       \/ /\ Gone(editing) \/ (editing # {} /\ Overlapping(drafts))
          /\ preview' = [Wanted EXCEPT !.at = "retry"]
          /\ UNCHANGED refused
    /\ UNCHANGED <<server, seen, page, posts, inspect, reload, commits, selected>> /\ System

\* Mutant of Discarded: any answer is taken for an answer to the drafts shown now.
DiscardedNever == FALSE

\* The checks after the await: request number, snapshot of drafts and editing sequence.
Discarded == ~preview.current

\* fetchDraftPreview after its await: adjustDraftsToAvailability or previewsByDraftId.
DeliverPreview ==
    /\ preview.at \in {"answered", "conflict"}
    /\ \/ /\ Discarded
          /\ preview' = Wanted
          /\ UNCHANGED <<drafts, shown, changed>>
       \/ /\ ~Discarded /\ preview.at = "conflict"
          /\ changed' = TRUE
          /\ preview' = Wanted
          /\ UNCHANGED <<drafts, shown>>
       \/ /\ ~Discarded /\ preview.at = "answered"
          /\ drafts' = preview.answer
          /\ shown' = IF preview.answer = preview.asked THEN preview.asked ELSE {}
          /\ preview' = IF preview.answer # preview.asked \/ preview.again THEN Wanted ELSE Idle
          /\ UNCHANGED changed
    /\ UNCHANGED <<server, seen, editing, adding, whole, typing, uncertain, awaited, sequence,
                   posts, inspect, reload, ghosts>> /\ System

FailPreview ==
    /\ Fault
    /\ preview.at \in {"answered", "conflict"}
    /\ preview' = [Wanted EXCEPT !.at = IF Discarded THEN "wanted" ELSE "retry"]
    /\ UNCHANGED <<server, seen, page, posts, inspect, reload, ghosts>>

RetryPreview ==
    /\ preview.at = "retry"
    /\ preview' = Wanted
    /\ UNCHANGED <<server, seen, page, posts, inspect, reload, ghosts>> /\ System

-----------------------------------------------------------------------------
(* The submission *)

\* The submit button is disabled while the preview of these drafts is on its way.
Previewing == preview.at \in {"answered", "conflict"} /\ preview.current

\* Mutant of MaySubmit: the page submits again although it does not know the outcome.
MaySubmitUnsure ==
    /\ drafts # {} /\ ~Issues
    /\ ~Submitting /\ ~changed /\ ~typing /\ ~Previewing

\* submitDrafts up to its await
MaySubmit ==
    /\ drafts # {} /\ ~Issues
    /\ ~Submitting /\ ~changed /\ ~uncertain /\ ~typing /\ ~Previewing

Submit ==
    /\ gestures <= MaxGestures /\ gestures' = gestures + 1 /\ UNCHANGED <<changes, faults>>
    /\ MaySubmit
    /\ awaited' = {sequence}
    /\ posts' = posts \cup {[of |-> sequence, drafts |-> drafts, editing |-> editing, at |-> "sent"]}
    /\ preview' = Outdated
    /\ UNCHANGED <<server, seen, drafts, editing, adding, whole, typing, changed, uncertain, shown, sequence,
                   inspect, reload, ghosts>>

\* Mutant of Event: a preview that is on its way is taken for new enough.
EventMissed ==
    /\ reload' = TRUE
    /\ preview' = IF preview.at \in {"answered", "conflict"} \/ drafts = {} THEN preview ELSE Wanted
    /\ inspect' = IF inspect.at = "answered" THEN [inspect EXCEPT !.again = TRUE]
                  ELSE IF editing = {} THEN inspect ELSE Inspection

\* The change event, to all three reads; one under way runs once more.  An event that is
\* late does nothing that a read which is late would not.
Event ==
    /\ reload' = TRUE
    /\ preview' = IF preview.at \in {"answered", "conflict"} THEN [preview EXCEPT !.again = TRUE]
                  ELSE IF drafts = {} THEN preview ELSE Wanted
    /\ inspect' = IF inspect.at = "answered" THEN [inspect EXCEPT !.again = TRUE]
                  ELSE IF editing = {} THEN inspect ELSE Inspection

\* The originals of an edit: what has elapsed of them stays, the rest goes.
Replaced(bs) == (own \ bs) \cup {[b EXCEPT !.to = now] : b \in {x \in bs : x.from < now}}

\* commitReservationBatch and replaceMultipleReservations with autoAdjust
Books(p) ==
    LET free == Available(p.drafts, Ids(p.editing))
    IN  /\ Current(p.editing) /\ ~Overlapping(p.drafts) /\ free # {}
        /\ own' = Replaced(p.editing) \cup
               {[id |-> <<p.of, d.target, d.from>>, target |-> d.target, from |-> d.from, to |-> d.to]
                  : d \in free}
        /\ commits' = [commits EXCEPT ![p.of] = @ + 1]
        /\ Event

\* How the server may answer a submission that it does not carry out.
Refusals(p) ==
    IF Gone(p.editing) \/ Differs(p.editing)
    THEN {x \in {"error"} : Gone(p.editing)} \cup {x \in {"conflict"} : Differs(p.editing)}
    ELSE IF Overlapping(p.drafts) THEN {"error"}
    ELSE {x \in {"nothing"} : Available(p.drafts, Ids(p.editing)) = {}}

\* The answer to a submission the page no longer waits for goes nowhere.
Answered(p, outcome) ==
    posts' = (posts \ {p}) \cup {x \in {[p EXCEPT !.at = outcome]} : p.of \in awaited}

ServerTakes(p) ==
    /\ p.at = "sent"
    /\ \/ Books(p) /\ Answered(p, "booked")
       \/ /\ \E outcome \in Refusals(p) : Answered(p, outcome)
          /\ UNCHANGED <<own, commits, preview, inspect, reload>>
    /\ UNCHANGED <<now, others, seen, page, selected, refused>> /\ System

\* submitDrafts after its await, by the answer.
Learns(p) ==
    \/ /\ p.at = "booked"
       /\ Reset
    \/ /\ p.at = "nothing"
       /\ Redraw({})
       /\ selected' = Empty
       /\ inspect' = Inspection
       /\ UNCHANGED <<editing, typing, changed, uncertain, sequence, refused>>
    \/ /\ p.at \in {"conflict", "error"}
       /\ changed' = (changed \/ (p.at = "conflict" /\ p.editing # {}))
       /\ preview' = Outdated
       /\ inspect' = Inspection
       /\ UNCHANGED <<drafts, shown, editing, typing, uncertain, sequence, selected, refused>>

Answer(p) ==
    /\ p.at # "sent" /\ p.of \in awaited
    /\ awaited' = {}
    /\ posts' = posts \ {p}
    /\ Learns(p)
    /\ UNCHANGED <<server, seen, adding, whole, reload, commits>> /\ System

\* No answer in fifteen seconds, a broken connection or a failure of the server.  The
\* request may have been lost, carried out, or be on its way still.
GiveUp(p) ==
    /\ Fault
    /\ p.of \in awaited
    /\ awaited' = {}
    /\ uncertain' = TRUE
    /\ posts' = posts \ {p} \/ (p.at = "sent" /\ posts' = posts)
    /\ preview' = Outdated /\ inspect' = Inspection
    /\ UNCHANGED <<server, seen, drafts, editing, adding, whole, typing, changed, shown, sequence,
                   reload, ghosts>>

-----------------------------------------------------------------------------
(* Events and others *)

\* loadTimeline; when it fails, nothing tries it again before the next event.
LoadTimeline ==
    /\ reload
    /\ reload' = FALSE
    /\ \/ System /\ seen' = Server /\ preview' = IF drafts = {} THEN preview ELSE Outdated
       \/ Fault /\ UNCHANGED <<seen, preview>>
    /\ UNCHANGED <<server, page, posts, inspect, ghosts>>

\* Others take a minute or give one back.
OthersMove(g, m) ==
    /\ changes < MaxChanges /\ changes' = changes + 1
    /\ m >= now /\ \A b \in own : g \notin b.target \/ m \notin During(b)
    /\ others' = [others EXCEPT ![g] = IF m \in @ THEN @ \ {m} ELSE @ \cup {m}]
    /\ Event
    /\ UNCHANGED <<now, own, seen, page, posts, ghosts, gestures, faults>>

\* A booking of the user is cancelled, ended or trimmed elsewhere.
OwnTrimmed(b, m) ==
    /\ changes < MaxChanges /\ changes' = changes + 1
    /\ now <= m /\ b.from <= m /\ m < b.to
    /\ own' = (own \ {b}) \cup {[x EXCEPT !.to = m] : x \in {y \in {b} : y.from < m}}
    /\ Event
    /\ UNCHANGED <<now, others, seen, page, posts, ghosts, gestures, faults>>

Tick ==
    /\ now < LastMinute
    /\ now' = now + 1
    /\ UNCHANGED <<others, own, seen, page, posts, preview, inspect, reload, ghosts>> /\ System

User ==
    \/ \E t \in Targets, r \in Range : Drag(t, r) \/ FillIn(t, r) \/ Erase(t, r)
    \/ \E d \in drafts : Remove(d) \/ \E e \in Typed(d) : Retime(d, e)
    \/ \E b \in seen.own : BeginEdit(b)
    \/ \E b \in editing : LeaveEdit(b)
    \/ Focus \/ Blur \/ Clear \/ Submit

Page ==
    \/ Advance \/ FinishEdit \/ NoticeEnd
    \/ SendPreview \/ DeliverPreview \/ RetryPreview
    \/ SendInspect \/ DeliverInspect \/ RetryInspect
    \/ LoadTimeline
    \/ \E p \in posts : ServerTakes(p) \/ Answer(p)

Elsewhere ==
    \/ \E g \in Groups, m \in Minutes : OthersMove(g, m)
    \/ \E b \in own, m \in Minutes : OwnTrimmed(b, m)
    \/ Tick \/ FailPreview \/ FailInspect \/ \E p \in posts : GiveUp(p)

Next == User \/ Page \/ Elsewhere

Spec == Init /\ [][Next]_vars

\* Effects run, timers fire, events arrive and requests that are not lost are answered.
Fairness ==
    /\ WF_vars(Advance) /\ WF_vars(FinishEdit) /\ WF_vars(NoticeEnd)
    /\ WF_vars(SendPreview) /\ WF_vars(DeliverPreview) /\ WF_vars(RetryPreview)
    /\ WF_vars(SendInspect) /\ WF_vars(DeliverInspect) /\ WF_vars(RetryInspect)
    /\ WF_vars(LoadTimeline)
    /\ WF_vars(\E p \in posts : ServerTakes(p) \/ Answer(p))

FairSpec == Spec /\ Fairness

-----------------------------------------------------------------------------
(* Properties *)

\* The drafts are what the user selected and has not withdrawn, no more and no less, but
\* for minutes that have elapsed and minutes the server said are taken: merging, erasing,
\* typing, adjusting to late previews and the clock (useCalendarController.ts, calendar-state.ts)
\* neither invent a minute nor lose one.  So does what is submitted.
DraftsAreSelection ==
    \A t \in Targets :
        /\ Covered(drafts, t) \subseteq selected[t]
        /\ selected[t] \subseteq Covered(drafts, t) \cup refused[t] \cup 0..now

\* A sequence of drafts is booked at most once, whatever becomes of requests and answers
\* (submittingRef, submissionUncertain and the reset that follows a success).
BookedOnce == \A n \in DOMAIN commits : commits[n] <= 1

\* There is something to preview, and the preview is as the server has it.
Previewed ==
    \/ ~MayPreview
    \/ editing # {} /\ Overlapping(drafts)
    \/ shown = drafts /\ \A d \in drafts : Free(d, Ids(editing)) = During(d)

\* Again and again the preview agrees with the server, and the page knows whether its
\* editing sequence is out of date, however many reads fail and events overlap.
PageCatchesUp == []<>Previewed /\ []<>(changed \/ Current(editing))

=============================================================================
