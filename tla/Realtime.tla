------------------------------ MODULE Realtime ------------------------------
(***************************************************************************)
(* How a page keeps up with the database (server/realtime-changes.ts,      *)
(* server/index.ts, src/realtime.ts, src/refresh-queue.ts,                 *)
(* src/useRealtimeRefresh.ts, src/app/useSession.ts).                      *)
(*                                                                         *)
(* Triggers write what changed to a journal.  Every second, and after      *)
(* every request, the journal is emptied and each event stream that is     *)
(* concerned gets an event with scopes, never data.  The page reads again: *)
(* one read at a time and one more afterwards.  Streams break, unseen at   *)
(* first by either side, the server restarts and loses the journal, pages  *)
(* are hidden.                                                             *)
(*                                                                         *)
(* One page of one user, with the view "session" (what the user may see)   *)
(* or "timeline" (the bookings of those machines in a window of time);     *)
(* pages share nothing but the journal, which is emptied for all at once.  *)
(* A machine has at most one booking, of one slot.  Administrators,        *)
(* machine deletion and the other kinds of rows and topics are left out.   *)
(***************************************************************************)
EXTENDS Naturals, Sequences, FiniteSets, FiniteSetsExt

CONSTANTS
    Machines,
    Slots,        \* 1..n: places in time (MCRealtime's SlotsAreTimes)
    Window,       \* the slots the timeline shows
    MaxChanges    \* bound: changes of the data, and restarts

VARIABLES
    place,        \* reservations: machine -> slot, 0 without one
    member,       \* machine_access_memberships of the user
    lapsed,       \* those that have expired
    noticed,      \* expiredAccess: those the server has announced as expired
    live,         \* the session
    changes,      \* history: how often the data changed or the server restarted
    journal,      \* realtime_changes
    listening,    \* eventClients: the page's stream, on the server
    wire,         \* events written and not yet received
    topic,        \* the view of the page
    link,         \* its EventSource: "open", "away" (comes back by itself), "closed"
    hidden,
    wanted, urgent, timer, reading,   \* RefreshQueue: args, urgent, timer, controller
    asked,        \* history: changes when the newest waiting request was made
    shown,        \* what the page shows
    heard         \* history: changes when the rights change the page last heard of was read

data == <<place, member, lapsed, live, changes>>
server == <<noticed, journal, listening>>
queue == <<wanted, urgent, timer, reading, asked>>
page == <<link, hidden, shown, heard>>
vars == <<data, server, wire, topic, queue, page>>

Row == [kind : {"schedule"}, machine : Machines, slot : Slots]
       \cup [kind : {"access", "accessGranted"}, machine : Machines, slot : {0}]
       \cup [kind : {"session"}]

All == "all"
Scope == [topic : {"session", "timeline"}, machine : Machines \cup {All}, slots : SUBSET Slots]
Event == [scopes : SUBSET Scope, accessChanged : BOOLEAN, ended : BOOLEAN, at : 0..MaxChanges]

Visible == member \ lapsed

\* What the view shows when it is up to date
View == IF topic = "session" THEN [seen |-> Visible, booked |-> {}]
        ELSE [seen |-> Visible, booked |-> {m \in Visible : place[m] \in Window}]

Idle == [phase |-> "none"]
Loading == [state |-> "loading"]   \* also: rights changed, nothing is shown until they are read
Failed == [state |-> "error"]
Out == [state |-> "out"]           \* the login page
Shows(value) == [state |-> "shown", value |-> value]

-----------------------------------------------------------------------------
(* The data; better-sqlite3 runs a request's transaction in one go, triggers included *)

Changed(rows) ==
    /\ changes < MaxChanges
    /\ changes' = changes + 1
    /\ journal' = journal \cup rows
    /\ UNCHANGED <<noticed, listening, wire, topic, queue, page>>

\* A booking is made, moved or cancelled: the old range and the new one are noted.  (Only
\* the timeline shows bookings.)
Book(m, s) ==
    /\ topic = "timeline"
    /\ s # place[m]
    /\ place' = [place EXCEPT ![m] = s]
    /\ Changed({[kind |-> "schedule", machine |-> m, slot |-> t] : t \in {place[m], s} \ {0}})
    /\ UNCHANGED <<member, lapsed, live>>

Grant(m) ==
    /\ m \notin Visible
    /\ member' = member \cup {m}
    /\ lapsed' = lapsed \ {m}
    /\ Changed({[kind |-> "accessGranted", machine |-> m, slot |-> 0]})
    /\ UNCHANGED <<place, live>>

Revoke(m) ==
    /\ m \in member
    /\ member' = member \ {m}
    /\ lapsed' = lapsed \ {m}
    /\ Changed({[kind |-> "access", machine |-> m, slot |-> 0]})
    /\ UNCHANGED <<place, live>>

\* A membership reaches its expiry date: no row changes.
Lapse(m) ==
    /\ m \in Visible
    /\ lapsed' = lapsed \cup {m}
    /\ Changed({})
    /\ UNCHANGED <<place, member, live>>

\* Logged out, or taken away (a row is deleted); or expired (none is).
EndSession(rows) ==
    /\ live
    /\ live' = FALSE
    /\ Changed(rows)
    /\ UNCHANGED <<place, member, lapsed>>

-----------------------------------------------------------------------------
(* The server *)

\* refreshAccessExpiry, every 15 s
AccessBoundary ==
    /\ noticed # lapsed
    /\ journal' = journal \cup {[kind |-> "access", machine |-> m, slot |-> 0] :
                                   m \in (noticed \ lapsed) \cup (lapsed \ noticed)}
    /\ noticed' = lapsed
    /\ UNCHANGED <<data, listening, wire, topic, queue, page>>

\* One scope per machine: from the first to the last of the ranges
Hull(slots) == Min(slots)..Max(slots)

Everything == {[topic |-> t, machine |-> All, slots |-> Slots] : t \in {"session", "timeline"}}

\* The scopes of drain for this user
Scopes ==
    LET booked(m) == {r.slot : r \in {q \in journal : q.kind = "schedule" /\ q.machine = m}}
    IN (IF \E r \in journal : r.kind \in {"access", "accessGranted"} THEN Everything ELSE {})
       \cup {[topic |-> "session", machine |-> All, slots |-> Slots] :
                r \in {q \in journal : q.kind = "session"}}
       \cup {[topic |-> "timeline", machine |-> m, slots |-> Hull(booked(m))] :
                m \in {n \in Visible : booked(n) # {}}}

Full == [scopes |-> Everything, accessChanged |-> FALSE, ended |-> FALSE, at |-> 0]
Ended == [scopes |-> {s \in Everything : s.topic = "session"}, accessChanged |-> TRUE,
          ended |-> TRUE, at |-> 0]

Note ==
    LET revoked == \E r \in journal : r.kind = "access"
    IN [scopes |-> Scopes, accessChanged |-> revoked, ended |-> FALSE,
        at |-> IF revoked THEN changes ELSE 0]

Drain ==
    /\ journal # {}
    /\ IF ~listening THEN UNCHANGED <<listening, wire>>
       ELSE IF ~live THEN wire' = Append(wire, Ended) /\ listening' = FALSE
       ELSE wire' = (IF Scopes = {} THEN wire ELSE Append(wire, Note)) /\ UNCHANGED listening
    /\ journal' = {}
    /\ UNCHANGED <<data, noticed, topic, queue, page>>

\* Every 25 s a stream whose session has gone is told and closed.
Heartbeat ==
    /\ listening /\ ~live
    /\ wire' = Append(wire, Ended)
    /\ listening' = FALSE
    /\ UNCHANGED <<data, noticed, journal, topic, queue, page>>

\* Mutant of Connected: the stream starts with the next change.
ConnectedSilently == wire' = <<>> /\ listening' = TRUE /\ link' = "open"

Connected == wire' = <<Full>> /\ listening' = TRUE /\ link' = "open"

\* GET events: refused without a session, or when there are too many streams; an
\* EventSource that was refused does not try again.
Connect ==
    /\ link = "away" /\ shown # Out
    /\ \/ live /\ Connected
       \/ link' = "closed" /\ UNCHANGED <<wire, listening>>
    /\ UNCHANGED <<data, noticed, journal, topic, queue, hidden, shown, heard>>

\* The server loses the stream; what it wrote may still arrive.
StreamLost ==
    /\ listening
    /\ listening' = FALSE
    /\ UNCHANGED <<data, noticed, journal, wire, topic, queue, page>>

\* The journal and what was announced are kept in memory.
Restart ==
    /\ changes < MaxChanges
    /\ changes' = changes + 1
    /\ listening' = FALSE
    /\ noticed' = lapsed
    /\ journal' = {[kind |-> "access", machine |-> m, slot |-> 0] : m \in lapsed}
    /\ UNCHANGED <<place, member, lapsed, live, wire, topic, queue, page>>

-----------------------------------------------------------------------------
(* RefreshQueue: the next state of a queue, given what it becomes *)

\* schedule: a timer unless a read is in flight, which schedules when it ends
Schedules(nowWanted, nowUrgent, nowReading, nowHidden) ==
    timer' = (timer \/ (nowWanted /\ nowReading = Idle /\ (~nowHidden \/ nowUrgent)))

\* Mutant of Requests: whoever asks while a read is in flight shares its answer.
RequestsShared(nowReading, soon, nowHidden) ==
    IF nowReading = Idle
    THEN /\ wanted' = TRUE
         /\ urgent' = (urgent \/ soon)
         /\ asked' = changes
         /\ reading' = nowReading
         /\ Schedules(TRUE, urgent \/ soon, nowReading, nowHidden)
    ELSE reading' = [nowReading EXCEPT !.since = changes] /\ UNCHANGED <<wanted, urgent, timer, asked>>

Requests(nowReading, soon, nowHidden) ==
    /\ wanted' = TRUE
    /\ urgent' = (urgent \/ soon)
    /\ asked' = changes
    /\ reading' = nowReading
    /\ Schedules(TRUE, urgent \/ soon, nowReading, nowHidden)

\* flush: a page that was hidden meanwhile keeps the request for later.
Fire ==
    /\ timer
    /\ timer' = FALSE
    /\ IF wanted /\ (~hidden \/ urgent)
       THEN /\ reading' = [phase |-> "sent", since |-> asked, aborted |-> FALSE]
            /\ wanted' = FALSE /\ urgent' = FALSE /\ asked' = 0
       ELSE UNCHANGED <<wanted, urgent, reading, asked>>
    /\ UNCHANGED <<data, server, wire, topic, page>>

\* The server answers the read.
Serve ==
    /\ reading.phase = "sent"
    /\ reading' = [phase |-> "answered", since |-> reading.since, aborted |-> reading.aborted,
                   at |-> changes, authorized |-> live, value |-> View]
    /\ UNCHANGED <<data, server, wire, topic, page, wanted, urgent, timer, asked>>

ReadEnds ==
    /\ reading' = Idle
    /\ Schedules(wanted, urgent, Idle, hidden)
    /\ UNCHANGED <<data, server, wire, topic, link, hidden, heard, wanted, urgent, asked>>

\* Mutant of Overtaken: an answer that was on its way is taken all the same.
NeverOvertaken == FALSE

\* An aborted read ends without its answer.
Overtaken == reading.aborted

Finish ==
    /\ reading.phase = "answered"
    /\ ReadEnds
    /\ IF Overtaken \/ shown = Out THEN UNCHANGED shown
       ELSE IF reading.authorized THEN shown' = Shows(reading.value)
       ELSE shown' = IF topic = "session" THEN Out ELSE Failed

\* No answer within the deadline, or a broken one
Fail ==
    /\ reading # Idle
    /\ ReadEnds
    /\ shown' = IF reading.aborted \/ shown = Out THEN shown ELSE Failed

-----------------------------------------------------------------------------
(* The page *)

Aborted == IF reading = Idle THEN reading ELSE [reading EXCEPT !.aborted = TRUE]

\* affectsRealtime
Affects(event) ==
    \E s \in event.scopes :
       s.topic = topic /\ (topic = "timeline" => s.slots \cap Window # {})

\* publishEvent: a hidden page hears only of its rights.
Reaches(event) == ~hidden \/ event.accessChanged \/ event.ended

Deliver ==
    /\ link = "open" /\ wire # <<>>
    /\ wire' = Tail(wire)
    /\ LET event == Head(wire)
           soon == event.accessChanged /\ topic = "session"
       IN IF ~Reaches(event) THEN UNCHANGED <<queue, page>>
          ELSE /\ link' = IF event.ended THEN "closed" ELSE link
               /\ heard' = IF soon /\ ~event.ended THEN event.at ELSE heard
               /\ shown' = IF event.ended THEN Out
                           ELSE IF soon /\ shown # Out THEN Loading ELSE shown
               /\ IF event.ended
                  THEN reading' = Aborted /\ UNCHANGED <<wanted, urgent, timer, asked>>
                  ELSE IF soon THEN Requests(Aborted, TRUE, hidden)
                  ELSE IF Affects(event) THEN Requests(reading, FALSE, hidden)
                  ELSE UNCHANGED queue
               /\ UNCHANGED hidden
    /\ UNCHANGED <<data, server, topic>>

\* The page finds its stream broken; what was still under way is lost.
Notice ==
    /\ link = "open" /\ ~listening
    /\ link' = "away"
    /\ wire' = <<>>
    /\ UNCHANGED <<data, server, topic, queue, hidden, shown, heard>>

Hide ==
    /\ ~hidden
    /\ hidden' = TRUE
    /\ UNCHANGED <<data, server, wire, topic, queue, link, shown, heard>>

\* A page that comes to the front reads again.
Show ==
    /\ hidden /\ shown # Out
    /\ hidden' = FALSE
    /\ Requests(reading, FALSE, FALSE)
    /\ UNCHANGED <<data, server, wire, topic, link, shown, heard>>

\* Every 30 s without a stream, and some seconds after a failed read of the session
Poll ==
    /\ shown # Out
    /\ \/ link # "open" /\ ~hidden
       \/ topic = "session" /\ shown = Failed
    /\ ~wanted
    /\ Requests(reading, FALSE, hidden)
    /\ UNCHANGED <<data, server, wire, topic, page>>

-----------------------------------------------------------------------------
Init ==
    /\ place = [m \in Machines |-> Min(Slots)] /\ member = Machines /\ lapsed = {} /\ live = TRUE
    /\ changes = 0 /\ noticed = {} /\ journal = {} /\ listening = FALSE /\ wire = <<>>
    /\ topic \in {"session", "timeline"}
    /\ link = "away" /\ hidden = FALSE
    /\ wanted = TRUE /\ urgent = FALSE /\ timer = TRUE /\ reading = Idle /\ asked = 0
    /\ shown = Loading /\ heard = 0

Next ==
    \/ \E m \in Machines, s \in Slots \cup {0} : Book(m, s)
    \/ \E m \in Machines : Grant(m) \/ Revoke(m) \/ Lapse(m)
    \/ EndSession({[kind |-> "session"]}) \/ EndSession({})
    \/ AccessBoundary \/ Drain \/ Heartbeat \/ Connect \/ StreamLost \/ Restart
    \/ Fire \/ Serve \/ Finish \/ Fail
    \/ Deliver \/ Notice \/ Hide \/ Show \/ Poll

Spec == Init /\ [][Next]_vars

\* Timers fire; a stream carries what is written, and a broken one is found broken; not every
\* read fails; a page that comes to the front now and then stays there for its 200 ms.
Fairness ==
    /\ WF_vars(AccessBoundary) /\ WF_vars(Drain) /\ WF_vars(Heartbeat)
    /\ WF_vars(Notice) /\ WF_vars(Connect) /\ WF_vars(Poll)
    /\ SF_vars(Deliver) /\ SF_vars(~hidden /\ Fire) /\ WF_vars(Fire)
    /\ SF_vars(Serve) /\ SF_vars(Finish)

FairSpec == Spec /\ Fairness

-----------------------------------------------------------------------------
(* Properties *)

\* Whoever waits for a refresh, to see what was just saved, gets data read after asking.
AnswerIsFresh == reading'.phase = "answered" => reading'.since <= reading'.at

\* Once the page has heard that rights changed it never shows what was read before; once
\* it has heard that the session ended it shows nothing.
RightsRechecked ==
    topic = "session" /\ shown'.state = "shown" /\ shown' # shown => reading.at >= heard

\* Answers are as new as what they answer: a request of the user, or word of a change.
AnswersCurrent == [][AnswerIsFresh /\ RightsRechecked]_vars

Current ==
    \/ shown = Out /\ ~live
    \/ shown.state = "shown" /\ live /\ shown.value = View

\* Whatever breaks, a page that is not hidden comes to show the current data, or says that
\* it could not read them; a session that has ended ends on the page.
\* The view of the session tries again by itself until it could.
PageCatchesUp ==
    /\ <>[](hidden \/ Current \/ shown = Failed)
    /\ topic = "session" => []<>(hidden \/ Current)

=============================================================================
