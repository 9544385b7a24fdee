---------------------------- MODULE HelpDelivery ----------------------------
(***************************************************************************)
(* Assistance requests (terminal/help_linux.go, server/terminal-help.ts,   *)
(* server/terminal.ts): what is wrong on a machine and needs an            *)
(* administrator, reported by its terminal to the platform.                *)
(*                                                                         *)
(* After every synchronization the terminal compares the problems it found *)
(* with its queue, stores the queue and sends what was not acknowledged. A *)
(* request may be lost, may arrive late, even after later ones, and may    *)
(* arrive several times; its answer may be lost; the terminal may be       *)
(* killed at any point.  Administrators resolve requests by hand.          *)
(*                                                                         *)
(* Only what decides the severity is kept of an outcome.  Text, log paths, *)
(* acknowledgements, the total number of rows on the platform and a change *)
(* of the terminal's registration are left out.                            *)
(***************************************************************************)
EXTENDS Naturals, FiniteSets, FiniteSetsExt

CONSTANTS
    Kinds,       \* what can be wrong: code and scope
    MaxQueue,    \* 128 in the code; at least Cardinality(Kinds) + MaxChanges
    MaxBatch,    \* 16 in the code
    MaxChanges   \* bound: times a problem comes, goes or changes

VARIABLES
    problem,   \* what is wrong: kind -> severity
    changes,   \* how often that has changed
    queue,     \* help-requests.json: event id -> event; ids grow with their place
    awaited,   \* the events of the request whose answer is awaited
    answered,  \* whether the platform has answered it
    wire,      \* requests that may still arrive
    server,    \* terminal_help_requests: event id -> row
    notices    \* history: notifications of managers: <<event id, revision>> -> number

vars == <<problem, changes, queue, awaited, answered, wire, server, notices>>

Severity == {"GENERAL", "URGENT"}
Ids == 1..MaxChanges

Event == [id : Ids, kind : Kinds, severity : Severity, status : {"OPEN", "RESOLVED"},
          revision : 1..(MaxChanges + 1)]
Local == [event : Event, attempted : BOOLEAN, delivered : BOOLEAN]
Row == [kind : Kinds, severity : Severity, status : {"OPEN", "RESOLVED"},
        revision : 1..(MaxChanges + 1), by : {"nobody", "MACHINE", "ADMIN"}]

TypeOK ==
    /\ problem \in [Kinds -> Severity \cup {"none"}]
    /\ \A i \in DOMAIN queue : queue[i] \in Local /\ queue[i].event.id = i
    /\ \A i \in DOMAIN server : server[i] \in Row
    /\ \A request \in wire : request # {} /\ request \subseteq Event
    /\ awaited # {} => awaited \in wire

-----------------------------------------------------------------------------
(* The terminal: updateHelp *)

\* Mutant of Dropped: requests the platform has not acknowledged are dropped.
DroppedUndelivered(item) == ~item.delivered

\* A problem that went away before it was ever reported is not reported.
Dropped(item) == ~item.attempted

Solved(item, seen, retry) ==
    item.event.status = "OPEN" /\ item.event.kind \notin seen /\ ~retry

\* Mutant of Revised: the new revision counts as delivered.
RevisedQuietly(item, severity, status) ==
    [item EXCEPT !.event.severity = severity, !.event.status = status,
                 !.event.revision = @ + 1]

Revised(item, severity, status) ==
    [item EXCEPT !.event.severity = severity, !.event.status = status,
                 !.event.revision = @ + 1, !.delivered = FALSE]

\* An event of the queue after a synchronization that has seen these problems; retry:
\* the platform could not be reached, so what was not seen may still be there.
Updated(item, seen, retry) ==
    LET event == item.event IN
    IF Solved(item, seen, retry) THEN Revised(item, event.severity, "RESOLVED")
    ELSE IF event.status = "OPEN" /\ event.kind \in seen /\ event.severity # problem[event.kind]
    THEN Revised(item, problem[event.kind], "OPEN")
    ELSE item

\* The events already used; history, for the ids of new ones.
Used == DOMAIN queue \cup DOMAIN server \cup {e.id : e \in UNION wire}

\* The queue after the comparison: new problems are appended.
Compared(seen, retry) ==
    LET kept == {i \in DOMAIN queue : ~(Solved(queue[i], seen, retry) /\ Dropped(queue[i]))}
        known == {queue[i].event.kind : i \in {j \in kept : queue[j].event.status = "OPEN"}}
        base == IF Used = {} THEN 0 ELSE Max(Used)
        new == {k \in seen : k \notin known}
        place == CHOOSE p \in [new -> (base + 1)..(base + Cardinality(new))] :
                     \A k, l \in new : k # l => p[k] # p[l]
        kindAt(i) == CHOOSE k \in new : place[k] = i
    IN [i \in kept \cup (base + 1)..(base + Cardinality(new)) |->
          IF i \in kept THEN Updated(queue[i], seen, retry)
          ELSE [event |-> [id |-> i, kind |-> kindAt(i), severity |-> problem[kindAt(i)],
                           status |-> "OPEN", revision |-> 1],
                attempted |-> FALSE, delivered |-> FALSE]]

\* The first events that were not acknowledged
Batch(items) ==
    LET due == {i \in DOMAIN items : ~items[i].delivered}
    IN {i \in due : Cardinality({j \in due : j < i}) < MaxBatch}

\* The queue is stored with the attempts marked, then they are sent.
Cycle(seen, retry) ==
    LET items == Compared(seen, retry)
        batch == Batch(items)
        request == {items[i].event : i \in batch}
    IN
    /\ awaited = {}
    /\ Cardinality(DOMAIN items) <= MaxQueue
    /\ queue' = [i \in DOMAIN items |->
                    IF i \in batch THEN [items[i] EXCEPT !.attempted = TRUE] ELSE items[i]]
    /\ awaited' = request
    /\ answered' = FALSE
    /\ wire' = IF request = {} THEN wire ELSE wire \cup {request}
    /\ UNCHANGED <<problem, changes, server, notices>>

\* Every event of the batch was accepted in its revision: what is resolved is forgotten.
Acknowledged ==
    /\ awaited # {} /\ answered
    /\ LET ids == {e.id : e \in awaited}
           over == {i \in ids : queue[i].event.status = "RESOLVED"}
       IN queue' = [i \in DOMAIN queue \ over |->
                      IF i \in ids THEN [queue[i] EXCEPT !.delivered = TRUE] ELSE queue[i]]
    /\ awaited' = {}
    /\ answered' = FALSE
    /\ UNCHANGED <<problem, changes, wire, server, notices>>

\* No answer, or the terminal is killed: the queue stays as it was stored.
GivenUp ==
    /\ awaited # {}
    /\ awaited' = {}
    /\ answered' = FALSE
    /\ UNCHANGED <<problem, changes, queue, wire, server, notices>>

-----------------------------------------------------------------------------
(* The platform *)

\* Mutant of Stale: a revision that was seen is taken once more.
StaleIfOlder(e) == e.id \in DOMAIN server /\ e.revision < server[e.id].revision

\* An event that was overtaken, or whose row is resolved, changes nothing.
Stale(e) ==
    /\ e.id \in DOMAIN server
    /\ e.revision <= server[e.id].revision \/ server[e.id].status = "RESOLVED"

Notified(e) ==
    IF e.id \notin DOMAIN server THEN e.status = "OPEN"
    ELSE \/ e.status = "RESOLVED"
         \/ e.severity = "URGENT" /\ server[e.id].severity # "URGENT"

\* receiveTerminalHelp
Receive(request) ==
    /\ request \in wire
    /\ LET fresh == {e \in request : ~Stale(e)}
           of(i) == CHOOSE e \in fresh : e.id = i
           told == {<<e.id, e.revision>> : e \in {d \in fresh : Notified(d)}}
       IN /\ server' = [i \in DOMAIN server \cup {e.id : e \in fresh} |->
                IF \E e \in fresh : e.id = i
                THEN [kind |-> of(i).kind, severity |-> of(i).severity,
                      status |-> of(i).status, revision |-> of(i).revision,
                      by |-> IF of(i).status = "RESOLVED" THEN "MACHINE" ELSE "nobody"]
                ELSE server[i]]
          /\ notices' = [n \in DOMAIN notices \cup told |->
                (IF n \in DOMAIN notices THEN notices[n] ELSE 0) + IF n \in told THEN 1 ELSE 0]
    /\ answered' = (answered \/ request = awaited)
    /\ UNCHANGED <<problem, changes, queue, awaited, wire>>

\* POST help/:eventId/resolve
Resolve(i) ==
    /\ server[i].status = "OPEN"
    /\ server' = [server EXCEPT ![i].status = "RESOLVED", ![i].by = "ADMIN"]
    /\ UNCHANGED <<problem, changes, queue, awaited, answered, wire, notices>>

-----------------------------------------------------------------------------
\* Something breaks, gets worse or better, or is repaired.
Change(k, severity) ==
    /\ changes < MaxChanges
    /\ problem[k] # severity
    /\ problem' = [problem EXCEPT ![k] = severity]
    /\ changes' = changes + 1
    /\ UNCHANGED <<queue, awaited, answered, wire, server, notices>>

Init ==
    /\ problem = [k \in Kinds |-> "none"]
    /\ changes = 0
    /\ queue = [i \in {} |-> 0] /\ server = [i \in {} |-> 0] /\ notices = [n \in {} |-> 0]
    /\ awaited = {} /\ answered = FALSE /\ wire = {}

Present == {k \in Kinds : problem[k] # "none"}

\* A synchronization that finds all there is, and one that could not ask the platform
FullCycle == Cycle(Present, FALSE)
CutCycle == \E seen \in SUBSET Present : Cycle(seen, TRUE)

Answer == awaited # {} /\ ~answered /\ Receive(awaited)

Next ==
    \/ FullCycle \/ CutCycle \/ Acknowledged \/ GivenUp
    \/ \E request \in wire : Receive(request)
    \/ \E i \in DOMAIN server : Resolve(i)
    \/ \E k \in Kinds, severity \in Severity \cup {"none"} : Change(k, severity)

Spec == Init /\ [][Next]_vars

\* The timer starts the program again and again, and it is not cut off from the platform
\* for ever.
Fairness ==
    /\ WF_vars(GivenUp \/ Acknowledged)
    /\ SF_vars(FullCycle) /\ SF_vars(Answer) /\ SF_vars(Acknowledged)

FairSpec == Spec /\ Fairness

-----------------------------------------------------------------------------
(* Properties *)

\* Whatever was lost or came late, the terminal still has every request the platform
\* shows as open, so that it can resolve it one day, and there are never more than fit;
\* managers are told of a revision at most once, of nothing that is resolved already.
ReportsAccounted ==
    /\ \A n \in DOMAIN notices : notices[n] = 1
    /\ \A i \in DOMAIN server : server[i].status = "OPEN" => i \in DOMAIN queue
    /\ Cardinality({i \in DOMAIN server : server[i].status = "OPEN"}) <= MaxQueue

InStep ==
    /\ \A k \in Present :
          \E i \in DOMAIN server :
             /\ server[i].kind = k
             /\ i \in DOMAIN queue /\ queue[i].event.status = "OPEN"
             /\ \/ server[i].status = "OPEN" /\ server[i].severity = problem[k]
                \/ server[i].by = "ADMIN"
    /\ \A i \in DOMAIN server : server[i].status = "OPEN" => server[i].kind \in Present

\* Once nothing changes any more on the machine, the platform comes to show what is
\* wrong there, in its severity, and nothing else; what an administrator resolved by
\* hand while it lasted stays resolved.
PlatformCatchesUp == <>[]InStep

=============================================================================
