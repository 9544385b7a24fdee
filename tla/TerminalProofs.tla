--------------------------- MODULE TerminalProofs ---------------------------
(***************************************************************************)
(* Proofs about the terminal program, for any number of services,          *)
(* accounts, keys, edits and registrations: what it does with the SSH      *)
(* configuration (Terminal) and how it is registered (Enrolment).          *)
(*                                                                         *)
(* The journal says what the run is doing to the files.  As long as it     *)
(* says that an operation is unfinished nothing is promised; what makes it *)
(* say anything else is a step at which every service has been reloaded    *)
(* since its file was last written, or the file was edited meanwhile.      *)
(***************************************************************************)
EXTENDS MCTerminal, TLAPS

-----------------------------------------------------------------------------
(* The invariant of Terminal *)

\* loaded and file agree, except for an edit nobody reloaded.
Match(f) ==
    loaded[f].edits # file[f].edits \/ loaded[f].covers = file[f].covers

\* A plan changes what the file covers and is no edit.
KeepsEdits(plan) == \A f \in Files : plan.before[f].edits = plan.after[f].edits

RunRow == [at : Steps, who : {"nobody", "sync", "configure", "recover"}, plan : Plan,
           keys : [Accounts -> SUBSET Keys], todo : SUBSET (Files \cup Accounts),
           ok : BOOLEAN]

Typed ==
    /\ file \in [Files -> Content] /\ loaded \in [Files -> Content]
    /\ uid \in [Accounts -> 0..MaxUid] /\ bound \in [Accounts -> 0..MaxUid]
    /\ grants \in [Accounts -> SUBSET Keys] /\ keyfile \in [Accounts -> SUBSET Keys]
    /\ journal \in Journal
    /\ run \in RunRow

PlansKeepEdits == KeepsEdits(run.plan) /\ KeepsEdits(journal.plan)

\* What the journal says of the step the run is at
JournalKept ==
    /\ run.at \in {"fetch", "mark", "check"} => ~Unfinished
    /\ run.at \in Changing => Unfinished /\ journal.plan = run.plan
    /\ run.at \in {"restoreFiles", "restoreReload"} => Unfinished

MatchesBut(S) == \A f \in Files \ S : Match(f)

\* The services that may run something else than their file says
ServicesInv ==
    /\ \A f \in Files : loaded[f].edits <= file[f].edits
    /\ ~Unfinished => MatchesBut({})
    /\ run.at \in {"writeKeys", "writeFiles"} => MatchesBut(Rewritten(run.plan))
    /\ run.at = "writeFiles" => run.todo \subseteq Rewritten(run.plan)
    /\ run.at = "reload" => MatchesBut(run.todo)
    /\ run.at \in {"save", "bind", "complete"} => MatchesBut({})
    /\ run.at = "restoreReload" /\ run.ok => MatchesBut(run.todo)

UidsRead ==
    run.at \in {"ask", "apply"} => \A a \in Accounts : run.plan.uid[a] <= uid[a]

HostInv ==
    Typed /\ PlansKeepEdits /\ JournalKept /\ ServicesInv /\ UidsRead /\ RevocationsApplied

-----------------------------------------------------------------------------
(* Rows of a run and of the journal *)

NoKeys == [a \in Accounts |-> {}]

Row(r, at, who, plan, keys, todo, ok) ==
    /\ r \in RunRow
    /\ r.at = at /\ r.who = who /\ r.plan = plan /\ r.keys = keys /\ r.todo = todo /\ r.ok = ok

LEMMA NoPlanTyped == NoPlan \in Plan /\ KeepsEdits(NoPlan) /\ NoKeys \in [Accounts -> SUBSET Keys]
<1>1. [edits |-> 0, covers |-> {}] \in Content
    BY NatBounds DEF Content
<1>2. Unset \in [Files -> Content]
    BY <1>1 DEF Unset
<1>3. [a \in Accounts |-> 0] \in [Accounts -> 0..MaxUid]
    BY NatBounds
<1>4. NoPlan \in Plan
    BY <1>2, <1>3 DEF NoPlan, Plan
<1>5. KeepsEdits(NoPlan)
    BY DEF NoPlan, KeepsEdits
<1> QED
    BY <1>4, <1>5 DEF NoKeys

LEMMA IdleRow == Row(Idle, "idle", "nobody", NoPlan, NoKeys, {}, TRUE)
BY NoPlanTyped DEF Row, Idle, RunRow, NoKeys, Steps

\* One field at a time
LEMMA FieldRows ==
    ASSUME NEW r \in RunRow
    PROVE  /\ \A at \in Steps :
                 Row([r EXCEPT !.at = at], at, r.who, r.plan, r.keys, r.todo, r.ok)
           /\ \A who \in {"nobody", "sync", "configure", "recover"} :
                 Row([r EXCEPT !.who = who], r.at, who, r.plan, r.keys, r.todo, r.ok)
           /\ \A plan \in Plan :
                 Row([r EXCEPT !.plan = plan], r.at, r.who, plan, r.keys, r.todo, r.ok)
           /\ \A keys \in [Accounts -> SUBSET Keys] :
                 Row([r EXCEPT !.keys = keys], r.at, r.who, r.plan, keys, r.todo, r.ok)
           /\ \A todo \in SUBSET (Files \cup Accounts) :
                 Row([r EXCEPT !.todo = todo], r.at, r.who, r.plan, r.keys, todo, r.ok)
           /\ \A ok \in BOOLEAN :
                 Row([r EXCEPT !.ok = ok], r.at, r.who, r.plan, r.keys, r.todo, ok)
BY DEF RunRow, Row

LEMMA ToRow ==
    ASSUME run \in RunRow, NEW at \in Steps, NEW todo \in SUBSET (Files \cup Accounts)
    PROVE  Row(To(at, todo), at, run.who, run.plan, run.keys, todo, run.ok)
<1> DEFINE a == [run EXCEPT !.at = at]
           b == [a EXCEPT !.todo = todo]
<1>1. Row(a, at, run.who, run.plan, run.keys, run.todo, run.ok)
    BY FieldRows
<1>2. a \in RunRow
    BY <1>1 DEF Row
<1>3. Row(b, a.at, a.who, a.plan, a.keys, todo, a.ok)
    BY <1>2, FieldRows, Zenon
<1>4. b = To(at, todo)
    BY Zenon DEF To
<1> HIDE DEF a, b
<1> QED
    BY <1>1, <1>3, <1>4 DEF Row

LEMMA StartRow ==
    ASSUME NEW at \in Steps, NEW who \in {"nobody", "sync", "configure", "recover"}
    PROVE  Row([Idle EXCEPT !.at = at, !.who = who], at, who, NoPlan, NoKeys, {}, TRUE)
<1> DEFINE a == [Idle EXCEPT !.at = at]
           b == [a EXCEPT !.who = who]
<1>0. Idle \in RunRow
    BY IdleRow DEF Row
<1>1. Row(a, at, "nobody", NoPlan, NoKeys, {}, TRUE)
    <2>1. Row(a, at, Idle.who, Idle.plan, Idle.keys, Idle.todo, Idle.ok)
        BY <1>0, FieldRows, Zenon
    <2> QED
        BY <2>1, IdleRow DEF Row
<1>2. a \in RunRow
    BY <1>1 DEF Row
<1>3. Row(b, a.at, who, a.plan, a.keys, a.todo, a.ok)
    BY <1>2, FieldRows, Zenon
<1>4. b = [Idle EXCEPT !.at = at, !.who = who]
    BY Zenon
<1> HIDE DEF a, b
<1> QED
    BY <1>1, <1>3, <1>4 DEF Row

\* A run ends, or goes on to synchronize the keys.
LEMMA LeaveRow == 
    \/ run.who # "sync" /\ Row(Leave, "idle", "nobody", NoPlan, NoKeys, {}, TRUE)
    \/ run.who = "sync" /\ Row(Leave, "keys", "sync", NoPlan, NoKeys, {}, TRUE)
<1>1. CASE run.who = "sync"
    <2>1. Row([Idle EXCEPT !.at = "keys", !.who = "sync"], "keys", "sync", NoPlan, NoKeys, {}, TRUE)
        BY StartRow DEF Steps
    <2>2. Leave = [Idle EXCEPT !.at = "keys", !.who = "sync"]
        BY <1>1 DEF Leave
    <2> QED
        BY <1>1, <2>1, <2>2, Zenon
<1>2. CASE run.who # "sync"
    BY <1>2, IdleRow DEF Leave
<1> QED
    BY <1>1, <1>2

LEMMA PlanForFacts ==
    ASSUME Typed, NEW targets \in SUBSET Accounts
    PROVE  /\ PlanFor(targets) \in Plan /\ KeepsEdits(PlanFor(targets))
           /\ PlanFor(targets).before = file /\ PlanFor(targets).uid = uid
           /\ PlanFor(targets).targets = targets
           /\ PlanFor(targets).after = [f \in Files |-> [file[f] EXCEPT !.covers = @ \cup targets]]
<1> DEFINE after == [f \in Files |-> [file[f] EXCEPT !.covers = @ \cup targets]]
<1>1. \A f \in Files : file[f] \in Content
    BY DEF Typed
<1>2. \A f \in Files : /\ [file[f] EXCEPT !.covers = @ \cup targets] \in Content
                       /\ [file[f] EXCEPT !.covers = @ \cup targets].edits = file[f].edits
    BY <1>1 DEF Content
<1>3. after \in [Files -> Content] /\ \A f \in Files : after[f].edits = file[f].edits
    BY <1>2
<1>4. PlanFor(targets) = [before |-> file, after |-> after, uid |-> uid, targets |-> targets]
    BY DEF PlanFor
<1> HIDE DEF after
<1>5. PlanFor(targets) \in Plan
    BY <1>3, <1>4 DEF Typed, Plan
<1>6. KeepsEdits(PlanFor(targets))
    BY <1>3, <1>4 DEF KeepsEdits
<1> QED
    BY <1>4, <1>5, <1>6 DEF after

-----------------------------------------------------------------------------
(* Every step keeps the invariant of the host *)

Same == UNCHANGED <<file, loaded, uid, grants, keyfile, bound>>

\* Nothing but the step the run is at has changed, and the new step promises no more.
LEMMA RunMoves ==
    ASSUME HostInv, Same, UNCHANGED journal, NEW at, NEW who, NEW plan, NEW keys, NEW todo,
           NEW ok, Row(run', at, who, plan, keys, todo, ok), KeepsEdits(plan),
           at \in {"fetch", "mark", "check"} => run.at \in {"fetch", "mark", "check"} \/ ~Unfinished,
           at \notin Changing \cup {"restoreFiles", "restoreReload", "ask", "apply"}
    PROVE  HostInv'
<1>1. Typed'
    BY DEF HostInv, Typed, Same, Row
<1>2. PlansKeepEdits'
    BY DEF HostInv, PlansKeepEdits, KeepsEdits, Row
<1>3. JournalKept'
    BY DEF HostInv, JournalKept, Unfinished, Row, Changing
<1>4. ServicesInv'
    BY DEF HostInv, ServicesInv, MatchesBut, Match, Unfinished, Row, Changing, Same
<1>5. UidsRead' /\ RevocationsApplied'
    BY DEF UidsRead, RevocationsApplied, Row
<1> QED
    BY <1>1, <1>2, <1>3, <1>4, <1>5 DEF HostInv

\* The run goes on with its plan, or ends.
LEMMA RunGoes ==
    ASSUME HostInv, Same, UNCHANGED journal, NEW at \in Steps, run' = To(at, {}),
           at \in {"fetch", "mark", "check"} => run.at \in {"fetch", "mark", "check"} \/ ~Unfinished,
           at \notin Changing \cup {"restoreFiles", "restoreReload", "ask", "apply"}
    PROVE  HostInv'
<1>1. Row(run', at, run.who, run.plan, run.keys, {}, run.ok)
    BY ToRow DEF HostInv, Typed
<1>2. KeepsEdits(run.plan)
    BY DEF HostInv, PlansKeepEdits
<1> QED
    BY <1>1, <1>2, RunMoves

LEMMA RunEnds ==
    ASSUME HostInv, Same, UNCHANGED journal, run' = Idle \/ run' = Leave
    PROVE  HostInv'
<1>1. \/ Row(run', "idle", "nobody", NoPlan, NoKeys, {}, TRUE)
      \/ Row(run', "keys", "sync", NoPlan, NoKeys, {}, TRUE)
    BY IdleRow, LeaveRow
<1>2. CASE Row(run', "idle", "nobody", NoPlan, NoKeys, {}, TRUE)
    BY <1>2, NoPlanTyped, RunMoves DEF Changing
<1>3. CASE Row(run', "keys", "sync", NoPlan, NoKeys, {}, TRUE)
    BY <1>3, NoPlanTyped, RunMoves DEF Changing
<1> QED
    BY <1>1, <1>2, <1>3

\* The surroundings
LEMMA SurroundingsKeep ==
    ASSUME HostInv, Surroundings
    PROVE  HostInv'
<1>1. ASSUME NEW f \in Files, AdminReload(f)
      PROVE  HostInv'
    <2>1. /\ loaded' \in [Files -> Content] /\ loaded'[f] = file[f]
          /\ \A g \in Files : g # f => loaded'[g] = loaded[g]
        BY <1>1 DEF AdminReload, HostInv, Typed
    <2>2. Typed'
        BY <1>1, <2>1 DEF AdminReload, HostInv, Typed
    <2>3. PlansKeepEdits' /\ JournalKept' /\ UidsRead' /\ RevocationsApplied'
        BY <1>1 DEF AdminReload, HostInv, PlansKeepEdits, KeepsEdits, JournalKept, Unfinished,
                    UidsRead, RevocationsApplied
    <2>4. \A g \in Files : (Match(g) => Match(g)') /\ loaded'[g].edits <= file[g].edits
        BY <1>1, <2>1 DEF AdminReload, HostInv, Typed, ServicesInv, Match, Content
    <2>5. ServicesInv'
        BY <1>1, <2>4 DEF AdminReload, HostInv, ServicesInv, MatchesBut, Unfinished, Rewritten
    <2> QED
        BY <2>2, <2>3, <2>5 DEF HostInv
<1>2. ASSUME NEW f \in Files, NEW covers \in {{}, file[f].covers}, Edit(f, covers)
      PROVE  HostInv'
    <2> DEFINE new == [edits |-> file[f].edits + 1, covers |-> covers]
    <2>0. file[f] \in Content /\ file[f].edits < MaxEdits
        BY <1>2 DEF Edit, HostInv, Typed
    <2>1. new \in Content /\ new.edits = file[f].edits + 1
        BY <2>0, NatBounds DEF Content
    <2>2. file' = [file EXCEPT ![f] = new]
        BY <1>2, Zenon DEF Edit
    <2> HIDE DEF new
    <2>3. /\ file' \in [Files -> Content] /\ file'[f] = new
          /\ \A g \in Files : g # f => file'[g] = file[g]
        BY <2>1, <2>2 DEF HostInv, Typed
    <2>4. Typed'
        BY <1>2, <2>3 DEF Edit, HostInv, Typed
    <2>5. PlansKeepEdits' /\ JournalKept' /\ UidsRead' /\ RevocationsApplied'
        BY <1>2 DEF Edit, HostInv, PlansKeepEdits, KeepsEdits, JournalKept, Unfinished,
                    UidsRead, RevocationsApplied
    <2>6. \A g \in Files : (Match(g) => Match(g)') /\ loaded[g].edits <= file'[g].edits
        BY <1>2, <2>0, <2>1, <2>3 DEF Edit, HostInv, Typed, ServicesInv, Match, Content
    <2>7. ServicesInv'
        BY <1>2, <2>6 DEF Edit, HostInv, ServicesInv, MatchesBut, Unfinished, Rewritten
    <2> QED
        BY <2>4, <2>5, <2>7 DEF HostInv
<1>3. ASSUME NEW a \in Accounts, CreateAccount(a)
      PROVE  HostInv'
    <2>1. /\ uid' \in [Accounts -> 0..MaxUid] /\ uid'[a] = uid[a] + 1
          /\ \A b \in Accounts : b # a => uid'[b] = uid[b]
        BY <1>3, NatBounds DEF CreateAccount, HostInv, Typed
    <2>2. Typed'
        BY <1>3, <2>1 DEF CreateAccount, HostInv, Typed
    <2>3. PlansKeepEdits' /\ JournalKept' /\ ServicesInv'
        BY <1>3 DEF CreateAccount, HostInv, PlansKeepEdits, KeepsEdits, JournalKept, Unfinished,
                    ServicesInv, MatchesBut, Match, Rewritten
    <2>4. UidsRead'
        BY <1>3, <2>1, NatBounds DEF CreateAccount, HostInv, Typed, UidsRead, RunRow, Plan
    <2>5. RevocationsApplied'
        <3>1. ASSUME run.at = "apply" PROVE run.plan.uid[a] # uid'[a]
            BY <2>1, <3>1, NatBounds DEF HostInv, Typed, UidsRead, RunRow, Plan
        <3> QED
            BY <1>3, <2>1, <3>1 DEF CreateAccount, HostInv, Typed, RevocationsApplied, RunRow, Plan
    <2> QED
        BY <2>2, <2>3, <2>4, <2>5 DEF HostInv
<1>4. ASSUME NEW a \in Accounts, NEW keys \in SUBSET Keys, Grant(a, keys)
      PROVE  HostInv'
    <2>1. Typed'
        BY <1>4 DEF Grant, HostInv, Typed
    <2> QED
        BY <1>4, <2>1 DEF Grant, HostInv, PlansKeepEdits, KeepsEdits, JournalKept, Unfinished,
                    ServicesInv, MatchesBut, Match, Rewritten, UidsRead, RevocationsApplied
<1>5. CASE Killed
    BY <1>5, RunEnds DEF Killed, host, Same
<1> QED
    BY <1>1, <1>2, <1>3, <1>4, <1>5 DEF Surroundings

\* configure-ssh has planned for every account there is.
LEMMA ConfigureRow ==
    ASSUME HostInv, StartConfigure
    PROVE  Row(run', "fetch", "configure", PlanFor(Local), NoKeys, {}, TRUE)
<1> DEFINE plan == PlanFor(Local)
           a == [Idle EXCEPT !.at = "fetch", !.who = "configure"]
           b == [a EXCEPT !.plan = plan]
<1>1. plan \in Plan
    BY PlanForFacts DEF HostInv, Local
<1>2. run' = b
    BY Zenon DEF StartConfigure
<1>3. Row(a, "fetch", "configure", NoPlan, NoKeys, {}, TRUE)
    BY StartRow DEF Steps
<1>4. a \in RunRow
    BY <1>3 DEF Row
<1> HIDE DEF plan, a
<1>5. Row(b, a.at, a.who, plan, a.keys, a.todo, a.ok)
    BY <1>1, <1>4, FieldRows, Zenon
<1> HIDE DEF b
<1>6. Row(run', "fetch", "configure", plan, NoKeys, {}, TRUE)
    BY <1>2, <1>3, <1>5 DEF Row
<1> QED
    BY <1>6, Zenon DEF plan

LEMMA StartsKeep ==
    ASSUME HostInv, StartSync \/ StartConfigure \/ StartRecover
    PROVE  HostInv'
<1>1. ASSUME NEW at \in {"discard", "restore"}, NEW who \in {"sync", "recover"}, Same, 
             UNCHANGED journal, run' = [Idle EXCEPT !.at = at, !.who = who]
      PROVE  HostInv'
    <2>1. Row(run', at, who, NoPlan, NoKeys, {}, TRUE)
        BY <1>1, StartRow DEF Steps
    <2> QED
        BY <1>1, <2>1, NoPlanTyped, RunMoves DEF Changing
<1>2. CASE StartSync
    BY <1>1, <1>2, Zenon DEF StartSync, host, Same
<1>3. CASE StartRecover
    BY <1>1, <1>3, Zenon DEF StartRecover, host, Same
<1>4. CASE StartConfigure
    BY <1>4, ConfigureRow, PlanForFacts, RunMoves DEF Changing, HostInv, Local, StartConfigure, host, Same
<1> QED
    BY <1>2, <1>3, <1>4
-----------------------------------------------------------------------------
(* The steps of an operation *)

LEMMA RewrittenFiles ==
    ASSUME NEW plan
    PROVE  Rewritten(plan) \in SUBSET (Files \cup Accounts)
BY DEF Rewritten

\* A service or a file is dealt with.
LEMMA TodoRow ==
    ASSUME run \in RunRow, NEW x
    PROVE  Row([run EXCEPT !.todo = @ \ {x}], run.at, run.who, run.plan, run.keys,
               run.todo \ {x}, run.ok)
<1>1. run.todo \ {x} \in SUBSET (Files \cup Accounts)
    BY DEF RunRow
<1> QED
    BY <1>1, FieldRows

\* The keys of the accounts of the plan are there.
LEMMA FetchRow ==
    ASSUME HostInv, FetchPlanKeys
    PROVE  \/ run' = Leave
           \/ Row(run', IF run.who = "sync" THEN "mark" ELSE "check", run.who, run.plan, grants,
                  run.todo, run.ok)
<1> DEFINE at == IF run.who = "sync" THEN "mark" ELSE "check"
           a == [run EXCEPT !.at = at]
           b == [a EXCEPT !.keys = grants]
<1>1. run \in RunRow /\ grants \in [Accounts -> SUBSET Keys]
    BY DEF HostInv, Typed
<1>2. run' = Leave \/ run' = b
    BY Zenon DEF FetchPlanKeys
<1>3. Row(a, at, run.who, run.plan, run.keys, run.todo, run.ok)
    BY <1>1, FieldRows DEF Steps
<1>4. a \in RunRow
    BY <1>3 DEF Row
<1> HIDE DEF a
<1>5. Row(b, a.at, a.who, a.plan, grants, a.todo, a.ok)
    BY <1>1, <1>4, FieldRows, Zenon
<1> HIDE DEF b
<1>6. CASE run' = b
    BY <1>3, <1>5, <1>6 DEF Row
<1> QED
    BY <1>2, <1>6

LEMMA FetchKeeps ==
    ASSUME HostInv, FetchPlanKeys
    PROVE  HostInv'
<1>1. run.at = "fetch" /\ Same /\ UNCHANGED journal
    BY DEF FetchPlanKeys, host, Same
<1>2. KeepsEdits(run.plan) /\ ~Unfinished
    BY <1>1 DEF HostInv, PlansKeepEdits, JournalKept
<1> DEFINE at == IF run.who = "sync" THEN "mark" ELSE "check"
<1>3. at \in {"mark", "check"}
    OBVIOUS
<1>4. run' = Leave \/ Row(run', at, run.who, run.plan, grants, run.todo, run.ok)
    BY FetchRow
<1> HIDE DEF at
<1> QED
    BY <1>1, <1>2, <1>3, <1>4, RunEnds, RunMoves DEF Changing

LEMMA BeginKeeps ==
    ASSUME HostInv, BeginOperation
    PROVE  HostInv'
<1>1. run.at = "check" /\ Same /\ run \in RunRow /\ ~Unfinished
    BY DEF BeginOperation, host, Same, HostInv, Typed, JournalKept
<1>2. CASE run' = Leave /\ UNCHANGED journal
    BY <1>1, <1>2, RunEnds
<1>3. CASE /\ journal' = [phase |-> "unfinished", plan |-> run.plan, auto |-> FALSE]
           /\ run' = To("writeKeys", run.plan.targets)
    <2>1. run.plan \in Plan /\ run.plan.targets \in SUBSET (Files \cup Accounts)
        BY <1>1 DEF RunRow, Plan
    <2>2. Row(run', "writeKeys", run.who, run.plan, run.keys, run.plan.targets, run.ok)
        BY <1>1, <1>3, <2>1, ToRow DEF Steps, Changing
    <2>3. journal' \in Journal /\ journal'.plan = run.plan /\ Unfinished'
        BY <1>3, <2>1 DEF Journal, Unfinished
    <2>4. Typed'
        BY <1>1, <2>2, <2>3 DEF HostInv, Typed, Same, Row
    <2>5. PlansKeepEdits' /\ JournalKept'
        BY <2>2, <2>3 DEF HostInv, PlansKeepEdits, KeepsEdits, JournalKept, Row
    <2>6. ServicesInv'
        BY <1>1, <2>2, <2>3 DEF HostInv, ServicesInv, MatchesBut, Match, Row, Same
    <2>7. UidsRead' /\ RevocationsApplied'
        BY <2>2 DEF UidsRead, RevocationsApplied, Row
    <2> QED
        BY <2>4, <2>5, <2>6, <2>7 DEF HostInv
<1> QED
    BY <1>2, <1>3 DEF BeginOperation

LEMMA KeysKeep ==
    ASSUME HostInv, (\E a \in Accounts : WritePlanKeys(a)) \/ KeysWritten
    PROVE  HostInv'
<1>1. ASSUME NEW a \in Accounts, WritePlanKeys(a)
      PROVE  HostInv'
    <2>1. run.at = "writeKeys" /\ run \in RunRow /\ run.keys[a] \in SUBSET Keys
        BY <1>1 DEF WritePlanKeys, HostInv, Typed, RunRow
    <2>2. Row(run', "writeKeys", run.who, run.plan, run.keys, run.todo \ {a}, run.ok)
        BY <1>1, <2>1, TodoRow DEF WritePlanKeys
    <2>3. keyfile' \in [Accounts -> SUBSET Keys]
        BY <1>1, <2>1 DEF WritePlanKeys, HostInv, Typed
    <2>4. Typed'
        BY <1>1, <2>2, <2>3 DEF WritePlanKeys, HostInv, Typed, Row
    <2>5. PlansKeepEdits' /\ JournalKept'
        BY <1>1, <2>1, <2>2 DEF WritePlanKeys, HostInv, PlansKeepEdits, KeepsEdits, JournalKept,
                               Unfinished, Row
    <2>6. ServicesInv'
        BY <1>1, <2>1, <2>2 DEF WritePlanKeys, HostInv, ServicesInv, MatchesBut, Match,
                               Unfinished, Row
    <2>7. UidsRead' /\ RevocationsApplied'
        BY <2>2 DEF UidsRead, RevocationsApplied, Row
    <2> QED
        BY <2>4, <2>5, <2>6, <2>7 DEF HostInv
<1>2. CASE KeysWritten
    <2>1. run.at = "writeKeys" /\ run \in RunRow /\ Same /\ UNCHANGED journal
        BY <1>2 DEF KeysWritten, HostInv, Typed, host, Same
    <2>2. Row(run', "writeFiles", run.who, run.plan, run.keys, Rewritten(run.plan), run.ok)
        BY <1>2, <2>1, ToRow, RewrittenFiles DEF KeysWritten, Steps, Changing
    <2>3. Typed'
        BY <2>1, <2>2 DEF HostInv, Typed, Row, Same
    <2>4. PlansKeepEdits' /\ JournalKept'
        BY <2>1, <2>2 DEF HostInv, PlansKeepEdits, KeepsEdits, JournalKept, Unfinished, Row,
                         Changing
    <2>5. ServicesInv'
        BY <2>1, <2>2 DEF HostInv, ServicesInv, MatchesBut, Match, Unfinished, Row, Same,
                         Rewritten
    <2>6. UidsRead' /\ RevocationsApplied'
        BY <2>2 DEF UidsRead, RevocationsApplied, Row
    <2> QED
        BY <2>3, <2>4, <2>5, <2>6 DEF HostInv
<1> QED
    BY <1>1, <1>2

LEMMA FilesKeep ==
    ASSUME HostInv, (\E f \in Files : WriteFile(f)) \/ FilesWritten
    PROVE  HostInv'
<1>1. ASSUME NEW f \in Files, WriteFile(f)
      PROVE  HostInv'
    <2>1. run.at = "writeFiles" /\ run \in RunRow /\ run.plan \in Plan /\ f \in run.todo
          /\ Unfinished
        BY <1>1 DEF WriteFile, HostInv, Typed, RunRow, JournalKept, Changing
    <2>2. Row(run', "writeFiles", run.who, run.plan, run.keys, run.todo \ {f}, run.ok)
        BY <1>1, <2>1, TodoRow DEF WriteFile
    <2>3. /\ file' \in [Files -> Content] /\ file'[f].edits = file[f].edits
          /\ \A g \in Files : g # f => file'[g] = file[g]
        BY <1>1, <2>1 DEF WriteFile, HostInv, Typed, PlansKeepEdits, KeepsEdits, Plan
    <2>4. Typed'
        BY <1>1, <2>2, <2>3 DEF WriteFile, HostInv, Typed, Row
    <2>5. PlansKeepEdits' /\ JournalKept'
        BY <1>1, <2>1, <2>2 DEF WriteFile, HostInv, PlansKeepEdits, KeepsEdits, JournalKept,
                               Unfinished, Row
    <2>6. f \in Rewritten(run.plan)
        BY <2>1 DEF HostInv, ServicesInv
    <2>7. ServicesInv'
        BY <1>1, <2>1, <2>2, <2>3, <2>6 DEF WriteFile, HostInv, ServicesInv, MatchesBut, Match,
                               Unfinished, Row, Rewritten
    <2>8. UidsRead' /\ RevocationsApplied'
        BY <2>2 DEF UidsRead, RevocationsApplied, Row
    <2> QED
        BY <2>4, <2>5, <2>7, <2>8 DEF HostInv
<1>2. CASE FilesWritten
    <2>1. run.at = "writeFiles" /\ run \in RunRow /\ Same /\ UNCHANGED journal
        BY <1>2 DEF FilesWritten, HostInv, Typed, host, Same
    <2>2. Row(run', "reload", run.who, run.plan, run.keys, Rewritten(run.plan), run.ok)
        BY <1>2, <2>1, ToRow, RewrittenFiles DEF FilesWritten, Steps, Changing
    <2>3. Typed'
        BY <2>1, <2>2 DEF HostInv, Typed, Row, Same
    <2>4. PlansKeepEdits' /\ JournalKept'
        BY <2>1, <2>2 DEF HostInv, PlansKeepEdits, KeepsEdits, JournalKept, Unfinished, Row,
                         Changing
    <2>5. ServicesInv'
        BY <2>1, <2>2 DEF HostInv, ServicesInv, MatchesBut, Match, Unfinished, Row, Same
    <2>6. UidsRead' /\ RevocationsApplied'
        BY <2>2 DEF UidsRead, RevocationsApplied, Row
    <2> QED
        BY <2>3, <2>4, <2>5, <2>6 DEF HostInv
<1> QED
    BY <1>1, <1>2

\* The steps of an operation between which nothing but the run and what it saves changes
LEMMA GoesOn ==
    ASSUME HostInv, Typed', UNCHANGED <<file, loaded, uid, grants, keyfile, journal>>,
           NEW at \in Steps, Row(run', at, run.who, run.plan, run.keys, {}, run.ok),
           \/ run.at = "reload" /\ run.todo = {} /\ at = "save"
           \/ run.at = "save" /\ at = "bind"
           \/ run.at = "bind" /\ at = "complete"
    PROVE  HostInv'
<1>1. PlansKeepEdits' /\ JournalKept'
    BY DEF HostInv, PlansKeepEdits, KeepsEdits, JournalKept, Unfinished, Row, Changing
<1>2. ServicesInv'
    BY DEF HostInv, ServicesInv, MatchesBut, Match, Unfinished, Row
<1>3. UidsRead' /\ RevocationsApplied'
    BY DEF UidsRead, RevocationsApplied, Row
<1> QED
    BY <1>1, <1>2, <1>3 DEF HostInv

LEMMA ReloadKeeps ==
    ASSUME HostInv, (\E f \in Files : ReloadService(f)) \/ Verified
    PROVE  HostInv'
<1>1. ASSUME NEW f \in Files, ReloadService(f)
      PROVE  HostInv'
    <2>1. run.at = "reload" /\ run \in RunRow /\ Unfinished
        BY <1>1 DEF ReloadService, HostInv, Typed, JournalKept, Changing
    <2>2. Row(run', "reload", run.who, run.plan, run.keys, run.todo \ {f}, run.ok)
        BY <1>1, <2>1, TodoRow DEF ReloadService
    <2>3. /\ loaded' \in [Files -> Content] /\ loaded'[f] = file[f]
          /\ \A g \in Files : g # f => loaded'[g] = loaded[g]
        BY <1>1 DEF ReloadService, HostInv, Typed
    <2>4. Typed'
        BY <1>1, <2>2, <2>3 DEF ReloadService, HostInv, Typed, Row
    <2>5. PlansKeepEdits' /\ JournalKept'
        BY <1>1, <2>1, <2>2 DEF ReloadService, HostInv, PlansKeepEdits, KeepsEdits, JournalKept,
                               Unfinished, Row
    <2>6. \A g \in Files : (Match(g) => Match(g)') /\ loaded'[g].edits <= file[g].edits
        BY <1>1, <2>3 DEF ReloadService, HostInv, Typed, ServicesInv, Match, Content
    <2>7. Match(f)'
        BY <1>1, <2>3 DEF ReloadService, Match
    <2>8. ServicesInv'
        BY <1>1, <2>1, <2>2, <2>6, <2>7 DEF ReloadService, HostInv, ServicesInv, MatchesBut,
                               Unfinished, Row
    <2>9. UidsRead' /\ RevocationsApplied'
        BY <2>2 DEF UidsRead, RevocationsApplied, Row
    <2> QED
        BY <2>4, <2>5, <2>8, <2>9 DEF HostInv
<1>2. CASE Verified
    <2>1. /\ run.at = "reload" /\ run.todo = {} /\ run \in RunRow
          /\ Same /\ UNCHANGED journal /\ run' = To("save", {})
        BY <1>2 DEF Verified, HostInv, Typed, host, Same
    <2>2. Row(run', "save", run.who, run.plan, run.keys, {}, run.ok)
        BY <2>1, ToRow DEF Steps, Changing
    <2>3. Typed'
        BY <2>1, <2>2 DEF HostInv, Typed, Row, Same
    <2> QED
        BY <2>1, <2>2, <2>3, GoesOn DEF Same, Steps, Changing
<1> QED
    BY <1>1, <1>2

LEMMA SavesKeep ==
    ASSUME HostInv, SaveInventory \/ BindAccounts
    PROVE  HostInv'
<1>1. run \in RunRow /\ run.plan \in Plan
    BY DEF HostInv, Typed, RunRow
<1>2. CASE SaveInventory
    <2>1. Row(run', "bind", run.who, run.plan, run.keys, {}, run.ok)
        BY <1>1, <1>2, ToRow DEF SaveInventory, Steps, Changing
    <2>2. Typed'
        BY <1>2, <2>1 DEF SaveInventory, HostInv, Typed, Row
    <2> QED
        BY <1>2, <2>1, <2>2, GoesOn DEF SaveInventory, Steps, Changing
<1>3. CASE BindAccounts
    <2>1. Row(run', "complete", run.who, run.plan, run.keys, {}, run.ok)
        BY <1>1, <1>3, ToRow DEF BindAccounts, Steps, Changing
    <2>2. bound' \in [Accounts -> 0..MaxUid]
        BY <1>1, <1>3 DEF BindAccounts, HostInv, Typed, Plan
    <2>3. Typed'
        BY <1>3, <2>1, <2>2 DEF BindAccounts, HostInv, Typed, Row
    <2> QED
        BY <1>3, <2>1, <2>3, GoesOn DEF BindAccounts, Steps, Changing
<1> QED
    BY <1>2, <1>3

\* The phase of the journal
LEMMA JournalRow ==
    ASSUME journal \in Journal, NEW phase \in {"none", "unfinished", "complete", "restored"}
    PROVE  LET j == [journal EXCEPT !.phase = phase]
           IN j \in Journal /\ j.phase = phase /\ j.plan = journal.plan /\ j.auto = journal.auto
BY DEF Journal

LEMMA AutoRow ==
    ASSUME NEW j \in Journal, NEW auto \in BOOLEAN
    PROVE  LET k == [j EXCEPT !.auto = auto]
           IN k \in Journal /\ k.phase = j.phase /\ k.plan = j.plan /\ k.auto = auto
BY DEF Journal

\* An operation ends in the journal only where every service runs what its file says.
LEMMA CloseKeeps ==
    ASSUME HostInv, Same, NEW at \in {"unmark", "restore", "idle", "keys"}, NEW who, NEW plan,
           NEW keys, NEW todo, NEW ok, Row(run', at, who, plan, keys, todo, ok), 
           KeepsEdits(plan), journal' \in Journal, journal'.plan = journal.plan,
           journal'.phase = journal.phase \/ MatchesBut({})
    PROVE  HostInv'
<1>1. Typed'
    BY DEF HostInv, Typed, Same, Row
<1>2. PlansKeepEdits' /\ JournalKept'
    BY DEF HostInv, PlansKeepEdits, KeepsEdits, JournalKept, Row, Changing
<1>3. ServicesInv'
    BY DEF HostInv, ServicesInv, MatchesBut, Match, Unfinished, Row, Same
<1>4. UidsRead' /\ RevocationsApplied'
    BY DEF UidsRead, RevocationsApplied, Row
<1> QED
    BY <1>1, <1>2, <1>3, <1>4 DEF HostInv

LEMMA CompleteKeeps ==
    ASSUME HostInv, CompleteOperation
    PROVE  HostInv'
<1>1. run.at = "complete" /\ run \in RunRow /\ journal \in Journal /\ Same
    BY DEF CompleteOperation, HostInv, Typed, host, Same
<1>2. Row(run', "unmark", run.who, run.plan, run.keys, {}, run.ok)
    BY <1>1, ToRow DEF CompleteOperation, Steps
<1>3. journal' \in Journal /\ journal'.plan = journal.plan
    BY <1>1, JournalRow DEF CompleteOperation
<1>4. MatchesBut({}) /\ KeepsEdits(run.plan)
    BY <1>1 DEF HostInv, ServicesInv, PlansKeepEdits
<1> QED
    BY <1>1, <1>2, <1>3, <1>4, CloseKeeps

LEMMA FailureKeeps ==
    ASSUME HostInv, NEW recorded \in BOOLEAN, OperationFails(recorded)
    PROVE  HostInv'
<1>1. run.at \in Changing /\ run \in RunRow /\ journal \in Journal /\ Same
    BY DEF OperationFails, HostInv, Typed, host, Same
<1>2. Row(run', "restore", run.who, run.plan, run.keys, {}, run.ok)
    BY <1>1, ToRow DEF OperationFails, Steps
<1>3. KeepsEdits(run.plan)
    BY DEF HostInv, PlansKeepEdits
<1> DEFINE phase == IF run.at = "complete" THEN "complete" ELSE journal.phase
           j == [journal EXCEPT !.auto = TRUE]
           k == [j EXCEPT !.phase = phase]
<1>4. journal' = journal \/ journal' = k
    BY Zenon DEF OperationFails
<1>5. j \in Journal /\ j.plan = journal.plan /\ j.phase = journal.phase
    BY <1>1, AutoRow
<1>6. phase \in {"none", "unfinished", "complete", "restored"}
    BY <1>1 DEF Journal
<1>7. phase = journal.phase \/ MatchesBut({})
    BY DEF HostInv, ServicesInv
<1> HIDE DEF phase, j
<1>8. k \in Journal /\ k.plan = j.plan /\ k.phase = phase
    BY <1>5, <1>6 DEF Journal
<1> HIDE DEF k
<1>9. /\ journal' \in Journal /\ journal'.plan = journal.plan
      /\ journal'.phase = journal.phase \/ MatchesBut({})
    BY <1>1, <1>4, <1>5, <1>7, <1>8
<1> QED
    BY <1>1, <1>2, <1>3, <1>9, CloseKeeps

LEMMA OperationKeeps ==
    ASSUME HostInv, Operation
    PROVE  HostInv'
<1>1. CASE Mark
    <2>1. run.at = "mark" /\ Same /\ UNCHANGED journal /\ run' = To("check", {})
        BY <1>1 DEF Mark, host, Same
    <2> QED
        BY <2>1, RunGoes DEF Steps, Changing
<1>2. CASE Unmark
    BY <1>2, RunEnds DEF Unmark, host, Same
<1> QED
    BY <1>1, <1>2, FetchKeeps, BeginKeeps, KeysKeep, FilesKeep, ReloadKeeps, SavesKeep,
       CompleteKeeps, FailureKeeps DEF Operation
-----------------------------------------------------------------------------
(* The steps of a recovery *)

LEMMA BeginRestoreKeeps ==
    ASSUME HostInv, BeginRestore
    PROVE  HostInv'
<1>1. run.at = "restore" /\ run \in RunRow /\ journal \in Journal /\ Same
    BY DEF BeginRestore, HostInv, Typed, host, Same
<1>2. Row(run', "restoreFiles", run.who, run.plan, run.keys, Files, run.ok)
    BY <1>1, ToRow DEF BeginRestore, Steps
<1> DEFINE auto == journal.auto \/ run.who # "recover"
           j == [journal EXCEPT !.phase = "unfinished"]
           k == [j EXCEPT !.auto = auto]
<1>3. journal' = k
    BY Zenon DEF BeginRestore
<1>4. j \in Journal /\ j.phase = "unfinished" /\ j.plan = journal.plan
    BY <1>1, JournalRow
<1>5. auto \in BOOLEAN
    BY Zenon
<1> HIDE DEF j, auto
<1>6. k \in Journal /\ k.phase = j.phase /\ k.plan = j.plan
    BY <1>4, <1>5, AutoRow
<1> HIDE DEF k
<1>7. journal' \in Journal /\ journal'.plan = journal.plan /\ Unfinished'
    BY <1>3, <1>4, <1>6 DEF Unfinished
<1>8. Typed'
    BY <1>1, <1>2, <1>7 DEF HostInv, Typed, Same, Row
<1>9. PlansKeepEdits' /\ JournalKept'
    BY <1>2, <1>7 DEF HostInv, PlansKeepEdits, KeepsEdits, JournalKept, Row, Changing
<1>10. ServicesInv'
    BY <1>1, <1>2, <1>7 DEF HostInv, ServicesInv, Row, Same
<1>11. UidsRead' /\ RevocationsApplied'
    BY <1>2 DEF UidsRead, RevocationsApplied, Row
<1> QED
    BY <1>8, <1>9, <1>10, <1>11 DEF HostInv

LEMMA RestoreFileKeeps ==
    ASSUME HostInv, NEW f \in Files, RestoreFile(f)
    PROVE  HostInv'
<1>1. run.at = "restoreFiles" /\ run \in RunRow /\ journal.plan \in Plan /\ Unfinished
    BY DEF RestoreFile, HostInv, Typed, Journal, JournalKept
<1>2. Row(run', "restoreFiles", run.who, run.plan, run.keys, run.todo \ {f}, run.ok)
    BY <1>1, TodoRow DEF RestoreFile
<1>3. /\ file' \in [Files -> Content] /\ file'[f].edits = file[f].edits
      /\ \A g \in Files : g # f => file'[g] = file[g]
    BY <1>1 DEF RestoreFile, MayRestore, Before, After, HostInv, Typed, PlansKeepEdits,
                KeepsEdits, Plan
<1>4. Typed'
    BY <1>2, <1>3 DEF RestoreFile, HostInv, Typed, Row
<1>5. PlansKeepEdits' /\ JournalKept'
    BY <1>1, <1>2 DEF RestoreFile, HostInv, PlansKeepEdits, KeepsEdits, JournalKept,
                      Unfinished, Row
<1>6. ServicesInv'
    BY <1>1, <1>2, <1>3 DEF RestoreFile, HostInv, ServicesInv, Unfinished, Row
<1>7. UidsRead' /\ RevocationsApplied'
    BY <1>2 DEF UidsRead, RevocationsApplied, Row
<1> QED
    BY <1>4, <1>5, <1>6, <1>7 DEF HostInv

LEMMA FilesRestoredRow ==
    ASSUME HostInv, FilesRestored
    PROVE  Row(run', "restoreReload", run.who, run.plan, run.keys, Files, TRUE)
<1> DEFINE a == To("restoreReload", Restored)
           b == [a EXCEPT !.ok = TRUE]
<1>1. run \in RunRow
    BY DEF HostInv, Typed
<1>2. run' = b
    BY Zenon DEF FilesRestored
<1>3. Row(a, "restoreReload", run.who, run.plan, run.keys, Files, run.ok)
    BY <1>1, ToRow DEF Steps, Restored
<1>4. a \in RunRow
    BY <1>3 DEF Row
<1> HIDE DEF a
<1>5. Row(b, a.at, a.who, a.plan, a.keys, a.todo, TRUE)
    BY <1>4, FieldRows, Zenon
<1> HIDE DEF b
<1> QED
    BY <1>2, <1>3, <1>5 DEF Row

LEMMA FilesRestoredKeeps ==
    ASSUME HostInv, FilesRestored
    PROVE  HostInv'
<1>1. run.at = "restoreFiles" /\ Unfinished /\ Same /\ UNCHANGED journal
    BY DEF FilesRestored, HostInv, JournalKept, host, Same
<1>2. Row(run', "restoreReload", run.who, run.plan, run.keys, Files, TRUE)
    BY FilesRestoredRow
<1>3. Typed'
    BY <1>1, <1>2 DEF HostInv, Typed, Row, Same
<1>4. PlansKeepEdits' /\ JournalKept'
    BY <1>1, <1>2 DEF HostInv, PlansKeepEdits, KeepsEdits, JournalKept, Unfinished, Row, Changing
<1>5. ServicesInv'
    BY <1>1, <1>2 DEF HostInv, ServicesInv, MatchesBut, Unfinished, Row, Same
<1>6. UidsRead' /\ RevocationsApplied'
    BY <1>2 DEF UidsRead, RevocationsApplied, Row
<1> QED
    BY <1>3, <1>4, <1>5, <1>6 DEF HostInv

LEMMA RestoreReloadRow ==
    ASSUME HostInv, NEW f \in Files, RestoreReload(f)
    PROVE  /\ run' \in RunRow /\ run'.at = "restoreReload" /\ run'.plan = run.plan
           /\ run'.todo = run.todo \ {f}
           /\ run'.ok => run.ok /\ loaded' = [loaded EXCEPT ![f] = file[f]]
           /\ loaded' = loaded \/ loaded' = [loaded EXCEPT ![f] = file[f]]
<1> DEFINE a == [run EXCEPT !.todo = @ \ {f}]
           b == [a EXCEPT !.ok = FALSE]
<1>1. run.at = "restoreReload" /\ run \in RunRow
    BY DEF RestoreReload, HostInv, Typed
<1>2. Row(a, "restoreReload", run.who, run.plan, run.keys, run.todo \ {f}, run.ok)
    BY <1>1, TodoRow
<1>3. a \in RunRow
    BY <1>2 DEF Row
<1>4. \/ loaded' = [loaded EXCEPT ![f] = file[f]] /\ run' = a
      \/ run' = b /\ UNCHANGED loaded
    BY Zenon DEF RestoreReload
<1> HIDE DEF a
<1>5. Row(b, a.at, a.who, a.plan, a.keys, a.todo, FALSE)
    BY <1>3, FieldRows, Zenon
<1> HIDE DEF b
<1> QED
    BY <1>2, <1>3, <1>4, <1>5 DEF Row

LEMMA RestoreReloadKeeps ==
    ASSUME HostInv, NEW f \in Files, RestoreReload(f)
    PROVE  HostInv'
<1>1. run.at = "restoreReload" /\ Unfinished
    BY DEF RestoreReload, HostInv, JournalKept
<1>2. loaded' = loaded \/ loaded' = [loaded EXCEPT ![f] = file[f]]
    BY RestoreReloadRow
<1>3. \A g \in Files : (Match(g) => Match(g)') /\ loaded'[g].edits <= file[g].edits
    BY <1>2 DEF RestoreReload, HostInv, Typed, ServicesInv, Match, Content
<1>4. loaded' \in [Files -> Content] /\ (run'.ok => Match(f)')
    BY RestoreReloadRow DEF RestoreReload, HostInv, Typed, Match
<1>5. Typed'
    BY <1>4, RestoreReloadRow DEF RestoreReload, HostInv, Typed
<1>6. PlansKeepEdits' /\ JournalKept'
    BY <1>1, RestoreReloadRow DEF RestoreReload, HostInv, PlansKeepEdits, KeepsEdits,
                                  JournalKept, Unfinished
<1>7. ServicesInv'
    BY <1>1, <1>4, <1>3, RestoreReloadRow DEF RestoreReload, HostInv, ServicesInv, MatchesBut,
                                              Unfinished
<1>8. UidsRead' /\ RevocationsApplied'
    BY RestoreReloadRow DEF UidsRead, RevocationsApplied
<1> QED
    BY <1>5, <1>6, <1>7, <1>8 DEF HostInv

LEMMA EndRestoreKeeps ==
    ASSUME HostInv, EndRestore
    PROVE  HostInv'
<1>1. run.at = "restoreReload" /\ journal \in Journal /\ Same /\ run' = Leave
    BY DEF EndRestore, HostInv, Typed, host, Same
<1>2. CASE UNCHANGED journal
    BY <1>1, <1>2, RunEnds
<1>3. CASE run.ok /\ journal' = [journal EXCEPT !.phase = "restored"]
    <2>1. journal' \in Journal /\ journal'.plan = journal.plan
        BY <1>1, <1>3, JournalRow
    <2>2. MatchesBut({})
        BY <1>1, <1>3 DEF EndRestore, HostInv, ServicesInv
    <2>3. \/ Row(run', "idle", "nobody", NoPlan, NoKeys, {}, TRUE)
          \/ Row(run', "keys", "sync", NoPlan, NoKeys, {}, TRUE)
        BY <1>1, LeaveRow
    <2> QED
        BY <1>1, <2>1, <2>2, <2>3, NoPlanTyped, CloseKeeps
<1> QED
    BY <1>2, <1>3 DEF EndRestore

LEMMA RecoveryKeeps ==
    ASSUME HostInv, Recovery
    PROVE  HostInv'
<1>1. CASE RestoreFails
    BY <1>1, RunEnds DEF RestoreFails, host, Same
<1> QED
    BY <1>1, BeginRestoreKeeps, RestoreFileKeeps, FilesRestoredKeeps, RestoreReloadKeeps,
       EndRestoreKeeps DEF Recovery
-----------------------------------------------------------------------------
(* The steps of a synchronization *)

LEMMA DiscardKeeps ==
    ASSUME HostInv, NEW a \in Accounts, NEW unbind \in BOOLEAN, Discard(a, unbind)
    PROVE  HostInv'
<1>1. run.at = "discard" /\ run \in RunRow
    BY DEF Discard, HostInv, Typed
<1>2. keyfile' \in [Accounts -> SUBSET Keys]
    BY DEF Discard, HostInv, Typed
<1>3. bound' \in [Accounts -> 0..MaxUid]
    BY NatBounds DEF Discard, HostInv, Typed
<1>4. run' \in RunRow /\ run'.at \in {"discard", "idle", "keys"} /\ KeepsEdits(run'.plan)
    <2>1. CASE run' = Leave
        BY <2>1, LeaveRow, NoPlanTyped DEF Row
    <2>2. CASE run' = run
        BY <1>1, <2>2 DEF HostInv, PlansKeepEdits
    <2> QED
        BY <2>1, <2>2 DEF Discard
<1>5. Typed'
    BY <1>2, <1>3, <1>4 DEF Discard, HostInv, Typed
<1>6. PlansKeepEdits' /\ JournalKept'
    BY <1>4 DEF Discard, HostInv, PlansKeepEdits, KeepsEdits, JournalKept, Changing
<1>7. ServicesInv'
    BY <1>4 DEF Discard, HostInv, ServicesInv, MatchesBut, Match, Unfinished
<1>8. UidsRead' /\ RevocationsApplied'
    BY <1>4 DEF UidsRead, RevocationsApplied
<1> QED
    BY <1>5, <1>6, <1>7, <1>8 DEF HostInv

\* Accounts are to be enrolled.
LEMMA EnrollRow ==
    ASSUME HostInv, AutoEnroll
    PROVE  \/ run' = Leave
           \/ /\ Pending # {} /\ Covered /\ failed # Signature(PlanFor(Pending))
              /\ Row(run', "fetch", run.who, PlanFor(Pending), run.keys, run.todo, run.ok)
<1> DEFINE plan == PlanFor(Pending)
           a == [run EXCEPT !.at = "fetch"]
           b == [a EXCEPT !.plan = plan]
<1>1. run \in RunRow /\ plan \in Plan
    BY PlanForFacts DEF HostInv, Typed, Local, Pending
<1>2. \/ run' = Leave
      \/ Pending # {} /\ Covered /\ failed # Signature(PlanFor(Pending)) /\ run' = b
    BY Zenon DEF AutoEnroll
<1>3. Row(a, "fetch", run.who, run.plan, run.keys, run.todo, run.ok)
    BY <1>1, FieldRows DEF Steps
<1>4. a \in RunRow
    BY <1>3 DEF Row
<1> HIDE DEF plan, a
<1>5. Row(b, a.at, a.who, plan, a.keys, a.todo, a.ok)
    BY <1>1, <1>4, FieldRows, Zenon
<1> HIDE DEF b
<1>6. CASE run' = b
    <2>1. Row(run', "fetch", run.who, plan, run.keys, run.todo, run.ok)
        BY <1>3, <1>5, <1>6 DEF Row
    <2>2. Row(run', "fetch", run.who, PlanFor(Pending), run.keys, run.todo, run.ok)
        BY <2>1, Zenon DEF plan
    <2> QED
        BY <1>2, <2>2
<1> QED
    BY <1>2, <1>6

LEMMA AutoKeeps ==
    ASSUME HostInv, AutoRecover \/ AutoEnroll
    PROVE  HostInv'
<1>1. run \in RunRow /\ journal \in Journal /\ Same
    BY DEF AutoRecover, AutoEnroll, HostInv, Typed, host, Same
<1>2. CASE run' = Leave /\ UNCHANGED journal
    BY <1>1, <1>2, RunEnds
<1>3. CASE journal' = [journal EXCEPT !.auto = TRUE] /\ run' = To("restore", {})
    <2>1. Row(run', "restore", run.who, run.plan, run.keys, {}, run.ok)
        BY <1>1, <1>3, ToRow DEF Steps
    <2>2. journal' \in Journal /\ journal'.plan = journal.plan /\ journal'.phase = journal.phase
        BY <1>1, <1>3, AutoRow
    <2>3. KeepsEdits(run.plan)
        BY DEF HostInv, PlansKeepEdits
    <2> QED
        BY <1>1, <2>1, <2>2, <2>3, CloseKeeps
<1>4. CASE AutoEnroll
    <2>1. Same /\ UNCHANGED journal /\ ~Unfinished
        BY <1>4 DEF AutoEnroll, host, Same
    <2>2. KeepsEdits(PlanFor(Pending))
        BY PlanForFacts DEF HostInv, Pending, Local
    <2> QED
        BY <1>4, <2>1, <2>2, EnrollRow, RunEnds, RunMoves DEF Changing
<1> QED
    BY <1>2, <1>3, <1>4 DEF AutoRecover

\* Between the reading of the machine and the last account nothing but keys and bindings
\* changes.
LEMMA SynchronizesKeep ==
    ASSUME HostInv, Typed', UNCHANGED <<file, loaded, uid, journal>>,
           run'.at \in {"ask", "apply"}, KeepsEdits(run'.plan),
           \A a \in Accounts : run'.plan.uid[a] <= uid[a], RevocationsApplied'
    PROVE  HostInv'
<1>1. PlansKeepEdits' /\ JournalKept'
    BY DEF HostInv, PlansKeepEdits, KeepsEdits, JournalKept, Changing
<1>2. ServicesInv'
    BY DEF HostInv, ServicesInv, MatchesBut, Match, Unfinished
<1>3. UidsRead'
    BY DEF UidsRead
<1> QED
    BY <1>1, <1>2, <1>3 DEF HostInv

LEMMA PlanFields ==
    ASSUME NEW p \in Plan
    PROVE  /\ \A u \in [Accounts -> 0..MaxUid] :
                 LET q == [p EXCEPT !.uid = u]
                 IN /\ q \in Plan /\ q.before = p.before /\ q.after = p.after
                    /\ q.uid = u /\ q.targets = p.targets
           /\ \A t \in SUBSET Accounts :
                 LET q == [p EXCEPT !.targets = t]
                 IN /\ q \in Plan /\ q.before = p.before /\ q.after = p.after
                    /\ q.uid = p.uid /\ q.targets = t
BY DEF Plan

LEMMA ReadRow ==
    ASSUME HostInv, ReadMachine
    PROVE  /\ run' \in RunRow /\ run'.at = "ask" /\ run'.ok = Covered /\ run'.plan.uid = uid
           /\ run'.plan.before = run.plan.before /\ run'.plan.after = run.plan.after
<1> DEFINE targets == {a \in Local : bound[a] \in {0, uid[a]}}
           p1 == [run.plan EXCEPT !.uid = uid]
           p2 == [p1 EXCEPT !.targets = targets]
           r1 == [run EXCEPT !.at = "ask"]
           r2 == [r1 EXCEPT !.ok = Covered]
           r3 == [r2 EXCEPT !.plan = p2]
<1>1. run \in RunRow /\ run.plan \in Plan
    BY DEF HostInv, Typed, RunRow
<1>2. run' = r3
    BY Zenon DEF ReadMachine
<1>3. uid \in [Accounts -> 0..MaxUid] /\ targets \in SUBSET Accounts /\ Covered \in BOOLEAN
    BY DEF HostInv, Typed, Local, Covered, Unfinished
<1>4. p1 \in Plan /\ p1.before = run.plan.before /\ p1.after = run.plan.after /\ p1.uid = uid
    BY <1>1, <1>3, PlanFields
<1>5. Row(r1, "ask", run.who, run.plan, run.keys, run.todo, run.ok)
    BY <1>1, FieldRows DEF Steps
<1>6. r1 \in RunRow
    BY <1>5 DEF Row
<1> HIDE DEF targets, p1, r1
<1>7. p2 \in Plan /\ p2.before = p1.before /\ p2.after = p1.after /\ p2.uid = p1.uid
    BY <1>3, <1>4, PlanFields
<1>8. Row(r2, r1.at, r1.who, r1.plan, r1.keys, r1.todo, Covered)
    BY <1>3, <1>6, FieldRows, Zenon
<1>9. r2 \in RunRow
    BY <1>8 DEF Row
<1> HIDE DEF p2, r2
<1>10. Row(r3, r2.at, r2.who, p2, r2.keys, r2.todo, r2.ok)
    BY <1>7, <1>9, FieldRows, Zenon
<1> HIDE DEF r3
<1> QED
    BY <1>2, <1>4, <1>5, <1>7, <1>8, <1>10 DEF Row

LEMMA ReadKeeps ==
    ASSUME HostInv, ReadMachine
    PROVE  HostInv'
<1>1. Same /\ UNCHANGED journal
    BY DEF ReadMachine, host, Same
<1>2. Typed'
    BY <1>1, ReadRow DEF HostInv, Typed, Same
<1>3. KeepsEdits(run'.plan)
    BY ReadRow DEF HostInv, PlansKeepEdits, KeepsEdits
<1>4. \A a \in Accounts : run'.plan.uid[a] <= uid[a]
    BY ReadRow, NatBounds DEF HostInv, Typed
<1>5. RevocationsApplied'
    BY ReadRow DEF RevocationsApplied
<1> QED
    BY <1>1, <1>2, <1>3, <1>4, <1>5, ReadRow, SynchronizesKeep DEF Same

LEMMA AskRow ==
    ASSUME HostInv, NEW answered \in SUBSET Accounts, AskPlatform(answered)
    PROVE  \/ run' = Idle
           \/ /\ run' \in RunRow /\ run'.at = "apply" /\ run'.ok = run.ok
              /\ run'.todo = answered /\ run'.plan.targets = answered
              /\ run'.plan.uid = run.plan.uid /\ run'.plan.before = run.plan.before
              /\ run'.plan.after = run.plan.after
<1> DEFINE p == [run.plan EXCEPT !.targets = answered]
           r1 == [run EXCEPT !.at = "apply"]
           r2 == [r1 EXCEPT !.keys = grants]
           r3 == [r2 EXCEPT !.todo = answered]
           r4 == [r3 EXCEPT !.plan = p]
<1>1. run \in RunRow /\ run.plan \in Plan /\ grants \in [Accounts -> SUBSET Keys]
    BY DEF HostInv, Typed, RunRow
<1>2. run' = Idle \/ run' = r4
    BY Zenon DEF AskPlatform
<1>3. /\ p \in Plan /\ p.before = run.plan.before /\ p.after = run.plan.after
      /\ p.uid = run.plan.uid /\ p.targets = answered
    BY <1>1, PlanFields
<1>4. Row(r1, "apply", run.who, run.plan, run.keys, run.todo, run.ok)
    BY <1>1, FieldRows DEF Steps
<1>5. r1 \in RunRow
    BY <1>4 DEF Row
<1> HIDE DEF p, r1
<1>6. Row(r2, r1.at, r1.who, r1.plan, grants, r1.todo, r1.ok)
    BY <1>1, <1>5, FieldRows, Zenon
<1>7. r2 \in RunRow
    BY <1>6 DEF Row
<1> HIDE DEF r2
<1>8. answered \in SUBSET (Files \cup Accounts)
    OBVIOUS
<1>9. Row(r3, r2.at, r2.who, r2.plan, r2.keys, answered, r2.ok)
    BY <1>7, <1>8, FieldRows, Zenon
<1>10. r3 \in RunRow
    BY <1>9 DEF Row
<1> HIDE DEF r3
<1>11. Row(r4, r3.at, r3.who, p, r3.keys, r3.todo, r3.ok)
    BY <1>3, <1>10, FieldRows, Zenon
<1> HIDE DEF r4
<1> QED
    BY <1>2, <1>3, <1>4, <1>6, <1>9, <1>11 DEF Row

LEMMA AskKeeps ==
    ASSUME HostInv, NEW answered \in SUBSET Accounts, AskPlatform(answered)
    PROVE  HostInv'
<1>1. run.at = "ask" /\ Same /\ UNCHANGED journal
    BY DEF AskPlatform, host, Same
<1>2. CASE run' = Idle
    BY <1>1, <1>2, RunEnds
<1>3. CASE run' # Idle
    <2>1. Typed'
        BY <1>1, <1>3, AskRow DEF HostInv, Typed, Same
    <2>2. KeepsEdits(run'.plan)
        BY <1>3, AskRow DEF HostInv, PlansKeepEdits, KeepsEdits
    <2>3. \A a \in Accounts : run'.plan.uid[a] <= uid[a]
        BY <1>1, <1>3, AskRow DEF HostInv, UidsRead
    <2>4. RevocationsApplied'
        BY <1>3, AskRow DEF RevocationsApplied
    <2> QED
        BY <1>1, <1>3, <2>1, <2>2, <2>3, <2>4, AskRow, SynchronizesKeep DEF Same
<1> QED
    BY <1>2, <1>3

LEMMA ApplyKeeps ==
    ASSUME HostInv, NEW a \in Accounts, NEW drift \in BOOLEAN, ApplyKeys(a, drift)
    PROVE  HostInv'
<1>1. /\ run \in RunRow /\ run.plan \in Plan /\ run.at = "apply"
      /\ UNCHANGED <<file, loaded, uid, journal>>
    BY DEF ApplyKeys, HostInv, Typed, RunRow
<1>2. Row(run', "apply", run.who, run.plan, run.keys, run.todo \ {a}, run.ok)
    BY <1>1, TodoRow DEF ApplyKeys
<1>3. NewKeys(a, drift) \subseteq run.keys[a] /\ NewKeys(a, drift) \in SUBSET Keys
    BY <1>1 DEF NewKeys, RunRow
<1>4. keyfile' \in [Accounts -> SUBSET Keys]
    BY <1>3 DEF ApplyKeys, HostInv, Typed
<1>5. bound' \in [Accounts -> 0..MaxUid]
    BY DEF ApplyKeys, HostInv, Typed
<1>6. Typed'
    BY <1>1, <1>2, <1>4, <1>5 DEF ApplyKeys, HostInv, Typed, Row
<1>7. \A b \in Accounts : b # a => keyfile'[b] = keyfile[b] /\ bound'[b] = bound[b]
    BY DEF ApplyKeys, HostInv, Typed
<1>8. \/ uid[a] # run.plan.uid[a] \/ bound'[a] = 0
      \/ keyfile'[a] \subseteq run.keys[a]
    BY <1>3 DEF ApplyKeys, HostInv, Typed
<1>9. RevocationsApplied'
    BY <1>1, <1>2, <1>7, <1>8 DEF HostInv, RevocationsApplied, Row, Plan
<1>10. KeepsEdits(run'.plan) /\ \A b \in Accounts : run'.plan.uid[b] <= uid[b]
    BY <1>1, <1>2 DEF HostInv, PlansKeepEdits, UidsRead, Row
<1> QED
    BY <1>1, <1>2, <1>6, <1>9, <1>10, SynchronizesKeep DEF Row

LEMMA SynchronizationKeeps ==
    ASSUME HostInv, Synchronization
    PROVE  HostInv'
<1>1. CASE Discarded
    <2>1. Same /\ UNCHANGED journal /\ run' = To("auto", {})
        BY <1>1 DEF Discarded, host, Same
    <2> QED
        BY <2>1, RunGoes DEF Steps, Changing
<1>2. CASE EndSync
    BY <1>2, RunEnds DEF EndSync, host, Same
<1> QED
    BY <1>1, <1>2, DiscardKeeps, AutoKeeps, ReadKeeps, AskKeeps, ApplyKeeps DEF Synchronization

-----------------------------------------------------------------------------
(* What follows for the host *)

\* The invariant holds whatever is killed, fails or is edited meanwhile.
LEMMA HostInvariant == Spec => []HostInv
<1>1. Init => HostInv
    <2> SUFFICES ASSUME Init PROVE HostInv
        OBVIOUS
    <2>1. run = Idle /\ Row(run, "idle", "nobody", NoPlan, NoKeys, {}, TRUE)
        BY IdleRow DEF Init
    <2>2. journal \in Journal /\ journal.plan = NoPlan
        BY NoPlanTyped DEF Init, Journal
    <2>3. Unset \in [Files -> Content]
        BY NatBounds DEF Unset, Content
    <2>4. [a \in Accounts |-> 0] \in [Accounts -> 0..MaxUid]
        BY NatBounds
    <2>5. Typed
        BY <2>1, <2>2, <2>3, <2>4 DEF Init, Typed, Row
    <2>6. PlansKeepEdits
        BY <2>1, <2>2, NoPlanTyped DEF PlansKeepEdits, Row
    <2>7. JournalKept /\ UidsRead /\ RevocationsApplied
        BY <2>1 DEF JournalKept, UidsRead, RevocationsApplied, Row, Changing
    <2>8. ServicesInv
        BY <2>1 DEF Init, ServicesInv, MatchesBut, Match, Row, Unset
    <2> QED
        BY <2>5, <2>6, <2>7, <2>8 DEF HostInv
<1>2. HostInv /\ [Next]_vars => HostInv'
    <2> SUFFICES ASSUME HostInv, [Next]_vars PROVE HostInv'
        OBVIOUS
    <2>1. CASE UNCHANGED vars
        BY <2>1 DEF vars, HostInv, Typed, PlansKeepEdits, KeepsEdits, JournalKept, Unfinished,
                    ServicesInv, MatchesBut, Match, Rewritten, UidsRead, RevocationsApplied
    <2> QED
        BY <2>1, SurroundingsKeep, StartsKeep, OperationKeeps, RecoveryKeeps,
           SynchronizationKeeps DEF Next
<1> QED
    BY <1>1, <1>2, PTL DEF Spec

\* Whenever the journal says that an operation is complete or restored, every service runs
\* the policy its file states, however often the operation and its recovery were cut short.
THEOREM ServicesFollowFiles == Spec => []ServicesMatchFiles
<1>1. HostInv => ServicesMatchFiles
    BY DEF HostInv, ServicesInv, MatchesBut, Match, ServicesMatchFiles
<1> QED
    BY <1>1, HostInvariant, PTL

\* A synchronization leaves no enrolled account a key that the platform's answer left out,
\* though the account may be recreated and the policy edited between any two of its steps.
THEOREM RevocationsAlwaysApplied == Spec => []RevocationsApplied
<1>1. HostInv => RevocationsApplied
    BY DEF HostInv
<1> QED
    BY <1>1, HostInvariant, PTL

\* No step of the program takes back an edit: what is written was made from the version of
\* the file that is there.
THEOREM EditsAlwaysKept == Spec => EditsKept
<1> DEFINE Kept == \A f \in Files : file'[f].edits >= file[f].edits
<1>1. HostInv /\ [Next]_vars => [Kept]_vars
    <2> SUFFICES ASSUME HostInv, Next PROVE Kept
        OBVIOUS
    <2>0. \A f \in Files : file[f] \in Content /\ file[f].edits \in Nat
        BY NatBounds DEF HostInv, Typed, Content
    <2>1. CASE UNCHANGED file
        BY <2>0, <2>1
    <2>2. ASSUME NEW f \in Files, NEW covers, Edit(f, covers)
          PROVE  Kept
        BY <2>0, <2>2 DEF Edit, HostInv, Typed
    <2>3. ASSUME NEW f \in Files, WriteFile(f)
          PROVE  Kept
        <3>1. run.plan \in Plan
            BY DEF HostInv, Typed, RunRow
        <3> QED
            BY <2>0, <2>3, <3>1 DEF WriteFile, HostInv, Typed, PlansKeepEdits, KeepsEdits, Plan
    <2>4. ASSUME NEW f \in Files, RestoreFile(f)
          PROVE  Kept
        <3>1. journal.plan \in Plan
            BY DEF HostInv, Typed, Journal
        <3> QED
            BY <2>0, <2>4, <3>1 DEF RestoreFile, MayRestore, Before, After, HostInv, Typed,
                                    PlansKeepEdits, KeepsEdits, Plan
    <2> HIDE DEF Kept
    <2>5. CASE Surroundings
        BY <2>1, <2>2, <2>5 DEF Surroundings, AdminReload, CreateAccount, Grant, Killed, host
    <2>6. CASE StartSync \/ StartConfigure \/ StartRecover
        BY <2>1, <2>6 DEF StartSync, StartConfigure, StartRecover, host
    <2>7. CASE Operation
        BY <2>1, <2>3, <2>7 DEF Operation, FetchPlanKeys, Mark, BeginOperation, WritePlanKeys,
               KeysWritten, FilesWritten, ReloadService, Verified, SaveInventory, BindAccounts,
               CompleteOperation, Unmark, OperationFails, host
    <2>8. CASE Recovery
        BY <2>1, <2>4, <2>8 DEF Recovery, BeginRestore, RestoreFails, FilesRestored,
               RestoreReload, EndRestore, host
    <2>9. CASE Synchronization
        BY <2>1, <2>9 DEF Synchronization, Discard, Discarded, AutoRecover, AutoEnroll,
               ReadMachine, AskPlatform, ApplyKeys, EndSync, host
    <2> QED
        BY <2>5, <2>6, <2>7, <2>8, <2>9 DEF Next
<1> QED
    BY <1>1, HostInvariant, PTL DEF Spec, EditsKept
-----------------------------------------------------------------------------
(* What was tried automatically is not tried again *)

Working == Changing \cup {"fetch", "mark", "check"}

\* d was edited since c, or has blocks added.
Follows(c, d) ==
    \/ c.edits < d.edits
    \/ c.edits = d.edits /\ c.covers \subseteq d.covers

\* What a plan made now would find in the file, once the operation under way is restored
Base(f) == IF Unfinished \/ run.at = "restore" THEN journal.plan.before[f] ELSE file[f]

\* A plan adds its targets to every file.
Adds(plan, targets) ==
    \A f \in Files : plan.after[f] = [plan.before[f] EXCEPT !.covers = @ \cup targets]

\* The accounts that some file does not cover, and those a plan adds to some file
Uncovered(p) == {a \in Accounts : \E f \in Files : a \notin p.before[f].covers}
Added(p) == {a \in Accounts : \E f \in Files : a \in p.after[f].covers \ p.before[f].covers}

\* The conditions an attempt was made under are gone: they have changed for good, or an
\* account it adds was enrolled since, or more is to be added, which was or is to be done.
Moved(p) ==
    \/ \E a \in Accounts : uid[a] # p.uid[a]
    \/ \E f \in Files : Base(f) # p.before[f]

Outdone(p) ==
    \/ \E a \in Added(p) : bound[a] = uid[a]
    \/ \E a \in Uncovered(p) \ Added(p) : uid[a] # 0 /\ bound[a] = 0
    \/ inventory # p.before /\ \E a \in Uncovered(p) : uid[a] # 0

Gone(p) == p = NoAttempt \/ Moved(p) \/ Outdone(p)

SignatureRow == [before : [Files -> Content], after : [Files -> Content],
                 uid : [Accounts -> 0..MaxUid]]

\* Nothing goes back behind what was tried.
Ordered ==
    /\ tried \in SignatureRow
    /\ Adds(tried, Added(tried))
    /\ \A a \in Accounts : tried.uid[a] <= uid[a]
    /\ \A f \in Files : Follows(tried.before[f], Base(f))
    /\ Unfinished \/ run.at = "restore" =>
          \A f \in Files : Follows(journal.plan.before[f], file[f])

\* A run with a plan
PlanInv ==
    /\ run.at \in Working =>
          /\ run.who \in {"sync", "configure"}
          /\ Adds(run.plan, run.plan.targets)
          /\ \A a \in Accounts : run.plan.uid[a] <= uid[a]
          /\ run.who = "configure" =>
                run.plan.targets = {a \in Accounts : run.plan.uid[a] # 0}
    /\ run.at \in Changing => \A a \in Accounts : tried.uid[a] <= run.plan.uid[a]
    /\ run.at = "writeFiles" =>
          \A f \in Files \ run.todo : Follows(run.plan.after[f], file[f])
    /\ run.at \in {"reload", "save", "bind", "complete"} =>
          \A f \in Files : Follows(run.plan.after[f], file[f])
    /\ run.at \in {"bind", "complete"} =>
          \A f \in Files : Follows(run.plan.after[f], inventory[f])
    /\ run.at \in {"ask", "apply"} /\ run.ok => ~Unfinished
    /\ run.at \in {"discard", "auto"} => run.who = "sync"

\* A synchronization that is about to carry out its plan
FreshInv ==
    run.at \in {"fetch", "mark", "check"} /\ run.who = "sync" =>
        /\ run.plan.targets # {}
        /\ \A a \in Accounts : a \in run.plan.targets <=> run.plan.uid[a] # 0 /\ bound[a] = 0
        /\ inventory = run.plan.before
        /\ Gone(tried)

\* What was recorded of the attempt a synchronization is about to make, or makes
AttemptInv ==
    /\ run.at = "mark" => run.who = "sync"
    /\ run.at = "check" /\ run.who = "sync" => failed = Signature(run.plan)
    /\ run.at \in Changing /\ run.who = "sync" => failed = tried /\ tried = Signature(run.plan)
    /\ run.at = "unmark" => tried = NoAttempt

\* As long as nothing has moved the accounts to be added are there, enrolled or not.
AddedInv == ~Moved(tried) => \A a \in Added(tried) : uid[a] # 0 /\ bound[a] \in {0, uid[a]}

TriedInv ==
    /\ Ordered /\ PlanInv /\ FreshInv /\ AttemptInv /\ AddedInv
    /\ failed # tried => Gone(tried)

-----------------------------------------------------------------------------
(* What has moved does not move back *)

LEMMA FollowsFacts ==
    /\ \A c \in Content : Follows(c, c)
    /\ \A c, d, e \in Content : Follows(c, d) /\ Follows(d, e) => Follows(c, e)
    /\ \A c, d \in Content : Follows(c, d) /\ Follows(d, c) => c = d
BY NatBounds DEF Content, Follows

LEMMA BaseTyped ==
    ASSUME Typed, NEW f \in Files
    PROVE  Base(f) \in Content
BY DEF Typed, Base, Journal, Plan

\* A step that leaves behind nothing of what was tried
Advances ==
    /\ UNCHANGED tried
    /\ \A a \in Accounts : uid[a] <= uid'[a]
    /\ \A f \in Files : Follows(Base(f), Base(f)')
    /\ Unfinished' \/ run'.at = "restore" =>
          \A f \in Files : Follows(journal'.plan.before[f], file'[f])

LEMMA OrderedStays ==
    ASSUME HostInv, HostInv', Ordered, Advances
    PROVE  Ordered' /\ (Moved(tried) => Moved(tried)')
<1>1. \A f \in Files : Base(f) \in Content /\ Base(f)' \in Content /\ tried.before[f] \in Content
    <2>1. \A f \in Files : Base(f) \in Content
        BY BaseTyped DEF HostInv
    <2>2. \A f \in Files : Base(f)' \in Content
        <3>1. Typed'
            BY DEF HostInv
        <3> QED
            BY <3>1 DEF Typed, Base, Journal, Plan
    <2> QED
        BY <2>1, <2>2 DEF Ordered, SignatureRow
<1>2. /\ \A a \in Accounts : tried.uid[a] \in Nat /\ uid[a] \in Nat /\ uid'[a] \in Nat
      /\ UNCHANGED tried
    BY NatBounds DEF HostInv, Typed, Ordered, SignatureRow, Advances
<1>3. \A f \in Files : Follows(tried.before[f], Base(f)')
    BY <1>1, FollowsFacts DEF Ordered, Advances
<1>4. \A a \in Accounts : tried.uid[a] <= uid'[a]
    BY <1>2 DEF Ordered, Advances
<1>5. Ordered'
    BY <1>2, <1>3, <1>4 DEF Ordered, Advances, Adds, Added
<1>6. ASSUME Moved(tried) PROVE Moved(tried)'
    <2>1. CASE \E a \in Accounts : uid[a] # tried.uid[a]
        BY <1>2, <2>1 DEF Ordered, Advances, Moved
    <2>2. ASSUME NEW f \in Files, Base(f) # tried.before[f]
          PROVE  Moved(tried)'
        <3>1. Base(f)' # tried.before[f]
            BY <1>1, <2>2, FollowsFacts DEF Ordered, Advances
        <3> QED
            BY <1>2, <3>1 DEF Moved
    <2> QED
        BY <1>6, <2>1, <2>2 DEF Moved
<1> QED
    BY <1>5, <1>6

\* Files and journal stay, and no operation begins.
LEMMA QuietAdvances ==
    ASSUME HostInv, Ordered, UNCHANGED <<file, uid, tried>>, journal'.plan = journal.plan,
           Unfinished' \/ run'.at = "restore" => Unfinished \/ run.at = "restore"
    PROVE  Advances
<1>1. \A a \in Accounts : uid[a] <= uid'[a]
    BY NatBounds DEF HostInv, Typed
<1>2. \A f \in Files : Base(f) \in Content /\ file[f] \in Content
    BY BaseTyped DEF HostInv, Typed
<1>3. \A f \in Files :
          \/ Base(f)' = Base(f)
          \/ /\ Base(f)' = file[f] /\ Base(f) = journal.plan.before[f]
             /\ Unfinished \/ run.at = "restore"
    BY DEF Base, Unfinished
<1>4. \A f \in Files : Follows(Base(f), Base(f)')
    BY <1>2, <1>3, FollowsFacts DEF Ordered
<1> QED
    BY <1>1, <1>4 DEF Ordered, Advances

\* Nothing changes that decides whether an attempt is outdone.
LEMMA OutdoneStays ==
    ASSUME UNCHANGED <<uid, bound, inventory, tried>>
    PROVE  Outdone(tried)' <=> Outdone(tried)
BY DEF Outdone, Added, Uncovered

LEMMA GoneStays ==
    ASSUME HostInv, HostInv', Ordered, Advances, Gone(tried),
           ~Moved(tried)' /\ Outdone(tried) => Outdone(tried)'
    PROVE  Gone(tried)'
BY OrderedStays DEF Gone, Advances

\* What the bindings and the inventory have to do with an attempt
LEMMA TriedStays ==
    ASSUME HostInv, HostInv', TriedInv, Advances, UNCHANGED failed, PlanInv', FreshInv',
           AttemptInv', AddedInv',
           failed # tried /\ ~Moved(tried)' /\ Outdone(tried) => Outdone(tried)'
    PROVE  TriedInv'
<1>1. Ordered'
    BY OrderedStays DEF TriedInv
<1>2. (failed # tried)' => Gone(tried)'
    BY GoneStays DEF TriedInv, Advances
<1> QED
    BY <1>1, <1>2 DEF TriedInv

LEMMA AddedStays ==
    ASSUME HostInv, HostInv', TriedInv, Advances, UNCHANGED <<uid, bound>>
    PROVE  AddedInv'
BY OrderedStays DEF TriedInv, AddedInv, Added, Advances

\* A step that leaves bindings and inventory alone
LEMMA BindingsStay ==
    ASSUME HostInv, HostInv', TriedInv, Advances, UNCHANGED <<uid, bound, inventory, failed>>,
           PlanInv', FreshInv', AttemptInv'
    PROVE  TriedInv'
<1>1. AddedInv'
    BY AddedStays
<1>2. Outdone(tried)' <=> Outdone(tried)
    BY OutdoneStays DEF Advances
<1> QED
    BY <1>1, <1>2, TriedStays

\* A step between plans that leaves the bindings alone
LEMMA OffPlan ==
    ASSUME HostInv, HostInv', TriedInv, UNCHANGED <<file, uid, bound, inventory, failed, tried>>,
           journal'.plan = journal.plan,
           Unfinished' \/ run'.at = "restore" => Unfinished \/ run.at = "restore",
           run'.at \notin Working \cup {"ask", "apply", "unmark"},
           run'.at \in {"discard", "auto"} => run'.who = "sync"
    PROVE  TriedInv'
<1>1. Advances
    BY QuietAdvances DEF TriedInv
<1>2. PlanInv' /\ FreshInv' /\ AttemptInv'
    BY DEF PlanInv, FreshInv, AttemptInv, Working, Changing
<1> QED
    BY <1>1, <1>2, BindingsStay

LEMMA OffPlanSteps ==
    ASSUME HostInv, HostInv', TriedInv,
           \/ Killed \/ StartSync \/ StartRecover \/ Discarded \/ EndSync
           \/ RestoreFails \/ FilesRestored
           \/ \E f \in Files : RestoreReload(f)
    PROVE  TriedInv'
<1>1. UNCHANGED <<file, uid, bound, inventory, failed, tried, journal>>
    BY DEF Killed, StartSync, StartRecover, Discarded, EndSync, RestoreFails, FilesRestored,
           RestoreReload, host
<1>2. \/ run'.at \in {"idle", "keys", "restoreReload"}
      \/ run'.at \in {"discard", "auto"} /\ run'.who = "sync"
      \/ run'.at = "restore" /\ Unfinished
    <2>1. run \in RunRow
        BY DEF HostInv, Typed
    <2>2. CASE StartSync
        BY <2>2, StartRow, ZenonT(60) DEF StartSync, Steps, Row
    <2>3. CASE StartRecover
        BY <2>3, StartRow DEF StartRecover, Steps, Row
    <2>4. CASE Killed \/ RestoreFails \/ EndSync
        BY <2>4, LeaveRow, IdleRow DEF Killed, RestoreFails, EndSync, Row
    <2>5. CASE Discarded
        BY <2>1, <2>5, ToRow DEF Discarded, Row, Steps, TriedInv, PlanInv
    <2>6. CASE FilesRestored
        BY <2>6, FilesRestoredRow DEF Row
    <2>7. CASE \E f \in Files : RestoreReload(f)
        BY <2>7, RestoreReloadRow
    <2> QED
        BY <2>2, <2>3, <2>4, <2>5, <2>6, <2>7
<1> QED
    BY <1>1, <1>2, OffPlan DEF Working, Changing, Unfinished

\* The journal of a recovery, or of an operation that failed
LEMMA OffPlanJournal ==
    ASSUME HostInv, HostInv', TriedInv,
           AutoRecover \/ BeginRestore \/ EndRestore \/ \E r \in BOOLEAN : OperationFails(r)
    PROVE  TriedInv'
<1>1. UNCHANGED <<file, uid, bound, inventory, failed, tried>>
    BY DEF AutoRecover, BeginRestore, EndRestore, OperationFails, host
<1>2. journal \in Journal /\ run \in RunRow
    BY DEF HostInv, Typed
<1>3. journal'.plan = journal.plan
    BY <1>2 DEF AutoRecover, BeginRestore, EndRestore, OperationFails, Journal
<1>4. run'.at \in {"idle", "keys", "restore", "restoreFiles"}
    BY <1>2, LeaveRow, ToRow DEF AutoRecover, BeginRestore, EndRestore, OperationFails, Row, Steps
<1>5. Unfinished \/ run.at = "restore"
    BY DEF AutoRecover, BeginRestore, EndRestore, OperationFails, HostInv, JournalKept
<1> QED
    BY <1>1, <1>3, <1>4, <1>5, OffPlan DEF Working, Changing

\* The surroundings: an edit and a new account leave what was tried behind.
LEMMA EditAdvances ==
    ASSUME HostInv, HostInv', TriedInv, NEW f \in Files, NEW covers \in {{}, file[f].covers},
           Edit(f, covers)
    PROVE  TriedInv'
<1> DEFINE new == [edits |-> file[f].edits + 1, covers |-> covers]
<1>1. file[f] \in Content /\ file[f].edits < MaxEdits
    BY DEF Edit, HostInv, Typed
<1>2. new \in Content /\ Follows(file[f], new) /\ new.edits = file[f].edits + 1
    BY <1>1, NatBounds DEF Content, Follows
<1>3. file' = [file EXCEPT ![f] = new]
    BY Zenon DEF Edit
<1> HIDE DEF new
<1>4. \A g \in Files : file[g] \in Content /\ file'[g] \in Content /\ Follows(file[g], file'[g])
    BY <1>1, <1>2, <1>3, FollowsFacts DEF HostInv, Typed
<1>5. \A g \in Files : Base(g) \in Content
    BY BaseTyped DEF HostInv
<1>6. UNCHANGED <<uid, bound, inventory, journal, failed, run, tried>>
    BY DEF Edit
<1>7. \A g \in Files : Follows(Base(g), Base(g)')
    BY <1>4, <1>5, <1>6, FollowsFacts DEF Base, Unfinished
<1>8. \A g \in Files : journal.plan.before[g] \in Content
    BY DEF HostInv, Typed, Journal, Plan
<1>9. Unfinished' \/ run'.at = "restore" => \A g \in Files : Follows(journal'.plan.before[g], file'[g])
    BY <1>4, <1>6, <1>8, FollowsFacts DEF TriedInv, Ordered, Unfinished
<1>10. Advances
    BY <1>6, <1>7, <1>9, NatBounds DEF Advances, HostInv, Typed
<1>11. \A g \in Files : run.plan.after[g] \in Content
    BY DEF HostInv, Typed, RunRow, Plan
<1>12. PlanInv'
    BY <1>4, <1>6, <1>11, FollowsFacts DEF TriedInv, PlanInv, Adds, Unfinished
<1>13. Gone(tried) => Gone(tried)'
    BY <1>6, <1>10, GoneStays, OutdoneStays DEF TriedInv
<1>14. FreshInv' /\ AttemptInv'
    BY <1>6, <1>13 DEF TriedInv, FreshInv, AttemptInv
<1> QED
    BY <1>6, <1>10, <1>12, <1>14, BindingsStay

LEMMA AccountAdvances ==
    ASSUME HostInv, HostInv', TriedInv, NEW a \in Accounts, CreateAccount(a)
    PROVE  TriedInv'
<1>1. /\ uid'[a] = uid[a] + 1 /\ \A b \in Accounts : b # a => uid'[b] = uid[b]
      /\ \A b \in Accounts : uid[b] \in Nat
    BY NatBounds DEF CreateAccount, HostInv, Typed
<1>2. UNCHANGED <<file, bound, inventory, journal, failed, run, tried>>
    BY DEF CreateAccount
<1>3. \A f \in Files : Base(f) \in Content /\ Base(f)' = Base(f)
    BY <1>2, BaseTyped DEF HostInv, Base, Unfinished
<1>4. Advances
    BY <1>1, <1>2, <1>3, FollowsFacts DEF Advances, TriedInv, Ordered, Unfinished
<1>5. tried.uid[a] \in Nat /\ run.plan.uid \in [Accounts -> 0..MaxUid]
    BY NatBounds DEF TriedInv, Ordered, SignatureRow, HostInv, Typed, RunRow, Plan
<1>6. Moved(tried)'
    BY <1>1, <1>2, <1>5 DEF TriedInv, Ordered, Moved
<1>7. \A b \in Accounts : run.plan.uid[b] <= uid[b] => run.plan.uid[b] <= uid'[b]
    BY <1>1, <1>5, NatBounds
<1>8. PlanInv'
    BY <1>2, <1>7 DEF TriedInv, PlanInv, Adds, Unfinished
<1>9. FreshInv' /\ AttemptInv' /\ AddedInv'
    BY <1>2, <1>6 DEF TriedInv, FreshInv, AttemptInv, AddedInv, Gone
<1> QED
    BY <1>2, <1>4, <1>6, <1>8, <1>9, TriedStays

LEMMA SurroundingsTry ==
    ASSUME HostInv, HostInv', TriedInv, Surroundings
    PROVE  TriedInv'
<1>1. ASSUME \/ \E f \in Files : AdminReload(f)
             \/ \E a \in Accounts : \E keys \in SUBSET Keys : Grant(a, keys)
      PROVE  TriedInv'
    <2>1. UNCHANGED <<file, uid, bound, inventory, journal, failed, run, tried>>
        BY <1>1 DEF AdminReload, Grant
    <2> QED
        BY <2>1 DEF TriedInv, Ordered, PlanInv, FreshInv, AttemptInv, AddedInv, Gone, Moved,
                    Outdone, Base, Added, Uncovered, Adds, Unfinished
<1>2. CASE Killed
    BY <1>2, OffPlanSteps
<1> QED
    BY <1>1, <1>2, EditAdvances, AccountAdvances DEF Surroundings

-----------------------------------------------------------------------------
(* A plan is made *)

LEMMA PlanForAdds ==
    ASSUME HostInv, NEW targets \in SUBSET Accounts
    PROVE  Adds(PlanFor(targets), targets) /\ PlanFor(targets).targets = targets
<1>1. PlanFor(targets).before = file /\ PlanFor(targets).targets = targets
    BY PlanForFacts DEF HostInv
<1>2. \A f \in Files : PlanFor(targets).after[f] = [file[f] EXCEPT !.covers = @ \cup targets]
    BY PlanForFacts DEF HostInv
<1> QED
    BY <1>1, <1>2 DEF Adds

LEMMA ConfigureTry ==
    ASSUME HostInv, HostInv', TriedInv, StartConfigure
    PROVE  TriedInv'
<1>1. UNCHANGED <<file, uid, bound, inventory, journal, failed, tried>> /\ ~Unfinished
    BY DEF StartConfigure, host
<1>2. /\ run'.at = "fetch" /\ run'.who = "configure" /\ run'.plan = PlanFor(Local)
    BY ConfigureRow DEF Row
<1>3. PlanFor(Local).uid = uid /\ PlanFor(Local).targets = Local
    BY PlanForFacts DEF HostInv, Local
<1>4. Adds(run'.plan, run'.plan.targets)
    BY <1>2, <1>3, PlanForAdds DEF Local
<1>5. Advances
    BY <1>1, <1>2, QuietAdvances DEF TriedInv, Unfinished
<1>6. \A a \in Accounts : uid[a] <= uid[a]
    BY NatBounds DEF HostInv, Typed
<1>7. PlanInv'
    BY <1>1, <1>2, <1>3, <1>4, <1>6 DEF PlanInv, Working, Changing, Local
<1>8. FreshInv' /\ AttemptInv'
    BY <1>2 DEF FreshInv, AttemptInv, Changing
<1> QED
    BY <1>1, <1>5, <1>7, <1>8, BindingsStay

\* A plan made where nothing moved is the one that was tried, or another set of accounts
\* is to be added: one was enrolled since, or one more is pending.
LEMMA OtherPlan ==
    ASSUME HostInv, TriedInv, ~Unfinished, run.at = "auto", ~Moved(tried),
           Signature(PlanFor(Pending)) # tried
    PROVE  Outdone(tried)
<1> DEFINE plan == PlanFor(Pending)
<1>1. plan \in Plan /\ plan.before = file /\ plan.uid = uid
    BY PlanForFacts DEF HostInv, Pending, Local
<1>2. Adds(plan, Pending)
    BY PlanForAdds DEF Pending, Local
<1>3. tried \in SignatureRow /\ Adds(tried, Added(tried))
    BY DEF TriedInv, Ordered
<1> HIDE DEF plan
<1>4. \A f \in Files : file[f] = tried.before[f]
    BY DEF Moved, Base
<1>5. tried.before = plan.before
    BY <1>1, <1>3, <1>4 DEF SignatureRow, HostInv, Typed
<1>6. tried.uid = plan.uid
    BY <1>1, <1>3 DEF SignatureRow, HostInv, Typed, Moved
<1>7. tried.after # plan.after
    <2>1. tried = [before |-> tried.before, after |-> tried.after, uid |-> tried.uid]
        BY <1>3 DEF SignatureRow
    <2>2. Signature(plan) # tried
        BY Zenon DEF plan
    <2> QED
        BY <1>5, <1>6, <2>1, <2>2 DEF Signature
<1>8. PICK f \in Files : tried.after[f] # plan.after[f]
    BY <1>1, <1>3, <1>7 DEF SignatureRow, Plan
<1>9. tried.before[f].covers \cup Pending # tried.before[f].covers \cup Added(tried)
    <2>1. tried.after[f] = [tried.before[f] EXCEPT !.covers = @ \cup Added(tried)]
        BY <1>3 DEF Adds
    <2>2. plan.after[f] = [tried.before[f] EXCEPT !.covers = @ \cup Pending]
        BY <1>2, <1>5 DEF Adds
    <2> QED
        BY <1>8, <2>1, <2>2
<1>10. PICK a \in Accounts : /\ a \notin tried.before[f].covers
                             /\ ~(a \in Pending <=> a \in Added(tried))
    BY <1>9 DEF Pending, Local, Added
<1>11. a \in Uncovered(tried)
    BY <1>10 DEF Uncovered
<1>12. CASE a \in Added(tried)
    BY <1>10, <1>12 DEF TriedInv, AddedInv, Pending, Local, Outdone
<1>13. CASE a \notin Added(tried)
    BY <1>10, <1>11, <1>13 DEF Pending, Local, Outdone
<1> QED
    BY <1>12, <1>13

LEMMA EnrollTry ==
    ASSUME HostInv, HostInv', TriedInv, AutoEnroll
    PROVE  TriedInv'
<1>1. /\ UNCHANGED <<file, uid, bound, inventory, journal, failed, tried>>
      /\ ~Unfinished /\ run.at = "auto"
    BY DEF AutoEnroll, host
<1>2. CASE run' = Leave
    <2>1. run'.at \in {"idle", "keys"}
        BY <1>2, LeaveRow DEF Row
    <2> QED
        BY <1>1, <2>1, OffPlan DEF Working, Changing, Unfinished
<1>3. CASE run' # Leave
    <2>1. /\ Pending # {} /\ Covered /\ failed # Signature(PlanFor(Pending))
          /\ run'.at = "fetch" /\ run'.who = "sync" /\ run'.plan = PlanFor(Pending)
        BY <1>1, <1>3, EnrollRow DEF Row, TriedInv, PlanInv
    <2>2. /\ PlanFor(Pending).uid = uid /\ PlanFor(Pending).targets = Pending
          /\ PlanFor(Pending).before = file
        BY PlanForFacts DEF HostInv, Pending, Local
    <2>3. Adds(run'.plan, run'.plan.targets)
        BY <2>1, <2>2, PlanForAdds DEF Pending, Local
    <2>4. Advances
        BY <1>1, <2>1, QuietAdvances DEF TriedInv, Unfinished
    <2>5. \A a \in Accounts : uid[a] <= uid[a]
        BY NatBounds DEF HostInv, Typed
    <2>6. PlanInv'
        BY <1>1, <2>1, <2>2, <2>3, <2>5 DEF PlanInv, Working, Changing
    <2>7. Gone(tried)
        BY <1>1, <2>1, OtherPlan DEF TriedInv, Gone
    <2>8. Gone(tried)'
        BY <1>1, <2>4, <2>7, GoneStays, OutdoneStays DEF TriedInv
    <2>9. FreshInv'
        BY <1>1, <2>1, <2>2, <2>8 DEF FreshInv, Pending, Local, Covered
    <2>10. AttemptInv'
        BY <2>1 DEF AttemptInv, Changing
    <2> QED
        BY <1>1, <2>4, <2>6, <2>9, <2>10, BindingsStay
<1> QED
    BY <1>2, <1>3

LEMMA FetchTry ==
    ASSUME HostInv, HostInv', TriedInv, FetchPlanKeys
    PROVE  TriedInv'
<1>1. /\ UNCHANGED <<file, uid, bound, inventory, journal, failed, tried>>
      /\ run.at = "fetch" /\ ~Unfinished
    BY DEF FetchPlanKeys, host, HostInv, JournalKept
<1>2. CASE run' = Leave
    <2>1. run'.at \in {"idle", "keys"}
        BY <1>2, LeaveRow DEF Row
    <2> QED
        BY <1>1, <2>1, OffPlan DEF Working, Changing, Unfinished
<1>3. CASE run' # Leave
    <2>1. /\ run'.at = IF run.who = "sync" THEN "mark" ELSE "check"
          /\ run'.who = run.who /\ run'.plan = run.plan
        BY <1>3, FetchRow DEF Row
    <2>2. Advances
        BY <1>1, <2>1, QuietAdvances DEF TriedInv, Unfinished
    <2>3. PlanInv'
        BY <1>1, <2>1 DEF TriedInv, PlanInv, Working, Changing, Adds
    <2>4. Gone(tried) => Gone(tried)'
        BY <1>1, <2>2, GoneStays, OutdoneStays DEF TriedInv
    <2>5. FreshInv' /\ AttemptInv'
        BY <1>1, <2>1, <2>4 DEF TriedInv, FreshInv, AttemptInv, Changing
    <2> QED
        BY <1>1, <2>2, <2>3, <2>5, BindingsStay
<1> QED
    BY <1>2, <1>3

LEMMA MarkTry ==
    ASSUME HostInv, HostInv', TriedInv, Mark
    PROVE  TriedInv'
<1>1. /\ UNCHANGED <<file, uid, bound, inventory, journal, tried>>
      /\ run.at = "mark" /\ run.who = "sync" /\ ~Unfinished /\ failed' = Signature(run.plan)
    BY DEF Mark, Marked, host, HostInv, JournalKept, TriedInv, AttemptInv
<1>2. run'.at = "check" /\ run'.who = run.who /\ run'.plan = run.plan
    <2>1. Row(To("check", {}), "check", run.who, run.plan, run.keys, {}, run.ok)
        BY ToRow DEF HostInv, Typed, Steps
    <2> QED
        BY <2>1 DEF Mark, Row
<1>3. Advances
    BY <1>1, <1>2, QuietAdvances DEF TriedInv, Unfinished
<1>4. PlanInv'
    BY <1>1, <1>2 DEF TriedInv, PlanInv, Working, Changing, Adds
<1>5. Gone(tried)'
    BY <1>1, <1>3, GoneStays, OutdoneStays DEF TriedInv, FreshInv
<1>6. FreshInv' /\ AttemptInv'
    BY <1>1, <1>2, <1>5 DEF TriedInv, FreshInv, AttemptInv, Changing, Signature
<1>7. AddedInv' /\ Ordered'
    BY <1>1, <1>3, AddedStays, OrderedStays DEF TriedInv
<1> QED
    BY <1>4, <1>5, <1>6, <1>7 DEF TriedInv

-----------------------------------------------------------------------------
(* A plan is carried out *)

LEMMA BeginTry ==
    ASSUME HostInv, HostInv', TriedInv, BeginOperation
    PROVE  TriedInv'
<1>1. UNCHANGED <<file, uid, bound, inventory, failed>> /\ run.at = "check" /\ ~Unfinished
    BY DEF BeginOperation, host, HostInv, JournalKept
<1>2. CASE run' = Leave /\ UNCHANGED <<journal, tried>>
    <2>1. run'.at \in {"idle", "keys"}
        BY <1>2, LeaveRow DEF Row
    <2> QED
        BY <1>1, <1>2, <2>1, OffPlan DEF Working, Changing, Unfinished
<1>3. CASE /\ Unchanged
           /\ journal' = [phase |-> "unfinished", plan |-> run.plan, auto |-> FALSE]
           /\ run' = To("writeKeys", run.plan.targets)
           /\ tried' = IF run.who = "sync" THEN Signature(run.plan) ELSE tried
    <2>1. run \in RunRow /\ run.plan \in Plan /\ run.plan.targets \in SUBSET (Files \cup Accounts)
        BY DEF HostInv, Typed, RunRow, Plan
    <2>2. Row(To("writeKeys", run.plan.targets), "writeKeys", run.who, run.plan, run.keys,
              run.plan.targets, run.ok)
        BY <2>1, ToRow DEF Steps, Changing
    <2>3. run'.at = "writeKeys" /\ run'.who = run.who /\ run'.plan = run.plan
        BY <1>3, <2>2 DEF Row
    <2>4. file = run.plan.before /\ uid = run.plan.uid
        BY <1>3 DEF Unchanged
    <2>5. Unfinished' /\ journal'.plan = run.plan
        BY <1>3 DEF Unfinished
    <2>6. \A f \in Files : Base(f)' = Base(f) /\ Base(f) = file[f] /\ file[f] \in Content
        BY <1>1, <2>3, <2>4, <2>5 DEF Base, HostInv, Typed
    <2>7. \A a \in Accounts : uid[a] \in Nat /\ uid[a] <= uid[a]
        BY NatBounds DEF HostInv, Typed
    <2>8. CASE run.who # "sync"
        <3>1. Advances
            BY <1>1, <1>3, <2>4, <2>5, <2>6, <2>7, <2>8, FollowsFacts DEF Advances
        <3>2. PlanInv'
            BY <1>1, <1>3, <2>3, <2>4, <2>8 DEF TriedInv, Ordered, PlanInv, Working, Changing, Adds
        <3>3. FreshInv' /\ AttemptInv'
            BY <2>3, <2>8 DEF FreshInv, AttemptInv, Changing
        <3> QED
            BY <1>1, <3>1, <3>2, <3>3, BindingsStay
    <2>9. CASE run.who = "sync"
        <3> DEFINE new == Signature(run.plan)
        <3>1. tried' = new /\ failed = new
            BY <1>1, <1>3, <2>9 DEF TriedInv, AttemptInv
        <3>2. new.before = run.plan.before /\ new.after = run.plan.after /\ new.uid = run.plan.uid
            BY DEF Signature
        <3>3. new \in SignatureRow
            BY <2>1 DEF Signature, SignatureRow, Plan
        <3> HIDE DEF new
        <3>4. \A f \in Files : /\ run.plan.before[f] \in Content
                               /\ run.plan.after[f] = [run.plan.before[f] EXCEPT !.covers = @ \cup run.plan.targets]
            BY <1>1, <2>1 DEF TriedInv, PlanInv, Working, Plan, Adds
        <3>5. \A f \in Files :
                 run.plan.after[f].covers = run.plan.before[f].covers \cup run.plan.targets
            BY <3>4 DEF Content
        <3>6. Added(new) = {a \in run.plan.targets : \E f \in Files : a \notin run.plan.before[f].covers}
            BY <2>1, <3>2, <3>5 DEF Added, Plan
        <3>7. \A f \in Files :
                 run.plan.before[f].covers \cup Added(new) = run.plan.before[f].covers \cup run.plan.targets
            BY <3>6
        <3>8. Adds(new, Added(new))
            BY <3>2, <3>4, <3>7 DEF Adds
        <3>9. Ordered'
            BY <1>1, <2>3, <2>4, <2>5, <2>6, <2>7, <3>1, <3>2, <3>3, <3>8, FollowsFacts
               DEF Ordered, Added
        <3>10. PlanInv'
            BY <1>1, <2>3, <2>4, <2>7, <2>9, <3>1, <3>2 DEF TriedInv, PlanInv, Working, Changing, Adds
        <3>11. FreshInv' /\ AttemptInv'
            BY <1>1, <2>3, <3>1 DEF FreshInv, AttemptInv, Changing, new, Signature
        <3>12. AddedInv'
            <4>1. \A a \in Added(new) : bound[a] = 0 /\ uid[a] # 0
                BY <1>1, <2>1, <2>4, <2>9, <3>6 DEF TriedInv, FreshInv, Plan
            <4> QED
                BY <1>1, <3>1, <4>1 DEF AddedInv, Added
        <3>13. failed' = tried'
            BY <1>1, <3>1
        <3> QED
            BY <3>9, <3>10, <3>11, <3>12, <3>13 DEF TriedInv
    <2> QED
        BY <2>8, <2>9
<1> QED
    BY <1>2, <1>3 DEF BeginOperation

\* A step of an operation that leaves bindings, inventory and the journal alone
LEMMA WorkGoesOn ==
    ASSUME HostInv, HostInv', TriedInv, Unfinished,
           UNCHANGED <<uid, bound, inventory, journal, failed, tried>>,
           \A f \in Files : Follows(journal.plan.before[f], file'[f]),
           run.at \in Changing, run'.at \in Changing, run'.who = run.who, run'.plan = run.plan,
           run'.at = "writeFiles" =>
               \A f \in Files \ run'.todo : Follows(run.plan.after[f], file'[f]),
           run'.at \in {"reload", "save"} => \A f \in Files : Follows(run.plan.after[f], file'[f]),
           run'.at \notin {"bind", "complete"}
    PROVE  TriedInv'
<1>1. \A f \in Files : Base(f) \in Content /\ Base(f)' = Base(f)
    BY BaseTyped DEF HostInv, Base, Unfinished
<1>2. \A a \in Accounts : uid[a] <= uid[a]
    BY NatBounds DEF HostInv, Typed
<1>3. Advances
    BY <1>1, <1>2, FollowsFacts DEF Advances
<1>4. PlanInv'
    BY DEF TriedInv, PlanInv, Working, Changing, Adds
<1>5. FreshInv' /\ AttemptInv'
    BY DEF TriedInv, FreshInv, AttemptInv, Changing, Signature
<1> QED
    BY <1>3, <1>4, <1>5, BindingsStay

LEMMA WorkTry ==
    ASSUME HostInv, HostInv', TriedInv,
           \/ \E a \in Accounts : WritePlanKeys(a)
           \/ KeysWritten \/ FilesWritten \/ Verified
           \/ \E f \in Files : ReloadService(f)
    PROVE  TriedInv'
<1>1. run.at \in Changing
    BY DEF WritePlanKeys, KeysWritten, FilesWritten, Verified, ReloadService, Changing
<1>2. run \in RunRow /\ Unfinished /\ journal.plan = run.plan
    BY <1>1 DEF HostInv, Typed, JournalKept
<1>3. UNCHANGED <<file, uid, bound, inventory, journal, failed, tried>>
    BY DEF WritePlanKeys, KeysWritten, FilesWritten, Verified, ReloadService, host
<1>4. \A f \in Files : Follows(journal.plan.before[f], file[f])
    BY <1>2 DEF TriedInv, Ordered
<1>5. /\ run'.who = run.who /\ run'.plan = run.plan
      /\ \/ run'.at = "writeKeys"
         \/ run'.at = "writeFiles" /\ run'.todo = Rewritten(run.plan)
         \/ run'.at = "reload" /\ run.at = "writeFiles" /\ run.todo = {}
         \/ run'.at \in {"reload", "save"} /\ run.at = "reload"
    <2>1. CASE \E a \in Accounts : WritePlanKeys(a)
        BY <1>2, <2>1, TodoRow DEF WritePlanKeys, Row
    <2>2. CASE KeysWritten
        BY <1>2, <2>2, ToRow, RewrittenFiles DEF KeysWritten, Row, Steps, Changing
    <2>3. CASE FilesWritten
        BY <1>2, <2>3, ToRow, RewrittenFiles DEF FilesWritten, Row, Steps, Changing
    <2>4. CASE Verified
        BY <1>2, <2>4, ToRow DEF Verified, Row, Steps, Changing
    <2>5. CASE \E f \in Files : ReloadService(f)
        BY <1>2, <2>5, TodoRow DEF ReloadService, Row
    <2> QED
        BY <2>1, <2>2, <2>3, <2>4, <2>5
<1>6. \A f \in Files \ Rewritten(run.plan) : run.plan.after[f] = run.plan.before[f]
    BY DEF Rewritten
<1>7. run'.at = "writeFiles" => \A f \in Files \ run'.todo : Follows(run.plan.after[f], file'[f])
    BY <1>2, <1>3, <1>4, <1>5, <1>6
<1>8. run'.at \in {"reload", "save"} => \A f \in Files : Follows(run.plan.after[f], file'[f])
    BY <1>3, <1>5 DEF TriedInv, PlanInv
<1>9. run'.at \in Changing /\ run'.at \notin {"bind", "complete"}
    BY <1>5 DEF Changing
<1> QED
    BY <1>1, <1>2, <1>3, <1>4, <1>5, <1>7, <1>8, <1>9, WorkGoesOn

\* What a plan writes follows what it found.
LEMMA AfterFollows ==
    ASSUME NEW plan \in Plan, NEW targets \in SUBSET Accounts, Adds(plan, targets), NEW f \in Files
    PROVE  /\ plan.before[f] \in Content /\ plan.after[f] \in Content
           /\ plan.after[f].covers = plan.before[f].covers \cup targets
           /\ Follows(plan.before[f], plan.after[f])
<1>1. plan.before[f] \in Content /\ plan.after[f] \in Content
    BY DEF Plan
<1>2. plan.after[f] = [plan.before[f] EXCEPT !.covers = @ \cup targets]
    BY DEF Adds
<1> QED
    BY <1>1, <1>2, NatBounds DEF Content, Follows

LEMMA WriteTry ==
    ASSUME HostInv, HostInv', TriedInv, NEW f \in Files, WriteFile(f)
    PROVE  TriedInv'
<1>1. run.at = "writeFiles" /\ f \in run.todo
    BY DEF WriteFile
<1>2. run \in RunRow /\ run.plan \in Plan /\ Unfinished /\ journal.plan = run.plan
    BY <1>1 DEF HostInv, Typed, RunRow, JournalKept, Changing
<1>3. UNCHANGED <<uid, bound, inventory, journal, failed, tried>>
    BY DEF WriteFile
<1>4. Row(run', "writeFiles", run.who, run.plan, run.keys, run.todo \ {f}, run.ok)
    BY <1>1, <1>2, TodoRow DEF WriteFile
<1>5. file'[f] = run.plan.after[f] /\ \A g \in Files : g # f => file'[g] = file[g]
    BY DEF WriteFile, HostInv, Typed
<1>6. /\ run.plan.after[f] \in Content
      /\ Follows(run.plan.before[f], run.plan.after[f])
    BY <1>1, <1>2, AfterFollows DEF TriedInv, PlanInv, Working, Changing, Plan
<1>7. Follows(run.plan.after[f], run.plan.after[f])
    BY <1>6, FollowsFacts
<1>8. \A g \in Files : Follows(journal.plan.before[g], file'[g])
    BY <1>2, <1>5, <1>6 DEF TriedInv, Ordered
<1>9. \A g \in Files \ run'.todo : Follows(run.plan.after[g], file'[g])
    BY <1>1, <1>4, <1>5, <1>7 DEF TriedInv, PlanInv, Row
<1>10. run'.at = "writeFiles" /\ run'.who = run.who /\ run'.plan = run.plan
    BY <1>4 DEF Row
<1> QED
    BY <1>1, <1>2, <1>3, <1>8, <1>9, <1>10, WorkGoesOn DEF Changing

\* As long as nothing has moved the plan found what was tried, and what it does shows.
LEMMA SamePlan ==
    ASSUME HostInv, TriedInv, run.at \in Changing, ~Moved(tried)
    PROVE  /\ \A a \in Accounts : run.plan.uid[a] = uid[a]
           /\ \A a \in Uncovered(tried) : a \in run.plan.targets =>
                 \E f \in Files : ~Follows(run.plan.after[f], tried.before[f])
<1>1. run.plan \in Plan /\ Unfinished /\ journal.plan = run.plan
    BY DEF HostInv, Typed, RunRow, JournalKept
<1>2. \A f \in Files : run.plan.before[f] = tried.before[f]
    BY <1>1 DEF Moved, Base
<1>3. \A a \in Accounts : run.plan.uid[a] = uid[a]
    <2>1. \A a \in Accounts : /\ run.plan.uid[a] \in Nat /\ uid[a] \in Nat
                              /\ tried.uid[a] = uid[a] /\ tried.uid[a] <= run.plan.uid[a]
                              /\ run.plan.uid[a] <= uid[a]
        BY <1>1, NatBounds DEF Plan, HostInv, Typed, Moved, TriedInv, PlanInv, Working
    <2> QED
        BY <2>1
<1>4. ASSUME NEW a \in Uncovered(tried), a \in run.plan.targets
      PROVE  \E f \in Files : ~Follows(run.plan.after[f], tried.before[f])
    <2>1. PICK f \in Files : a \notin tried.before[f].covers
        BY <1>4 DEF Uncovered
    <2>2. run.plan.targets \in SUBSET Accounts /\ Adds(run.plan, run.plan.targets)
        BY <1>1 DEF Plan, TriedInv, PlanInv, Working
    <2>3. /\ run.plan.before[f] \in Content /\ run.plan.after[f] \in Content
          /\ run.plan.after[f].covers = run.plan.before[f].covers \cup run.plan.targets
          /\ Follows(run.plan.before[f], run.plan.after[f])
        BY <1>1, <2>2, AfterFollows
    <2>4. run.plan.after[f] # run.plan.before[f]
        BY <1>2, <1>4, <2>1, <2>3
    <2>5. ~Follows(run.plan.after[f], run.plan.before[f])
        BY <2>3, <2>4, FollowsFacts
    <2> QED
        BY <1>2, <2>5
<1> QED
    BY <1>3, <1>4

LEMMA SaveTry ==
    ASSUME HostInv, HostInv', TriedInv, SaveInventory
    PROVE  TriedInv'
<1>1. /\ UNCHANGED <<file, uid, bound, journal, failed, tried>>
      /\ run.at = "save" /\ run.at \in Changing /\ inventory' = file /\ run \in RunRow
      /\ Unfinished
    BY DEF SaveInventory, Changing, HostInv, Typed, JournalKept
<1>2. Row(run', "bind", run.who, run.plan, run.keys, {}, run.ok)
    BY <1>1, ToRow DEF SaveInventory, Steps, Changing
<1>3. run'.at = "bind" /\ run'.who = run.who /\ run'.plan = run.plan
    BY <1>2 DEF Row
<1>4. Advances
    BY <1>1, <1>3, QuietAdvances DEF TriedInv, Unfinished
<1>5. PlanInv'
    BY <1>1, <1>3 DEF TriedInv, PlanInv, Working, Changing, Adds
<1>6. FreshInv' /\ AttemptInv'
    BY <1>1, <1>3 DEF TriedInv, FreshInv, AttemptInv, Changing, Signature
<1>7. AddedInv'
    BY <1>1, <1>4, AddedStays
<1>8. ASSUME failed # tried, ~Moved(tried)', Outdone(tried)
      PROVE  Outdone(tried)'
    <2>1. ~Moved(tried)
        BY <1>4, <1>8, OrderedStays DEF TriedInv
    <2>2. run.plan.targets = {a \in Accounts : run.plan.uid[a] # 0}
        BY <1>1, <1>8 DEF TriedInv, PlanInv, AttemptInv, Working
    <2>3. ASSUME NEW a \in Uncovered(tried), uid[a] # 0 
          PROVE  inventory' # tried.before
        <3>1. a \in Accounts
            BY DEF Uncovered
        <3>2. a \in run.plan.targets
            BY <1>1, <2>1, <2>2, <2>3, <3>1, SamePlan
        <3>3. PICK f \in Files : ~Follows(run.plan.after[f], tried.before[f])
            BY <1>1, <2>1, <3>2, SamePlan
        <3>4. Follows(run.plan.after[f], file[f])
            BY <1>1 DEF TriedInv, PlanInv
        <3> QED
            BY <1>1, <3>3, <3>4
    <2> QED
        BY <1>1, <1>8, <2>3 DEF Outdone, Added, Uncovered
<1> QED
    BY <1>1, <1>4, <1>5, <1>6, <1>7, <1>8, TriedStays

LEMMA BindTry ==
    ASSUME HostInv, HostInv', TriedInv, BindAccounts
    PROVE  TriedInv'
<1>1. /\ UNCHANGED <<file, uid, inventory, journal, failed, tried>>
      /\ run.at = "bind" /\ run.at \in Changing /\ run \in RunRow /\ Unfinished
      /\ \A a \in Accounts : bound'[a] = IF a \in run.plan.targets THEN run.plan.uid[a] ELSE bound[a]
    BY DEF BindAccounts, Changing, HostInv, Typed, JournalKept
<1>2. Row(run', "complete", run.who, run.plan, run.keys, {}, run.ok)
    BY <1>1, ToRow DEF BindAccounts, Steps, Changing
<1>3. run'.at = "complete" /\ run'.who = run.who /\ run'.plan = run.plan
    BY <1>2 DEF Row
<1>4. Advances
    BY <1>1, <1>3, QuietAdvances DEF TriedInv, Unfinished
<1>5. PlanInv'
    BY <1>1, <1>3 DEF TriedInv, PlanInv, Working, Changing, Adds
<1>6. FreshInv' /\ AttemptInv'
    BY <1>1, <1>3 DEF TriedInv, FreshInv, AttemptInv, Changing, Signature
<1>7. Moved(tried) => Moved(tried)'
    BY <1>4, OrderedStays DEF TriedInv
<1>8. AddedInv'
    <2>1. ASSUME ~Moved(tried)', NEW a \in Added(tried)
          PROVE  uid[a] # 0 /\ bound'[a] \in {0, uid[a]}
        <3>1. a \in Accounts /\ run.plan.uid[a] = uid[a]
            BY <1>1, <1>7, <2>1, SamePlan DEF Added
        <3> QED
            BY <1>1, <1>7, <2>1, <3>1 DEF TriedInv, AddedInv
    <2> QED
        BY <1>1, <2>1 DEF AddedInv, Added
<1>9. ASSUME ~Moved(tried)', Outdone(tried)
      PROVE  Outdone(tried)'
    <2>1. ~Moved(tried) /\ Added(tried)' = Added(tried) /\ Uncovered(tried)' = Uncovered(tried)
        BY <1>1, <1>7, <1>9 DEF Added, Uncovered
    <2>2. ASSUME NEW a \in Accounts, bound[a] = uid[a]
          PROVE  bound'[a] = uid[a]
        BY <1>1, <2>1, <2>2, SamePlan
    <2>3. ASSUME NEW a \in Uncovered(tried), a \in run.plan.targets
          PROVE  inventory # tried.before
        <3>1. PICK f \in Files : ~Follows(run.plan.after[f], tried.before[f])
            BY <1>1, <2>1, <2>3, SamePlan
        <3>2. Follows(run.plan.after[f], inventory[f])
            BY <1>1 DEF TriedInv, PlanInv
        <3> QED
            BY <3>1, <3>2
    <2>4. CASE \E a \in Added(tried) : bound[a] = uid[a]
        BY <1>1, <2>1, <2>2, <2>4 DEF Outdone, Added
    <2>5. ASSUME NEW a \in Uncovered(tried) \ Added(tried), uid[a] # 0, bound[a] = 0
          PROVE  Outdone(tried)'
        <3>1. a \in Accounts
            BY DEF Uncovered
        <3>2. CASE a \in run.plan.targets
            BY <1>1, <2>1, <2>3, <2>5, <3>2 DEF Outdone
        <3>3. CASE a \notin run.plan.targets
            BY <1>1, <2>1, <2>5, <3>1, <3>3 DEF Outdone
        <3> QED
            BY <3>2, <3>3
    <2>6. CASE inventory # tried.before /\ \E a \in Uncovered(tried) : uid[a] # 0
        BY <1>1, <2>1, <2>6 DEF Outdone
    <2> QED
        BY <1>9, <2>4, <2>5, <2>6 DEF Outdone
<1> QED
    BY <1>1, <1>4, <1>5, <1>6, <1>8, <1>9, TriedStays

\* Nothing was tried
LEMMA NoAttemptFacts ==
    /\ NoAttempt \in SignatureRow /\ Added(NoAttempt) = {} /\ Adds(NoAttempt, {})
    /\ \A a \in Accounts : NoAttempt.uid[a] = 0
    /\ \A f \in Files : NoAttempt.before[f] = [edits |-> 0, covers |-> {}]
<1>1. NoAttempt = [before |-> Unset, after |-> Unset, uid |-> [a \in Accounts |-> 0]]
    BY DEF NoAttempt, Signature, NoPlan
<1>2. NoAttempt \in SignatureRow
    BY <1>1, NatBounds DEF SignatureRow, Unset, Content
<1>3. Added(NoAttempt) = {}
    BY <1>1 DEF Added
<1>4. \A f \in Files : Unset[f] = [Unset[f] EXCEPT !.covers = @ \cup {}]
    BY DEF Unset
<1> QED
    BY <1>1, <1>2, <1>3, <1>4 DEF Adds, Unset

LEMMA CompleteTry ==
    ASSUME HostInv, HostInv', TriedInv, CompleteOperation \/ Unmark
    PROVE  TriedInv'
<1>1. /\ UNCHANGED <<file, uid, bound, inventory>> /\ run \in RunRow /\ tried' = NoAttempt
    BY DEF CompleteOperation, Unmark, host, HostInv, Typed, TriedInv, AttemptInv
<1>2. CASE CompleteOperation
    <2>1. run'.at = "unmark"
        BY <1>1, <1>2, ToRow DEF CompleteOperation, Row, Steps
    <2>2. ~Unfinished'
        BY <1>2 DEF CompleteOperation, Unfinished, HostInv, Typed, Journal
    <2>3. \A f \in Files : file[f] \in Content /\ Base(f)' = file[f]
        BY <1>1, <2>1, <2>2 DEF Base, HostInv, Typed
    <2>4. \A f \in Files : Follows(NoAttempt.before[f], file[f])
        <3> DEFINE none == [edits |-> 0, covers |-> {}]
        <3>1. \A c \in Content : none.edits = 0 /\ 0 <= c.edits /\ none.covers = {} /\ c.edits \in Nat
            BY NatBounds DEF Content
        <3>2. \A c \in Content : Follows(none, c)
            BY <3>1 DEF Follows
        <3> HIDE DEF none
        <3>3. \A f \in Files : NoAttempt.before[f] = none
            BY Zenon, NoAttemptFacts DEF none
        <3> QED
            BY <2>3, <3>2, <3>3
    <2>5. \A a \in Accounts : NoAttempt.uid[a] <= uid[a]
        BY NoAttemptFacts, NatBounds DEF HostInv, Typed
    <2>6. Ordered'
        BY <1>1, <2>1, <2>2, <2>3, <2>4, <2>5, NoAttemptFacts DEF Ordered, Adds, Added
    <2>7. PlanInv' /\ FreshInv' /\ AttemptInv'
        BY <1>1, <2>1 DEF PlanInv, FreshInv, AttemptInv, Working, Changing
    <2>8. Added(tried)' = {}
        BY <1>1, NoAttemptFacts DEF Added
    <2>9. AddedInv' /\ Gone(tried)'
        BY <1>1, <2>8 DEF AddedInv, Gone
    <2> QED
        BY <2>6, <2>7, <2>9 DEF TriedInv
<1>3. CASE Unmark
    <2>1. run'.at \in {"idle", "keys"} /\ UNCHANGED <<journal, tried>> /\ failed' = tried
        BY <1>1, <1>3, LeaveRow DEF Unmark, Row, TriedInv, AttemptInv
    <2>2. Advances
        BY <1>1, <2>1, QuietAdvances DEF TriedInv, Unfinished
    <2>3. Ordered' /\ AddedInv'
        BY <1>1, <2>1, <2>2, AddedStays, OrderedStays DEF TriedInv
    <2>4. PlanInv' /\ FreshInv' /\ AttemptInv'
        BY <2>1 DEF PlanInv, FreshInv, AttemptInv, Working, Changing
    <2> QED
        BY <2>1, <2>3, <2>4 DEF TriedInv
<1> QED
    BY <1>2, <1>3

-----------------------------------------------------------------------------
(* Recovery and the synchronization of the keys *)

LEMMA RestoreTry ==
    ASSUME HostInv, HostInv', TriedInv, NEW f \in Files, RestoreFile(f)
    PROVE  TriedInv'
<1>1. run.at = "restoreFiles" /\ run \in RunRow /\ Unfinished
    BY DEF RestoreFile, HostInv, Typed, JournalKept
<1>2. UNCHANGED <<uid, bound, inventory, journal, failed, tried>>
    BY DEF RestoreFile
<1>3. run'.at = "restoreFiles"
    BY <1>1, TodoRow DEF RestoreFile, Row
<1>4. /\ file'[f] = journal.plan.before[f] /\ \A g \in Files : g # f => file'[g] = file[g]
      /\ \A g \in Files : journal.plan.before[g] \in Content
    BY DEF RestoreFile, Before, HostInv, Typed, Journal, Plan
<1>5. \A g \in Files : Base(g) \in Content /\ Base(g)' = Base(g)
    BY <1>1, <1>2, BaseTyped DEF HostInv, Base, Unfinished
<1>6. \A g \in Files : Follows(journal.plan.before[g], file'[g])
    BY <1>1, <1>4, FollowsFacts DEF TriedInv, Ordered
<1>7. \A a \in Accounts : uid[a] <= uid[a]
    BY NatBounds DEF HostInv, Typed
<1>8. Advances
    BY <1>2, <1>5, <1>6, <1>7, FollowsFacts DEF Advances
<1>9. PlanInv' /\ FreshInv' /\ AttemptInv'
    BY <1>3 DEF PlanInv, FreshInv, AttemptInv, Working, Changing
<1> QED
    BY <1>2, <1>8, <1>9, BindingsStay

LEMMA DiscardTry ==
    ASSUME HostInv, HostInv', TriedInv, NEW a \in Accounts, NEW unbind \in BOOLEAN,
           Discard(a, unbind)
    PROVE  TriedInv'
<1>1. UNCHANGED <<file, uid, inventory, journal, failed, tried>> /\ run.at = "discard"
    BY DEF Discard
<1>2. CASE run' = Leave /\ UNCHANGED bound
    <2>1. run'.at \in {"idle", "keys"}
        BY <1>2, LeaveRow DEF Row
    <2> QED
        BY <1>1, <1>2, <2>1, OffPlan DEF Working, Changing, Unfinished
<1>3. CASE bound' = [bound EXCEPT ![a] = 0] /\ UNCHANGED run /\ bound[a] \notin {0, uid[a]}
    <2>1. \A b \in Accounts :
             bound'[b] = bound[b] \/ (bound'[b] = 0 /\ bound[b] \notin {0, uid[b]})
        <3>1. bound \in [Accounts -> 0..MaxUid]
            BY DEF HostInv, Typed
        <3> QED
            BY <1>3, <3>1
    <2>2. Advances
        BY <1>1, <1>3, QuietAdvances DEF TriedInv, Unfinished
    <2>3. PlanInv' /\ FreshInv' /\ AttemptInv'
        BY <1>1, <1>3 DEF TriedInv, PlanInv, FreshInv, AttemptInv, Working, Changing
    <2>4. AddedInv'
        BY <1>1, <2>1, <2>2, OrderedStays DEF TriedInv, AddedInv, Added
    <2>5. Outdone(tried) => Outdone(tried)'
        BY <1>1, <2>1 DEF Outdone, Added, Uncovered
    <2> QED
        BY <1>1, <2>2, <2>3, <2>4, <2>5, TriedStays
<1> QED
    BY <1>2, <1>3 DEF Discard

LEMMA ReadTry ==
    ASSUME HostInv, HostInv', TriedInv,
           ReadMachine \/ \E answered \in SUBSET Accounts : AskPlatform(answered)
    PROVE  TriedInv'
<1>1. UNCHANGED <<file, uid, bound, inventory, journal, failed, tried>>
    BY DEF ReadMachine, AskPlatform, host
<1>2. CASE run' = Idle
    <2>1. run'.at = "idle"
        BY <1>2, IdleRow DEF Row
    <2> QED
        BY <1>1, <2>1, OffPlan DEF Working, Changing, Unfinished
<1>3. CASE run' # Idle
    <2>1. run'.at \in {"ask", "apply"} /\ (run'.ok => ~Unfinished)
        <3>1. CASE ReadMachine
            BY <3>1, ReadRow DEF Covered
        <3>2. ASSUME NEW answered \in SUBSET Accounts, AskPlatform(answered)
              PROVE  run'.at = "apply" /\ run'.ok = run.ok /\ run.at = "ask"
            BY <1>3, <3>2, AskRow DEF AskPlatform
        <3> QED
            BY <3>1, <3>2 DEF TriedInv, PlanInv
    <2>2. Advances
        BY <1>1, <2>1, QuietAdvances DEF TriedInv, Unfinished
    <2>3. PlanInv' /\ FreshInv' /\ AttemptInv'
        BY <1>1, <2>1 DEF PlanInv, FreshInv, AttemptInv, Working, Changing, Unfinished
    <2> QED
        BY <1>1, <2>2, <2>3, BindingsStay
<1> QED
    BY <1>2, <1>3

\* An account is enrolled outside an attempt only where policy holds, so that no attempt
\* was waiting for it.
LEMMA ApplyTry ==
    ASSUME HostInv, HostInv', TriedInv, NEW a \in Accounts, NEW drift \in BOOLEAN,
           ApplyKeys(a, drift)
    PROVE  TriedInv'
<1>1. /\ UNCHANGED <<file, uid, inventory, journal, failed, tried>>
      /\ run.at = "apply" /\ run \in RunRow
    BY DEF ApplyKeys, HostInv, Typed
<1>2. run'.at = "apply" /\ run'.ok = run.ok
    BY <1>1, TodoRow DEF ApplyKeys, Row
<1>3. \A b \in Accounts : 
         \/ bound'[b] = bound[b]
         \/ b = a /\ bound'[b] = uid[b] /\ (PolicyHolds(a) \/ bound[b] # 0)
    BY DEF ApplyKeys, HostInv, Typed
<1>4. Advances
    BY <1>1, <1>2, QuietAdvances DEF TriedInv, Unfinished
<1>5. PlanInv' /\ FreshInv' /\ AttemptInv'
    BY <1>1, <1>2 DEF TriedInv, PlanInv, FreshInv, AttemptInv, Working, Changing, Unfinished
<1>6. AddedInv'
    BY <1>1, <1>3, <1>4, OrderedStays DEF TriedInv, AddedInv, Added
<1>7. ASSUME ~Moved(tried)', Outdone(tried)
      PROVE  Outdone(tried)'
    <2>1. ~Moved(tried)
        BY <1>4, <1>7, OrderedStays DEF TriedInv
    <2>2. ASSUME PolicyHolds(a) PROVE a \notin Uncovered(tried)
        <3>1. ~Unfinished /\ \A f \in Files : a \in file[f].covers
            BY <1>1, <2>2 DEF TriedInv, PlanInv, PolicyHolds
        <3>2. \A f \in Files : file[f] = tried.before[f]
            BY <1>1, <2>1, <3>1 DEF Moved, Base
        <3> QED
            BY <3>1, <3>2 DEF Uncovered
    <2>3. CASE \E b \in Added(tried) : bound[b] = uid[b]
        BY <1>1, <1>3, <2>3 DEF Outdone, Added
    <2>4. ASSUME NEW b \in Uncovered(tried) \ Added(tried), uid[b] # 0, bound[b] = 0
          PROVE  Outdone(tried)'
        <3>1. b \in Accounts /\ bound'[b] = 0
            BY <1>3, <2>2, <2>4 DEF Uncovered
        <3> QED
            BY <1>1, <2>4, <3>1 DEF Outdone, Uncovered, Added
    <2>5. CASE inventory # tried.before /\ \E b \in Uncovered(tried) : uid[b] # 0
        BY <1>1, <2>5 DEF Outdone, Uncovered
    <2> QED
        BY <1>7, <2>3, <2>4, <2>5 DEF Outdone
<1> QED
    BY <1>1, <1>4, <1>5, <1>6, <1>7, TriedStays

-----------------------------------------------------------------------------
(* What was tried automatically is not tried again *)

LEMMA TriedStarts == Init => TriedInv
<1> SUFFICES ASSUME Init PROVE TriedInv
    OBVIOUS
<1>1. run.at = "idle"
    BY IdleRow DEF Init, Row
<1>2. PlanInv /\ FreshInv /\ AttemptInv
    BY <1>1 DEF PlanInv, FreshInv, AttemptInv, Working, Changing
<1>3. tried = NoAttempt /\ failed = NoAttempt /\ file = Unset /\ ~Unfinished
    BY DEF Init, Unfinished
<1>4. \A f \in Files : Base(f) = [edits |-> 0, covers |-> {}]
    BY <1>1, <1>3 DEF Base, Unset
<1>5. [edits |-> 0, covers |-> {}] \in Content
    BY NatBounds DEF Content
<1>6. \A f \in Files : Follows(NoAttempt.before[f], Base(f))
    <2> DEFINE none == [edits |-> 0, covers |-> {}]
    <2>1. Follows(none, none)
        BY <1>5, FollowsFacts
    <2>2. \A f \in Files : NoAttempt.before[f] = none /\ Base(f) = none
        BY <1>4, NoAttemptFacts, Zenon
    <2> HIDE DEF none
    <2> QED
        BY <2>1, <2>2
<1>7. \A a \in Accounts : uid[a] = 0
    BY DEF Init
<1>8. Ordered
    BY <1>1, <1>3, <1>6, <1>7, NoAttemptFacts DEF Ordered
<1>9. AddedInv
    BY <1>3, NoAttemptFacts DEF AddedInv
<1> QED
    BY <1>2, <1>3, <1>8, <1>9 DEF TriedInv

LEMMA TriedKept ==
    ASSUME HostInv, HostInv', TriedInv, [Next]_vars
    PROVE  TriedInv'
<1>1. CASE UNCHANGED vars
    BY <1>1 DEF vars, TriedInv, Ordered, PlanInv, FreshInv, AttemptInv, AddedInv, Gone, Moved,
                Outdone, Base, Added, Uncovered, Adds, Unfinished
<1>2. CASE Surroundings
    BY <1>2, SurroundingsTry
<1>3. CASE StartSync \/ StartConfigure \/ StartRecover
    BY <1>3, OffPlanSteps, ConfigureTry
<1>4. CASE Operation
    BY <1>4, FetchTry, MarkTry, BeginTry, WorkTry, WriteTry, SaveTry, BindTry, CompleteTry,
       OffPlanJournal DEF Operation
<1>5. CASE Recovery
    BY <1>5, OffPlanSteps, OffPlanJournal, RestoreTry DEF Recovery
<1>6. CASE Synchronization
    BY <1>6, OffPlanSteps, OffPlanJournal, EnrollTry, DiscardTry, ReadTry, ApplyTry
       DEF Synchronization
<1> QED
    BY <1>1, <1>2, <1>3, <1>4, <1>5, <1>6 DEF Next

LEMMA TriedInvariant == Spec => [](HostInv /\ TriedInv)
<1> DEFINE Both == HostInv /\ TriedInv
<1>1. HostInv /\ Init => Both
    BY TriedStarts
<1>2. Both /\ HostInv' /\ [Next]_vars => Both'
    BY TriedKept
<1> HIDE DEF Both
<1>3. Spec => []HostInv
    BY HostInvariant
<1>4. Spec => []Both
    BY <1>1, <1>2, <1>3, PTL DEF Spec
<1> QED
    BY <1>4 DEF Both

\* An automatic enrolment that was killed, failed or could not be restored is not repeated
\* under the same conditions, for any number of services, accounts and registrations.
THEOREM TriedOnlyOnce == Spec => TriedOnce
<1> DEFINE Once == run.at = "check" /\ run.who = "sync" /\ run'.at = "writeKeys"
                       => Signature(run.plan) # tried
<1>1. HostInv /\ TriedInv /\ [Next]_vars => [Once]_vars
    <2> SUFFICES ASSUME HostInv, TriedInv, Next, run.at = "check", run.who = "sync",
                        run'.at = "writeKeys", Signature(run.plan) = tried
                 PROVE  FALSE
        OBVIOUS
    <2>1. run' # run /\ run \in RunRow /\ ~Unfinished
        BY DEF HostInv, Typed, JournalKept
    <2>2. BeginOperation
        <3>1. CASE Surroundings
            BY <2>1, <3>1, IdleRow DEF Surroundings, AdminReload, Edit, CreateAccount, Grant, Killed, Row
        <3>2. CASE Operation
            BY <3>2 DEF Operation, FetchPlanKeys, Mark, WritePlanKeys,
               KeysWritten, WriteFile, FilesWritten, ReloadService, Verified, SaveInventory,
               BindAccounts, CompleteOperation, Unmark, OperationFails, Changing
        <3>3. CASE \/ StartSync \/ StartConfigure \/ StartRecover \/ Recovery \/ Synchronization
            BY <3>3 DEF StartSync, StartConfigure, StartRecover, Recovery, Synchronization,
               BeginRestore, RestoreFails, FilesRestored, EndRestore, RestoreFile, RestoreReload,
               Discard, Discarded, AutoRecover, AutoEnroll, ReadMachine, EndSync, AskPlatform,
               ApplyKeys
        <3> QED
            BY <3>1, <3>2, <3>3 DEF Next
    <2>3. Unchanged
        <3>1. Row(Leave, "keys", "sync", NoPlan, NoKeys, {}, TRUE)
            BY LeaveRow
        <3> QED
            BY <2>2, <3>1 DEF BeginOperation, Row
    <2>4. Gone(tried) /\ run.plan.targets # {} /\ inventory = run.plan.before
          /\ \A a \in Accounts : a \in run.plan.targets <=> run.plan.uid[a] # 0 /\ bound[a] = 0
        BY DEF TriedInv, FreshInv
    <2>5. /\ tried.before = run.plan.before /\ tried.after = run.plan.after
          /\ tried.uid = run.plan.uid
        BY DEF Signature
    <2>6. ~Moved(tried)
        BY <2>1, <2>3, <2>5 DEF Moved, Base, Unchanged
    <2>7. tried # NoAttempt
        BY <2>4, <2>5, NoAttemptFacts DEF HostInv, Typed, RunRow, Plan
    <2>8. Outdone(tried)
        BY <2>4, <2>6, <2>7 DEF Gone
    <2>9. \A f \in Files : /\ run.plan.before[f] \in Content
                           /\ run.plan.after[f].covers = run.plan.before[f].covers \cup run.plan.targets
        BY <2>1, AfterFollows DEF TriedInv, PlanInv, Working, RunRow, Plan
    <2>10. Added(tried) = Uncovered(tried) \cap run.plan.targets
        BY <2>5, <2>9 DEF Added, Uncovered
    <2>11. \A a \in Accounts : uid[a] = run.plan.uid[a]
        BY <2>3 DEF Unchanged
    <2>12. ~ \E a \in Added(tried) : bound[a] = uid[a]
        BY <2>4, <2>10, <2>11 DEF Uncovered
    <2>13. ~ \E a \in Uncovered(tried) \ Added(tried) : uid[a] # 0 /\ bound[a] = 0
        BY <2>4, <2>10, <2>11 DEF Uncovered
    <2> QED
        BY <2>4, <2>5, <2>8, <2>12, <2>13 DEF Outdone
<1> QED
    BY <1>1, TriedInvariant, PTL DEF Spec, TriedOnce
-----------------------------------------------------------------------------
(* The invariant of Enrolment *)

Command == proc["command"]
Sync == proc["sync"]

ProcRow == [at : E!Steps, id : Nat, key : Nat, has : BOOLEAN, refreshed : BOOLEAN,
            goal : {"none", "check", "recheck", "rotate", "enroll", "plain", "keys", "confirm"},
            required : BOOLEAN]
RegRow == [id : Nat, key : Nat, enabled : BOOLEAN, token : BOOLEAN, confirmed : BOOLEAN]

EnrolmentTyped ==
    /\ reg \in RegRow /\ stamp \in [id : Nat, key : Nat] /\ synced \in BOOLEAN
    /\ proc \in [E!Programs -> ProcRow]
    /\ saved \in Nat /\ identity \in Nat /\ pending \in Nat /\ made \in Nat

CommandShape ==
    /\ Command.at \in {"idle", "token", "enroll", "rotate", "save", "makeIdentity",
                       "configure", "makePending", "adopt", "remove"}
    /\ Command.at = "token" => Command.goal \in {"check", "recheck", "rotate"}
    /\ Command.at = "enroll" => Command.goal \in {"plain", "enroll"}
    /\ Command.at \in {"makeIdentity", "configure"} => Command.goal = "plain"
    /\ Command.at \in {"makePending", "rotate"} => Command.goal = "rotate"
    /\ Command.at \in {"token", "enroll"} /\ Command.goal \in {"check", "enroll"} => ~Command.has

SyncShape ==
    /\ Sync.at \in {"idle", "token", "keys", "apply", "confirm"}
    /\ Sync.at = "token" => Sync.goal \in {"keys", "confirm"}
    /\ Sync.at \in {"keys", "apply"} => Sync.goal = "keys"
    /\ Sync.at = "confirm" => Sync.goal = "confirm"

\* Keys and registrations exist before anything names them.
Numbers ==
    /\ reg.key <= made /\ identity <= made /\ pending <= made
    /\ saved <= reg.id /\ stamp.id <= reg.id
    /\ \A p \in E!Programs : proc[p].id <= reg.id /\ (proc[p].at # "idle" => proc[p].id # 0)

\* What a command relies on at each of its steps
CommandInv ==
    /\ Command.at \notin {"idle", "remove"} => Command.key = identity
    /\ Command.at \in {"makeIdentity", "configure"} => saved = 0
    /\ Command.at = "makeIdentity" => identity = 0
    /\ Command.at = "makePending" => pending = 0
    /\ Command.at \notin {"idle", "makeIdentity", "configure"} => saved # 0
    /\ Command.at # "idle" /\ Command.goal = "rotate" => Command.id = saved
    /\ Command.at = "adopt" => reg.key \in {0, pending}
    /\ Command.at = "remove" => reg.key \in {0, identity}
    /\ Command.at = "save" /\ Command.id = reg.id => reg.key = identity
    /\ Command.at = "save" /\ Command.id # reg.id => reg.key = 0

\* A key set aside is the platform's only if the configuration names its registration.
PendingInv ==
    /\ saved = 0 => pending = 0
    /\ reg.key # 0 /\ reg.key = pending => (reg.id = saved \/ identity = pending)

SyncedInv == Sync.at # "idle" /\ Sync.goal = "confirm" /\ Sync.id = reg.id => synced

EnrolmentInv ==
    /\ EnrolmentTyped /\ CommandShape /\ SyncShape /\ Numbers
    /\ CommandInv /\ PendingInv /\ SyncedInv /\ E!BothSidesAgree

-----------------------------------------------------------------------------
(* Rows of a program *)

ERow(r, at, goal, id, key, has) ==
    /\ r \in ProcRow
    /\ r.at = at /\ r.goal = goal /\ r.id = id /\ r.key = key /\ r.has = has

LEMMA EIdleRow == ERow(E!Idle, "idle", "none", 0, 0, FALSE)
BY DEF ERow, ProcRow, E!Idle, E!Steps

LEMMA EFieldRows ==
    ASSUME NEW r \in ProcRow
    PROVE  /\ \A at \in E!Steps : ERow([r EXCEPT !.at = at], at, r.goal, r.id, r.key, r.has)
           /\ \A goal \in {"none", "check", "recheck", "rotate", "enroll", "plain", "keys", "confirm"} :
                 ERow([r EXCEPT !.goal = goal], r.at, goal, r.id, r.key, r.has)
           /\ \A id \in Nat : ERow([r EXCEPT !.id = id], r.at, r.goal, id, r.key, r.has)
           /\ \A key \in Nat : ERow([r EXCEPT !.key = key], r.at, r.goal, r.id, key, r.has)
           /\ \A has \in BOOLEAN : ERow([r EXCEPT !.has = has], r.at, r.goal, r.id, r.key, has)
           /\ \A refreshed \in BOOLEAN :
                 ERow([r EXCEPT !.refreshed = refreshed], r.at, r.goal, r.id, r.key, r.has)
           /\ \A required \in BOOLEAN :
                 ERow([r EXCEPT !.required = required], r.at, r.goal, r.id, r.key, r.has)
BY DEF ProcRow, ERow

LEMMA StartingRow ==
    ASSUME NEW id \in Nat, NEW step \in E!Steps, identity \in Nat,
           NEW goal \in {"none", "check", "recheck", "rotate", "enroll", "plain", "keys", "confirm"}
    PROVE  ERow(E!Starting(id, step, goal), step, goal, id, identity, FALSE)
<1> DEFINE a == [E!Idle EXCEPT !.at = step]
           b == [a EXCEPT !.goal = goal]
           c == [b EXCEPT !.id = id]
           d == [c EXCEPT !.key = identity]
<1>0. E!Idle \in ProcRow
    BY EIdleRow DEF ERow
<1>1. ERow(a, step, "none", 0, 0, FALSE) /\ a \in ProcRow
    <2>1. ERow(a, step, E!Idle.goal, E!Idle.id, E!Idle.key, E!Idle.has)
        BY <1>0, EFieldRows, Zenon
    <2> QED
        BY <2>1, EIdleRow DEF ERow
<1>2. ERow(b, a.at, goal, a.id, a.key, a.has)
    BY <1>1, EFieldRows, Zenon
<1>3. b \in ProcRow
    BY <1>2 DEF ERow
<1>4. ERow(c, b.at, b.goal, id, b.key, b.has)
    BY <1>3, EFieldRows, Zenon
<1>5. c \in ProcRow
    BY <1>4 DEF ERow
<1>6. ERow(d, c.at, c.goal, c.id, identity, c.has)
    BY <1>5, EFieldRows, Zenon
<1>7. d = E!Starting(id, step, goal)
    BY Zenon DEF E!Starting
<1> HIDE DEF a, b, c, d
<1> QED
    BY <1>1, <1>2, <1>4, <1>6, <1>7 DEF ERow

LEMMA TwoFields ==
    ASSUME NEW r \in ProcRow, NEW at \in E!Steps, NEW has \in BOOLEAN, NEW key \in Nat,
           NEW goal \in {"none", "check", "recheck", "rotate", "enroll", "plain", "keys", "confirm"}
    PROVE  /\ ERow([r EXCEPT !.at = at, !.has = has], at, r.goal, r.id, r.key, has)
           /\ ERow([r EXCEPT !.has = has, !.at = at], at, r.goal, r.id, r.key, has)
           /\ ERow([r EXCEPT !.at = at, !.key = key], at, r.goal, r.id, key, r.has)
           /\ ERow([r EXCEPT !.goal = goal, !.refreshed = FALSE], r.at, goal, r.id, r.key, r.has)
           /\ ERow([r EXCEPT !.at = at, !.goal = goal, !.has = has], at, goal, r.id, r.key, has)
           /\ ERow([r EXCEPT !.at = at, !.refreshed = TRUE, !.has = has], at, r.goal, r.id, r.key, has)
<1> DEFINE a == [r EXCEPT !.at = at]
           h == [r EXCEPT !.has = has]
           g == [r EXCEPT !.goal = goal]
           ah == [a EXCEPT !.has = has]
           ha == [h EXCEPT !.at = at]
           ak == [a EXCEPT !.key = key]
           gf == [g EXCEPT !.refreshed = FALSE]
           ag == [a EXCEPT !.goal = goal]
           agh == [ag EXCEPT !.has = has]
           af == [a EXCEPT !.refreshed = TRUE]
           afh == [af EXCEPT !.has = has]
<1>1. /\ ERow(a, at, r.goal, r.id, r.key, r.has) /\ a \in ProcRow
      /\ ERow(h, r.at, r.goal, r.id, r.key, has) /\ h \in ProcRow
      /\ ERow(g, r.at, goal, r.id, r.key, r.has) /\ g \in ProcRow
    <2>1. /\ ERow(a, at, r.goal, r.id, r.key, r.has)
          /\ ERow(h, r.at, r.goal, r.id, r.key, has)
          /\ ERow(g, r.at, goal, r.id, r.key, r.has)
        BY EFieldRows, Zenon
    <2> QED
        BY <2>1 DEF ERow
<1>2. ERow(ah, a.at, a.goal, a.id, a.key, has)
    BY <1>1, EFieldRows, Zenon
<1>3. ERow(ha, at, h.goal, h.id, h.key, h.has)
    BY <1>1, EFieldRows, Zenon
<1>4. ERow(ak, a.at, a.goal, a.id, key, a.has)
    BY <1>1, EFieldRows, Zenon
<1>5. ERow(gf, g.at, g.goal, g.id, g.key, g.has)
    <2>1. FALSE \in BOOLEAN
        OBVIOUS
    <2> QED
        BY <1>1, <2>1, EFieldRows, Zenon
<1>6. ERow(ag, a.at, goal, a.id, a.key, a.has)
    BY <1>1, EFieldRows, Zenon
<1>7. ag \in ProcRow
    BY <1>6 DEF ERow
<1>8. ERow(agh, ag.at, ag.goal, ag.id, ag.key, has)
    BY <1>7, EFieldRows, Zenon
<1>9. ERow(af, a.at, a.goal, a.id, a.key, a.has)
    <2>1. TRUE \in BOOLEAN
        OBVIOUS
    <2> QED
        BY <1>1, <2>1, EFieldRows, Zenon
<1>10. af \in ProcRow
    BY <1>9 DEF ERow
<1>11. ERow(afh, af.at, af.goal, af.id, af.key, has)
    BY <1>10, EFieldRows, Zenon
<1>12. /\ ah = [r EXCEPT !.at = at, !.has = has] /\ ha = [r EXCEPT !.has = has, !.at = at]
       /\ ak = [r EXCEPT !.at = at, !.key = key]
       /\ gf = [r EXCEPT !.goal = goal, !.refreshed = FALSE]
       /\ agh = [r EXCEPT !.at = at, !.goal = goal, !.has = has]
       /\ afh = [r EXCEPT !.at = at, !.refreshed = TRUE, !.has = has]
    BY Zenon
<1> HIDE DEF a, h, g, ah, ha, ak, gf, ag, agh, af, afh
<1>13. /\ ERow(ah, at, r.goal, r.id, r.key, has)
       /\ ERow(ha, at, r.goal, r.id, r.key, has)
       /\ ERow(ak, at, r.goal, r.id, key, r.has)
       /\ ERow(gf, r.at, goal, r.id, r.key, r.has)
       /\ ERow(agh, at, goal, r.id, r.key, has)
       /\ ERow(afh, at, r.goal, r.id, r.key, has)
    BY <1>1, <1>2, <1>3, <1>4, <1>5, <1>6, <1>8, <1>9, <1>11 DEF ERow
<1> QED
    BY <1>12, <1>13, Zenon

\* A call uses the credential at hand or asks for one.
LEMMA CallRow ==
    ASSUME NEW r \in ProcRow, NEW goal \in {"recheck", "keys", "confirm"},
           NEW s \in E!Call(r, goal), goal = "recheck" => ~r.has
    PROVE  /\ s \in ProcRow /\ s.goal = goal /\ s.id = r.id /\ s.key = r.key
           /\ s.at = "token" \/ (s.at = goal /\ goal # "recheck")
<1> DEFINE c == [r EXCEPT !.goal = goal, !.refreshed = FALSE]
           x == [c EXCEPT !.at = "token", !.has = FALSE]
           y == [c EXCEPT !.at = goal]
<1>1. ERow(c, r.at, goal, r.id, r.key, r.has)
    <2>1. /\ "token" \in E!Steps /\ FALSE \in BOOLEAN /\ 0 \in Nat
          /\ goal \in {"none", "check", "recheck", "rotate", "enroll", "plain", "keys", "confirm"}
        BY DEF E!Steps, E!Requests
    <2> QED
        BY <2>1, TwoFields, Zenon
<1>2. c \in ProcRow
    BY <1>1 DEF ERow
<1>3. s = x \/ (s = y /\ r.has)
    BY DEF E!Call
<1> HIDE DEF c
<1>4. CASE s = x
    <2>1. "token" \in E!Steps /\ FALSE \in BOOLEAN
        BY DEF E!Steps, E!Requests
    <2>2. ERow(x, "token", c.goal, c.id, c.key, FALSE)
        BY <1>2, <2>1, TwoFields, Zenon
    <2> HIDE DEF x
    <2> QED
        BY <1>1, <1>4, <2>2 DEF ERow
<1>5. CASE s = y /\ r.has
    <2>1. goal \in E!Steps /\ goal # "recheck"
        BY <1>5 DEF E!Steps, E!Requests
    <2>2. ERow(y, goal, c.goal, c.id, c.key, c.has)
        BY <1>2, <2>1, EFieldRows, Zenon
    <2> HIDE DEF y
    <2> QED
        BY <1>1, <1>5, <2>1, <2>2 DEF ERow
<1> QED
    BY <1>3, <1>4, <1>5

LEMMA ProceedsRow ==
    ASSUME NEW r \in ProcRow, NEW s, s = E!Proceeds(r),
           r.at = "token" => r.goal \in {"check", "recheck", "rotate", "keys", "confirm"}
    PROVE  \/ s = E!Idle
           \/ /\ s \in ProcRow /\ s.goal = r.goal /\ s.id = r.id /\ s.key = r.key
              /\ \/ r.at = "token" /\ s.at = "save" /\ r.goal \in {"check", "recheck"}
                 \/ r.at = "token" /\ s.at = r.goal /\ r.goal \in {"rotate", "keys", "confirm"}
                 \/ r.at = "enroll" /\ r.goal # "plain" /\ s.at = "save"
                 \/ r.at = "rotate" /\ s.at = "adopt"
                 \/ r.at = "keys" /\ s.at = "apply"
<1>1. CASE r.at = "token"
    <2> DEFINE at == IF r.goal \in E!Checks THEN "save" ELSE r.goal
               x == [r EXCEPT !.has = TRUE, !.at = at]
    <2>1. at \in E!Steps /\ TRUE \in BOOLEAN
        BY <1>1 DEF E!Steps, E!Requests, E!Checks
    <2>2. s = x
        BY <1>1, Zenon DEF E!Proceeds
    <2>3. \/ at = "save" /\ r.goal \in {"check", "recheck"}
          \/ at = r.goal /\ r.goal \in {"rotate", "keys", "confirm"}
        BY <1>1 DEF E!Checks
    <2> HIDE DEF at
    <2>4. ERow(x, at, r.goal, r.id, r.key, TRUE)
        BY <2>1, TwoFields, Zenon
    <2> HIDE DEF x
    <2> QED
        BY <1>1, <2>2, <2>3, <2>4 DEF ERow
<1>2. CASE r.at \in {"enroll", "rotate", "keys"}
    <2> DEFINE at == IF r.at = "enroll" THEN "save" ELSE IF r.at = "rotate" THEN "adopt" ELSE "apply"
    <2>1. at \in E!Steps
        BY DEF E!Steps
    <2>2. ERow([r EXCEPT !.at = at], at, r.goal, r.id, r.key, r.has)
        BY <2>1, EFieldRows, Zenon
    <2>3. s = E!Idle \/ (s = [r EXCEPT !.at = at] /\ (r.at = "enroll" => r.goal # "plain"))
        BY <1>2 DEF E!Proceeds
    <2>4. \/ r.at = "enroll" /\ at = "save"
          \/ r.at = "rotate" /\ at = "adopt"
          \/ r.at = "keys" /\ at = "apply"
        BY <1>2
    <2> HIDE DEF at
    <2>5. CASE s = [r EXCEPT !.at = at] /\ (r.at = "enroll" => r.goal # "plain")
        <3>1. ERow(s, at, r.goal, r.id, r.key, r.has)
            BY <2>2, <2>5, Zenon
        <3> QED
            BY <2>4, <2>5, <3>1 DEF ERow
    <2> QED
        BY <2>3, <2>5
<1>3. CASE r.at \notin {"token", "enroll", "rotate", "keys"}
    BY <1>3 DEF E!Proceeds
<1> QED
    BY <1>1, <1>2, <1>3

LEMMA GaveUpRow ==
    ASSUME NEW r \in ProcRow, NEW s \in E!GaveUp(r), r.goal = "enroll" => ~r.has
    PROVE  \/ s = E!Idle
           \/ r.goal = "check" /\ ERow(s, "enroll", "enroll", r.id, r.key, FALSE)
           \/ /\ r.goal = "enroll" /\ s \in ProcRow
              /\ s.at = "token" /\ s.goal = "recheck" /\ s.id = r.id /\ s.key = r.key
<1>1. CASE r.goal = "check"
    <2>1. "enroll" \in E!Steps /\ FALSE \in BOOLEAN
        BY DEF E!Steps, E!Requests
    <2>2. s = [r EXCEPT !.at = "enroll", !.goal = "enroll", !.has = FALSE]
        BY <1>1 DEF E!GaveUp
    <2>3. ERow([r EXCEPT !.at = "enroll", !.goal = "enroll", !.has = FALSE],
               "enroll", "enroll", r.id, r.key, FALSE)
        BY <2>1, TwoFields, Zenon
    <2> QED
        BY <1>1, <2>2, <2>3, Zenon
<1>2. CASE r.goal = "enroll"
    <2>1. s \in E!Call(r, "recheck")
        BY <1>2 DEF E!GaveUp
    <2> QED
        BY <1>2, <2>1, CallRow
<1>3. CASE r.goal \notin {"check", "enroll"}
    BY <1>3 DEF E!GaveUp
<1> QED
    BY <1>1, <1>2, <1>3

\* What comes after a request, whatever became of it
LEMMA RequestRow ==
    ASSUME EnrolmentInv, NEW p \in E!Programs,
           E!Granted(p) \/ E!Refused(p) \/ E!Lost(p), NEW r, r = proc[p]
    PROVE  /\ r.at \in E!Requests
           /\ \A q \in E!Programs : q # p => proc'[q] = proc[q]
           /\ proc' \in [E!Programs -> ProcRow]
           /\ \/ proc'[p] = E!Idle
              \/ proc'[p] = r
              \/ /\ proc'[p].id = r.id /\ proc'[p].key = r.key
                 /\ \/ r.goal = "check" /\ proc'[p].at = "enroll" /\ proc'[p].goal = "enroll" /\ ~proc'[p].has
                    \/ r.goal = "enroll" /\ proc'[p].at = "token" /\ proc'[p].goal = "recheck"
                    \/ /\ r.at \in {"rotate", "keys", "confirm"}
                       /\ proc'[p].at \in {"token", r.at} \cap {"token", "keys", "confirm"}
                       /\ proc'[p].goal = r.goal
                    \/ E!Granted(p) /\ proc'[p].goal = r.goal
                       /\ \/ r.at = "token" /\ proc'[p].at = "save" /\ r.goal \in {"check", "recheck"}
                          \/ r.at = "token" /\ proc'[p].at = r.goal /\ r.goal \in {"rotate", "keys", "confirm"}
                          \/ r.at = "enroll" /\ r.goal # "plain" /\ proc'[p].at = "save"
                          \/ r.at = "rotate" /\ proc'[p].at = "adopt"
                          \/ r.at = "keys" /\ proc'[p].at = "apply"
<1>1. PICK s : proc' = [proc EXCEPT ![p] = s] /\ r.at \in E!Requests
               /\ \/ E!Granted(p) /\ s = E!Proceeds(r)
                  \/ /\ r.at \in {"rotate", "keys", "confirm"}
                     /\ s = [r EXCEPT !.at = "token", !.refreshed = TRUE, !.has = FALSE]
                  \/ s \in E!GaveUp(r)
                  \/ s = r
                  \/ r.at \in {"keys", "confirm"} /\ s \in E!Call(r, r.goal)
    <2>1. CASE E!Granted(p)
        BY <2>1, Zenon DEF E!Granted, E!Become
    <2>2. CASE E!Refused(p)
        BY <2>2 DEF E!Refused, E!Become
    <2>3. CASE E!Lost(p)
        BY <2>3 DEF E!Lost, E!Become
    <2> QED
        BY <2>1, <2>2, <2>3
<1>2. r \in ProcRow /\ proc \in [E!Programs -> ProcRow] /\ p \in {"command", "sync"}
    BY DEF EnrolmentInv, EnrolmentTyped, E!Programs
<1>3. /\ r.at = "token" => r.goal \in {"check", "recheck", "rotate", "keys", "confirm"}
      /\ r.at = "keys" => r.goal = "keys"
      /\ r.at = "confirm" => r.goal = "confirm"
      /\ r.at \in E!Requests /\ r.goal = "enroll" => ~r.has
    BY <1>2 DEF EnrolmentInv, CommandShape, SyncShape, Command, Sync, E!Requests
<1>4. \/ s = E!Idle
      \/ s = r
      \/ /\ s \in ProcRow /\ s.id = r.id /\ s.key = r.key
         /\ \/ r.goal = "check" /\ s.at = "enroll" /\ s.goal = "enroll" /\ ~s.has
            \/ r.goal = "enroll" /\ s.at = "token" /\ s.goal = "recheck"
            \/ /\ r.at \in {"rotate", "keys", "confirm"}
               /\ s.at \in {"token", r.at} \cap {"token", "keys", "confirm"}
               /\ s.goal = r.goal
            \/ E!Granted(p) /\ s.goal = r.goal
               /\ \/ r.at = "token" /\ s.at = "save" /\ r.goal \in {"check", "recheck"}
                  \/ r.at = "token" /\ s.at = r.goal /\ r.goal \in {"rotate", "keys", "confirm"}
                  \/ r.at = "enroll" /\ r.goal # "plain" /\ s.at = "save"
                  \/ r.at = "rotate" /\ s.at = "adopt"
                  \/ r.at = "keys" /\ s.at = "apply"
    <2>1. CASE E!Granted(p) /\ s = E!Proceeds(r)
        BY <1>2, <1>3, <2>1, ProceedsRow
    <2>2. CASE /\ r.at \in {"rotate", "keys", "confirm"}
               /\ s = [r EXCEPT !.at = "token", !.refreshed = TRUE, !.has = FALSE]
        <3>1. "token" \in E!Steps /\ FALSE \in BOOLEAN
            BY DEF E!Steps, E!Requests
        <3>2. ERow([r EXCEPT !.at = "token", !.refreshed = TRUE, !.has = FALSE],
                   "token", r.goal, r.id, r.key, FALSE)
            BY <1>2, <3>1, TwoFields, Zenon
        <3>3. ERow(s, "token", r.goal, r.id, r.key, FALSE)
            BY <2>2, <3>2, Zenon
        <3> QED
            BY <2>2, <3>3 DEF ERow
    <2>3. CASE s \in E!GaveUp(r)
        BY <1>1, <1>2, <1>3, <2>3, GaveUpRow DEF ERow
    <2>4. CASE r.at \in {"keys", "confirm"} /\ s \in E!Call(r, r.goal)
        <3>1. r.goal \in {"keys", "confirm"} /\ r.at = r.goal
            BY <1>3, <2>4
        <3>2. s \in ProcRow /\ s.goal = r.goal /\ s.id = r.id /\ s.key = r.key
              /\ (s.at = "token" \/ s.at = r.goal)
            BY <1>2, <2>4, <3>1, CallRow
        <3> QED
            BY <3>1, <3>2
    <2> QED
        BY <1>1, <2>1, <2>2, <2>3, <2>4
<1>5. s \in ProcRow
    BY <1>2, <1>4, EIdleRow DEF ERow
<1> QED
    BY <1>1, <1>2, <1>4, <1>5

-----------------------------------------------------------------------------
(* Requests *)

\* What the platform changes for a request
Effected(r) ==
    /\ reg.id = r.id /\ reg' \in RegRow /\ reg'.id = reg.id
    /\ \/ r.at \notin {"enroll", "rotate", "confirm"} /\ UNCHANGED reg
       \/ r.at = "enroll" /\ reg'.key = r.key /\ reg'.confirmed = reg.confirmed
       \/ r.at = "rotate" /\ reg'.key = pending /\ reg'.confirmed = reg.confirmed
       \/ r.at = "confirm" /\ reg'.key = reg.key /\ reg'.confirmed = TRUE

LEMMA RegRows ==
    ASSUME NEW r \in RegRow, NEW key \in Nat
    PROVE  /\ [r EXCEPT !.key = key, !.token = FALSE] \in RegRow
           /\ [r EXCEPT !.key = key, !.token = FALSE].id = r.id
           /\ [r EXCEPT !.key = key, !.token = FALSE].key = key
           /\ [r EXCEPT !.key = key, !.token = FALSE].confirmed = r.confirmed
<1> DEFINE a == [r EXCEPT !.key = key]
           b == [a EXCEPT !.token = FALSE]
<1>1. a \in RegRow /\ a.id = r.id /\ a.key = key /\ a.confirmed = r.confirmed
    BY DEF RegRow
<1> HIDE DEF a
<1>2. b \in RegRow /\ b.id = a.id /\ b.key = a.key /\ b.confirmed = a.confirmed
    BY <1>1 DEF RegRow
<1>3. b = [r EXCEPT !.key = key, !.token = FALSE]
    BY Zenon DEF a
<1> HIDE DEF b
<1>4. b \in RegRow /\ b.id = r.id /\ b.key = key /\ b.confirmed = r.confirmed
    BY <1>1, <1>2
<1> QED
    BY <1>3, <1>4, Zenon

LEMMA EffectFacts ==
    ASSUME EnrolmentInv, NEW p \in E!Programs, NEW r, r = proc[p],
           r.at \in E!Requests, E!Accepted(p), E!Effect(p)
    PROVE  Effected(r) /\ (r.at = "token" => reg.key = r.key)
<1>1. reg.id = r.id /\ (r.at = "token" => reg.key = r.key)
    BY DEF E!Accepted, E!Registered
<1>2. r \in ProcRow /\ reg \in RegRow /\ pending \in Nat /\ r.key \in Nat
    BY DEF EnrolmentInv, EnrolmentTyped, ProcRow
<1>3. CASE r.at = "enroll"
    <2>1. reg' = [reg EXCEPT !.key = r.key, !.token = FALSE]
        BY <1>3, Zenon DEF E!Effect
    <2>2. reg' \in RegRow /\ reg'.id = reg.id /\ reg'.key = r.key /\ reg'.confirmed = reg.confirmed
        BY <1>2, <2>1, RegRows, Zenon
    <2> QED
        BY <1>1, <1>3, <2>2 DEF Effected
<1>4. CASE r.at = "rotate"
    <2>1. reg' = [reg EXCEPT !.key = pending, !.token = FALSE]
        BY <1>4 DEF E!Effect
    <2>2. reg' \in RegRow /\ reg'.id = reg.id /\ reg'.key = pending /\ reg'.confirmed = reg.confirmed
        BY <1>2, <2>1, RegRows, Zenon
    <2> QED
        BY <1>1, <1>4, <2>2 DEF Effected
<1>5. CASE r.at = "confirm"
    <2>1. reg' = [reg EXCEPT !.confirmed = TRUE]
        BY <1>5 DEF E!Effect
    <2> QED
        BY <1>1, <1>2, <1>5, <2>1 DEF Effected, RegRow
<1>6. CASE r.at \notin {"enroll", "rotate", "confirm"}
    BY <1>1, <1>2, <1>6 DEF E!Effect, Effected
<1> QED
    BY <1>1, <1>3, <1>4, <1>5, <1>6

LEMMA RequestPlatform ==
    ASSUME EnrolmentInv, NEW p \in E!Programs, NEW r, r = proc[p],
           E!Granted(p) \/ E!Refused(p) \/ E!Lost(p)
    PROVE  /\ UNCHANGED <<saved, identity, pending, made, synced>>
           /\ UNCHANGED reg \/ Effected(r)
           /\ E!Granted(p) => Effected(r) /\ (r.at = "token" => reg.key = r.key)
           /\ \/ UNCHANGED stamp
              \/ E!Granted(p) /\ r.at = "confirm" /\ stamp' = [id |-> r.id, key |-> r.key]
<1>1. CASE E!Granted(p)
    <2>1. Effected(r) /\ (r.at = "token" => reg.key = r.key)
        BY <1>1, EffectFacts DEF E!Granted
    <2>2. UNCHANGED <<saved, identity, pending, made, synced>>
        BY <1>1 DEF E!Granted, E!Effect
    <2>3. \/ UNCHANGED stamp
          \/ r.at = "confirm" /\ stamp' = [id |-> r.id, key |-> r.key]
        BY <1>1 DEF E!Granted
    <2> QED
        BY <1>1, <2>1, <2>2, <2>3
<1>2. CASE E!Refused(p)
    <2>1. UNCHANGED <<saved, identity, pending, made, synced, reg, stamp>>
        BY <1>2 DEF E!Refused, E!platform, E!files
    <2>2. ~E!Granted(p)
        BY <1>2 DEF E!Refused, E!Granted
    <2> QED
        BY <2>1, <2>2
<1>3. CASE E!Lost(p) /\ ~E!Granted(p)
    <2>1. UNCHANGED <<saved, identity, pending, made, stamp>>
        BY <1>3 DEF E!Lost, E!files
    <2>2. \/ E!Accepted(p) /\ E!Effect(p) /\ r.at \in E!Requests
          \/ UNCHANGED <<reg, synced>>
        BY <1>3 DEF E!Lost, E!platform
    <2>3. UNCHANGED synced /\ (UNCHANGED reg \/ Effected(r))
        BY <2>2, EffectFacts DEF E!Effect
    <2> QED
        BY <1>3, <2>1, <2>3
<1> QED
    BY <1>1, <1>2, <1>3

\* The requests of a command change the key the platform knows.
LEMMA CommandRequestKeeps ==
    ASSUME EnrolmentInv, E!Granted("command") \/ E!Refused("command") \/ E!Lost("command")
    PROVE  EnrolmentInv'
<1> DEFINE r == Command
           s == proc'["command"]
<1>1. "command" \in E!Programs /\ "sync" \in E!Programs
    BY DEF E!Programs
<1>2. /\ UNCHANGED <<saved, identity, pending, made, synced>>
      /\ UNCHANGED reg \/ Effected(r)
      /\ E!Granted("command") => Effected(r) /\ (r.at = "token" => reg.key = r.key)
      /\ \/ UNCHANGED stamp
         \/ r.at = "confirm"
    BY <1>1, RequestPlatform DEF Command
<1>3. /\ r.at \in {"token", "enroll", "rotate"}
      /\ r.at = "token" => r.goal \in {"check", "recheck", "rotate"}
      /\ r.goal \in {"check", "enroll"} => ~r.has
      /\ r.at = "rotate" => r.goal = "rotate"
      /\ r.at = "enroll" => r.goal \in {"plain", "enroll"}
    <2>1. r.at \in E!Requests
        BY <1>1, RequestRow DEF Command
    <2> QED
        BY <2>1 DEF EnrolmentInv, CommandShape, E!Requests, Command
<1>4. /\ proc' \in [E!Programs -> ProcRow] /\ proc'["sync"] = proc["sync"]
      /\ \/ s = E!Idle
         \/ s = r
         \/ /\ s.id = r.id /\ s.key = r.key
            /\ \/ r.goal = "check" /\ s.at = "enroll" /\ s.goal = "enroll" /\ ~s.has
               \/ r.goal = "enroll" /\ s.at = "token" /\ s.goal = "recheck"
               \/ r.at = "rotate" /\ s.at = "token" /\ s.goal = "rotate"
               \/ /\ E!Granted("command") /\ s.goal = r.goal
                  /\ \/ r.at = "token" /\ s.at = "save" /\ r.goal \in {"check", "recheck"}
                     \/ r.at = "token" /\ s.at = "rotate" /\ r.goal = "rotate"
                     \/ r.at = "enroll" /\ r.goal # "plain" /\ s.at = "save"
                     \/ r.at = "rotate" /\ s.at = "adopt"
    BY <1>1, <1>3, RequestRow DEF Command
<1>5. /\ reg \in RegRow /\ (r.id = reg.id \/ UNCHANGED reg)
      /\ r.key = identity /\ saved # 0 /\ (r.goal = "rotate" => r.id = saved)
      /\ r.id # 0 /\ r.id <= reg.id
    BY <1>1, <1>2, <1>3 DEF EnrolmentInv, EnrolmentTyped, CommandInv, Command, Effected, Numbers
<1>6. UNCHANGED stamp
    BY <1>2, <1>3
<1>7. /\ reg' \in RegRow /\ reg'.id = reg.id /\ reg'.confirmed = reg.confirmed
      /\ \/ reg'.key = reg.key /\ (E!Granted("command") => r.at = "token" /\ reg.id = r.id /\ reg.key = identity)
         \/ r.at = "enroll" /\ reg'.key = identity /\ reg.id = r.id
         \/ r.at = "rotate" /\ reg'.key = pending /\ reg.id = r.id
    <2>1. reg \in RegRow
        BY DEF EnrolmentInv, EnrolmentTyped
    <2> QED
        BY <1>2, <1>3, <1>5, <2>1 DEF Effected
<1>8. E!Idle.at = "idle"
    BY EIdleRow DEF ERow
<1>9. Command' = s /\ Sync' = Sync
    BY <1>4 DEF Command, Sync
<1> HIDE DEF r, s
<1>10. EnrolmentTyped'
    BY <1>2, <1>4, <1>6, <1>7 DEF EnrolmentInv, EnrolmentTyped
<1>11. CommandShape' /\ SyncShape'
    BY <1>3, <1>4, <1>8, <1>9 DEF EnrolmentInv, CommandShape, SyncShape, r
<1>12. Numbers'
    <2>1. reg'.key <= made
        BY <1>7 DEF EnrolmentInv, Numbers
    <2>2. s.id <= reg.id /\ (s.at # "idle" => s.id # 0)
        BY <1>4, <1>5, <1>8, EIdleRow DEF ERow, EnrolmentInv, EnrolmentTyped, RegRow
    <2>3. proc'["command"] = s
        BY DEF s
    <2> QED
        BY <1>1, <1>2, <1>4, <1>6, <1>7, <2>1, <2>2, <2>3 DEF EnrolmentInv, Numbers, E!Programs
<1>13. CommandInv'
    <2>1. CASE s = E!Idle
        BY <1>2, <1>8, <1>9, <2>1 DEF CommandInv
    <2>2. CASE s # E!Idle
        <3>1. s.key = identity /\ s.id = r.id
            BY <1>4, <1>5, <2>2
        <3>2. /\ s.at \in {"token", "enroll", "rotate", "save", "adopt"}
              /\ s.goal = "rotate" => s.id = saved
            BY <1>3, <1>4, <1>5, <2>2
        <3>3. s.at = "adopt" => reg'.key = pending
            BY <1>3, <1>4, <1>7, <2>2
        <3>4. s.at = "save" => reg'.key = identity /\ s.id = reg.id
            BY <1>3, <1>4, <1>7, <2>2, <3>1
        <3> QED
            BY <1>2, <1>5, <1>7, <1>9, <3>1, <3>2, <3>3, <3>4 DEF CommandInv
    <2> QED
        BY <2>1, <2>2
<1>14. PendingInv'
    BY <1>2, <1>3, <1>5, <1>7 DEF EnrolmentInv, PendingInv
<1>15. SyncedInv'
    BY <1>2, <1>7, <1>9 DEF EnrolmentInv, SyncedInv
<1>16. E!BothSidesAgree'
    BY <1>2, <1>6, <1>7 DEF EnrolmentInv, E!BothSidesAgree, E!KeyNotLost, E!ConfirmationTrue
<1> QED
    BY <1>10, <1>11, <1>12, <1>13, <1>14, <1>15, <1>16 DEF EnrolmentInv

\* Those of a synchronization report the installation.
LEMMA SyncRequestKeeps ==
    ASSUME EnrolmentInv, E!Granted("sync") \/ E!Refused("sync") \/ E!Lost("sync")
    PROVE  EnrolmentInv'
<1> DEFINE r == Sync
           s == proc'["sync"]
<1>1. "command" \in E!Programs /\ "sync" \in E!Programs
    BY DEF E!Programs
<1>2. /\ UNCHANGED <<saved, identity, pending, made, synced>>
      /\ UNCHANGED reg \/ Effected(r)
      /\ \/ UNCHANGED stamp
         \/ Effected(r) /\ r.at = "confirm" /\ stamp' = [id |-> r.id, key |-> r.key]
    BY <1>1, RequestPlatform DEF Sync
<1>3. /\ r.at \in {"token", "keys", "confirm"} /\ r.goal \in {"keys", "confirm"}
      /\ r.at \in {"keys", "confirm"} => r.goal = r.at
    <2>1. r.at \in E!Requests
        BY <1>1, RequestRow DEF Sync
    <2> QED
        BY <2>1 DEF EnrolmentInv, SyncShape, E!Requests, Sync
<1>4. /\ proc' \in [E!Programs -> ProcRow] /\ proc'["command"] = proc["command"]
      /\ \/ s = E!Idle
         \/ s = r
         \/ /\ s.id = r.id /\ s.key = r.key /\ s.goal = r.goal
            /\ s.at \in {"token", r.goal} \/ (r.goal = "keys" /\ s.at = "apply")
    BY <1>1, <1>3, RequestRow DEF Sync
<1>5. r.id # 0 /\ r.id <= reg.id /\ r \in ProcRow
    BY <1>1, <1>3 DEF EnrolmentInv, EnrolmentTyped, Sync, Numbers
<1>6. /\ reg' \in RegRow /\ reg'.id = reg.id /\ reg'.key = reg.key
      /\ \/ UNCHANGED <<reg, stamp>>
         \/ r.at # "confirm" /\ UNCHANGED stamp /\ reg'.confirmed = reg.confirmed
         \/ r.at = "confirm" /\ reg'.confirmed = TRUE /\ reg.id = r.id
            /\ stamp' \in [id : Nat, key : Nat]
            /\ (stamp' = stamp \/ stamp'.id = r.id)
    <2>1. reg \in RegRow /\ stamp \in [id : Nat, key : Nat] /\ r.id \in Nat /\ r.key \in Nat
        BY <1>5 DEF EnrolmentInv, EnrolmentTyped, ProcRow
    <2> QED
        BY <1>2, <1>3, <2>1 DEF Effected
<1>7. E!Idle.at = "idle"
    BY EIdleRow DEF ERow
<1>8. Command' = Command /\ Sync' = s
    BY <1>4 DEF Command, Sync
<1> HIDE DEF s
<1>9. EnrolmentTyped'
    BY <1>2, <1>4, <1>6 DEF EnrolmentInv, EnrolmentTyped
<1>10. CommandShape' /\ SyncShape'
    BY <1>3, <1>4, <1>7, <1>8 DEF EnrolmentInv, CommandShape, SyncShape
<1>11. Numbers'
    <2>1. s.id <= reg.id /\ (s.at # "idle" => s.id # 0)
        BY <1>4, <1>5, <1>7, EIdleRow DEF ERow, EnrolmentInv, EnrolmentTyped, RegRow
    <2>2. proc'["sync"] = s
        BY DEF s
    <2>3. stamp'.id <= reg.id
        BY <1>5, <1>6 DEF EnrolmentInv, Numbers
    <2> QED
        BY <1>1, <1>2, <1>4, <1>6, <2>1, <2>2, <2>3 DEF EnrolmentInv, Numbers, E!Programs
<1>12. CommandInv' /\ PendingInv'
    BY <1>2, <1>6, <1>8 DEF EnrolmentInv, CommandInv, PendingInv
<1>13. s.at # "idle" => s.goal = r.goal /\ s.id = r.id
    BY <1>4, <1>7
<1>14. SyncedInv'
    BY <1>2, <1>3, <1>6, <1>8, <1>13 DEF EnrolmentInv, SyncedInv
<1>15. r.at = "confirm" /\ reg.id = r.id => synced
    BY <1>3 DEF EnrolmentInv, SyncedInv
<1>16. E!BothSidesAgree'
    <2>1. E!KeyNotLost'
        BY <1>2, <1>6 DEF EnrolmentInv, E!BothSidesAgree, E!KeyNotLost
    <2>2. (reg'.confirmed => synced) /\ (stamp'.id = reg.id /\ reg.id # 0 => reg'.confirmed)
        BY <1>6, <1>15 DEF EnrolmentInv, E!BothSidesAgree, E!ConfirmationTrue
    <2> QED
        BY <1>2, <1>6, <2>1, <2>2 DEF E!BothSidesAgree, E!ConfirmationTrue
<1> QED
    BY <1>9, <1>10, <1>11, <1>12, <1>14, <1>16 DEF EnrolmentInv

-----------------------------------------------------------------------------
(* The platform and the programs *)

LEMMA PlatformKeeps ==
    ASSUME EnrolmentInv, E!Register \/ E!DisableRegistration \/ E!Expire
    PROVE  EnrolmentInv'
<1>1. UNCHANGED <<saved, identity, pending, stamp, proc, made>>
    BY DEF E!Register, E!DisableRegistration, E!Expire, E!files
<1>2. reg \in RegRow
    BY DEF EnrolmentInv, EnrolmentTyped
<1>3. CASE E!Register
    <2>1. /\ reg' \in RegRow /\ reg'.id = reg.id + 1 /\ reg'.key = 0 /\ reg'.confirmed = FALSE
          /\ synced' = FALSE
        BY <1>2, <1>3 DEF E!Register, E!NewRow, RegRow
    <2>2. \A n \in Nat : n <= reg.id => n <= reg.id + 1 /\ n # reg.id + 1
        BY <1>2 DEF RegRow
    <2>3. EnrolmentTyped' /\ CommandShape' /\ SyncShape'
        BY <1>1, <2>1 DEF EnrolmentInv, EnrolmentTyped, CommandShape, SyncShape, Command, Sync
    <2>4. \A p \in E!Programs : proc[p].id \in Nat /\ proc[p].id <= reg.id
        BY DEF EnrolmentInv, EnrolmentTyped, ProcRow, Numbers
    <2>5. saved \in Nat /\ stamp.id \in Nat /\ saved <= reg.id /\ stamp.id <= reg.id /\ made \in Nat
        BY DEF EnrolmentInv, EnrolmentTyped, Numbers
    <2>6. Numbers'
        <3>1. 0 <= made /\ saved <= reg.id + 1 /\ stamp.id <= reg.id + 1
            BY <2>2, <2>5
        <3>2. \A p \in E!Programs : proc[p].id <= reg.id + 1
            BY <2>2, <2>4
        <3> QED
            BY <1>1, <2>1, <3>1, <3>2 DEF EnrolmentInv, Numbers
    <2>7. CommandInv' /\ PendingInv'
        <3>1. Command.id # reg'.id
            BY <2>1, <2>2, <2>4 DEF Command, E!Programs
        <3> QED
            BY <1>1, <2>1, <3>1 DEF EnrolmentInv, CommandInv, PendingInv, Command
    <2>8. SyncedInv'
        <3>1. Sync.id # reg'.id /\ Sync' = Sync
            BY <1>1, <2>1, <2>2, <2>4 DEF Sync, E!Programs
        <3> QED
            BY <3>1 DEF SyncedInv
    <2>9. E!BothSidesAgree'
        BY <1>1, <2>1, <2>2, <2>5 DEF E!BothSidesAgree, E!KeyNotLost, E!ConfirmationTrue
    <2> QED
        BY <2>3, <2>6, <2>7, <2>8, <2>9 DEF EnrolmentInv
<1>4. CASE E!DisableRegistration \/ E!Expire
    <2>1. /\ reg' \in RegRow /\ reg'.id = reg.id /\ reg'.key = reg.key
          /\ reg'.confirmed = reg.confirmed /\ UNCHANGED synced
        BY <1>2, <1>4 DEF E!DisableRegistration, E!Expire, RegRow
    <2>2. EnrolmentTyped' /\ CommandShape' /\ SyncShape' /\ Numbers'
        BY <1>1, <2>1 DEF EnrolmentInv, EnrolmentTyped, CommandShape, SyncShape, Numbers, Command, Sync
    <2>3. CommandInv' /\ PendingInv' /\ SyncedInv' /\ E!BothSidesAgree'
        BY <1>1, <2>1 DEF EnrolmentInv, CommandInv, PendingInv, SyncedInv, E!BothSidesAgree,
                          E!KeyNotLost, E!ConfirmationTrue, Command, Sync
    <2> QED
        BY <2>2, <2>3 DEF EnrolmentInv
<1> QED
    BY <1>3, <1>4

\* A step of the command that leaves the platform alone
LEMMA CommandKeeps ==
    ASSUME EnrolmentInv, NEW s \in ProcRow, E!Become("command", s),
           UNCHANGED <<reg, stamp, synced>>,
           saved' \in Nat, identity' \in Nat, pending' \in Nat, made' \in Nat,
           saved' <= reg.id, identity' <= made', pending' <= made', made <= made',
           s.id <= reg.id, s.at # "idle" => s.id # 0,
           Command' = s => CommandShape' /\ CommandInv' /\ PendingInv' /\ E!KeyNotLost'
    PROVE  EnrolmentInv'
<1>1. /\ proc' \in [E!Programs -> ProcRow] /\ Command' = s /\ Sync' = Sync
      /\ \A p \in E!Programs : proc'[p] = IF p = "command" THEN s ELSE proc[p]
    BY DEF E!Become, EnrolmentInv, EnrolmentTyped, E!Programs, Command, Sync
<1>2. EnrolmentTyped'
    BY <1>1 DEF EnrolmentInv, EnrolmentTyped
<1>3. SyncShape' /\ SyncedInv'
    BY <1>1 DEF EnrolmentInv, SyncShape, SyncedInv
<1>4. reg.key \in Nat /\ made \in Nat
    BY DEF EnrolmentInv, EnrolmentTyped, RegRow
<1>5. Numbers'
    BY <1>1, <1>4 DEF EnrolmentInv, Numbers
<1>6. E!BothSidesAgree'
    BY <1>1 DEF EnrolmentInv, E!BothSidesAgree, E!ConfirmationTrue
<1> QED
    BY <1>1, <1>2, <1>3, <1>5, <1>6 DEF EnrolmentInv

\* A command starts.
LEMMA StartsCommand ==
    ASSUME EnrolmentInv,
           \/ \E id \in 1..reg.id : E!StartInit(id) \/ E!StartSetup(id)
           \/ E!StartEnroll \/ E!StartRotate
    PROVE  EnrolmentInv'
<1>1. /\ UNCHANGED <<reg, stamp, synced, saved, identity, pending, made>>
      /\ saved \in Nat /\ identity \in Nat /\ pending \in Nat /\ made \in Nat /\ reg.id \in Nat
      /\ saved <= reg.id /\ identity <= made /\ pending <= made
    BY DEF E!StartInit, E!StartSetup, E!StartEnroll, E!StartRotate, E!platform, E!files,
           EnrolmentInv, EnrolmentTyped, Numbers, RegRow
<1>2. PICK id \in Nat, step \in {"makeIdentity", "token", "enroll", "makePending"},
           goal \in {"plain", "check", "rotate"} :
           /\ E!Become("command", E!Starting(id, step, goal)) /\ id # 0 /\ id <= reg.id
           /\ \/ step = "makeIdentity" /\ goal = "plain" /\ saved = 0 /\ identity = 0
              \/ step = "token" /\ goal = "check" /\ saved # 0
              \/ step = "enroll" /\ goal = "plain" /\ saved # 0
              \/ step = "makePending" /\ goal = "rotate" /\ saved # 0 /\ pending = 0 /\ id = saved
    <2>1. ASSUME NEW id \in 1..reg.id
          PROVE  id \in Nat /\ id # 0 /\ id <= reg.id
        BY <1>1
    <2>2. CASE \E id \in 1..reg.id : E!StartInit(id)
        BY <2>1, <2>2 DEF E!StartInit
    <2>3. CASE \E id \in 1..reg.id : E!StartSetup(id)
        BY <2>1, <2>3 DEF E!StartSetup
    <2>4. CASE E!StartEnroll
        BY <1>1, <2>4 DEF E!StartEnroll
    <2>5. CASE E!StartRotate
        BY <1>1, <2>5 DEF E!StartRotate, E!MayRotate
    <2> QED
        BY <2>2, <2>3, <2>4, <2>5
<1> DEFINE s == E!Starting(id, step, goal)
<1>3. ERow(s, step, goal, id, identity, FALSE)
    <2>1. step \in E!Steps
        BY DEF E!Steps, E!Requests
    <2> QED
        BY <1>1, <2>1, StartingRow
<1> HIDE DEF s
<1>4. s \in ProcRow /\ s.at = step /\ s.goal = goal /\ s.id = id /\ s.key = identity /\ s.has = FALSE
    BY <1>3 DEF ERow
<1>5. ASSUME Command' = s
      PROVE  CommandShape' /\ CommandInv' /\ PendingInv' /\ E!KeyNotLost'
    <2>1. CommandShape'
        BY <1>2, <1>4, <1>5 DEF CommandShape
    <2>2. CommandInv'
        BY <1>1, <1>2, <1>4, <1>5 DEF CommandInv
    <2>3. PendingInv' /\ E!KeyNotLost'
        BY <1>1 DEF EnrolmentInv, PendingInv, E!BothSidesAgree, E!KeyNotLost
    <2> QED
        BY <2>1, <2>2, <2>3
<1>6. E!Become("command", s)
    BY <1>2 DEF s
<1>7. made <= made'
    BY <1>1
<1> QED
    BY <1>1, <1>2, <1>4, <1>5, <1>6, <1>7, CommandKeeps

\* A command takes a step of its own.
LEMMA WritesOfCommand ==
    ASSUME EnrolmentInv,
           \/ E!MakeIdentity \/ E!Configure \/ E!SaveRegistration
           \/ E!MakePending \/ E!Adopt \/ E!RemovePending
    PROVE  EnrolmentInv'
<1> DEFINE r == Command
<1>0. "command" \in E!Programs
    BY DEF E!Programs
<1>1. /\ UNCHANGED <<reg, stamp, synced>> /\ r = proc["command"] /\ r \in ProcRow
      /\ saved \in Nat /\ identity \in Nat /\ pending \in Nat /\ made \in Nat
      /\ reg.id \in Nat /\ reg.key \in Nat /\ reg.key <= made
      /\ saved <= reg.id /\ identity <= made /\ pending <= made
    BY <1>0 DEF E!MakeIdentity, E!Configure, E!SaveRegistration, E!MakePending, E!Adopt,
           E!RemovePending, E!platform, Command,
           EnrolmentInv, EnrolmentTyped, Numbers, RegRow
<1>2. r.at \in {"makeIdentity", "configure", "save", "makePending", "adopt", "remove"}
    BY DEF E!MakeIdentity, E!Configure, E!SaveRegistration, E!MakePending, E!Adopt,
           E!RemovePending, Command
<1>3. r.id \in Nat /\ r.id # 0 /\ r.id <= reg.id
    BY <1>0, <1>1, <1>2 DEF EnrolmentInv, Numbers, ProcRow
<1>4. /\ CommandInv /\ PendingInv /\ E!KeyNotLost
    BY DEF EnrolmentInv, E!BothSidesAgree
<1>5. /\ "configure" \in E!Steps /\ "enroll" \in E!Steps /\ "token" \in E!Steps
      /\ "remove" \in E!Steps
    BY DEF E!Steps, E!Requests
<1>6. /\ E!Idle \in ProcRow /\ E!Idle.at = "idle" /\ E!Idle.id = 0
    BY EIdleRow DEF ERow
<1>7. CASE E!MakeIdentity
    <2> DEFINE s == [r EXCEPT !.at = "configure", !.key = made + 1]
    <2>1. /\ E!Become("command", s) /\ made' = made + 1 /\ identity' = made + 1
          /\ UNCHANGED <<saved, pending>> /\ r.at = "makeIdentity"
        BY <1>1, <1>7, Zenon DEF E!MakeIdentity
    <2>2. made + 1 \in Nat /\ FALSE \in BOOLEAN /\ "none" \in {"none", "check", "recheck", "rotate", "enroll", "plain", "keys", "confirm"}
        BY <1>1
    <2>3. ERow(s, "configure", r.goal, r.id, made + 1, r.has)
        BY <1>1, <1>5, <2>2, TwoFields, Zenon
    <2> HIDE DEF s
    <2>4. s \in ProcRow /\ s.at = "configure" /\ s.goal = r.goal /\ s.id = r.id /\ s.key = made + 1
        BY <2>3 DEF ERow
    <2>5. saved = 0 /\ pending = 0 /\ identity = 0 /\ reg.key = 0 /\ r.goal = "plain"
        BY <1>4, <2>1 DEF EnrolmentInv, CommandShape, CommandInv, PendingInv, E!KeyNotLost
    <2>6. ASSUME Command' = s
          PROVE  CommandShape' /\ CommandInv' /\ PendingInv' /\ E!KeyNotLost'
        <3>1. CommandShape' /\ PendingInv' /\ E!KeyNotLost'
            BY <1>1, <2>1, <2>4, <2>5, <2>6 DEF CommandShape, PendingInv, E!KeyNotLost
        <3>2. CommandInv'
            BY <1>4, <2>1, <2>4, <2>5, <2>6 DEF CommandInv
        <3> QED
            BY <3>1, <3>2
    <2> QED
        BY <1>1, <1>3, <2>1, <2>2, <2>4, <2>6, CommandKeeps
<1>8. CASE E!Configure
    <2> DEFINE s == [r EXCEPT !.at = "enroll"]
    <2>1. /\ E!Become("command", s) /\ saved' = r.id
          /\ UNCHANGED <<identity, pending, made>> /\ r.at = "configure"
        BY <1>1, <1>8, Zenon DEF E!Configure
    <2>3. ERow(s, "enroll", r.goal, r.id, r.key, r.has)
        BY <1>1, <1>5, EFieldRows, Zenon
    <2> HIDE DEF s
    <2>4. s \in ProcRow /\ s.at = "enroll" /\ s.goal = r.goal /\ s.id = r.id /\ s.key = r.key /\ s.has = r.has
        BY <2>3 DEF ERow
    <2>5. saved = 0 /\ pending = 0 /\ r.key = identity
        BY <1>4, <2>1 DEF CommandInv, PendingInv
    <2>6. ASSUME Command' = s
          PROVE  CommandShape' /\ CommandInv' /\ PendingInv' /\ E!KeyNotLost'
        <3>1. CommandShape'
            BY <2>1, <2>4, <2>6 DEF EnrolmentInv, CommandShape
        <3>2. PendingInv' /\ E!KeyNotLost'
            BY <1>1, <1>3, <1>4, <2>1, <2>4, <2>5, <2>6 DEF PendingInv, E!KeyNotLost
        <3>3. CommandInv'
            BY <1>1, <1>3, <1>4, <2>1, <2>4, <2>5, <2>6 DEF CommandInv
        <3> QED
            BY <3>1, <3>2, <3>3
    <2>7. made <= made'
        BY <1>1, <2>1
    <2> QED
        BY <1>1, <1>3, <2>1, <2>4, <2>6, <2>7, CommandKeeps
<1>9. CASE E!SaveRegistration
    <2>1. /\ E!Become("command", E!Idle) /\ saved' = r.id
          /\ UNCHANGED <<identity, pending, made>> /\ r.at = "save"
        BY <1>1, <1>9 DEF E!SaveRegistration
    <2>6. ASSUME Command' = E!Idle
          PROVE  CommandShape' /\ CommandInv' /\ PendingInv' /\ E!KeyNotLost'
        <3>1. CommandShape' /\ CommandInv'
            BY <1>6, <2>6 DEF CommandShape, CommandInv
        <3>2. PendingInv' /\ E!KeyNotLost'
            BY <1>1, <1>3, <1>4, <2>1 DEF PendingInv, CommandInv, E!KeyNotLost
        <3> QED
            BY <3>1, <3>2
    <2>7. made <= made' /\ 0 <= reg.id
        BY <1>1, <2>1
    <2> QED
        BY <1>1, <1>3, <1>6, <2>1, <2>6, <2>7, CommandKeeps
<1>10. CASE E!MakePending
    <2> DEFINE s == [r EXCEPT !.at = "token"]
    <2>1. /\ E!Become("command", s) /\ made' = made + 1 /\ pending' = made + 1
          /\ UNCHANGED <<saved, identity>> /\ r.at = "makePending"
        BY <1>1, <1>10, Zenon DEF E!MakePending
    <2>2. made + 1 \in Nat /\ made <= made + 1 /\ identity <= made + 1 /\ reg.key # made + 1
        BY <1>1
    <2>3. ERow(s, "token", r.goal, r.id, r.key, r.has)
        BY <1>1, <1>5, EFieldRows, Zenon
    <2> HIDE DEF s
    <2>4. s \in ProcRow /\ s.at = "token" /\ s.goal = r.goal /\ s.id = r.id /\ s.key = r.key
        BY <2>3 DEF ERow
    <2>5. saved # 0 /\ pending = 0 /\ r.key = identity /\ r.goal = "rotate" /\ r.id = saved
        BY <1>4, <2>1 DEF EnrolmentInv, CommandShape, CommandInv
    <2>6. ASSUME Command' = s
          PROVE  CommandShape' /\ CommandInv' /\ PendingInv' /\ E!KeyNotLost'
        <3>1. CommandShape'
            BY <2>4, <2>5, <2>6 DEF CommandShape
        <3>2. PendingInv' /\ E!KeyNotLost'
            BY <1>1, <1>4, <2>1, <2>2, <2>5 DEF PendingInv, E!KeyNotLost
        <3>3. CommandInv'
            BY <2>1, <2>4, <2>5, <2>6 DEF CommandInv
        <3> QED
            BY <3>1, <3>2, <3>3
    <2> QED
        BY <1>1, <1>3, <2>1, <2>2, <2>4, <2>6, CommandKeeps
<1>11. CASE E!Adopt
    <2> DEFINE s == [r EXCEPT !.at = "remove"]
    <2>1. /\ E!Become("command", s) /\ identity' = pending
          /\ UNCHANGED <<saved, pending, made>> /\ r.at = "adopt"
        BY <1>1, <1>11, Zenon DEF E!Adopt
    <2>3. ERow(s, "remove", r.goal, r.id, r.key, r.has)
        BY <1>1, <1>5, EFieldRows, Zenon
    <2> HIDE DEF s
    <2>4. s \in ProcRow /\ s.at = "remove" /\ s.goal = r.goal /\ s.id = r.id
        BY <2>3 DEF ERow
    <2>5. saved # 0 /\ reg.key \in {0, pending} /\ (r.goal = "rotate" => r.id = saved)
        BY <1>4, <2>1 DEF CommandInv
    <2>6. ASSUME Command' = s
          PROVE  CommandShape' /\ CommandInv' /\ PendingInv' /\ E!KeyNotLost'
        <3>1. CommandShape'
            BY <2>4, <2>6 DEF CommandShape
        <3>2. PendingInv' /\ E!KeyNotLost'
            BY <1>1, <1>4, <2>1, <2>5 DEF PendingInv, E!KeyNotLost
        <3>3. CommandInv'
            BY <1>1, <2>1, <2>4, <2>5, <2>6 DEF CommandInv
        <3> QED
            BY <3>1, <3>2, <3>3
    <2>7. made <= made'
        BY <1>1, <2>1
    <2> QED
        BY <1>1, <1>3, <2>1, <2>4, <2>6, <2>7, CommandKeeps
<1>12. CASE E!RemovePending
    <2>1. /\ E!Become("command", E!Idle) /\ pending' = 0
          /\ UNCHANGED <<saved, identity, made>> /\ r.at = "remove"
        BY <1>1, <1>12 DEF E!RemovePending
    <2>6. ASSUME Command' = E!Idle
          PROVE  CommandShape' /\ CommandInv' /\ PendingInv' /\ E!KeyNotLost'
        <3>1. CommandShape' /\ CommandInv'
            BY <1>6, <2>6 DEF CommandShape, CommandInv
        <3>2. PendingInv' /\ E!KeyNotLost'
            BY <1>1, <1>4, <2>1 DEF PendingInv, CommandInv, E!KeyNotLost
        <3> QED
            BY <3>1, <3>2
    <2>7. made <= made' /\ 0 <= reg.id /\ 0 <= made
        BY <1>1, <2>1
    <2> QED
        BY <1>1, <1>6, <2>1, <2>6, <2>7, CommandKeeps
<1> QED
    BY <1>7, <1>8, <1>9, <1>10, <1>11, <1>12

\* A step of the synchronization between its requests
LEMMA SyncKeeps ==
    ASSUME EnrolmentInv, NEW s \in ProcRow, E!Become("sync", s),
           UNCHANGED <<reg, stamp, saved, identity, pending, made>>,
           synced' \in BOOLEAN, synced => synced',
           s.id <= reg.id, s.at # "idle" => s.id # 0,
           Sync' = s => SyncShape' /\ SyncedInv'
    PROVE  EnrolmentInv'
<1>1. /\ proc' \in [E!Programs -> ProcRow] /\ Sync' = s /\ Command' = Command
      /\ \A p \in E!Programs : proc'[p] = IF p = "sync" THEN s ELSE proc[p]
    BY DEF E!Become, EnrolmentInv, EnrolmentTyped, E!Programs, Command, Sync
<1>2. EnrolmentTyped' /\ CommandShape' /\ CommandInv' /\ PendingInv'
    BY <1>1 DEF EnrolmentInv, EnrolmentTyped, CommandShape, CommandInv, PendingInv
<1>3. Numbers'
    BY <1>1 DEF EnrolmentInv, Numbers
<1>4. E!BothSidesAgree'
    BY DEF EnrolmentInv, E!BothSidesAgree, E!KeyNotLost, E!ConfirmationTrue
<1> QED
    BY <1>1, <1>2, <1>3, <1>4 DEF EnrolmentInv

LEMMA SyncStepsKeep ==
    ASSUME EnrolmentInv, (\E required \in BOOLEAN : E!StartRun(required)) \/ E!WriteKeys
    PROVE  EnrolmentInv'
<1>1. /\ UNCHANGED <<reg, stamp, saved, identity, pending, made>> /\ synced \in BOOLEAN
      /\ saved \in Nat /\ identity \in Nat /\ saved <= reg.id /\ "sync" \in E!Programs
    BY DEF E!StartRun, E!WriteKeys, E!platform, E!files, EnrolmentInv, EnrolmentTyped, Numbers,
           E!Programs
<1>2. ASSUME NEW required \in BOOLEAN, E!StartRun(required)
      PROVE  EnrolmentInv'
    <2> DEFINE a == E!Starting(saved, "token", "keys")
               s == [a EXCEPT !.required = required]
    <2>1. ERow(a, "token", "keys", saved, identity, FALSE)
        <3>1. "token" \in E!Steps
            BY DEF E!Steps, E!Requests
        <3> QED
            BY <1>1, <3>1, StartingRow
    <2>2. E!Become("sync", s) /\ saved # 0 /\ UNCHANGED synced
        BY <1>2, Zenon DEF E!StartRun
    <2> HIDE DEF a
    <2>3. a \in ProcRow
        BY <2>1 DEF ERow
    <2>4. ERow(s, a.at, a.goal, a.id, a.key, a.has)
        BY <2>3, EFieldRows, Zenon
    <2> HIDE DEF s
    <2>5. s \in ProcRow /\ s.at = "token" /\ s.goal = "keys" /\ s.id = saved
        BY <2>1, <2>4 DEF ERow
    <2>6. Sync' = s => SyncShape' /\ SyncedInv'
        BY <2>5 DEF SyncShape, SyncedInv
    <2> QED
        BY <1>1, <2>2, <2>5, <2>6, SyncKeeps
<1>3. CASE E!WriteKeys
    <2>1. PICK s \in E!Confirming(Sync) :
              /\ E!Become("sync", s) /\ Sync.at = "apply"
              /\ synced' = (synced \/ Sync.id = reg.id)
        BY <1>3 DEF E!WriteKeys, Sync
    <2>2. /\ Sync \in ProcRow /\ Sync.goal = "keys" /\ Sync.id # 0 /\ Sync.id <= reg.id
          /\ reg.id \in Nat
        BY <1>1, <2>1 DEF EnrolmentInv, EnrolmentTyped, SyncShape, Numbers, Sync, RegRow
    <2>3. \/ s = E!Idle
          \/ s \in ProcRow /\ s.goal = "confirm" /\ s.id = Sync.id /\ s.at \in {"token", "confirm"}
        <3>1. s = E!Idle \/ s \in E!Call(Sync, "confirm")
            BY <2>1 DEF E!Confirming
        <3> QED
            BY <2>2, <3>1, CallRow
    <2>4. /\ s \in ProcRow /\ s.id <= reg.id
          /\ s.at = "idle" \/ (s.goal = "confirm" /\ s.id = Sync.id /\ s.at \in {"token", "confirm"})
        BY <2>2, <2>3, EIdleRow DEF ERow
    <2>5. Sync' = s => SyncShape' /\ SyncedInv'
        BY <1>1, <2>1, <2>4 DEF SyncShape, SyncedInv
    <2>6. synced' \in BOOLEAN /\ (synced => synced')
        BY <1>1, <2>1
    <2> QED
        BY <1>1, <2>1, <2>2, <2>4, <2>5, <2>6, SyncKeeps
<1> QED
    BY <1>2, <1>3

LEMMA EndsKeep ==
    ASSUME EnrolmentInv, (\E p \in E!Programs : E!KilledProgram(p)) \/ E!Reconcile
    PROVE  EnrolmentInv'
<1>1. /\ UNCHANGED <<reg, stamp, saved, made, synced>>
      /\ synced \in BOOLEAN /\ saved \in Nat /\ identity \in Nat /\ pending \in Nat /\ made \in Nat
      /\ saved <= reg.id /\ identity <= made /\ pending <= made /\ made <= made
      /\ reg.id \in Nat /\ 0 <= reg.id /\ 0 <= made
    BY DEF E!KilledProgram, E!Reconcile, E!platform, E!files, EnrolmentInv, EnrolmentTyped,
           Numbers, RegRow
<1>2. E!Idle \in ProcRow /\ E!Idle.at = "idle" /\ E!Idle.id = 0 /\ E!Idle.goal = "none"
    BY EIdleRow DEF ERow
<1>3. PendingInv /\ E!KeyNotLost /\ CommandInv
    BY DEF EnrolmentInv, E!BothSidesAgree
<1>4. CASE E!KilledProgram("command")
    <2>1. E!Become("command", E!Idle) /\ UNCHANGED <<identity, pending>>
        BY <1>4 DEF E!KilledProgram, E!files
    <2>2. Command' = E!Idle => CommandShape' /\ CommandInv'
        BY <1>2 DEF CommandShape, CommandInv
    <2>3. PendingInv' /\ E!KeyNotLost'
        BY <1>1, <1>3, <2>1 DEF PendingInv, E!KeyNotLost
    <2> QED
        BY <1>1, <1>2, <2>1, <2>2, <2>3, CommandKeeps
<1>5. CASE E!KilledProgram("sync")
    <2>1. E!Become("sync", E!Idle) /\ UNCHANGED <<identity, pending>>
        BY <1>5 DEF E!KilledProgram, E!files
    <2>2. Sync' = E!Idle => SyncShape' /\ SyncedInv'
        BY <1>2 DEF SyncShape, SyncedInv
    <2> QED
        BY <1>1, <1>2, <2>1, <2>2, SyncKeeps
<1>6. CASE E!Reconcile
    <2>1. /\ UNCHANGED proc /\ pending' = 0 /\ pending # 0 /\ Command.at = "idle"
          /\ identity' = IF reg.id = saved /\ reg.key = pending THEN pending ELSE identity
        BY <1>6 DEF E!Reconcile, E!Ready, Command
    <2>2. E!KeyNotLost' /\ PendingInv'
        BY <1>1, <1>3, <2>1 DEF E!KeyNotLost, PendingInv
    <2>3. EnrolmentTyped' /\ Numbers'
        BY <1>1, <2>1 DEF EnrolmentInv, EnrolmentTyped, Numbers
    <2>4. CommandShape' /\ SyncShape' /\ SyncedInv' /\ CommandInv'
        BY <1>1, <2>1 DEF EnrolmentInv, CommandShape, SyncShape, SyncedInv, CommandInv, Command, Sync
    <2>5. E!BothSidesAgree'
        BY <1>1, <2>2 DEF EnrolmentInv, E!BothSidesAgree, E!ConfirmationTrue
    <2> QED
        BY <2>2, <2>3, <2>4, <2>5 DEF EnrolmentInv
<1> QED
    BY <1>4, <1>5, <1>6 DEF E!Programs

LEMMA EnrolmentKeeps ==
    ASSUME EnrolmentInv, [E!EnrolmentNext]_(E!enrolmentVars)
    PROVE  EnrolmentInv'
<1>1. CASE E!EnrolmentNext
    <2>1. CASE \E p \in E!Programs : E!Granted(p) \/ E!Refused(p) \/ E!Lost(p)
        BY <2>1, CommandRequestKeeps, SyncRequestKeeps DEF E!Programs
    <2> QED
        BY <1>1, <2>1, PlatformKeeps, StartsCommand, WritesOfCommand, SyncStepsKeep, EndsKeep
           DEF E!EnrolmentNext
<1>2. CASE UNCHANGED E!enrolmentVars
    <2>1. UNCHANGED <<reg, saved, identity, pending, stamp, proc, made, synced>>
        BY <1>2 DEF E!enrolmentVars, E!platform, E!files
    <2> QED
        BY <2>1 DEF EnrolmentInv, EnrolmentTyped, CommandShape, SyncShape, Numbers, CommandInv,
                    PendingInv, SyncedInv, E!BothSidesAgree, E!KeyNotLost, E!ConfirmationTrue,
                    Command, Sync
<1> QED
    BY <1>1, <1>2

LEMMA EnrolmentStarts == E!EnrolmentInit => EnrolmentInv
<1> SUFFICES ASSUME E!EnrolmentInit PROVE EnrolmentInv
    OBVIOUS
<1>1. /\ reg = [id |-> 0, key |-> 0, enabled |-> FALSE, token |-> FALSE, confirmed |-> FALSE]
      /\ saved = 0 /\ identity = 0 /\ pending = 0 /\ made = 0 /\ synced = FALSE
      /\ stamp = [id |-> 0, key |-> 0] /\ proc = [p \in E!Programs |-> E!Idle]
    BY DEF E!EnrolmentInit, E!NoStamp
<1>2. E!Idle \in ProcRow /\ E!Idle.at = "idle" /\ E!Idle.id = 0 /\ E!Idle.goal = "none"
    BY EIdleRow DEF ERow
<1>3. Command = E!Idle /\ Sync = E!Idle
    BY <1>1 DEF Command, Sync, E!Programs
<1>4. EnrolmentTyped
    BY <1>1, <1>2 DEF EnrolmentTyped, RegRow
<1>5. CommandShape /\ SyncShape /\ CommandInv /\ SyncedInv
    BY <1>2, <1>3 DEF CommandShape, SyncShape, CommandInv, SyncedInv
<1>6. Numbers
    BY <1>1, <1>2 DEF Numbers
<1>7. PendingInv /\ E!BothSidesAgree
    BY <1>1 DEF PendingInv, E!BothSidesAgree, E!KeyNotLost, E!ConfirmationTrue
<1> QED
    BY <1>4, <1>5, <1>6, <1>7 DEF EnrolmentInv

LEMMA EnrolmentInvariant == E!EnrolmentSpec => []EnrolmentInv
BY EnrolmentStarts, EnrolmentKeeps, PTL DEF E!EnrolmentSpec

\* What is saved over a configuration is a registration whose key the machine holds.
LEMMA SavedWasProved == E!EnrolmentSpec => E!SavedProved
<1> DEFINE Proved == saved' # saved /\ saved # 0 /\ saved' = reg.id => reg.key = identity
<1>1. EnrolmentInv /\ [E!EnrolmentNext]_(E!enrolmentVars) => [Proved]_(E!enrolmentVars)
    <2> SUFFICES ASSUME EnrolmentInv, E!EnrolmentNext, saved' # saved, saved # 0, saved' = reg.id
                 PROVE  reg.key = identity
        BY DEF Proved
    <2>1. CASE E!SaveRegistration
        BY <2>1 DEF E!SaveRegistration, EnrolmentInv, CommandInv, Command
    <2>2. CASE E!Configure
        BY <2>2 DEF E!Configure, EnrolmentInv, CommandInv, Command
    <2>3. CASE ~E!SaveRegistration /\ ~E!Configure
        BY <2>3 DEF E!EnrolmentNext, E!Register, E!DisableRegistration, E!Expire, E!Granted,
               E!Refused, E!Lost, E!KilledProgram, E!StartInit, E!StartSetup, E!MakeIdentity,
               E!StartEnroll, E!StartRotate, E!MakePending, E!Adopt, E!RemovePending,
               E!Reconcile, E!StartRun, E!WriteKeys, E!files
    <2> QED
        BY <2>1, <2>2, <2>3
<1> QED
    BY <1>1, EnrolmentInvariant, PTL DEF E!EnrolmentSpec, E!SavedProved

-----------------------------------------------------------------------------
(* Behaviours of either part *)

LEMMA EitherParts == EitherSpec => Spec /\ E!EnrolmentSpec
<1>1. EitherInit => Init /\ E!EnrolmentInit
    BY DEF EitherInit
<1>2. [EitherNext]_<<part, vars, reg, creds, saved, identity, pending, stamp, proc, made, faults,
                    synced>>
      => [Next]_vars /\ [E!EnrolmentNext]_(E!enrolmentVars)
    BY DEF EitherNext, SshNext, EnrolmentNext, vars, E!enrolmentVars, E!platform, E!files
<1> QED
    BY <1>1, <1>2, PTL DEF EitherSpec, Spec, E!EnrolmentSpec

\* Whatever request, answer or program is lost while a machine is enrolled or changes its
\* key, for any number of registrations, keys and faults: the machine holds the key the
\* platform knows it by, and an installation is shown as complete only after its keys were
\* written.
THEOREM BothSidesAlwaysAgree == EitherSpec => []BothSidesAgree
<1>1. EnrolmentInv => BothSidesAgree
    BY DEF EnrolmentInv, BothSidesAgree
<1> QED
    BY <1>1, EitherParts, EnrolmentInvariant, PTL

\* An automatic attempt is made once for what it found, and a configuration is only given a
\* registration whose key the machine was shown to hold.
THEOREM NothingRepeatedBlindly == EitherSpec => NothingTriedBlindly
BY EitherParts, TriedOnlyOnce, SavedWasProved DEF NothingTriedBlindly
=============================================================================
