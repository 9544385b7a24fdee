------------------------------ MODULE Feedback ------------------------------
(* One feedback ticket with its images (server/feedback.ts) and the page of  *)
(* one person, its owner or an administrator (FeedbackPages.tsx), which      *)
(* shows it, drafts changes of it and submits them by useConflictApi.        *)
(* A handler runs from its uploaded files to its commit without a pause, so  *)
(* it is one step; the process may stop inside it.  What a request replaces  *)
(* is compared by version; a comment does not change the version.  Title and *)
(* text are guarded and drafted as the level is, and left out.               *)
EXTENDS Naturals, FiniteSets

CONSTANTS
    Images,     \* files a person may upload
    MaxImages,  \* of a text or a comment (5 in the code)
    MaxDrafts,  \* bound: comments and new tickets the page drafts
    MaxRequests \* bound: requests of the page and changes by others

Kinds == {"create", "edit", "withdraw", "comment", "status", "level"}
Statuses == {"open", "done", "withdrawn"}
Levels == {"low", "high"}

VARIABLES
    ticket,     \* its row; version 0 until it is created
    rows,       \* of every image: none, body, comment, removed or purged
    files,      \* of every image: none, staged or stored
    posted,     \* how often a draft became a ticket or a comment
    role,       \* the person at the page
    view,       \* the ticket shown, the drafts of a status and of a comment
    editor,     \* the dialog that creates or edits
    loading,    \* the read under way
    sending,    \* the page's request under way
    late,       \* a request the page has given up and the server may yet get
    unsure,     \* kinds of request whose outcome is unknown: not sent again
    writes      \* how many requests and changes there were

feedback == <<ticket, rows, files, posted, role, view, editor, loading, sending, late,
              unsure, writes>>

-----------------------------------------------------------------------------
(* What is passed around *)

BodyImages == {i \in Images : rows[i] = "body"}

\* loadDetail
Snapshot == [version |-> ticket.version, status |-> ticket.status, level |-> ticket.level, images |-> BodyImages]

Nothing == [version |-> 0, status |-> "open", level |-> "low", images |-> {}]

Message(kind, expected, seen) ==
    [kind |-> kind, expected |-> expected, seen |-> seen, overwrite |-> FALSE,
     level |-> "low", status |-> "open", kept |-> {}, added |-> {}, draft |-> 0]

NoMessage == Message("none", 0, Nothing)

Idle == [stage |-> "idle", m |-> NoMessage, reply |-> Nothing]
NotLoading == [stage |-> "none", got |-> Nothing]
Loading == [stage |-> "asked", got |-> Nothing]

Closed == [open |-> FALSE, saved |-> Nothing, level |-> "low",
           kept |-> {}, added |-> {}]

Opened(saved) == [open |-> TRUE, saved |-> saved, level |-> saved.level,
                  kept |-> saved.images, added |-> {}]

FreshView == [shown |-> Nothing, choice |-> "none", began |-> "open", base |-> 0,
              draft |-> 0, added |-> {}]

\* An owner before the first ticket, or either person at a ticket with one image.
FeedbackInit ==
    /\ role \in {"owner", "admin"}
    /\ \E first \in SUBSET Images :
         /\ Cardinality(first) = MaxImages
         /\ rows = [i \in Images |-> IF i \in first THEN "body" ELSE "none"]
         /\ files = [i \in Images |-> IF i \in first THEN "stored" ELSE "none"]
         /\ ticket = [version |-> 1, status |-> "open", level |-> "low"]
         /\ loading = Loading
       \/ /\ role = "owner"
          /\ rows = [i \in Images |-> "none"] /\ files = [i \in Images |-> "none"]
          /\ ticket = [version |-> 0, status |-> "open", level |-> "low"]
          /\ loading = NotLoading
    /\ posted = [d \in 1..MaxDrafts |-> 0]
    /\ view = FreshView /\ editor = Closed
    /\ sending = Idle /\ late = NoMessage
    /\ unsure = {} /\ writes = 0

-----------------------------------------------------------------------------
(* The server *)

\* What the checks of a handler find, in their order.
Stale(m) == m.kind \notin {"create", "comment"} /\ ~m.overwrite /\ ticket.version # m.expected

Closes(m) ==
    \/ m.kind \in {"edit", "withdraw"} /\ ticket.status # "open"
    \/ m.kind \in {"status", "level", "comment"} /\ ticket.status = "withdrawn"
    \/ m.kind = "edit" /\ ~(m.kept \subseteq BodyImages)

Invalid(m) ==
    \/ m.kind = "edit" /\ Cardinality(m.kept \cup m.added) > MaxImages
    \/ m.kind = "status" /\ m.status = ticket.status
    \/ m.kind = "level" /\ m.level = ticket.level

Verdict(m) ==
    IF Stale(m) THEN "stale" ELSE IF Closes(m) THEN "closed"
    ELSE IF Invalid(m) THEN "invalid" ELSE "done"

\* What each handler makes of the ticket.
Created(m) == [version |-> 1, status |-> "open", level |-> m.level]
Edited(m) == [ticket EXCEPT !.version = @ + 1, !.level = m.level]
Withdrawn == [ticket EXCEPT !.version = @ + 1, !.status = "withdrawn"]
StatusChanged(m) == [ticket EXCEPT !.version = @ + 1, !.status = m.status]
LevelChanged(m) == [ticket EXCEPT !.version = @ + 1, !.level = m.level]

TicketAfter(m) ==
    CASE m.kind = "create" -> Created(m)
      [] m.kind = "edit" -> Edited(m)
      [] m.kind = "withdraw" -> Withdrawn
      [] m.kind = "status" -> StatusChanged(m)
      [] m.kind = "level" -> LevelChanged(m)
      [] OTHER -> ticket

RowsAfter(m) ==
    [i \in Images |->
        IF i \in m.added THEN (IF m.kind = "comment" THEN "comment" ELSE "body")
        ELSE IF m.kind = "edit" /\ rows[i] = "body" /\ i \notin m.kept THEN "removed"
        ELSE rows[i]]

FilesWith(stored, staged) ==
    [i \in Images |-> IF i \in stored THEN "stored"
                      ELSE IF i \in staged THEN "staged" ELSE files[i]]

\* The files are renamed into place inside the transaction; one that fails takes its files away.
Commits(m) ==
    /\ ticket' = TicketAfter(m)
    /\ rows' = RowsAfter(m)
    /\ files' = FilesWith(m.added, {})
    /\ posted' = [d \in DOMAIN posted |-> posted[d] + IF d = m.draft THEN 1 ELSE 0]

\* A plausible bug: the rows are committed before the files are in place.
InterruptedRowsFirst(m) ==
    /\ Verdict(m) = "done"
    /\ rows' = RowsAfter(m) /\ files' = FilesWith({}, m.added)
    /\ UNCHANGED <<ticket, posted>>

\* The process stops while it writes the files, or renames them before the commit.
Interrupted(m) ==
    /\ \E stored, staged \in SUBSET m.added :
         /\ stored \cap staged = {}
         /\ stored # {} => Verdict(m) = "done" /\ stored \cup staged = m.added
         /\ files' = FilesWith(stored, staged)
    /\ UNCHANGED <<ticket, rows, posted>>

\* Once a day: removed images go after two weeks, forgotten uploads after a day.
Purge ==
    \E i \in Images :
      /\ rows[i] = "removed"
      /\ \/ files[i] = "stored" /\ files' = [files EXCEPT ![i] = "none"]
            /\ rows' \in {rows, [rows EXCEPT ![i] = "purged"]}
         \/ files[i] = "none" /\ rows' = [rows EXCEPT ![i] = "purged"] /\ UNCHANGED files
      /\ UNCHANGED <<ticket, posted, role, view, editor, loading, sending, late, unsure, writes>>

DropStaged ==
    /\ \E i \in Images : files[i] = "staged"
    /\ files' = [i \in Images |-> IF files[i] = "staged" THEN "none" ELSE files[i]]
    /\ UNCHANGED <<ticket, rows, posted, role, view, editor, loading, sending, late, unsure, writes>>

\* Files nobody has sent yet; every upload of a file makes an image of its own.
Unused == {i \in Images : rows[i] = "none" /\ files[i] = "none" /\ i \notin late.added}

\* An administrator, or the owner at another device.
Others ==
    /\ ticket.version > 0 /\ writes < MaxRequests
    /\ \E kind \in Kinds \ {"create", "comment"}, level \in Levels,
          status \in Statuses, kept \in SUBSET BodyImages :
         LET m == [Message(kind, ticket.version, Snapshot) EXCEPT
                     !.level = level, !.status = status, !.kept = kept]
         IN  Verdict(m) = "done" /\ Commits(m)
    /\ writes' = writes + 1
    /\ UNCHANGED <<role, view, editor, loading, sending, late, unsure>>

-----------------------------------------------------------------------------
(* The page: what is shown and drafted *)

Dirty(e) == e.level # e.saved.level \/ e.kept # e.saved.images
            \/ e.added # {}

\* An editor that was not touched follows the page.
Synced(e, shown) ==
    IF e.open /\ shown.version > e.saved.version /\ e.saved.version > 0 /\ ~Dirty(e)
    THEN Opened(shown) ELSE e

\* Fields are disabled while a request is under way.
Free == sending.stage = "idle"
AtTicket == view.shown.version > 0

\* Any change of any ticket is announced to every page that is connected.
Event ==
    /\ ticket.version > 0 /\ (AtTicket \/ loading.stage # "none")
    /\ loading' = Loading
    /\ UNCHANGED <<ticket, rows, files, posted, role, view, editor, sending, late, unsure, writes>>

Serve ==
    /\ loading.stage = "asked"
    /\ loading' = [stage |-> "served", got |-> Snapshot]
    /\ UNCHANGED <<ticket, rows, files, posted, role, view, editor, sending, late, unsure, writes>>

\* The view's own request under way: what a read brings is dropped.
Writing == sending.stage \notin {"idle", "asking"} /\ sending.m.kind \notin {"create", "edit"}

\* The version a status is submitted with stands still while one is drafted.
BaseAfter(got) == IF view.choice = "none" /\ got.version > view.base THEN got.version ELSE view.base

Show ==
    /\ loading.stage = "served"
    /\ loading' = NotLoading
    /\ IF Writing THEN UNCHANGED <<view, editor>>
       ELSE LET shown == IF view.shown.version > loading.got.version
                         THEN view.shown ELSE loading.got
            IN  /\ view' = [view EXCEPT !.shown = shown, !.base = BaseAfter(loading.got)]
                /\ editor' = IF Free THEN Synced(editor, shown) ELSE editor
    /\ UNCHANGED <<ticket, rows, files, posted, role, sending, late, unsure, writes>>

\* A read that takes too long or breaks changes nothing.
FailRead ==
    /\ loading # NotLoading
    /\ loading' = NotLoading
    /\ UNCHANGED <<ticket, rows, files, posted, role, view, editor, sending, late, unsure, writes>>

\* The dialog of a new ticket or of the one shown, and its fields.
OpenEditor ==
    /\ role = "owner" /\ Free /\ ~editor.open
    /\ \/ ticket.version = 0 /\ late = NoMessage /\ loading = NotLoading
       \/ AtTicket /\ view.shown.status = "open"
    /\ editor' = Opened(view.shown)
    /\ UNCHANGED <<ticket, rows, files, posted, role, view, loading, sending, late, unsure, writes>>

Type ==
    /\ Free /\ editor.open
    /\ \E level \in Levels, kept \in SUBSET editor.kept, added \in SUBSET (Unused \ view.added) :
         /\ Cardinality(kept \cup added) <= MaxImages
         /\ editor' = Synced([editor EXCEPT !.level = level,
                                            !.kept = kept, !.added = added], view.shown)
    /\ UNCHANGED <<ticket, rows, files, posted, role, view, loading, sending, late, unsure, writes>>

\* The status drafted, with its note; began is the status shown when that started.
Choose ==
    /\ role = "admin" /\ Free /\ AtTicket /\ view.shown.status # "withdrawn"
    /\ \E s \in (Statuses \ {view.shown.status}) \cup {"none"} :
         view' = [view EXCEPT !.choice = s,
                              !.began = IF view.choice = "none" THEN view.shown.status ELSE @]
    /\ UNCHANGED <<ticket, rows, files, posted, role, editor, loading, sending, late, unsure, writes>>

Comment ==
    /\ Free /\ AtTicket /\ ~editor.open /\ view.shown.status # "withdrawn"
    /\ \E d \in 1..MaxDrafts, added \in SUBSET (Unused \ editor.added) :
         /\ d = view.draft \/ (view.draft = 0 /\ posted[d] = 0 /\ late.draft # d)
         /\ Cardinality(added) <= MaxImages
         /\ view' = [view EXCEPT !.draft = d, !.added = added]
    /\ UNCHANGED <<ticket, rows, files, posted, role, editor, loading, sending, late, unsure, writes>>

-----------------------------------------------------------------------------
(* The page: requests *)

\* claimEdit: a kind of request whose outcome is unknown is not sent again.
Sends(m) ==
    /\ Free /\ m.kind \notin unsure /\ writes < MaxRequests
    /\ sending' = [Idle EXCEPT !.stage = "sent", !.m = m]
    /\ writes' = writes + 1
    /\ UNCHANGED <<ticket, rows, files, posted, role, view, editor, loading, late, unsure>>

\* A ticket takes the draft's number 1.
SaveEditor ==
    /\ editor.open
    /\ LET new == editor.saved.version = 0
       IN  Sends([Message(IF new THEN "create" ELSE "edit", editor.saved.version, editor.saved)
                    EXCEPT !.level = editor.level, !.kept = editor.kept,
                           !.added = editor.added, !.draft = IF new THEN 1 ELSE 0])

SubmitStatus ==
    /\ role = "admin" /\ view.choice # "none"
    /\ Sends([Message("status", view.base, [view.shown EXCEPT !.status = view.began])
                EXCEPT !.status = view.choice])

ChangeLevel ==
    /\ role = "admin" /\ AtTicket /\ view.shown.status # "withdrawn"
    /\ \E level \in Levels \ {view.shown.level} :
         Sends([Message("level", view.shown.version, view.shown) EXCEPT !.level = level])

SubmitComment ==
    /\ view.draft # 0 /\ ~editor.open
    /\ Sends([Message("comment", 0, view.shown) EXCEPT !.draft = view.draft, !.added = view.added])

\* A question first; what is submitted is what was shown when it was asked.
AskWithdraw ==
    /\ role = "owner" /\ Free /\ AtTicket /\ ~editor.open /\ view.shown.status = "open"
    /\ sending' = [Idle EXCEPT !.stage = "asking",
                               !.m = Message("withdraw", view.shown.version, view.shown)]
    /\ UNCHANGED <<ticket, rows, files, posted, role, view, editor, loading, late, unsure, writes>>

AnswerWithdraw ==
    /\ sending.stage = "asking"
    /\ \/ sending' = Idle /\ UNCHANGED writes
       \/ /\ "withdraw" \notin unsure /\ writes < MaxRequests
          /\ sending' = [sending EXCEPT !.stage = "sent"]
          /\ writes' = writes + 1
    /\ UNCHANGED <<ticket, rows, files, posted, role, view, editor, loading, late, unsure>>

\* The server takes the request; a refused one leaves no files.
Handle ==
    /\ sending.stage = "sent"
    /\ LET m == sending.m
       IN  IF Verdict(m) = "done"
           THEN /\ Commits(m)
                /\ sending' = [stage |-> "done", m |-> m, reply |-> Snapshot']
           ELSE /\ sending' = [sending EXCEPT !.stage = Verdict(m)]
                /\ UNCHANGED <<ticket, rows, files, posted>>
    /\ UNCHANGED <<role, view, editor, loading, late, unsure, writes>>

\* The answer arrives; the fields are free again.
Done ==
    /\ sending.stage = "done"
    /\ sending' = Idle
    /\ LET m == sending.m
           shown == IF m.kind = "create" THEN view.shown ELSE sending.reply
       IN  /\ view' = CASE m.kind = "status" ->
                             [view EXCEPT !.shown = shown, !.choice = "none", !.base = shown.version]
                        [] m.kind = "comment" -> [view EXCEPT !.shown = shown, !.draft = 0, !.added = {}]
                        [] OTHER -> [view EXCEPT !.shown = shown]
           /\ editor' = IF m.kind \in {"create", "edit"} THEN Closed ELSE editor
           /\ loading' = IF m.kind = "create" THEN Loading ELSE loading
    /\ UNCHANGED <<ticket, rows, files, posted, role, late, unsure, writes>>

\* A refusal leaves the drafts; some refusals make the page read again.
Refused ==
    /\ sending.stage \in {"closed", "invalid"}
    /\ sending' = Idle
    /\ loading' = IF sending.stage = "closed" /\ sending.m.kind \in {"withdraw", "status", "level"}
                  THEN Loading ELSE loading
    /\ editor' = Synced(editor, view.shown)
    /\ UNCHANGED <<ticket, rows, files, posted, role, view, late, unsure, writes>>

\* The data have changed: overwrite them, or go back to the draft.
AnswerOverwrite ==
    /\ sending.stage = "stale"
    /\ \/ sending' = Idle /\ editor' = Synced(editor, view.shown)
       \/ sending' = [sending EXCEPT !.stage = "sent", !.m.overwrite = TRUE] /\ UNCHANGED editor
    /\ UNCHANGED <<ticket, rows, files, posted, role, view, loading, late, unsure, writes>>

-----------------------------------------------------------------------------
(* Faults *)

\* A request the page no longer waits for: its outcome is unknown, unless the page is being
\* asked about overwriting.
Unknown == {u \in {unsure, unsure \cup {sending.m.kind}} :
              IF sending.stage \in {"idle", "asking"} THEN u = unsure
              ELSE sending.stage # "stale" => u # unsure \/ sending.m.kind \in unsure}

Abandon == late' = IF sending.stage = "sent" THEN sending.m ELSE late

\* No answer within the deadline, or the connection breaks.
GiveUp ==
    /\ sending.stage \notin {"idle", "asking"} /\ late = NoMessage
    /\ unsure' = unsure \cup {sending.m.kind} /\ Abandon
    /\ sending' = Idle
    /\ editor' = Synced(editor, view.shown)
    /\ UNCHANGED <<ticket, rows, files, posted, role, view, loading, writes>>

Crash ==
    /\ sending.stage = "sent" /\ Interrupted(sending.m)
    /\ unsure' = unsure \cup {sending.m.kind}
    /\ sending' = Idle
    /\ editor' = Synced(editor, view.shown)
    /\ loading' = NotLoading
    /\ UNCHANGED <<role, view, late, writes>>

\* The dialog may be closed at any time; that ends its request too.
CloseEditor ==
    /\ editor.open /\ late = NoMessage
    /\ editor' = Closed
    /\ unsure' \in Unknown /\ Abandon
    /\ sending' = Idle
    /\ UNCHANGED <<ticket, rows, files, posted, role, view, loading, writes>>

\* The page is left and opened again, or the browser loads it anew.
Return ==
    /\ ticket.version > 0 /\ late = NoMessage
    /\ view' = FreshView /\ editor' = Closed /\ loading' = Loading
    /\ unsure' \in Unknown \cup {{}} /\ Abandon
    /\ sending' = Idle
    /\ UNCHANGED <<ticket, rows, files, posted, role, writes>>

\* A request the page gave up reaches the server after all, or never.
Arrive ==
    /\ late # NoMessage
    /\ late' = NoMessage
    /\ \/ Verdict(late) = "done" /\ Commits(late)
       \/ Interrupted(late)
       \/ UNCHANGED <<ticket, rows, files, posted>>
    /\ UNCHANGED <<role, view, editor, loading, sending, unsure, writes>>

FeedbackNext ==
    \/ Others \/ Purge \/ DropStaged
    \/ Event \/ Serve \/ Show \/ FailRead
    \/ OpenEditor \/ Type \/ Choose \/ Comment
    \/ SaveEditor \/ SubmitStatus \/ ChangeLevel \/ SubmitComment \/ AskWithdraw \/ AnswerWithdraw
    \/ Handle \/ Done \/ Refused \/ AnswerOverwrite
    \/ GiveUp \/ Crash \/ CloseEditor \/ Return \/ Arrive

FeedbackSpec == FeedbackInit /\ [][FeedbackNext]_feedback

-----------------------------------------------------------------------------
(* Properties *)

\* An image that a ticket or a comment has is on disk, whatever stops the process, and no
\* draft becomes two tickets or two comments, whatever answer is lost (feedback.ts:217, :421;
\* edit-conflict.ts:12): the backup refuses a ticket without its image.
RecordedOnce ==
    /\ \A i \in Images : rows[i] \in {"body", "comment"} => files[i] = "stored"
    /\ \A d \in DOMAIN posted : posted[d] <= 1

\* What a request of the page replaces, of a ticket as it is or as it was seen.
Replaced(m, t) ==
    CASE m.kind = "edit" -> <<t.level, t.images>>
      [] m.kind = "status" -> <<t.status>>
      [] m.kind = "level" -> <<t.level>>
      [] m.kind = "withdraw" -> <<t.level, t.status, t.images>>
      [] OTHER -> <<>>

\* The step in which the server takes a request of the page and does what it says.
Handles(m) ==
    \/ sending.stage = "sent" /\ sending'.stage = "done" /\ m = sending.m
    \/ late # NoMessage /\ late' = NoMessage /\ m = late /\ ticket' # ticket

\* A request replaces what its author saw when the draft was begun, unless the author was
\* asked and confirmed (system-admin.md:55; feedback.ts:564; FeedbackPages.tsx:574).
TicketsKept ==
    [][\A m \in {sending.m, late} :
          /\ Handles(m) /\ ~m.overwrite
          => Replaced(m, Snapshot) = Replaced(m, m.seen)]_feedback

\* A read leaves every draft alone, and an editor nobody touched shows what the page shows
\* (FeedbackPages.tsx:409-415; user-guide.md:91).
FeedbackDraftsKept ==
    [][/\ Show => /\ Dirty(editor) => editor' = editor
                  /\ <<view'.choice, view'.draft, view'.added>> = <<view.choice, view.draft, view.added>>
       /\ editor'.open /\ editor'.saved.version > 0 /\ ~Dirty(editor') /\ sending' = Idle
          => editor'.saved.version >= view'.shown.version]_feedback

=============================================================================
