# Allocube in TLA+

Allocube lets the members of a laboratory book shared machines, or parts of
them ("resource groups"), by the minute. The server is one Node process over one
SQLite file; a second thread computes daily statistics; browsers, scripts (through an
API with tokens) and "terminals" (a Go program on the booked machines) talk to it over HTTP.

This directory holds a model of the parts of that system where the order of
things matters, the model-checking runs over it, and proofs. Paths are relative to the
root of the repository unless they name a module; `PROJECT.json` maps every definition
to the lines it models and lists runs, mutants, hazards, findings and theorems.

| Module | What it is | Checked by | Proved in |
| --- | --- | --- | --- |
| `Scheduling` | bookings, unavailability windows, memberships and accounts, and every handler that changes them or releases bookings | `MCScheduling` | `SchedulingProofs` |
| `Calendar`, `CalendarRefinement` | what the calendar promises, abstractly (slots, users, closed slots), and the mapping from `Scheduling` | `MCScheduling` | `SchedulingProofs` |
| `OpenApi` | tokens and operations prepared and confirmed by programs, over `Scheduling` | `MCOpenApi` | `SchedulingProofs` |
| `Reports` | daily statistics: the worker, statement by statement, against the HTTP thread, failures and crashes | `Reports` itself | `ReportsProofs` |
| `Access` | applications for the use of a machine, their reviewers and the reminders | `MCAccess` | `AccessProofs` |
| `Identity` | registration and review, names, addresses proven by codes, employee numbers | `MCIdentity` | `IdentityProofs` |
| `Sessions` | logging in and out, passwords, reset links, and what pages know of their session | `MCIdentity` | `IdentityProofs` |
| `Terminal` | the change of SSH configurations under a journal, recovery, key synchronization | `MCTerminal` | `TerminalProofs` |
| `Enrolment` | how a terminal is registered, proves its key, changes it and confirms its installation | `MCTerminal` | `TerminalProofs` |
| `Outbox` | the mail outbox: passes that await a mail server while requests change the rows they read | `MCDelivery` | `DeliveryProofs` |
| `HelpDelivery` | the terminal's queue of assistance requests and what the platform makes of them | `MCDelivery` | `DeliveryProofs` |
| `Resources` | the resource configuration of a machine and the editor that saves it at once | `MCPages` | `PagesProofs` |
| `PersonalKeys` | a user's public SSH keys, mailed codes, activations, from several pages | `MCPages` | `PagesProofs` |
| `Settings` | the settings page: versions, dialogs, conflicts, refreshes | `MCPages`, `MCSettings` | `PagesProofs` |
| `Feedback` | a ticket with its images, its editor and the page that shows it | `MCPages` | `PagesProofs` |
| `Realtime` | journal, event stream, and the refresh queue of a page | `MCRealtime` | `DeliveryProofs` |
| `BookingPage` | the calendar page: drafts, previews, editing sequences, submissions of unknown outcome | `MCBookingPage` | `BookingPageProofs` |

## 1. Inventory

For each part: its state, its operations, how it meets other parts, what is hard
about it, and what makes it correct. *Modelled*: every operation of it that changes
state is an action. *Partly*: what is left out is named here and in `PROJECT.json`.

### Booking core (`server/scheduling.ts`) - modelled

State: `reservations` (who, which group, scope `RESOURCE_GROUP` or `MACHINE`,
start, end, status) and the schedule revision. Operations: commit a batch, with or without
adjustment to what is free; replace one booking by a batch; replace several together; update
the times of one; cancel; end early. All run in `withImmediateTransaction`, and
the server is the only writer, so they are serial; but each reads the clock,
several times. Hard: the contention rule crosses groups (a whole-machine booking excludes every
group of its machine); edits take from existing rows before they insert; half-open
intervals; a booking that is under way cannot be undone, only shortened. Correct when: two contending
bookings never overlap; a user's request touches only that user's bookings; elapsed
minutes are never rewritten.

### Unavailability windows (`server/unavailability.ts`) - modelled

State: `resource_unavailability` (target group or machine, `PLANNED` or `LONG_TERM`,
start, end, status) and the status columns of groups and machines. Operations: plan maintenance, cancel
or end it, deactivate a target, enable it again, each with its effect on bookings
(cancel, trim, split in two). Meets the booking core in both directions: windows cut bookings, bookings avoid
windows. Hard: two representations of "disabled" (a column and an open window); deactivating in the
middle of maintenance, of a machine while a group is under maintenance, repeatedly. Correct
when: bookings keep clear of windows; windows of a target are disjoint; column and windows
agree; a window takes exactly its own minutes.

### Memberships and machine access (`server/machine-access.ts`, `server/admin/access-routes.ts`) - modelled

State: memberships with an optional expiry, applications for one, machine managers. Memberships
and what they release of bookings are in `Scheduling` (grant, set the expiry,
remove); applications (made, edited and withdrawn by users; edited, approved and
rejected by administrators; lapsing on the date they ask for), invitations and managers in `Access`. Hard:
an application names a membership that changes under it; two reviewers answer one
application. Correct when: a booking that is not over belongs to an active user whose membership
lasts as long; an application waits only while it fits the membership there is; it
is answered once; what is approved is what was on the screen.

### Deletion, user accounts - partly

`server/admin/deletion-service.ts`, `server/admin/users-routes.ts`, `server/admin/user-service.ts`.
Disabling, enabling and deleting accounts, deleting groups and machines, with everything they
release, are in `Scheduling`, reviews and edits of accounts in `Identity`. Left out: lists, promotion of
system administrators, history tables.

### Administrator reminders (`server/admin-email-reminders.ts`) - partly

A timer mails reviewers what has waited for a day. In `Access`, for one reviewer. Correct when: every
version of what waits is reminded of, once.

### Daily reports (`server/report-*.ts`) - modelled

State: four tables (versions, the state row naming the published version, settled days, rebuild
jobs). The HTTP thread inserts a version and a job; a worker thread, over a
connection of its own, takes one step every so often: settle a day of a rebuild, publish it, sweep an
obsolete version, or settle a day that fell due. A step is *several* statements,
not a transaction. The scheduler restarts a worker that exits. Hard: the HTTP thread between any two
statements; failures of any statement, including the one that records a failure; crashes
between two days. Correct when: what is published is complete and never loses days, progress is
exact, and every rebuild, due day and obsolete version is dealt with in the end.

### Mail outbox (`server/mailer.ts`, `server/admin/smtp-routes.ts`) - partly

State: `email_outbox`, the switch for mail, an in-memory flag. A timer starts passes; a pass
reads its rows and awaits one `sendMail` after another, while requests cancel and
delete the same rows. Correct when: nothing recorded as sent is sent again, nothing is stuck, switching
mail off cancels what was not sent. Left out: test mails, in-app notifications,
encryption of the SMTP password, throttling.

### Identity and registration (`server/identity.ts`, `server/routes-auth.ts`) - partly

State: accounts under review and active, their names, addresses and employee numbers, requests to
change them, e-mail codes, the registration rules. Handlers check, await a password hash, and check again
in their transaction. Hard: two registrations that compete for one number; an
address cleared with the account as it was before the await; a review of what has been edited meanwhile. Correct
when: names, numbers and addresses have one owner; a code is used once; what is approved is what was reviewed.

### Sessions and passwords (`server/auth.ts`, `server/routes-auth.ts`, `src/app/useSession.ts`) - partly

State: session rows, password hashes, reset links; in a browser the cookie all pages share and the token
each page keeps. Hard: a hash is awaited, and the password was changed meanwhile; an answer
that reaches a page after the session it is about has ended. Correct when: what a page writes is written as the
user it shows; a link resets one password once. Left out: rate limits and sessions of accounts under review.

### Open API (`server/open-api.ts`, `server/api-tokens.ts`) - partly

Operations are prepared (a preview and a confirmation token) and later confirmed in a second call,
which executes one of the booking handlers and stores the result for replay. Hard: the
confirmation that is retried because its answer was lost, or that arrives after expiry,
revocation or a change of state. Correct when: at most one execution per operation; a rejection is final
and leaves nothing behind. Left out: the generated OpenAPI document, rate limits, read routes.

### Realtime changes and the client's refresh queue - partly / modelled

`server/realtime-changes.ts`, `server/index.ts`, `src/realtime.ts`,
`src/refresh-queue.ts`. Triggers write a journal, a drain turns it into events per session, browsers
coalesce re-reads. Correct when: an answer is as fresh as the request it settles, and a page that
stays connected in the end shows the committed state, whatever was hidden, aborted or dropped in
between. Scopes other than machines and times, and the limits on streams, are left out.

### Client application - partly

The calendar page (`src/features/calendar/useCalendarController.ts`): drafts, previews, editing
sequences, submissions. Correct when: drafts are what the user selected less what is taken, nothing is booked twice,
the page catches up. The settings page, the ticket page, the key dialogs and the resource editor are modelled with their handlers
(`Settings`, `Feedback`, `PersonalKeys`, `Resources`); navigation, layout and pages that only show data are left out.

### Resource configuration (`server/resources.ts`) - partly

Pools of devices and capacities, and groups that are given parts of them. Several administrators save; an
editor loads with two requests, keeps a draft and saves everything at once. Correct when: allocations fit their pools in every
state, and an editor does not replace what it has not seen. Names, order and renaming are left out.

### Terminals (`terminal/`, `server/terminal.ts`, `server/terminal-help.ts`) - partly; assistance requests modelled

The Go program synchronises public keys and, when an administrator confirms it, changes SSH configurations
under a journal (`ssh_transaction_linux.go`): phases, several files, several
services, one automatic recovery. It is registered by an enrolment code, holds an identity key that it may rotate, and reports what needs help
through a queue of numbered revisions (`help_linux.go`) that the platform accepts
idempotently. Hard: a crash between any two file replacements; acknowledgements that are lost;
resolution on both sides; a rotation of which one side has heard. Correct when: an unfinished change ends in all-old or
all-new configurations, revoked keys go, an attempt is not repeated blindly, the machine holds the key the platform knows it by, and
the last revision of every report gets through. Users' keys are in `PersonalKeys`. Left out: preflight checks, SELinux beyond its effect on keys, file formats.

### Settings, announcements, feedback - partly

`Settings` has the sections with their versions, `Feedback` one ticket. Left out: the audit log, the maintenance notice,
announcements, notifications, quotas. Machines' master data and announcements (`server/admin/machines-routes.ts`) are single-row edits, of which `Access` has the choice of managers.

### Not modelled

The own reservation list (`server/my-reservations.ts` only reads; its batch cancellation is a loop over the modelled cancel, in one
transaction); the source rate limiter (`server/source-rate-limit.ts`, one bounded map inside one synchronous
function); migrations (run before the server starts); translations, styles, static files and scripts, which keep no state.

### Interactions

```
 browser / API client --HTTP--> handlers --one transaction--> SQLite <--statements-- report worker
        ^                          |                             ^
        |                          v                             |
        +---- events <---- journal of changes           timers: outbox pass, expiry of
                                                         applications, reminders, boundaries
 terminal --HTTP (keys, enrolment, help)--> handlers
```

Handlers are synchronous from `BEGIN IMMEDIATE` to `COMMIT`, so on the main thread they
exclude each other. What interleaves is: (a) the report worker with all of them; (b) code that
awaits (the outbox, password hashes); (c) time, which passes inside a transaction as well;
(d) separate requests of several users and pages; (e) anything across the network, the pages' own state included.

## 2. How the code is modelled

**A handler is an action.** `withImmediateTransaction` (`server/db.ts:1064`) makes each handler one
step, with its guards in the order of the code, every write it makes and the trailing calls
(trimming, releasing, `bumpScheduleRevision`). Nested calls use savepoints and roll back as a whole.

**Where the code is not atomic, neither is the model.** `ReportStore.step` is cut at every
statement the other thread can come between, and the worker's local variables are kept
in `worker`. `processEmailOutbox` is cut at its awaits, registration and the clearing of an address at the password
hash, a login, a change and a reset of a password likewise. The terminal program is cut at every durable write and every request.

**A page is state.** What a page shows, drafts, has asked and waits for are variables; a request, its handling and its answer are three steps
where anything can come between them, and one step where the page keeps its fields
disabled and starts nothing (`Settings`, `PersonalKeys`; there the answer, or the request with it, may be lost).

**Time in `Scheduling` is in minutes.** The schemas and `normalizePlannedTimes` make every bound of a
booking or window a whole minute, so a comparison with `nowIso()` depends on the current minute only.
"Immediate" maintenance is one that starts in the current minute. A handler that reads the clock more than once reads
`clock` first and a later minute `late` afterwards, with
`late <= clock + MaxSkew`. `MaxSkew = 0` says that no minute boundary falls inside a
transaction; where that matters the run or theorem says so. `OpenApi` counts deadlines in minutes from a moment inside the current
one: in the minute a deadline falls into, either side of it is possible. `Access` counts days.

**Versions and previews.** In `Scheduling` most edits carry an expected version, a state token or
the revision of a preview, and may carry "overwrite", which skips the comparison. A mismatch only refuses a
request, and a request may always be absent, so these checks add no behaviour to the
tables and are left out there. Where a property is about what was on the screen (`Access`, `Identity`, `Resources`,
`Settings`, `Feedback`, `BookingPage`) versions and conflicts are in the model.

**Data.** Users, machines, groups and row ids are model values. Titles, notes, audit rows and notifications
are left out unless a property is about them; so are the figures of a report
day (nothing changes what lies before today, so a settled day has one value) and
durations in `Outbox` (back-offs end and codes expire when the environment says so).

**Rows no longer needed.** A first-minute withdrawal deletes its row, a cancelled or trimmed row
stays, as in the code.

**Parts in one run.** `MCPages`, `MCIdentity`, `MCTerminal` and `MCDelivery` each hold parts that share no state. A behaviour of
them is a behaviour of one part, chosen in the initial state, while the variables of the others stand still; nothing is
lost, for steps of two parts that share no variable cannot disturb one another.

### `Scheduling`, `Calendar`, `OpenApi`

| Variable | Code |
| --- | --- |
| `clock` | `nowIso()`, `currentMinuteIso()` |
| `res`, `win` | `reservations`, `resource_unavailability` |
| `status`, `deleted` | the status columns and the tombstone tables of machines and groups |
| `access` | `machine_access_memberships.expires_at`, 0 without a row |
| `account` | `users.status` and the tombstone |
| `revision` | the schedule revision, which also bounds behaviours |

`BookingStep` holds `CommitBatch`, `ReplaceBatch`, `ReplaceMany` and
`UpdateBooking`; `ReleaseStep` holds `CancelBooking` and `EndEarly`;
`AvailabilityStep` holds `CreatePlanned`, `Disable`, `Enable` and
`CancelPlanned`; then deletion, membership and account steps, and `Tick`. Handlers that share code in the source
share operators here: `Pieces` (splitByBusy and the checks of
previewSegments), `Released` (releaseMachineResources), `Adjusted`
(the trimming and splitting of `applyReservationImpacts`).

`Calendar` has one slot per minute and group; a slot is taken by users (never two) and may be closed. `Book(u)` may only give up slots of `u`
or take free open ones, from now on; `Close` frees what it closes; nothing changes
elapsed minutes. `CalendarRefinement` maps a whole-machine booking to the slots of
every group of the machine, and a window to the slots of its target.

`OpenApi` extends `Scheduling`. A confirmation authenticates, executes the handler and records its outcome without giving up the thread: one action. A
client that does not see the answer confirms again; the server cannot tell, so a lost answer is no state, only another `Confirm`.

### `Reports`

Time counts half days: even values begin a report date, odd ones are 06:00 Beijing time. Before
06:00 the last date that may be settled is the day before yesterday, from then on yesterday
(`LatestReportDate`, as in `src/shared/reports.ts`). Versions are numbered by the jobs that made them; 0 is the
one `initialize` inserts. The program counter of `worker` names the statement
that comes next: `idle` (look for a job), `mark`, `settle`, `publish`, `fail`, `choose`,
`sweep`, `catchup`, or `down`. `AskRebuild` is the clock read of a request, `RequestRebuild` its
transaction: a day can fall due, and be settled in the published version, between the
two. `StatementFails` may hit any statement, `MarkFailed` included.

### `Access`, `Identity`, `Sessions`

`Access` follows one user and one machine: applications of others meet in nothing but the reminders. Each handler first
rejects what has lapsed. A decision and the notification of it are one step (one transaction). Reviewers act on lists they loaded earlier.

In `Identity` a registration is two steps around the hash, and so is clearing an address; a code that expired, was guessed wrong five
times or whose row is gone is dead, all being refused alike. `Sessions` follows requests with the right password only. A
request is served when it is sent and only its answer is delayed; a page has one call under way. The
model contains, and no property forbids, that: a login which checked the old password before a change commits opens its
session after it; a change whose check of the current password preceded a reset overwrites the reset; a session opened
for an account that was disabled meanwhile is removed at its first use; a read of the session in flight at a logout restores
the page until the next read; the answer to a logout clears whatever cookie the browser has by then.

### `Outbox`, `HelpDelivery`

`todo[p]` is what pass `p` has read and not finished, so the head is the mail being sent.
`StartPass` runs to the first await, `SendSucceeds` and `SendFails` from the end of one send to
the beginning of the next. Outcomes are written by id, whatever the row's status is by then, as in the
code. `delivered` counts what the mail server, which is external, accepted.

In `HelpDelivery` a `Cycle` compares the problems found with the queue, stores it with the attempts marked and sends the first batch; the
request stays on `wire` for ever, so that it may arrive late, out of order and repeatedly. Only what decides the severity is kept of an outcome.

### `Terminal`, `Enrolment`, `PersonalKeys`

A configuration file is reduced to how often others edited it and which accounts it subjects to the terminal's policy. Runs exclude one another
by a lock; every durable write is a step; between two steps the run may be killed, files edited, accounts recreated, keys granted and
revoked, and any command may fail. The comparison of a file right before it is replaced and the replacement are one step. `complete` and `restored`
are journal phases like the others; a journal left at `complete` by a failed cleanup is modelled. An automatic attempt is
recorded by its signature, which leaves out whom the plan enrols: that shows only in what is written. An account that is enrolled and whose binding was
interrupted keeps its keys until the recovery.

In `Enrolment` a command of the administrator and a synchronization run beside each other; keys and registrations are numbered in the
order they are made; a challenge and the credential it is exchanged for are one request; no request is under way when the operator reconciles by
hand. A program killed between writing its key and its configuration leaves a machine that refuses everything until it is restored by hand, so these runs may stop.

In `PersonalKeys` pages share one session; a key with its name is one value. A dialog's save deactivates what another page
activated meanwhile, activations survive the loss of access (and count for nothing), and after a lost answer the list lacks the key until it is read again.

### `Resources`, `Settings`, `Feedback`, `BookingPage`, `Realtime`

`Resources` keeps, for one editor, the rows it loaded and those not written since, in place of version numbers: that is all a comparison
can tell. `Settings` keeps the version each section's draft was made from. Validation, mail tests and the mails that switching off cancels
(`Outbox`) are left out. Several harmless inconveniences are in the model: a conflict after one's own save of another section, a
page that stays stale after a draft is reverted by hand, a failed test mail that locks the section as "outcome unknown".

`Feedback` guards title and text as the level, and leaves them out. Reads are dropped while a write is under way, and nothing
replays them; one's own comment or change of level makes a drafted status conflict spuriously; an
overwrite whose retained image was removed is refused; files renamed before a crash stay as orphans (`server/feedback.ts:219`), rows without files never do.

`BookingPage` holds the page of one user with one booking under edit. Two facts of the code are in it: a submission refused because
there is "nothing" to book sets the drafts from the closure that submitted, so an original that finished loading meanwhile loses its drafts
(`useCalendarController.ts:1065`); and while editing, a preview of overlapping machine and group drafts is refused and retried for
ever, which `Previewed` excepts.

`Realtime` has one page with one view, "session" or "timeline"; pages share nothing but the journal, which is emptied for all at once. Streams break unseen, the server restarts
and loses the journal, pages are hidden, reads fail.

## 3. What is checked

`CHECK_DEADLOCK FALSE` stands where a bounded clock, revision or number of faults lets every behaviour stop (`Scheduling`, `OpenApi`,
`Identity`, `Realtime`, `BookingPage`) and where the program itself may (`Terminal`, `Enrolment`: a machine to be restored by hand). The other
runs check for deadlock. Each property of a passing run has a mutant, a definition changed the
way a bug might change it, under which the run fails.

| Run | Instance | Properties |
| --- | --- | --- |
| `bookings` | one machine, two groups, a user and an administrator, three rows, minutes 0..2, 4 changes, requests of two segments | `NoDoubleBooking`, `LiveBookingHasAccess`, `HistoryKept`, `ImplementsCalendar` |
| `maintenance` | one machine, two groups, a user, two bookings, two windows, minutes 0..3, 4 changes | `BookingsClearOfWindows`, `WindowTakesExactly`, `WindowsConsistent` |
| `open_api` | a user, two rows, a window, minutes 0..2, 2 changes, two tokens, one operation | `OneOutcome`, `PendingHasToken`, `ImplementsScheduling` |
| `reports` | three report dates, two rebuilds, two faults, fair | `ReportsAgree`, `CoverageKept`, `AllWorkDone` |
| `access` | two reviewers, one application from any membership, four days, three versions, fair | `ApplicationsAgree`, `ApprovedAsSeen`, `Reminded` |
| `identity` | two persons, two names, one address, two numbers, two codes; or two pages, two sessions, a link, two password changes, one upset | `ClaimedOnce`, `CodeUsedOnce`, `ReviewsCurrent`, `ServedAsShown`, `LinkUsedOnce` |
| `delivery` | two passes, two mails, two users, three faults; or two problems, four changes, batches of one; fair | `ReportsAccounted`, `NotSentAgain`, `EverythingDelivered` |
| `terminal` | one account, two services, a key, an edit of each file; or two registrations, three identity keys, one lost request | `ServicesMatchFiles`, `RevocationsApplied`, `BothSidesAgree`, `EditsKept`, `NothingTriedBlindly` |
| `pages` | an editor, a pool of two devices, a capacity, two groups; or two pages, two keys, two machines; or one form and one domain; or a ticket with two images | `AllocationsFit`, `CodesBind`, `RecordedOnce`, `ToldTrue`, `NothingOverwrittenUnseen`, `DraftsKept` |
| `realtime` | one machine, two slots of which the page shows one, two changes, fair | `AnswersCurrent`, `PageCatchesUp` |
| `booking_page` | two gestures and a submission, one change by others, one fault, three minutes, one booking held, fair | `DraftsAreSelection`, `BookedOnce`, `PageCatchesUp` |
| `mail_switch` | one form of settings and the mail service, two writes | violated, see section 4 |

What they say:

- `NoDoubleBooking`: contending confirmed bookings never overlap, however batches, edits, splits and releases follow each other.
- `LiveBookingHasAccess`: a booking not yet over belongs to an active account with a membership (or the administrator role) that lasts as long.
- `HistoryKept` (a property of steps): no handler adds or removes a minute that has elapsed.
- `ImplementsCalendar`: every step of `Scheduling` is a step of `Calendar` or changes nothing it sees. In particular no request of one user moves another's slots.
- `BookingsClearOfWindows`, `WindowTakesExactly`: bookings and windows keep apart, and a new window takes exactly the minutes it covers from those it concerns, the second half of a split included.
- `WindowsConsistent`: windows of a target are disjoint, its status and its open deactivation agree, no maintenance is planned for what is deactivated.
- `OneOutcome`, `PendingHasToken`, `ImplementsScheduling`: an operation runs at most once and every confirmation of it gets the one answer; what can still be confirmed belongs to a live token and an active account; what the API does to the schedule is a step of the booking core.
- `ReportsAgree`, `CoverageKept`, `AllWorkDone`: the published report exists and holds the whole of its rebuild, progress equals the days settled; a day leaves the published report only when a rebuild asked for before that day fell due is published; rebuilds end, due days are settled, obsolete versions go.
- `ApplicationsAgree`, `ApprovedAsSeen`, `Reminded`: an application waits only while it fits the membership there is and is decided once; an approval is of what the reviewer had on screen, unless confirmed otherwise; reminders go out, once per version.
- `ClaimedOnce`, `CodeUsedOnce`, `ReviewsCurrent`: names, addresses and numbers have one owner, applications included; a code gives one account an address once; what waits for review is about the account as it is, what is approved is what was reviewed.
- `ServedAsShown`, `LinkUsedOnce`: a page's write is served as the user it shows; a reset link sets a password once. (That only the newest link of an account works is said by the proof; this run has one link.)
- `NotSentAgain`, `ReportsAccounted`, `EverythingDelivered`: a recorded mail is not delivered again; what the platform shows as open is still queued on the machine, and a revision is told once; no row waits for ever while mail stays on, and the platform comes to show what is wrong. A mail whose outcome was *not* recorded (crash, lost answer; `server/mailer.ts:359`) may be delivered twice: that is inherent in sending before recording, and the model contains it.
- `ServicesMatchFiles`, `EditsKept`, `RevocationsApplied`, `NothingTriedBlindly`, `BothSidesAgree`: once the journal says complete or restored, services run what their files say; edits of others are never overwritten; an enrolled account keeps no key the platform left out; an automatic attempt is made once for what it found, and a configuration is only given a registration whose key the machine was shown to hold; program and platform agree on that key. (The run has one account; the proof any number.)
- `AllocationsFit`, `CodesBind`, `RecordedOnce`, `ToldTrue`, `NothingOverwrittenUnseen`, `DraftsKept`: allocations fit their pools; a mailed code changes the keys once and as it was mailed for; what is sent to a ticket is recorded once, with its images on disk; what a page says of the keys is what machines are handed; nothing of others is overwritten unseen; a refresh leaves drafts alone.
- `AnswersCurrent`, `PageCatchesUp` (in `Realtime`): who waits for a refresh gets data read after asking, rights that may have changed are asked for again; the page shows the current data in the end, or that it could not read them.
- `DraftsAreSelection`, `BookedOnce`, `PageCatchesUp` (in `BookingPage`): drafts are what the user selected less what is taken; a submission of unknown outcome books nothing twice; the page catches up.

### Bounds, and why they are enough

In `Scheduling` four minutes (0..3) hold a booking of three minutes with a window in its middle, the smallest split, and a clock before, at, inside and
after it. Two groups on a machine are the least with cross-group contention; two users the least
with an owner and another. Three rows hold an original and the two halves of a split next to another
booking. Four revisions allow any sequence of four changes between ticks (maintain, deactivate, enable, maintain). Requests of two
segments are the least that can collide with each other; the code allows 100, and the proofs cover any number. In `reports`, three
dates are the least with a missing day in the middle; two rebuilds the least with one replaced and one under
way; two faults the least with a failing statement whose handler fails as well. In `delivery` two mails
give a pass something to do after the row another request touched; the limit of twenty rows per pass and the 128 events of a terminal's queue are not
reached. In `identity` two persons are the least that compete; in `terminal` two services the least of which one is reloaded and
the other is not. In `pages` a save of the resource editor submits at most one row otherwise than it is stored, which is the least that can
conflict; one pool of devices, one capacity and two groups the least that share. What larger instances could add (several accounts on a
machine, several links, several registrations at a time) is what the proofs of section 5 are for.

### Fairness

`Scheduling`, `OpenApi`, `Identity`, `Sessions`, `Terminal`, `Enrolment` and the pages of `MCPages` have none: nobody has to do
anything, so nothing is claimed to happen.
`Reports` assumes `WF(WorkerStep)`: `tick` (`server/report-worker.ts`) re-arms its timer on every
path and `startReportScheduler` restarts a worker that exits; and `WF(RequestRebuild)`: the HTTP thread finishes the transaction it
began. Faults are finitely many; nobody has to ask for a rebuild and the clock may stop. `Outbox`
assumes that sends end (the transport has connection, greeting and socket timeouts, `server/mailer.ts:87`), that the interval timer goes on
starting passes, and that back-offs end. `HelpDelivery` assumes that the timer starts the program again and again and that it is not cut off from the
platform for ever (strong fairness of a full cycle, its answer and its acknowledgement). `Access` assumes the timers that sweep and remind, and time for
an application that waits; the reminder needs mail to be reachable again and again. `Realtime` assumes the server's timers and the page's, weakly; strongly that a stream carries what is
written, that not every read fails, and that a page which comes to the front now and then stays there for its 200 ms. `BookingPage` assumes its own timers and
retries, that the server takes and answers what was posted, and time.

## 4. Findings

**The answer to "switch the mail service off" overwrites another administrator's configuration** (`mail_switch`,
`SwitchKeepsConfiguration`, `src/src/features/settings/useSettingsController.ts:446`). `toggleSmtp` opens its confirmation with the mail
configuration of the render it was called from and, once answered, sends every field of that snapshot with the version of the *newest* read. A
refresh that lands while the dialog is open moves the version and not the snapshot, so the PATCH passes the version check and puts the old server,
user and sender over what another administrator saved, without the confirmation the manual promises.

The following are no runs: the models contain them, the properties are stated so as to say what the code does, and TLC or a proof has shown each.

- *A target deactivated twice cannot be enabled* (`server/unavailability.ts:889`; `docs/manual/system-admin.md:36`). `enableTarget` collects every `ACTIVE` `LONG_TERM` window of the target, those an earlier enabling has closed included; closing them again changes no row and the handler throws.
- *After a group is deleted its machine cannot be booked as a whole* (`server/scheduling.ts:288`). The row of a deleted group stays with status `DISABLED` and the check counts it.
- *An update may store a start that was never checked* (`server/scheduling.ts:883`). Times are validated against one clock read, availability against a later one; if the minute changes in between (`MaxSkew = 1`), the first minute of the row overlaps another booking.
- *A rebuild may be swept before it starts* (`server/report-store.ts:182`). The worker finds no job, the HTTP thread inserts one with its version, the worker sees an obsolete version and deletes it; the rebuild then fails.
- *Mail switched off during a send comes back* (`server/mailer.ts:368`). The failure of the send is written over the cancellation and the row is queued again.
- *A pool made exclusive keeps units that groups share* (`server/resources.ts`; `docs/manual/machine-admin.md:28`).
- *A terminal with more than 128 open events stops reporting new ones* (`terminal/help_linux.go:166`).
- *An escalation of a report that an administrator resolved by hand is dropped* (`server/terminal-help.ts:52`; `README.md:252`).

## 5. What is proved

TLAPS proves the following for every value of the constants: any number of users,
machines, groups, rows, minutes, segments, tokens, pages, services, rebuilds and faults. Assumptions are those the modules
state on their constants (`TargetAssumption`, `BoundAssumption`, `ApiAssumption` and the like); TLC evaluates them
on every run. Where a theorem needs `MaxSkew = 0` (no minute boundary inside a transaction) it says so; finding "an update may store a start
that was never checked" shows that `NoDoubleBooking` does need it.

| Module | Theorems | Invariant |
| --- | --- | --- |
| `SchedulingProofs` | booking core: `TypeCorrect`; `WindowsInvariant` with `WindowsDisjoint`, `StatusAgrees`, `MaintenanceStops`, `WindowsAreConsistent`, `ElapsedStaysOnRecord`, `WindowsTakeExactly` (any `MaxSkew`); `BookingsInvariant` with `NoDoubleBookings`, `BookingsStayClear`, `BookingsStayWithinRights`, `SchedulingIsCalendar` (`MaxSkew = 0`) | `WindowsInv`, `BookingsInv`, `RightsInv` |
| | Open API: `ApiImplementsScheduling`, `RunsOnce`, `AnswersAgree`, `OutcomeIsOne`, `RevokedTokensStop` (`MaxSkew` 0 or 1); `ApiNeverDoubleBooks` (`MaxSkew = 0`) | `ApiInv` |
| `ReportsProofs` | `ReportsTypeCorrect`, `PublishedIsComplete`, `ProgressIsExact`, `ReportsAlwaysAgree`, `CoverageIsKept` | `ReportsInv` |
| `AccessProofs` | `PendingFits`, `DecisionsToldOnce`, `ApplicationsAlwaysAgree`, `SeenIsApproved`, `RemindedOnce` | `AccessInv` |
| `IdentityProofs` | `NumbersClaimedOnce`, `CodesUsedOnce`, `ReviewsAreCurrent`; `WritesServedAsShown`, `LinksUsedOnce` | `IdentityInv`; `SessionsInv` |
| `TerminalProofs` | `ServicesFollowFiles`, `RevocationsAlwaysApplied`, `EditsAlwaysKept`, `TriedOnlyOnce`, `BothSidesAlwaysAgree`, `NothingRepeatedBlindly` | `HostInv`, `TriedInv`, `EnrolmentInv` |
| `DeliveryProofs` | `MailsNotSentAgain`; `ReportsStayAccounted`; `AnswersStayCurrent` | `OutboxInv`; `HelpInv`; `RefreshInv` |
| `PagesProofs` | `CodesStayBound`, `PagesTellTheTruth`; `MessagesRecordedOnce`; `EditorsReplaceWhatTheySaw`, `PagesKeepDrafts`; `AllocationsAlwaysFit` | `KeysInv`; `TicketInv`; `SettingsInv`, `ResourcesInv`; `SumsInv` |
| `BookingPageProofs` | `SequencesBookedOnce`; `DraftsStaySelection`, `DraftsStayApart` | `CommitsInv`; `SelectionInv` |

Together they state every invariant, action property and refinement that a passing run checks; only the liveness properties have no
theorem.

**The booking core.** Type correctness says more here than that variables have
types: rows never reach beyond the horizon, trimmed and split rows stay well formed, and a later clock read stays within the
clock. It is inductive as it stands and is proved operator by operator
(`PiecesType`, `AdjustedType`, `ReleasedType`, ...), then action by action.
None of the three facts about windows is inductive by itself: `StatusMatchesWindows` survives the mere passing of time only because a
deactivation window is *either over or without end* (`LongTermOpenOrOver`), and deactivating keeps windows disjoint only because
`StatusMatchesWindows` says that an active target has no open one. `BookingsInv` adds that no confirmed booking and no active window is empty: an
empty booking overlaps nothing, and what
is later cut from it, or what a window is measured against, would prove nothing.
The argument: every handler's table arises from the old one by *shrinking or dividing* rows
(`WithinKeeps`: rows inside disjoint rows are disjoint) followed by *inserting* rows that are free
(`InsertKeeps`), and the pieces `splitByBusy` cuts are maximal runs of free minutes, so two of them are apart
and none meets what was in the way (`PieceIsRun`, `PiecesApart`, `PieceFree`).

**History, rights and the calendar.** That elapsed minutes stay, and that a window takes what it covers, follow step by step from types alone (`EveryStepTakes`: the rows
keep their past, or one window was opened and took its minutes), so they hold for every `MaxSkew`. `LiveBookingHasAccess` needs the invariants above and that
a deactivation in force began in the past (`LongTermBegun`): enabling an account or a group brings no booking back. The refinement maps
booking handlers to `Book`, releases to `Free`, planning and deactivating to `Close`, enabling, cancelling and deleting to `Open`, and `Tick` to `Tick`.

**Open API.** An operation's row says how often it ran; only a pending one runs, in the transaction that makes it committed. Its token is
unrevoked and its account active as long as it is pending, because revoking, disabling and deleting take pending operations with
them. Every step is a step of the booking core or leaves it alone, so what is proved of `Scheduling` holds under it.

**Reports.** `ReportsInv` adds three things. `Numbered` and `OneBuild`: jobs are numbered in
order and one build at most is under way, so settling a day advances one job. `Ranges`: a build begins no
later than the published report and stays in its range, which is why publishing it loses
only days after its end. `AtWork`: what the worker remembers is still true when it acts on it, although the HTTP thread has run
in between: the job it marks is still unfinished, the version it publishes is still whole
*if it still exists*, the version it sweeps is not the published one, and if it belongs to a rebuild it is
empty. The last clause is the trace of the finding about swept rebuilds: the version may be swept, but never
with days in it, and never once the job runs.

**Applications.** What a reviewer has on screen is a version the application had; equal versions are equal applications.

**Identity.** Every transaction checks claims again, the one after the await included, so numbers claimed by accounts, applications and requests never
meet. A number asked for is never one that somebody holds. What was reviewed has a revision no greater than the account's, and if it is the same, so is the
application.

**Sessions.** The row of a session keeps its user as long as it exists, so a page that shows a user and holds a token holds one of that user's; a
write needs the cookie to be of the same session. Every transaction that sets a password ends the other sessions of its account and takes
away its links, whatever was true when its hash was begun.

**Terminal.** `HostInv`: the journal says what the run is doing to the files; while an operation is unfinished every file but those
being rewritten, or still to be reloaded, agrees with its service (`MatchesBut`). `TriedInv` says of the last attempt that was tried and did not
complete: its conditions are gone, either *moved* for good (a configuration file was edited, an account recreated: both only move forward), or *outdone* (an
account it added is bound, more accounts are pending than it had, or the inventory says otherwise), or nothing automatic is allowed. `EnrolmentInv` says what a command
relies on at each of its steps, that numbers exist before anything names them, and that a pending key is the platform's only if the configuration
names its registration.

**Mail and assistance requests.** A pass works on rows it read before. `OutboxInv`: the flag says that one pass, and no other, holds rows;
it holds each of them once, in ascending order, and none of them is recorded as sent or expired, because only the pass itself records that and
it does so of the row it drops. Requests may cancel or delete a row the pass holds: that takes nothing from the
argument. `HelpInv`: an event leaves the terminal's queue only if it was never sent or the platform closed it for good, so
whatever request of it is still under way (late, repeated, out of order) finds a resolved row; a request on the wire is of the event as it is or of an earlier
revision; a notice is of a revision the row has reached, hence told once.

**The refresh queue.** `RefreshInv`: events are no newer than the journal; a read that was answered was answered from a revision no
older than the moment it was asked for, and if it concerns rights and was not aborted, no older than the last change of rights the page has heard of.

**Keys, tickets, settings, resources.** `KeysInv`: the code on a form was mailed for the operation on that form, and every code has been
used once at most. `TicketInv`: what is drafted and not in doubt is recorded nowhere and shares no image with another draft; a request under
way carries the draft, which stands still meanwhile; a request whose answer was lost, and that may yet arrive, is recorded nowhere; what
the page saw of the version the ticket still has is what the ticket is, and so with the version a
request expects. `SettingsInv`: a section's draft that names the current version was made from the current values, and so was
every read, whatever refreshes and conflicts come between. (It assumes `FormsAssumption`: no form is named like the domain list, the rule about an empty one or the mail
service.) `ResourcesInv`: a row that others changed is one the editor has loaded and that is no longer as it was, or one
it does not know. `SumsInv`: shares fit, those of devices one by one, those of a capacity by
their sum. The model adds shares with the library's `MapThenSumSet`, which is recursive. The proof needs only the equation that defines it, and shows
that its value is the *number of parcels*, one for each unit of each group: a smallest set of groups for which it were not so
(`WFMin`) contradicts that equation. Parcels are finite sets, and sums are then compared by inclusion of sets.

**The calendar page.** `CommitsInv`: of one sequence of drafts at most one submission is under way, it is booked once if the answer says so, and if the page neither
waits for an answer nor doubts one, nothing of the sequence was booked. Doubt ends only with a new sequence. `SelectionInv`: drafts on
one target never overlap and cover what was selected less what was refused or has elapsed; an answer to a preview that will not be discarded is about the
drafts that are on the page. The first clause is what makes retyping, erasing and adjusting one draft leave the minutes of all
others alone (`DraftsStayApart`).

**Notation.** `SUBSET X \ Y` is written with parentheses throughout: the parser of TLC and that of TLAPS read it differently without them.

**Only model-checked.** Liveness under fairness and `ENABLED` are out of the prover's reach: `AllWorkDone`, `EverythingDelivered`, `Reminded` (its first half, that a version
is reminded of once, is the theorem `RemindedOnce`), and `PageCatchesUp` of `Realtime` and of `BookingPage`. The disagreement of section 4,
`SwitchKeepsConfiguration`, is false and stays a run. No module uses `RECURSIVE`.

## 6. Plan

Everything the runs check is proved but liveness. What is left to do, in this order: the steps of the liveness arguments that are not
temporal, such as that a step of the report worker never undoes the progress of another; for the Open API, that an operation which a confirmation
found expired stays expired; for updates with `MaxSkew = 1`, that the first minute of a row is the only one that can be booked twice.

## 7. Running it

```
tlc -config MCScheduling_bookings.cfg MCScheduling     # and MCScheduling_maintenance.cfg
tlc -config MCReports.cfg Reports
tlc -config MCAccess.cfg MCAccess                      # and MCOpenApi, MCIdentity, MCPages, MCDelivery,
                                                       # MCTerminal, MCRealtime, MCBookingPage likewise
tlc -config MCSettings.cfg MCSettings                  # expected violation
tlapm SchedulingProofs.tla                             # and the other *Proofs.tla
```

The longest run takes about three minutes on two cores, the longest proof a few minutes. The community module
`FiniteSetsExt` must be on the path.
