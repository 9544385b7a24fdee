------------------------------ MODULE Settings ------------------------------
(***************************************************************************)
(* The system settings (server/admin/settings-service.ts,                  *)
(* settings-routes.ts, smtp-routes.ts) and the page that edits them        *)
(* (useSettingsController.ts, SettingsPanel.tsx, settings-state.ts).       *)
(*                                                                         *)
(* All sections but the mail service share one version.  The page keeps a  *)
(* version for each section: the one its draft was made from.  It reads    *)
(* everything again after events and after its own writes, and shows what  *)
(* it read if nothing is being edited.  While it writes, and while it asks *)
(* whether to overwrite, its fields are disabled and it starts no read, so *)
(* a request and its answer are one step.  A read is under way with the    *)
(* answer it will get; the answers of its two requests are taken at once,  *)
(* the two versions having nothing to do with each other.                  *)
(*                                                                         *)
(* What a section holds is a value.  Validation of its fields, tests of    *)
(* the mail service, the mails its switching off cancels (Outbox) and the  *)
(* revision of the registration rules (Identity) are left out.             *)
(***************************************************************************)
EXTENDS Naturals

CONSTANTS
    Forms,      \* the sections edited in a form: "booking", "profile"
    Vals,       \* what a form may hold
    Domains,    \* e-mail domains
    Secrets,    \* what a form may say of the mail password: "keep", "set", "clear"
    MaxWrites   \* bound: writes of this page and of others

Paths == Forms \cup {"domains", "empty", "mail"}

VARIABLES
    store,      \* table settings, all sections with their version
    mail,       \* table smtp_settings; secret: a password is stored
    page,
    read,       \* the read under way, or none
    asked,      \* an open question, or none: to switch mail off, or to overwrite
    uncertain   \* a write's outcome is unknown (edit-conflict.ts; survives the page)

settingsVars == <<store, mail, page, read, asked, uncertain>>

None == [kind |-> "none"]

Stores == [form : [Forms -> Vals], domains : SUBSET Domains, empty : BOOLEAN,
           version : 1..MaxWrites + 1]
Mails == [conf : Vals, secret : BOOLEAN, on : BOOLEAN, version : 1..MaxWrites + 1]

\* admin, smtp: what the server last answered; the rest is what the fields show. formBase,
\* confBase: history, the stored values the drafts were made from, or this page stored since.
Shown(a, s) ==
    [at |-> "here", admin |-> a, smtp |-> s,
     versions |-> [p \in Paths |-> IF p = "mail" THEN s.version ELSE a.version],
     form |-> a.form, list |-> a.domains, input |-> "none",
     conf |-> s.conf, on |-> s.on, secret |-> "keep",
     formBase |-> a.form, confBase |-> s.conf]
Away == [at |-> "away"]
Loading == [at |-> "loading"]

SettingsTypeOK ==
    /\ store \in Stores /\ mail \in Mails
    /\ page.at = "here" =>
          /\ page.admin \in Stores /\ page.smtp \in Mails
          /\ page.form \in [Forms -> Vals] /\ page.list \subseteq Domains
          /\ page.input \in Domains \cup {"none"}
          /\ page.conf \in Vals /\ page.on \in BOOLEAN /\ page.secret \in Secrets
    /\ uncertain \in BOOLEAN

SettingsInit ==
    /\ store \in [form : [Forms -> Vals], domains : {{}}, empty : {FALSE}, version : {1}]
    /\ mail \in [conf : Vals, secret : {TRUE}, on : BOOLEAN, version : {1}]
    /\ page = Loading /\ read = None /\ asked = None /\ uncertain = FALSE

-----------------------------------------------------------------------------
(* The server *)

\* A write: its path, what it says, the version it names, and whether it overwrites.
Section(path, value, version) ==
    [kind |-> "write", path |-> path, value |-> value, version |-> version, forced |-> FALSE]
Forced(w) == [w EXCEPT !.forced = TRUE]

Version(path) == IF path = "mail" THEN mail.version ELSE store.version

\* checkEditVersion and its copies in updateAdminSettings and in the mail route.
Conflicts(w) == ~w.forced /\ w.version # Version(w.path)

SecretAfter(w) ==
    CASE w.value.secret = "set" -> TRUE
      [] w.value.secret = "clear" -> FALSE
      [] OTHER -> mail.secret

\* 400: mail is not switched on without a password, nor is the password cleared while it is on.
Valid(w) == w.path = "mail" /\ w.value.on => w.value.secret # "clear" /\ SecretAfter(w)

StoreAfter(w) ==
    CASE w.path \in Forms -> [store EXCEPT !.form[w.path] = w.value, !.version = @ + 1]
      [] w.path = "domains" -> [store EXCEPT !.domains = w.value, !.version = @ + 1]
      [] w.path = "empty" -> [store EXCEPT !.empty = w.value, !.version = @ + 1]
      [] OTHER -> store

MailAfter(w) ==
    IF w.path = "mail"
    THEN [conf |-> w.value.conf, on |-> w.value.on, secret |-> SecretAfter(w),
          version |-> mail.version + 1]
    ELSE mail

Writes(w) ==
    /\ store.version + mail.version < MaxWrites + 2
    /\ store' = StoreAfter(w) /\ mail' = MailAfter(w)

-----------------------------------------------------------------------------
(* The page *)

Here == page.at = "here"
Free == Here /\ asked = None

Dirty(p) ==
    CASE p \in Forms -> page.form[p] # page.admin.form[p]
      [] p = "domains" -> page.input # "none"
      [] p = "mail" -> page.conf # page.smtp.conf \/ page.secret # "keep"
      [] OTHER -> FALSE

AnyDirty == (\E p \in Paths : Dirty(p)) \/ page.on # page.smtp.on

\* Typing, in fields that are enabled
Types(r) == Free /\ page' = r /\ UNCHANGED <<store, mail, read, asked, uncertain>>

TypeForm == Free /\ \E s \in Forms, v \in Vals : Types([page EXCEPT !.form[s] = v])
TypeDomain == Free /\ \E d \in Domains \cup {"none"} : Types([page EXCEPT !.input = d])
TypeMail == Free /\ \E v \in Vals : Types([page EXCEPT !.conf = v])

\* A password can be typed unless it is to be cleared, which it can be while mail is off.
TypeSecret ==
    /\ Free
    /\ \/ /\ page.secret # "clear"
          /\ \E x \in Secrets \ {"clear"} : Types([page EXCEPT !.secret = x])
       \/ /\ "clear" \in Secrets /\ page.smtp.secret /\ ~page.on
          /\ Types([page EXCEPT !.secret = IF @ = "clear" THEN "keep" ELSE "clear"])

Type == TypeForm \/ TypeDomain \/ TypeMail \/ TypeSecret

\* A section that is not being edited adopts what was stored and its version; one that is
\* keeps the version its draft was made from.
AdoptedForAll(p, saved) == p # "mail"    \* variant of VersionAdopted
Adopts(p, saved) == p # "mail" /\ (p = saved \/ ~Dirty(p))
VersionAdopted(p, saved) == Adopts(p, saved)

\* applySavedAdminSettings
Saved(w, a) ==
    LET forms(old) == [s \in Forms |-> IF Adopts(s, w.path) THEN a.form[s] ELSE old[s]]
    IN [page EXCEPT
          !.admin = a,
          !.versions = [p \in Paths |-> IF VersionAdopted(p, w.path) THEN a.version ELSE @[p]],
          !.form = forms(@), !.formBase = forms(@),
          !.list = IF Adopts("domains", w.path) THEN a.domains ELSE @,
          !.input = IF w.path = "domains" /\ @ \in w.value \ page.list THEN "none" ELSE @]

\* applySmtpSettings, and what toggleSmtp does instead
SavedMail(s) == [page EXCEPT !.smtp = s, !.versions["mail"] = s.version, !.conf = s.conf,
                             !.on = s.on, !.secret = "keep", !.confBase = s.conf]
Switched(s) == [page EXCEPT !.smtp = s, !.on = s.on, !.confBase = s.conf,
                            !.versions["mail"] = IF Dirty("mail") THEN @ ELSE s.version]

After(w) ==
    IF w.path # "mail" THEN Saved(w, store')
    ELSE IF w.value.switch THEN Switched(mail') ELSE SavedMail(mail')

\* When a switch fails, the page shows what it showed when it was touched.
Failed(w) == IF w.path = "mail" /\ w.value.switch THEN [page EXCEPT !.on = ~w.value.on] ELSE page

\* settingsApi: beginWrite ends any read; whatever the outcome, another read follows.
Sends(w) ==
    /\ ~uncertain
    /\ read' = None
    /\ \/ /\ ~Conflicts(w) /\ Valid(w) /\ Writes(w)
          /\ page' = After(w) /\ asked' = None
          /\ UNCHANGED uncertain
       \/ /\ Conflicts(w)
          /\ asked' = [kind |-> "overwrite", write |-> w]
          /\ UNCHANGED <<store, mail, page, uncertain>>
       \/ /\ ~Conflicts(w) /\ ~Valid(w)
          /\ page' = Failed(w) /\ asked' = None
          /\ UNCHANGED <<store, mail, uncertain>>
       \/ /\ uncertain' = TRUE    \* the request or its answer is lost
          /\ \/ ~Conflicts(w) /\ Valid(w) /\ Writes(w)
             \/ UNCHANGED <<store, mail>>
          /\ page' = Failed(w) /\ asked' = None

SaveForm ==
    /\ Free
    /\ \E s \in Forms :
          /\ s = "booking" => Dirty(s)
          /\ Sends(Section(s, page.form[s], page.versions[s]))

AppendDomain ==
    /\ Free /\ page.input # "none" /\ page.input \notin page.list
    /\ Sends(Section("domains", page.list \cup {page.input}, page.versions["domains"]))

RemoveDomain ==
    /\ Free
    /\ \E d \in page.list : Sends(Section("domains", page.list \ {d}, page.versions["domains"]))

ToggleEmpty ==
    /\ Free
    /\ Sends(Section("empty", ~page.admin.empty, page.versions["empty"]))

SaveMail ==
    /\ Free
    /\ Sends(Section("mail", [conf |-> page.conf, secret |-> page.secret,
                              on |-> page.smtp.on, switch |-> FALSE], page.versions["mail"]))

\* The switch sends the stored configuration smtp, as it was when the switch was touched.
Switch(smtp) ==
    Sends(Section("mail", [conf |-> smtp.conf, secret |-> "keep", on |-> ~smtp.on,
                           switch |-> TRUE], page.versions["mail"]))

SwitchOn == Free /\ page.on = page.smtp.on /\ ~page.smtp.on /\ Switch(page.smtp)

\* Switching off asks first; the page goes on reading meanwhile.
AskSwitchOff ==
    /\ Free /\ ~uncertain /\ page.on = page.smtp.on /\ page.smtp.on
    /\ asked' = [kind |-> "switch off", smtp |-> page.smtp]
    /\ UNCHANGED <<store, mail, page, read, uncertain>>

AnswerSwitchOff ==
    /\ asked.kind = "switch off"
    /\ \/ Switch(asked.smtp)
       \/ asked' = None /\ UNCHANGED <<store, mail, page, read, uncertain>>

\* A test that fails is answered with 502, which the page takes for an unknown outcome.
TestMail ==
    /\ Free /\ ~uncertain /\ ~Dirty("mail") /\ page.on = page.smtp.on /\ page.smtp.secret
    /\ read' = None /\ uncertain' \in BOOLEAN
    /\ UNCHANGED <<store, mail, page, asked>>

\* The question whether to overwrite: the same request again, or the draft as it was.
AnswerOverwrite ==
    /\ asked.kind = "overwrite"
    /\ \/ Sends(Forced(asked.write))
       \/ /\ page' = Failed(asked.write) /\ asked' = None
          /\ UNCHANGED <<store, mail, read, uncertain>>

\* fetchSettingsChanges: a read starts while no write is under way, and replaces another one.
StartRead ==
    /\ page.at # "away" /\ asked.kind # "overwrite"
    /\ read' = [kind |-> "read", admin |-> store, smtp |-> mail]
    /\ UNCHANGED <<store, mail, page, asked, uncertain>>

\* It changes nothing on a page that is being edited, or whose last write is uncertain.
AppliesOverDrafts == TRUE   \* variant of Applies
Applies == page.at = "loading" \/ (~AnyDirty /\ ~uncertain)

FinishRead ==
    /\ read # None /\ page.at # "away"
    /\ \/ page' = IF Applies THEN Shown(read.admin, read.smtp) ELSE page
       \/ UNCHANGED page    \* it failed; it will be repeated
    /\ read' = None
    /\ UNCHANGED <<store, mail, asked, uncertain>>

\* Another page of the application is shown; a question whether to overwrite is cancelled.
Leave ==
    /\ Here /\ asked.kind # "switch off"
    /\ page' = Away /\ read' = None /\ asked' = None
    /\ UNCHANGED <<store, mail, uncertain>>

Return ==
    /\ page.at = "away" /\ page' = Loading
    /\ UNCHANGED <<store, mail, read, asked, uncertain>>

\* The browser loads the application again.
Reload ==
    /\ page' = Loading /\ read' = None /\ asked' = None /\ uncertain' = FALSE
    /\ UNCHANGED <<store, mail>>

\* Another administrator, whose page is up to date.
Others ==
    /\ \E p \in Paths :
          LET put(v) == Writes(Section(p, v, Version(p))) IN
          \/ p \in Forms /\ \E v \in Vals : put(v)
          \/ p = "domains" /\ \E D \in SUBSET Domains : put(D)
          \/ p = "empty" /\ put(~store.empty)
          \/ p = "mail" /\ \E w \in [conf : Vals, secret : Secrets, on : BOOLEAN] :
                Valid(Section(p, w, mail.version)) /\ put(w)
    /\ UNCHANGED <<page, read, asked, uncertain>>

SettingsNext ==
    \/ Type \/ SaveForm \/ AppendDomain \/ RemoveDomain \/ ToggleEmpty \/ SaveMail
    \/ SwitchOn \/ AskSwitchOff \/ AnswerSwitchOff \/ TestMail
    \/ AnswerOverwrite
    \/ StartRead \/ FinishRead \/ Leave \/ Return \/ Reload \/ Others

SettingsSpec == SettingsInit /\ [][SettingsNext]_settingsVars

-----------------------------------------------------------------------------
(* Properties *)

PageWrites == <<page, uncertain>>' # <<page, uncertain>>

\* What a save of this page replaces, unless it was confirmed to overwrite, is what the
\* author's draft was made from: no change of others is lost unannounced.
NothingOverwrittenUnseen ==
    [][PageWrites /\ asked = None =>
          /\ \A s \in Forms : store'.form[s] # store.form[s] => page.formBase[s] = store.form[s]
          /\ store'.domains # store.domains => page.list = store.domains
          /\ mail'.conf # mail.conf => page.confBase = mail.conf
          /\ mail'.on # mail.on => page.smtp.on = mail.on]_settingsVars

\* An edit stays on the page until it is saved: neither a read nor the save of another
\* section, a conflict or a failure replaces it.
DraftsKept ==
    [][Here /\ page'.at = "here" /\ ~Type =>
          /\ \A s \in Forms : Dirty(s) => page'.form[s] = page.form[s]
          /\ Dirty("mail") => page'.conf = page.conf
          /\ page'.input # page.input => page.input \in store'.domains]_settingsVars

\* Switching the mail service off replaces its configuration only if its author confirmed
\* to overwrite it ("confirmation is required to overwrite the corresponding settings").
SwitchKeepsConfiguration ==
    [][PageWrites /\ asked.kind = "switch off" => mail'.conf = mail.conf]_settingsVars
=============================================================================
