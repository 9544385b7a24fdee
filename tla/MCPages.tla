------------------------------ MODULE MCPages ------------------------------
(* Small instances of what users have on screen: the editors of a machine's  *)
(* resources (Resources), of SSH keys (PersonalKeys), of the settings        *)
(* (Settings) and of a ticket (Feedback). These share no state: a behaviour  *)
(* is one of one of them.                                                    *)
EXTENDS Resources, TLC

CONSTANTS
    cap, u1, u2,
    Prints, Tabs, MaxKeys, MaxIds, MaxCodes, MaxEvents, MaxLost,
    Forms, Domains, Secrets, MaxWrites,
    MaxImages, MaxDrafts, MaxRequests

\* The sections edited in a form are none of the others.
ASSUME FormsAssumption == Forms \cap {"domains", "empty", "mail"} = {}

VARIABLES
    part,       \* the editor this behaviour is about
    owned, added, active, access, profile, codes, tab, lost, events,
    store, mail, page, read, asked, uncertain,
    ticket, rows, files, posted, role, view, editor, loading, sending, late, unsure, writes

resources == <<pool, group, gone, loaded, fresh, changed, last>>
keys == <<owned, added, active, access, profile, codes, tab, lost, events>>
settings == <<store, mail, page, read, asked, uncertain>>
tickets == <<ticket, rows, files, posted, role, view, editor, loading, sending, late, unsure,
             writes>>

K == INSTANCE PersonalKeys WITH Machines <- Groups
S == INSTANCE Settings WITH Vals <- Groups
F == INSTANCE Feedback WITH Images <- Groups

\* The variables of what the behaviour is not about have one value.  Forms and the mail
\* configuration are never compared: all begin with the same value, whichever it is.
PartInit ==
    /\ part \in {"resources", "keys", "settings", "ticket"}
    /\ Init /\ K!KeysInit /\ F!FeedbackInit
    /\ part # "keys" => ~profile.email /\ ~profile.lacking
    /\ part # "ticket" => ticket.version = 0
    /\ IF part = "settings"
       THEN S!SettingsInit /\ \A s \in Forms : store.form[s] = mail.conf
       ELSE /\ page = S!Away
            /\ store = 0 /\ mail = 0 /\ read = 0 /\ asked = 0 /\ uncertain = FALSE

ResourcesNext ==
    part = "resources" /\ Next /\ UNCHANGED <<part, keys, settings, tickets>>

KeysNext ==
    part = "keys" /\ K!KeysNext /\ UNCHANGED <<part, resources, settings, tickets>>

SettingsNext ==
    part = "settings" /\ S!SettingsNext /\ UNCHANGED <<part, resources, keys, tickets>>

TicketNext ==
    part = "ticket" /\ F!FeedbackNext /\ UNCHANGED <<part, resources, keys, settings>>

PartNext == ResourcesNext \/ KeysNext \/ SettingsNext \/ TicketNext

PartSpec == PartInit /\ [][PartNext]_<<part, resources, keys, settings, tickets>>

\* A code changes the keys once, in the way it was mailed for.
CodesBind == K!CodesBind

\* What a page says of the keys is what the machines will be handed.
ToldTrue == K!ToldTrue

\* No editor replaces what others changed and its user has not seen, unless that was confirmed.
NothingOverwrittenUnseen == OthersEditsKept /\ S!NothingOverwrittenUnseen /\ F!TicketsKept

\* What is being edited stays as it is typed.
DraftsKept == S!DraftsKept /\ F!FeedbackDraftsKept

\* What is sent to a ticket is recorded once, with the images it names.
RecordedOnce == F!RecordedOnce

OneCapacity == {cap}
PageSymmetry == Permutations(Groups) \cup Permutations(Units)
=============================================================================
