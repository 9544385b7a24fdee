------------------------------ MODULE Sessions ------------------------------
(***************************************************************************)
(* Sessions and passwords (server/auth.ts, server/routes-auth.ts,          *)
(* admin/users-routes.ts) and the pages that hold them (app/useSession.ts, *)
(* App.tsx, features/auth).                                                *)
(*                                                                         *)
(* The pages of a browser share one cookie and each keep the token that    *)
(* the answer they hold came with; a write needs both of one session.      *)
(* Logging in, changing a password and resetting one await the password    *)
(* hash: what was read before it may have changed after it.  Answers reach *)
(* a page some time after the server has acted, or never.                  *)
(*                                                                         *)
(* Only requests with the right password are followed: a wrong one changes *)
(* nothing.  Rate limits are left out, and so are sessions of accounts     *)
(* under review, which differ in what they may ask for.                    *)
(***************************************************************************)
EXTENDS Naturals, FiniteSets

CONSTANTS
    People,        \* ids of accounts
    Pages,         \* pages that are open, in one browser or in one each
    MaxSessions,   \* bound: rows of sessions
    MaxLinks,      \* bound: rows of auth_tokens
    MaxJobs,       \* bound: changes and resets that await their hash at a time
    MaxUpsets      \* bound: answers lost, sessions and links expired, accounts disabled,
                   \* events from the stream

ASSUME SessionBounds == MaxSessions \in Nat /\ MaxLinks \in Nat

VARIABLES
    standing,  \* users.status, and "DELETED"
    sessions,  \* sessions: id -> row; ended rows stay to tell whose they were; outdated:
               \* history, whether it was open when another set its account's password
    links,     \* auth_tokens: id -> row; resets: history, how often it reset a password
    jobs,      \* changes and resets of passwords that await their hash
    shared,    \* whether the pages are of one browser
    cookie,    \* the session cookie each page sends; 0 is none
    window,    \* what a page shows, the token it sends, whether it hides all until a read
    inquiry,   \* GET /auth/me of a page
    call,      \* login or logout of a page
    upsets     \* counter of MaxUpsets

session ==
    <<standing, sessions, links, jobs, shared, cookie, window, inquiry, call, upsets>>

Nobody == "nobody"
NoRead == [state |-> "none"]
NoCall == [kind |-> "none"]
Unused == [state |-> "unused"]
Ids == 1..MaxSessions

Open(s) == s # 0 /\ sessions[s].state = "open"

\* getSessionAuth: the session a cookie stands for
Live(s) == Open(s) /\ standing[sessions[s].user] = "ACTIVE"

\* sessions without those that P holds of
EndedWhere(P) ==
    [s \in Ids |-> IF s \in P THEN [sessions[s] EXCEPT !.state = "ended", !.outdated = FALSE]
                   ELSE sessions[s]]

\* The row of a session that getSessionAuth refuses is removed, unless its account was deleted
\* before it opened: then none is found.
Checked(s) == EndedWhere({t \in {s} : Open(t) /\ standing[sessions[t].user] = "DISABLED"})

OpenOf(u) == {s \in Ids : Open(s) /\ sessions[s].user = u}

\* The lowest id no row has had
Lowest(rows) == CHOOSE i \in DOMAIN rows :
    rows[i] = Unused /\ \A j \in DOMAIN rows : rows[j] = Unused => i <= j

Spare(rows) == \E i \in DOMAIN rows : rows[i] = Unused

Jar(p, s) == [q \in Pages |-> IF shared \/ q = p THEN s ELSE cookie[q]]

\* Mutant of Matches: the cookie alone is enough.
MatchesCookie(p) == TRUE

\* assertCsrf: the token of the page is that of the session the cookie stands for.
Matches(p) == window[p].csrf = cookie[p]

\* The hook before every writing request
Accepts(p) == Live(cookie[p]) /\ Matches(p)

\* The user of the page can ask for something.
InUse(p) == window[p].shown # Nobody /\ ~window[p].loading

Writes(p) == InUse(p) /\ Accepts(p)

Upset == upsets < MaxUpsets /\ upsets' = upsets + 1

-----------------------------------------------------------------------------
(* Logging in and out *)

\* POST /auth/login up to the check of the password, which is awaited
BeginLogin(p, u) ==
    /\ window[p].shown = Nobody /\ ~window[p].loading
    /\ call[p] = NoCall
    /\ standing[u] = "ACTIVE"
    /\ call' = [call EXCEPT ![p] = [kind |-> "login", user |-> u, sent |-> cookie[p],
                                    session |-> 0]]
    /\ UNCHANGED <<standing, sessions, links, jobs, shared, cookie, window, inquiry, upsets>>

\* The rest of it: whatever became of the account since, the session of the cookie that was
\* sent ends and a new one opens (destroySession, createSession).
FinishLogin(p) ==
    /\ call[p].kind = "login" /\ call[p].session = 0
    /\ Spare(sessions)
    /\ LET s == Lowest(sessions) IN
       /\ sessions' = [EndedWhere({t \in {call[p].sent} : Open(t)}) EXCEPT
                         ![s] = [state |-> "open", user |-> call[p].user,
                                 outdated |-> FALSE]]
       /\ call' = [call EXCEPT ![p].session = s]
    /\ UNCHANGED <<standing, links, jobs, shared, cookie, window, inquiry, upsets>>

\* The answer arrives: acceptAuthenticatedSession drops what a read under way will answer.
TakeLogin(p) ==
    /\ call[p].kind = "login" /\ call[p].session # 0
    /\ cookie' = Jar(p, call[p].session)
    /\ window' = [window EXCEPT ![p] = [shown |-> call[p].user, csrf |-> call[p].session,
                                        loading |-> FALSE]]
    /\ inquiry' = [inquiry EXCEPT ![p] = NoRead]
    /\ call' = [call EXCEPT ![p] = NoCall]
    /\ UNCHANGED <<standing, sessions, links, jobs, shared, upsets>>

\* It is lost, with the cookie it would have set.
LoseLogin(p) ==
    /\ Upset
    /\ call[p].kind = "login" /\ call[p].session # 0
    /\ call' = [call EXCEPT ![p] = NoCall]
    /\ UNCHANGED <<standing, sessions, links, jobs, shared, cookie, window, inquiry>>

\* POST /auth/logout, unless it is lost on its way
Logout(p, reaches) ==
    /\ InUse(p)
    /\ call[p] = NoCall
    /\ IF reaches THEN UNCHANGED upsets ELSE Upset
    /\ sessions' = IF ~reaches THEN sessions
                   ELSE IF Accepts(p) THEN EndedWhere({cookie[p]}) ELSE Checked(cookie[p])
    /\ call' = [call EXCEPT ![p] = [kind |-> "logout", clears |-> reaches /\ Accepts(p)]]
    /\ UNCHANGED <<standing, links, jobs, shared, cookie, window, inquiry>>

\* Its answer clears the cookie the browser has by then; without one the page forgets too.
EndLogout(p, arrives) ==
    /\ call[p].kind = "logout"
    /\ IF arrives THEN UNCHANGED upsets ELSE Upset
    /\ cookie' = IF arrives /\ call[p].clears THEN Jar(p, 0) ELSE cookie
    /\ window' = [window EXCEPT ![p].shown = Nobody, ![p].csrf = 0]
    /\ call' = [call EXCEPT ![p] = NoCall]
    /\ UNCHANGED <<standing, sessions, links, jobs, shared, inquiry>>

-----------------------------------------------------------------------------
(* What a page knows of its session: app/useSession.ts *)

\* GET /auth/me, at first, at intervals, for an event, or again after a failure: it is
\* served with the cookie of that moment.
AskSession(p) ==
    /\ inquiry[p] = NoRead
    /\ inquiry' = [inquiry EXCEPT ![p] = [state |-> "answered",
                     session |-> IF Live(cookie[p]) THEN cookie[p] ELSE 0]]
    /\ sessions' = Checked(cookie[p])
    /\ UNCHANGED <<standing, links, jobs, shared, cookie, window, call, upsets>>

\* fetchLoadSession: who it is, or 401, which keeps the token
TakeSession(p) ==
    /\ inquiry[p].state = "answered"
    /\ LET s == inquiry[p].session IN
       window' = [window EXCEPT ![p] =
                    IF s = 0 THEN [@ EXCEPT !.shown = Nobody, !.loading = FALSE]
                    ELSE [shown |-> sessions[s].user, csrf |-> s, loading |-> FALSE]]
    /\ inquiry' = [inquiry EXCEPT ![p] = NoRead]
    /\ UNCHANGED <<standing, sessions, links, jobs, shared, cookie, call, upsets>>

\* No answer in time: what the page shows, or hides, stays.
LoseSession(p) ==
    /\ Upset
    /\ inquiry[p].state # "none"
    /\ inquiry' = [inquiry EXCEPT ![p] = NoRead]
    /\ UNCHANGED <<standing, sessions, links, jobs, shared, cookie, window, call>>

\* Word of the stream (Realtime) that rights changed or the session ended: onSecurity, and
\* the read under way is aborted.
Security(p, ended) ==
    /\ Upset
    /\ window[p].shown # Nobody
    /\ window' = [window EXCEPT ![p] = [shown |-> IF ended THEN Nobody ELSE @.shown,
                                        csrf |-> 0, loading |-> ~ended]]
    /\ inquiry' = [inquiry EXCEPT ![p] = NoRead]
    /\ UNCHANGED <<standing, sessions, links, jobs, shared, cookie, call>>

-----------------------------------------------------------------------------
(* Passwords and links *)

\* Mutant of OthersEnded: the other sessions of the account stay.
OthersEndedNot(u, s) == sessions

\* DELETE FROM sessions WHERE user_id = ? AND id != ?
OthersEnded(u, s) == EndedWhere(OpenOf(u) \ {s})

\* History: those of S that are open in rows have seen the password set by another.
Outdated(rows, S) ==
    [t \in Ids |-> IF t \in S /\ rows[t].state = "open"
                   THEN [rows[t] EXCEPT !.outdated = TRUE] ELSE rows[t]]

\* DELETE FROM auth_tokens WHERE user_id = ?
WithoutLinks(u) ==
    [l \in DOMAIN links |-> IF links[l].state = "valid" /\ links[l].user = u
                            THEN [links[l] EXCEPT !.state = "gone"] ELSE links[l]]

\* POST /auth/change-password up to the hash of the new one, which is awaited
BeginChange(p) ==
    /\ Writes(p)
    /\ Cardinality(jobs) < MaxJobs
    /\ jobs' = jobs \cup {[kind |-> "change", user |-> sessions[cookie[p]].user,
                           session |-> cookie[p]]}
    /\ UNCHANGED <<standing, sessions, links, shared, cookie, window, inquiry, call, upsets>>

\* Its transaction, which looks at nothing again
FinishChange(j) ==
    /\ j.kind = "change"
    /\ sessions' = Outdated(OthersEnded(j.user, j.session), OpenOf(j.user) \ {j.session})
    /\ links' = WithoutLinks(j.user)
    /\ jobs' = jobs \ {j}
    /\ UNCHANGED <<standing, shared, cookie, window, inquiry, call, upsets>>

\* POST /auth/change-username; POST /auth/change-email, which removes links as well
EditProfile(p, email) ==
    /\ Writes(p)
    /\ LET u == sessions[cookie[p]].user IN
       /\ sessions' = OthersEnded(u, cookie[p])
       /\ links' = IF email THEN WithoutLinks(u) ELSE links
    /\ UNCHANGED <<standing, jobs, shared, cookie, window, inquiry, call, upsets>>

\* createAuthToken: the links made before for the account are gone.
NewLink(u) ==
    /\ standing[u] = "ACTIVE"
    /\ Spare(links)
    /\ links' = [WithoutLinks(u) EXCEPT
                   ![Lowest(links)] = [state |-> "valid", user |-> u, resets |-> 0]]
    /\ UNCHANGED <<standing, sessions, jobs, shared, cookie, window, inquiry, call, upsets>>

\* POST /auth/forgot-password
ForgotPassword(u) == NewLink(u)

\* POST /admin/users/:id/password-reset-link
CreateResetLink(u) == NewLink(u)

\* findAuthTokenUserId
Usable(l) == links[l].state = "valid"

\* POST /auth/reset-password up to the hash, which is awaited
BeginReset(l) ==
    /\ Usable(l)
    /\ Cardinality(jobs) < MaxJobs
    /\ \E try \in 1..MaxJobs :
          /\ [kind |-> "reset", link |-> l, try |-> try] \notin jobs
          /\ jobs' = jobs \cup {[kind |-> "reset", link |-> l, try |-> try]}
    /\ UNCHANGED <<standing, sessions, links, shared, cookie, window, inquiry, call, upsets>>

\* Mutant of StillUsable: the link that was found before the hash is not looked for again.
StillUsableUnchecked(l) == TRUE

\* consumeAuthToken
StillUsable(l) == Usable(l)

\* Its transaction, or its refusal
FinishReset(j) ==
    /\ j.kind = "reset"
    /\ jobs' = jobs \ {j}
    /\ LET u == links[j.link].user IN
       \/ /\ StillUsable(j.link)
          /\ sessions' = Outdated(EndedWhere(OpenOf(u)), OpenOf(u))
          /\ links' = [WithoutLinks(u) EXCEPT ![j.link].resets = @ + 1]
       \/ ~StillUsable(j.link) /\ UNCHANGED <<sessions, links>>
    /\ UNCHANGED <<standing, shared, cookie, window, inquiry, call, upsets>>

-----------------------------------------------------------------------------
(* Time, and administrators *)

\* Thirty minutes, seven days
LinkExpires(l) ==
    /\ Upset
    /\ Usable(l)
    /\ links' = [links EXCEPT ![l].state = "gone"]
    /\ UNCHANGED <<standing, sessions, jobs, shared, cookie, window, inquiry, call>>

SessionExpires(s) ==
    /\ Upset
    /\ Open(s)
    /\ sessions' = EndedWhere({s})
    /\ UNCHANGED <<standing, links, jobs, shared, cookie, window, inquiry, call>>

\* POST /admin/users/:id/disable, enable
DisableUser(u) ==
    /\ Upset
    /\ standing[u] = "ACTIVE"
    /\ standing' = [standing EXCEPT ![u] = "DISABLED"]
    /\ sessions' = EndedWhere(OpenOf(u))
    /\ UNCHANGED <<links, jobs, shared, cookie, window, inquiry, call>>

EnableUser(u) ==
    /\ standing[u] = "DISABLED"
    /\ standing' = [standing EXCEPT ![u] = "ACTIVE"]
    /\ UNCHANGED <<sessions, links, jobs, shared, cookie, window, inquiry, call, upsets>>

\* deleteUserRecords
DeleteUser(u) ==
    /\ standing[u] = "DISABLED"
    /\ standing' = [standing EXCEPT ![u] = "DELETED"]
    /\ sessions' = EndedWhere(OpenOf(u))
    /\ links' = WithoutLinks(u)
    /\ UNCHANGED <<jobs, shared, cookie, window, inquiry, call, upsets>>

-----------------------------------------------------------------------------
SessionsInit ==
    /\ standing = [u \in People |-> "ACTIVE"]
    /\ sessions = [s \in Ids |-> Unused] /\ links = [l \in 1..MaxLinks |-> Unused]
    /\ jobs = {}
    /\ shared \in BOOLEAN
    /\ cookie = [p \in Pages |-> 0]
    /\ window = [p \in Pages |-> [shown |-> Nobody, csrf |-> 0, loading |-> FALSE]]
    /\ inquiry = [p \in Pages |-> NoRead]
    /\ call = [p \in Pages |-> NoCall]
    /\ upsets = 0

SessionsNext ==
    \/ \E p \in Pages :
          \/ \E u \in People : BeginLogin(p, u)
          \/ FinishLogin(p) \/ TakeLogin(p) \/ LoseLogin(p)
          \/ \E b \in BOOLEAN : Logout(p, b) \/ EndLogout(p, b) \/ Security(p, b)
          \/ AskSession(p) \/ TakeSession(p) \/ LoseSession(p)
          \/ BeginChange(p)
          \/ \E email \in BOOLEAN : EditProfile(p, email)
    \/ \E j \in jobs : FinishChange(j) \/ FinishReset(j)
    \/ \E l \in DOMAIN links : BeginReset(l) \/ LinkExpires(l)
    \/ \E u \in People :
          \/ ForgotPassword(u) \/ CreateResetLink(u)
          \/ DisableUser(u) \/ EnableUser(u) \/ DeleteUser(u)
    \/ \E s \in Ids : SessionExpires(s)

SessionsSpec == SessionsInit /\ [][SessionsNext]_session

-----------------------------------------------------------------------------
(* Properties *)

\* What a page writes is written as the user it shows, whoever has logged in on another page
\* of the browser meanwhile, and under a session opened since the password was last set, or
\* the one that set it.
ServedAsShown ==
    \A p \in Pages : Writes(p) =>
        LET row == sessions[cookie[p]] IN
        row.user = window[p].shown /\ ~row.outdated

\* A link resets a password once, whoever submits it twice at a time, and of the links of an
\* account only the newest works.
LinkUsedOnce ==
    /\ \A l \in DOMAIN links : links[l] # Unused => links[l].resets <= 1
    /\ \A k, l \in DOMAIN links :
          Usable(k) /\ Usable(l) /\ links[k].user = links[l].user => k = l
=============================================================================
