------------------------- MODULE BookingPageProofs -------------------------
(***************************************************************************)
(* Proofs about the calendar page (BookingPage), for any number of groups, *)
(* minutes, gestures, changes and faults.                                  *)
(*                                                                         *)
(* A sequence of drafts has one submission that may still be carried out,  *)
(* and none once it was booked, unless the page knows that it does not     *)
(* know.                                                                   *)
(*                                                                         *)
(* The drafts on one target never overlap, so what is erased, typed or     *)
(* adjusted on one of them is nobody else's minute; and a preview that     *)
(* will not be discarded is of the drafts on the page.                     *)
(***************************************************************************)
EXTENDS BookingPage, WellFoundedInduction, TLAPS

-----------------------------------------------------------------------------
(* Submissions: the inductive invariant *)

PostFields == {"of", "drafts", "editing", "at"}

\* One submission of a sequence at most is on its way or waits to be heard of.
PostsApart ==
    /\ \A p \in posts : DOMAIN p = PostFields /\ p.of \in Nat /\ p.of <= sequence
    /\ \A p, q \in posts : p.of = q.of => p = q

\* A submission that is not booked is of a sequence that was not.
PostsUnbooked ==
    \A p \in posts : p.of \in DOMAIN commits => commits[p.of] = (IF p.at = "booked" THEN 1 ELSE 0)

\* When the page neither waits nor doubts, nothing is on its way and nothing was booked.
Untold ==
    awaited = {} /\ ~uncertain =>
        /\ \A p \in posts : p.of # sequence
        /\ sequence \in DOMAIN commits => commits[sequence] = 0

CommitsInv ==
    /\ sequence \in Nat
    /\ PostsApart /\ PostsUnbooked
    /\ \A n \in DOMAIN commits :
          /\ n \in Nat /\ commits[n] \in {0, 1}
          /\ n > sequence => commits[n] = 0
    /\ awaited \subseteq {sequence}
    /\ awaited # {} => ~uncertain
    /\ Untold

bookkeeping == <<sequence, commits, posts, awaited, uncertain>>

\* Steps of the drafts, of the editing sequence, of the reads, of others and of time.
DraftSteps ==
    \/ \E t \in Targets, r \in Range : Drag(t, r) \/ FillIn(t, r) \/ Erase(t, r)
    \/ \E d \in drafts : Remove(d) \/ \E e \in Typed(d) : Retime(d, e)
    \/ Focus \/ Blur \/ Advance

EditSteps ==
    \/ \E b \in seen.own : BeginEdit(b)
    \/ \E b \in editing : LeaveEdit(b)
    \/ FinishEdit \/ NoticeEnd

ReadSteps ==
    \/ SendPreview \/ DeliverPreview \/ RetryPreview \/ FailPreview
    \/ SendInspect \/ DeliverInspect \/ RetryInspect \/ FailInspect
    \/ LoadTimeline

OtherSteps ==
    \/ \E g \in Groups, m \in Minutes : OthersMove(g, m)
    \/ \E b \in own, m \in Minutes : OwnTrimmed(b, m)
    \/ Tick

PostSteps == Clear \/ Submit \/ \E p \in posts : ServerTakes(p) \/ Answer(p) \/ GiveUp(p)

LEMMA StepsAre == Next => DraftSteps \/ EditSteps \/ ReadSteps \/ OtherSteps \/ PostSteps
BY Zenon DEF Next, User, Page, Elsewhere, DraftSteps, EditSteps, ReadSteps, OtherSteps, PostSteps

-----------------------------------------------------------------------------
(* Submissions: every step *)

LEMMA QuietSteps ==
    ASSUME DraftSteps \/ EditSteps \/ ReadSteps \/ OtherSteps
    PROVE  UNCHANGED bookkeeping
<1>1. CASE DraftSteps
    BY <1>1 DEF DraftSteps, Drag, FillIn, Append, Erase, Remove, Retime, Focus, Blur, Advance, Gesture,
                System, ghosts, bookkeeping
<1>2. CASE EditSteps
    <2>1. CASE FinishEdit
        BY <2>1 DEF FinishEdit, bookkeeping
    <2> QED
        BY <1>2, <2>1 DEF EditSteps, BeginEdit, LeaveEdit, NoticeEnd, ghosts, bookkeeping
<1>3. CASE ReadSteps
    BY <1>3 DEF ReadSteps, SendPreview, DeliverPreview, RetryPreview, FailPreview, SendInspect,
                DeliverInspect, RetryInspect, FailInspect, LoadTimeline, ghosts, page, bookkeeping
<1>4. CASE OtherSteps
    BY <1>4 DEF OtherSteps, OthersMove, OwnTrimmed, Tick, ghosts, page, bookkeeping
<1> QED
    BY <1>1, <1>2, <1>3, <1>4

\* A new sequence of drafts begins; what is still on its way is of an older one.
LEMMA NewSequence ==
    ASSUME CommitsInv, sequence' = sequence + 1, commits' = commits, posts' \subseteq posts,
           awaited' = {}
    PROVE  CommitsInv'
<1>1. sequence' \in Nat /\ sequence' > sequence
    BY DEF CommitsInv
<1>2. \A p \in posts' : p \in posts /\ p.of \in Nat /\ p.of <= sequence
    BY DEF CommitsInv, PostsApart
<1>3. PostsApart'
    BY <1>1, <1>2 DEF CommitsInv, PostsApart
<1>4. \A n \in DOMAIN commits : n > sequence' => n > sequence
    BY <1>1 DEF CommitsInv
<1> QED
    BY <1>1, <1>2, <1>3, <1>4 DEF CommitsInv, PostsUnbooked, Untold

LEMMA SubmitKeeps ==
    ASSUME CommitsInv, Submit
    PROVE  CommitsInv'
<1> DEFINE new == [of |-> sequence, drafts |-> drafts, editing |-> editing, at |-> "sent"]
<1>1. /\ UNCHANGED <<sequence, commits, uncertain>> /\ awaited' = {sequence}
      /\ posts' = posts \cup {new} /\ awaited = {} /\ ~uncertain
    BY DEF Submit, MaySubmit, Submitting, ghosts
<1>2. DOMAIN new = PostFields /\ new.of = sequence /\ new.at = "sent"
    BY DEF PostFields
<1> HIDE DEF new
<1>3. /\ \A p \in posts : p.of # sequence
      /\ sequence \in DOMAIN commits => commits[sequence] = 0
    BY <1>1 DEF CommitsInv, Untold
<1>4. PostsApart'
    BY <1>1, <1>2, <1>3 DEF CommitsInv, PostsApart
<1>5. PostsUnbooked'
    BY <1>1, <1>2, <1>3 DEF CommitsInv, PostsUnbooked
<1> QED
    BY <1>1, <1>4, <1>5 DEF CommitsInv, Untold

\* The page learns, or gives up: the submission is no longer waited for.
LEMMA FewerPosts ==
    ASSUME CommitsInv, UNCHANGED <<sequence, commits>>, posts' \subseteq posts, awaited' = {},
           \/ uncertain' /\ uncertain' \in BOOLEAN
           \/ /\ ~uncertain' /\ \A p \in posts' : p.of # sequence
              /\ sequence \in DOMAIN commits => commits[sequence] = 0
    PROVE  CommitsInv'
<1>1. PostsApart' /\ PostsUnbooked'
    BY DEF CommitsInv, PostsApart, PostsUnbooked
<1>2. Untold'
    BY DEF Untold
<1> QED
    BY <1>1, <1>2 DEF CommitsInv

LEMMA AnswerKeeps ==
    ASSUME CommitsInv, NEW p \in posts, Answer(p)
    PROVE  CommitsInv'
<1>1. /\ p.of = sequence /\ awaited' = {} /\ posts' = posts \ {p} /\ commits' = commits
      /\ ~uncertain /\ p.at # "sent"
    BY DEF Answer, CommitsInv
<1>2. CASE p.at = "booked" /\ sequence' = sequence + 1
    BY <1>1, <1>2, NewSequence
<1>3. CASE p.at # "booked" /\ sequence' = sequence /\ uncertain' = uncertain
    <2>1. sequence \in DOMAIN commits => commits[sequence] = 0
        BY <1>1, <1>3 DEF CommitsInv, PostsUnbooked
    <2>2. \A q \in posts' : q.of # sequence
        BY <1>1 DEF CommitsInv, PostsApart
    <2> QED
        BY <1>1, <1>3, <2>1, <2>2, FewerPosts
<1> QED
    BY <1>2, <1>3 DEF Answer, Learns, Reset

LEMMA GiveUpKeeps ==
    ASSUME CommitsInv, NEW p \in posts, GiveUp(p)
    PROVE  CommitsInv'
<1>1. /\ UNCHANGED <<sequence, commits>> /\ awaited' = {} /\ uncertain' = TRUE
      /\ posts' \subseteq posts
    BY DEF GiveUp, ghosts
<1> QED
    BY <1>1, FewerPosts

LEMMA ServerTakesKeeps ==
    ASSUME CommitsInv, NEW p \in posts, ServerTakes(p)
    PROVE  CommitsInv'
<1>1. UNCHANGED <<sequence, awaited, uncertain>> /\ p.at = "sent"
    BY DEF ServerTakes, page
<1>2. PICK outcome :
          /\ posts' = (posts \ {p}) \cup {x \in {[p EXCEPT !.at = outcome]} : p.of \in awaited}
          /\ \/ outcome = "booked" /\ commits' = [commits EXCEPT ![p.of] = @ + 1]
             \/ outcome # "booked" /\ commits' = commits
    <2>1. CASE Books(p) /\ Answered(p, "booked")
        BY <2>1 DEF Books, Answered
    <2>2. CASE \E outcome \in Refusals(p) : Answered(p, outcome) /\ commits' = commits
        BY <2>2 DEF Refusals, Answered
    <2> QED
        BY <2>1, <2>2 DEF ServerTakes
<1> DEFINE new == [p EXCEPT !.at = outcome]
<1>3. DOMAIN p = PostFields /\ p.of \in Nat /\ p.of <= sequence
    BY DEF CommitsInv, PostsApart
<1>4. DOMAIN new = PostFields /\ new.of = p.of /\ new.at = outcome
    BY <1>3 DEF PostFields
<1>5. \A q \in posts' : (q \in posts /\ q # p) \/ q = new
    BY <1>2
<1>6. \A q \in posts' : q = new => p.of \in awaited \/ new \in posts
    BY <1>2
<1> HIDE DEF new
<1>7. \A q \in posts : q # p => q.of # p.of
    BY DEF CommitsInv, PostsApart
<1>8. p.of \in DOMAIN commits => commits[p.of] = 0
    BY <1>1 DEF CommitsInv, PostsUnbooked
<1>9. /\ DOMAIN commits' = DOMAIN commits
      /\ \A n \in DOMAIN commits : n # p.of => commits'[n] = commits[n]
      /\ p.of \in DOMAIN commits => commits'[p.of] = (IF outcome = "booked" THEN 1 ELSE 0)
    BY <1>2, <1>8
<1>10. PostsApart'
    BY <1>1, <1>3, <1>4, <1>5, <1>7 DEF CommitsInv, PostsApart
<1>11. PostsUnbooked'
    BY <1>4, <1>5, <1>7, <1>9 DEF CommitsInv, PostsUnbooked
<1>12. Untold'
    <2> SUFFICES ASSUME awaited' = {}, ~uncertain' PROVE Untold'
        BY DEF Untold
    <2>1. /\ \A q \in posts : q.of # sequence
          /\ sequence \in DOMAIN commits => commits[sequence] = 0
        BY <1>1 DEF CommitsInv, Untold
    <2> QED
        BY <1>1, <1>4, <1>5, <1>9, <2>1 DEF Untold
<1>13. \A n \in DOMAIN commits' : /\ n \in Nat /\ commits'[n] \in {0, 1}
                                  /\ n > sequence => commits'[n] = 0
    BY <1>3, <1>9 DEF CommitsInv
<1> QED
    BY <1>1, <1>10, <1>11, <1>12, <1>13 DEF CommitsInv

LEMMA CommitsKeep == CommitsInv /\ [Next]_vars => CommitsInv'
<1> SUFFICES ASSUME CommitsInv, [Next]_vars PROVE CommitsInv'
    OBVIOUS
<1>1. CASE UNCHANGED bookkeeping
    BY <1>1 DEF bookkeeping, CommitsInv, PostsApart, PostsUnbooked, Untold
<1>2. CASE UNCHANGED vars
    BY <1>1, <1>2 DEF vars, page, ghosts, bookkeeping
<1>3. CASE Clear
    <2>1. sequence' = sequence + 1 /\ commits' = commits /\ posts' = posts /\ awaited' = {}
        BY <1>3 DEF Clear, Reset, Submitting
    <2> QED
        BY <2>1, NewSequence
<1> QED
    BY <1>1, <1>2, <1>3, StepsAre, QuietSteps, SubmitKeeps, AnswerKeeps, GiveUpKeeps, ServerTakesKeeps
    DEF PostSteps

LEMMA CommitsStart == Init => CommitsInv
BY PageAssumption DEF Init, CommitsInv, PostsApart, PostsUnbooked, Untold

LEMMA CommitsInvariant == Spec => []CommitsInv
BY CommitsStart, CommitsKeep, PTL DEF Spec

\* useCalendarController.ts: whatever becomes of requests and answers, a sequence of drafts
\* is booked at most once, for any number of gestures, submissions and faults.
THEOREM SequencesBookedOnce == Spec => []BookedOnce
<1>1. CommitsInv => BookedOnce
    BY DEF CommitsInv, BookedOnce
<1> QED
    BY <1>1, CommitsInvariant, PTL

-----------------------------------------------------------------------------
(* Drafts: ranges *)

Draft == [target : Targets, from : Minutes, to : 0..(LastMinute + 1)]

Apart(ds) ==
    \A d, e \in ds : d # e /\ d.target = e.target => During(d) \cap During(e) = {}

LEMMA RangeFacts ==
    /\ LastMinute \in Nat
    /\ \A m \in Minutes : m \in Int /\ 0 <= m /\ m <= LastMinute
    /\ \A r \in Range : /\ r.from \in Minutes /\ r.to \in 0..(LastMinute + 1) /\ r.from < r.to
                        /\ During(r) \subseteq Minutes
                        /\ \A m \in Int : m \in During(r) <=> r.from <= m /\ m < r.to
    /\ \A d \in Draft : /\ During(d) \subseteq Minutes
                        /\ \A m \in Int : m \in During(d) <=> d.from <= m /\ m < d.to
<1>1. LastMinute \in Nat
    BY PageAssumption
<1>2. ASSUME NEW r \in Range
      PROVE  r.from \in Minutes /\ r.to \in 0..(LastMinute + 1) /\ r.from < r.to
    BY DEF Range
<1> QED
    BY <1>1, <1>2 DEF Minutes, During, Draft

LEMMA RangeIs ==
    ASSUME NEW a \in Minutes, NEW b \in 0..(LastMinute + 1), a < b
    PROVE  [from |-> a, to |-> b] \in Range
<1> DEFINE x == <<a, b>>
<1>1. x \in {y \in Minutes \X (0..(LastMinute + 1)) : y[1] < y[2]}
    OBVIOUS
<1>2. [from |-> a, to |-> b] = [from |-> x[1], to |-> x[2]]
    OBVIOUS
<1> HIDE DEF x
<1> QED
    BY <1>1, <1>2 DEF Range

\* A set of numbers has a least one.
LEMMA LeastOf ==
    ASSUME NEW T, T \subseteq Nat, T # {}
    PROVE  \E m \in T : \A x \in T : m <= x
<1>1. PICK m \in T : \A x \in T : ~(<<x, m>> \in OpToRel(<, Nat))
    BY WFMin, NatLessThanWellFounded, Zenon
<1>2. ASSUME NEW x \in T, x < m PROVE FALSE
    <2>1. <<x, m>> \in OpToRel(<, Nat)
        BY <1>2 DEF OpToRel
    <2> QED
        BY <1>1, <2>1
<1> QED
    BY <1>2

\* mergeTimeRanges covers the minutes it is given, and no others.
LEMMA RunOf ==
    ASSUME NEW minutes, minutes \subseteq Minutes, NEW m \in minutes
    PROVE  \E r \in Ranges(minutes) : m \in During(r)
<1>1. m \in Nat /\ m <= LastMinute /\ LastMinute \in Nat
    BY RangeFacts DEF Minutes
<1>2. PICK a \in Nat : /\ a <= m /\ a..m \subseteq minutes
                       /\ \A x \in Nat : x <= m /\ x..m \subseteq minutes => a <= x
    <2> DEFINE T == {x \in Nat : x <= m /\ x..m \subseteq minutes}
    <2>1. m..m = {m}
        BY <1>1
    <2>2. m \in T /\ T \subseteq Nat
        BY <1>1, <2>1
    <2>3. \E x \in T : \A y \in T : x <= y
        <3> HIDE DEF T
        <3> QED
            BY <2>2, LeastOf
    <2> QED
        BY <2>3
<1>3. PICK b \in Nat : /\ m < b /\ b \notin minutes
                       /\ \A x \in Nat : m < x /\ x \notin minutes => b <= x
    <2> DEFINE T == {x \in Nat : m < x /\ x \notin minutes}
    <2>1. LastMinute + 1 \notin minutes
        BY <1>1, RangeFacts DEF Minutes
    <2>2. LastMinute + 1 \in T /\ T \subseteq Nat
        BY <1>1, <2>1
    <2>3. \E x \in T : \A y \in T : x <= y
        <3> HIDE DEF T
        <3> QED
            BY <2>2, LeastOf
    <2> QED
        BY <2>3
<1> DEFINE r == [from |-> a, to |-> b]
<1>4. r.from = a /\ r.to = b
    OBVIOUS
<1>5. b <= LastMinute + 1
    <2>1. LastMinute + 1 \in Nat /\ m < LastMinute + 1 /\ LastMinute + 1 \notin minutes
        BY <1>1, RangeFacts DEF Minutes
    <2> QED
        BY <1>3, <2>1
<1>6. a \in Minutes /\ b \in 0..(LastMinute + 1) /\ a < b
    BY <1>1, <1>2, <1>3, <1>5 DEF Minutes
<1>7. r \in Range
    BY <1>6, RangeIs
<1> HIDE DEF r
<1>8. During(r) \subseteq minutes
    <2> SUFFICES ASSUME NEW x \in During(r) PROVE x \in minutes
        OBVIOUS
    <2>1. x \in Nat /\ a <= x /\ x < b
        BY <1>4, <1>7, RangeFacts DEF Minutes
    <2>2. CASE x <= m
        BY <1>1, <1>2, <2>1, <2>2
    <2>3. CASE m < x
        BY <1>3, <2>1, <2>3
    <2> QED
        BY <1>1, <2>1, <2>2, <2>3
<1>9. r.from = 0 \/ r.from - 1 \notin minutes
    <2> SUFFICES ASSUME a # 0, a - 1 \in minutes PROVE FALSE
        BY <1>4
    <2>1. a - 1 \in Nat /\ a - 1 <= m
        BY <1>1, <1>2
    <2>2. (a - 1)..m \subseteq minutes
        <3> SUFFICES ASSUME NEW x \in (a - 1)..m PROVE x \in minutes
            OBVIOUS
        <3>1. x = a - 1 \/ x \in a..m
            BY <1>1, <1>2
        <3> QED
            BY <1>2, <3>1
    <2> QED
        BY <1>2, <2>1, <2>2
<1>10. r \in Ranges(minutes)
    BY <1>3, <1>4, <1>7, <1>8, <1>9 DEF Ranges
<1>11. m \in During(r)
    BY <1>1, <1>2, <1>3, <1>4, <1>7, RangeFacts
<1> QED
    BY <1>10, <1>11

LEMMA RunsApart ==
    ASSUME NEW minutes, NEW r \in Ranges(minutes), NEW s \in Ranges(minutes), r # s
    PROVE  During(r) \cap During(s) = {}
<1> SUFFICES ASSUME NEW m \in During(r), m \in During(s) PROVE FALSE
    OBVIOUS
<1>1. /\ r \in Range /\ s \in Range
      /\ During(r) \subseteq minutes /\ r.to \notin minutes /\ (r.from = 0 \/ r.from - 1 \notin minutes)
      /\ During(s) \subseteq minutes /\ s.to \notin minutes /\ (s.from = 0 \/ s.from - 1 \notin minutes)
    BY DEF Ranges
<1>2. /\ r.from \in Nat /\ r.to \in Nat /\ s.from \in Nat /\ s.to \in Nat /\ m \in Int
      /\ r.from <= m /\ m < r.to /\ s.from <= m /\ m < s.to
    BY <1>1, RangeFacts DEF Minutes
<1>3. ~(r.to < s.to) /\ ~(s.to < r.to)
    <2>1. r.to < s.to => r.to \in During(s)
        BY <1>1, <1>2, RangeFacts
    <2>2. s.to < r.to => s.to \in During(r)
        BY <1>1, <1>2, RangeFacts
    <2> QED
        BY <1>1, <2>1, <2>2
<1>4. ~(r.from < s.from) /\ ~(s.from < r.from)
    <2>1. r.from < s.from => s.from - 1 \in During(r)
        BY <1>1, <1>2, RangeFacts
    <2>2. s.from < r.from => r.from - 1 \in During(s)
        BY <1>1, <1>2, RangeFacts
    <2> QED
        BY <1>1, <1>2, <2>1, <2>2
<1>5. r.from = s.from /\ r.to = s.to
    BY <1>2, <1>3, <1>4
<1>6. r = [from |-> r.from, to |-> r.to] /\ s = [from |-> s.from, to |-> s.to]
    BY <1>1 DEF Range
<1> QED
    BY <1>5, <1>6

-----------------------------------------------------------------------------
(* Drafts: sets of them *)

LEMMA DraftsOnFacts ==
    ASSUME NEW target \in Targets, NEW minutes, minutes \subseteq Minutes
    PROVE  /\ DraftsOn(target, minutes) \subseteq Draft
           /\ Apart(DraftsOn(target, minutes))
           /\ \A d \in DraftsOn(target, minutes) :
                 d.target = target /\ Valid(d) /\ During(d) \subseteq minutes
           /\ \A m \in minutes : \E d \in DraftsOn(target, minutes) : m \in During(d)
<1> DEFINE on(r) == [target |-> target, from |-> r.from, to |-> r.to]
<1>1. \A r : on(r).target = target /\ During(on(r)) = During(r) /\ on(r).from = r.from /\ on(r).to = r.to
    BY DEF During
<1>2. ASSUME NEW r \in Ranges(minutes)
      PROVE  r \in Range /\ on(r) \in Draft /\ During(r) \subseteq minutes /\ Valid(on(r))
    <2>1. r \in Range /\ During(r) \subseteq minutes
        BY DEF Ranges
    <2> QED
        BY <2>1, RangeFacts DEF Draft, Valid
<1>3. DraftsOn(target, minutes) = {on(r) : r \in Ranges(minutes)}
    BY DEF DraftsOn
<1> HIDE DEF on
<1>4. Apart(DraftsOn(target, minutes))
    <2> SUFFICES ASSUME NEW d \in DraftsOn(target, minutes), NEW e \in DraftsOn(target, minutes), d # e
                 PROVE  During(d) \cap During(e) = {}
        BY DEF Apart
    <2>1. PICK r \in Ranges(minutes) : d = on(r)
        BY <1>3
    <2>2. PICK s \in Ranges(minutes) : e = on(s)
        BY <1>3
    <2> QED
        BY <1>1, <2>1, <2>2, RunsApart
<1>5. ASSUME NEW m \in minutes PROVE \E d \in DraftsOn(target, minutes) : m \in During(d)
    <2>1. PICK r \in Ranges(minutes) : m \in During(r)
        BY RunOf
    <2> QED
        BY <1>1, <1>3, <2>1
<1> QED
    BY <1>1, <1>2, <1>3, <1>4, <1>5

LEMMA CoveredIs ==
    ASSUME NEW ds, NEW t, NEW m
    PROVE  m \in Covered(ds, t) <=> \E d \in ds : d.target = t /\ m \in During(d)
BY DEF Covered

LEMMA CoveredSame ==
    ASSUME NEW ds, NEW es, NEW t, \A x : x \in ds /\ x.target = t <=> x \in es /\ x.target = t
    PROVE  Covered(ds, t) = Covered(es, t)
BY DEF Covered

Pieces(ds, part) == UNION {DraftsOn(d.target, part[d]) : d \in ds}

\* Drafts cut from drafts that are apart: each lies in one of them and covers its part.
LEMMA PiecesFacts ==
    ASSUME NEW ds, ds \subseteq Draft, Apart(ds), NEW part, \A d \in ds : part[d] \subseteq During(d)
    PROVE  /\ Pieces(ds, part) \subseteq Draft /\ Apart(Pieces(ds, part))
           /\ \A o \in Pieces(ds, part) : \E d \in ds : o.target = d.target /\ During(o) \subseteq part[d]
           /\ \A d \in ds : \A m \in part[d] :
                 \E o \in Pieces(ds, part) : o.target = d.target /\ m \in During(o)
<1> DEFINE out == Pieces(ds, part)
<1>1. ASSUME NEW d \in ds
      PROVE  d.target \in Targets /\ part[d] \subseteq Minutes /\ DraftsOn(d.target, part[d]) \subseteq out
    BY RangeFacts DEF Draft, Pieces
<1>2. \A o \in out : \E d \in ds : o \in DraftsOn(d.target, part[d])
    BY DEF Pieces
<1> HIDE DEF out
<1>3. ASSUME NEW o \in out
      PROVE  o \in Draft /\ \E d \in ds : o.target = d.target /\ During(o) \subseteq part[d]
    <2>1. PICK d \in ds : o \in DraftsOn(d.target, part[d])
        BY <1>2
    <2> QED
        BY <1>1, <2>1, DraftsOnFacts
<1>4. ASSUME NEW d \in ds, NEW m \in part[d] PROVE \E o \in out : o.target = d.target /\ m \in During(o)
    <2>1. PICK o \in DraftsOn(d.target, part[d]) : m \in During(o)
        BY <1>1, DraftsOnFacts
    <2> QED
        BY <1>1, <2>1, DraftsOnFacts
<1>5. ASSUME NEW o \in out, NEW q \in out, o # q, o.target = q.target
      PROVE  During(o) \cap During(q) = {}
    <2>1. PICK d \in ds : o \in DraftsOn(d.target, part[d])
        BY <1>2
    <2>2. PICK e \in ds : q \in DraftsOn(e.target, part[e])
        BY <1>2
    <2>3. /\ o.target = d.target /\ During(o) \subseteq part[d]
          /\ q.target = e.target /\ During(q) \subseteq part[e]
        BY <1>1, <2>1, <2>2, DraftsOnFacts
    <2>4. CASE d = e
        BY <1>1, <1>5, <2>1, <2>2, <2>4, DraftsOnFacts DEF Apart
    <2>5. CASE d # e
        <3>1. During(d) \cap During(e) = {}
            BY <1>5, <2>3, <2>5 DEF Apart
        <3> QED
            BY <2>3, <3>1
    <2> QED
        BY <2>4, <2>5
<1> QED
    BY <1>3, <1>4, <1>5 DEF out, Apart

LEMMA InvalidEmpty == \A d \in Draft : ~Valid(d) => During(d) = {}
<1> SUFFICES ASSUME NEW d \in Draft, ~Valid(d), NEW m \in During(d) PROVE FALSE
    OBVIOUS
<1>1. d.from \in Int /\ d.to \in Int /\ m \in Int /\ d.from <= m /\ m < d.to
    BY RangeFacts DEF Draft, Minutes
<1> QED
    BY <1>1 DEF Valid

\* mergeCalendarDrafts makes them disjoint and covers the same.
LEMMA MergedFacts ==
    ASSUME NEW ds, ds \subseteq Draft
    PROVE  /\ Merged(ds) \subseteq Draft /\ Apart(Merged(ds))
           /\ \A t \in Targets : Covered(Merged(ds), t) = Covered(ds, t)
<1> DEFINE out == Merged(ds)
<1>1. ASSUME NEW t \in Targets PROVE Covered(ds, t) \subseteq Minutes
    BY RangeFacts, CoveredIs
<1>2. \A o \in out : \/ \E t \in Targets : o \in DraftsOn(t, Covered(ds, t))
                     \/ o \in ds /\ During(o) = {}
    BY InvalidEmpty DEF Merged
<1>3. \A t \in Targets : DraftsOn(t, Covered(ds, t)) \subseteq out
    BY DEF Merged
<1> HIDE DEF out
<1>4. ASSUME NEW o \in out
      PROVE  o \in Draft /\ (During(o) = {} \/ During(o) \subseteq Covered(ds, o.target))
    <2>1. ASSUME NEW t \in Targets, o \in DraftsOn(t, Covered(ds, t))
          PROVE  o \in Draft /\ During(o) \subseteq Covered(ds, o.target)
        BY <1>1, <2>1, DraftsOnFacts
    <2> QED
        BY <1>2, <2>1
<1>5. ASSUME NEW o \in out, NEW q \in out, o # q, o.target = q.target
      PROVE  During(o) \cap During(q) = {}
    <2>1. CASE During(o) = {} \/ During(q) = {}
        BY <2>1
    <2>2. CASE During(o) # {} /\ During(q) # {}
        <3>1. PICK t \in Targets : o \in DraftsOn(t, Covered(ds, t))
            BY <1>2, <2>2
        <3>2. PICK u \in Targets : q \in DraftsOn(u, Covered(ds, u))
            BY <1>2, <2>2
        <3>3. o.target = t /\ q.target = u
            BY <1>1, <3>1, <3>2, DraftsOnFacts
        <3>4. Apart(DraftsOn(t, Covered(ds, t)))
            BY <1>1, DraftsOnFacts
        <3> QED
            BY <1>5, <3>1, <3>2, <3>3, <3>4 DEF Apart
    <2> QED
        BY <2>1, <2>2
<1>6. ASSUME NEW t \in Targets PROVE Covered(out, t) = Covered(ds, t)
    <2>1. ASSUME NEW m \in Covered(out, t) PROVE m \in Covered(ds, t)
        <3>1. PICK o \in out : o.target = t /\ m \in During(o)
            BY <2>1, CoveredIs
        <3> QED
            BY <1>4, <3>1
    <2>2. ASSUME NEW m \in Covered(ds, t) PROVE m \in Covered(out, t)
        <3>1. PICK o \in DraftsOn(t, Covered(ds, t)) : m \in During(o)
            BY <1>1, <2>2, DraftsOnFacts
        <3>2. o \in out /\ o.target = t
            BY <1>1, <1>3, DraftsOnFacts
        <3> QED
            BY <3>1, <3>2, CoveredIs
    <2> QED
        BY <2>1, <2>2
<1> QED
    BY <1>4, <1>5, <1>6 DEF out, Apart

-----------------------------------------------------------------------------
(* Drafts: the inductive invariant *)

OwnRow == [id : Nat \X Targets \X Minutes, target : Targets, from : Minutes, to : 0..(LastMinute + 1)]

ReadFields == {"at", "asked", "answer", "current", "again"}

\* Drafts of one target never overlap, and together they are the selection.
DraftsSound == drafts \subseteq Draft /\ Apart(drafts) /\ DraftsAreSelection

Applies == preview.at = "answered" /\ preview.current

\* An answer that will not be discarded takes nothing from the drafts on the page but what
\* was refused or has elapsed, and adds nothing to them.
PreviewSound ==
    /\ DOMAIN preview = ReadFields
    /\ Applies =>
          /\ preview.answer \subseteq Draft /\ Apart(preview.answer)
          /\ \A t \in Targets :
                /\ Covered(preview.answer, t) \subseteq Covered(drafts, t)
                /\ Covered(drafts, t) \subseteq Covered(preview.answer, t) \cup refused[t] \cup 0..now

SelectionInv ==
    /\ now \in Minutes /\ own \subseteq OwnRow
    /\ \A p \in posts : p.drafts \subseteq Draft
    /\ DOMAIN selected = Targets /\ DOMAIN refused = Targets
    /\ DraftsSound /\ PreviewSound

\* What a step may do to the read of the preview without looking at the drafts.
Superseded == DOMAIN preview' = ReadFields /\ ~Applies'
PreviewMoves == preview' = preview \/ preview' = [preview EXCEPT !.again = TRUE] \/ Superseded

-----------------------------------------------------------------------------
(* Drafts: what steps have in common *)

LEMMA Reads ==
    ASSUME DOMAIN preview = ReadFields
    PROVE  /\ preview' = Outdated => Superseded
           /\ preview' \in {Wanted, Idle} => Superseded
           /\ \A x \in {"retry", "conflict", "wanted"} :
                 preview' = [Wanted EXCEPT !.at = x] => Superseded
           /\ Event => PreviewMoves
<1>1. /\ DOMAIN Wanted = ReadFields /\ Wanted.at = "wanted"
      /\ DOMAIN Idle = ReadFields /\ Idle.at = "idle"
    BY DEF Wanted, Idle, ReadFields
<1>2. /\ DOMAIN [preview EXCEPT !.current = FALSE] = ReadFields
      /\ [preview EXCEPT !.current = FALSE].current = FALSE
    BY DEF ReadFields
<1>3. preview' = Outdated => Superseded
    BY <1>1, <1>2 DEF Outdated, Superseded, Applies
<1>4. preview' \in {Wanted, Idle} => Superseded
    BY <1>1 DEF Superseded, Applies
<1>5. ASSUME NEW x \in {"retry", "conflict", "wanted"}, preview' = [Wanted EXCEPT !.at = x]
      PROVE  Superseded
    BY <1>1, <1>5 DEF Superseded, Applies, ReadFields
<1>6. Event => PreviewMoves
    BY <1>4 DEF Event, PreviewMoves
<1> QED
    BY <1>3, <1>4, <1>5, <1>6

\* The drafts and the selection stay; time may go on and more may have been refused.
LEMMA Stand ==
    ASSUME DraftsSound, now \in Minutes, now' \in Minutes, now <= now',
           UNCHANGED <<drafts, selected>>, \A t \in Targets : refused[t] \subseteq refused'[t]
    PROVE  DraftsSound'
<1>1. 0..now \subseteq 0..now'
    BY DEF Minutes
<1>2. DraftsAreSelection'
    <2> SUFFICES ASSUME NEW t \in Targets
                 PROVE  /\ Covered(drafts, t) \subseteq selected[t]
                        /\ selected[t] \subseteq Covered(drafts, t) \cup refused'[t] \cup 0..now'
        BY DEF DraftsAreSelection, Covered
    <2> QED
        BY <1>1 DEF DraftsSound, DraftsAreSelection
<1> QED
    BY <1>2 DEF DraftsSound, Apart

LEMMA PreviewStands ==
    ASSUME PreviewSound, now \in Minutes, now' \in Minutes, now <= now',
           UNCHANGED <<drafts, refused>>, PreviewMoves
    PROVE  PreviewSound'
<1>1. CASE Superseded
    BY <1>1 DEF Superseded, PreviewSound
<1>2. CASE preview' = preview \/ preview' = [preview EXCEPT !.again = TRUE]
    <2>1. /\ DOMAIN preview' = ReadFields
          /\ preview'.at = preview.at /\ preview'.current = preview.current
          /\ preview'.answer = preview.answer
        BY <1>2 DEF PreviewSound, ReadFields
    <2>2. 0..now \subseteq 0..now'
        BY DEF Minutes
    <2>3. Applies' => Applies
        BY <2>1 DEF Applies
    <2>4. ASSUME Applies, NEW t \in Targets
          PROVE  /\ Covered(preview.answer, t) \subseteq Covered(drafts, t)
                 /\ Covered(drafts, t) \subseteq Covered(preview.answer, t) \cup refused[t] \cup 0..now'
        BY <2>2, <2>4 DEF PreviewSound
    <2>5. Applies => preview.answer \subseteq Draft /\ Apart(preview.answer)
        BY DEF PreviewSound
    <2> QED
        BY <2>1, <2>3, <2>4, <2>5 DEF PreviewSound, Covered, Apart
<1> QED
    BY <1>1, <1>2 DEF PreviewMoves

\* A step that leaves the drafts, the selection and the refusals alone.
LEMMA Aside ==
    ASSUME SelectionInv, UNCHANGED <<drafts, selected, refused>>,
           now' \in Minutes, now <= now', own' \subseteq OwnRow,
           \A p \in posts' : p.drafts \subseteq Draft, PreviewMoves
    PROVE  SelectionInv'
<1>1. DraftsSound'
    BY Stand DEF SelectionInv
<1>2. PreviewSound'
    BY PreviewStands DEF SelectionInv
<1> QED
    BY <1>1, <1>2 DEF SelectionInv

\* A step that takes minutes of one target out of the drafts and the selection and puts
\* others in.
LEMMA Redrawn ==
    ASSUME SelectionInv, NEW target \in Targets, NEW gone, NEW new,
           drafts' \subseteq Draft, Apart(drafts'),
           Covered(drafts', target) = (Covered(drafts, target) \ gone) \cup new,
           \A t \in Targets : t # target => Covered(drafts', t) = Covered(drafts, t),
           selected' = [selected EXCEPT ![target] = (@ \ gone) \cup new],
           preview' = Outdated, UNCHANGED <<server, posts, refused>>
    PROVE  SelectionInv'
<1>1. /\ DOMAIN selected' = Targets
      /\ selected'[target] = (selected[target] \ gone) \cup new
      /\ \A t \in Targets : t # target => selected'[t] = selected[t]
    BY DEF SelectionInv
<1>2. DraftsAreSelection'
    <2> SUFFICES ASSUME NEW t \in Targets
                 PROVE  /\ Covered(drafts', t) \subseteq selected'[t]
                        /\ selected'[t] \subseteq Covered(drafts', t) \cup refused[t] \cup 0..now
        BY DEF DraftsAreSelection, Covered, server
    <2>1. /\ Covered(drafts, t) \subseteq selected[t]
          /\ selected[t] \subseteq Covered(drafts, t) \cup refused[t] \cup 0..now
        BY DEF SelectionInv, DraftsSound, DraftsAreSelection
    <2> QED
        BY <1>1, <2>1
<1>3. Superseded
    BY Reads DEF SelectionInv, PreviewSound
<1> QED
    BY <1>1, <1>2, <1>3 DEF SelectionInv, DraftsSound, PreviewSound, Superseded, server, Apart

\* Minutes join the drafts: appendDraft and requestEditingReservation.
LEMMA Joins ==
    ASSUME SelectionInv, NEW target \in Targets, NEW minutes, minutes \subseteq Minutes,
           Redraw(Merged(drafts \cup DraftsOn(target, minutes))), Select(target, minutes),
           UNCHANGED <<server, posts, refused>>
    PROVE  SelectionInv'
<1> DEFINE ds == drafts \cup DraftsOn(target, minutes)
<1>1. ds \subseteq Draft
    BY DraftsOnFacts DEF SelectionInv, DraftsSound
<1>2. \A t \in Targets : \A m :
         m \in Covered(ds, t) <=> m \in Covered(drafts, t) \/ (t = target /\ m \in minutes)
    BY DraftsOnFacts, CoveredIs
<1>3. drafts' = Merged(ds) /\ preview' = Outdated
      /\ selected' = [selected EXCEPT ![target] = @ \cup minutes]
    BY DEF Redraw, Select
<1> HIDE DEF ds
<1>4. /\ drafts' \subseteq Draft /\ Apart(drafts')
      /\ \A t \in Targets : Covered(drafts', t) = Covered(ds, t)
    BY <1>1, <1>3, MergedFacts
<1>5. /\ Covered(drafts', target) = (Covered(drafts, target) \ {}) \cup minutes
      /\ \A t \in Targets : t # target => Covered(drafts', t) = Covered(drafts, t)
    BY <1>2, <1>4
<1>6. selected' = [selected EXCEPT ![target] = (@ \ {}) \cup minutes]
    BY <1>3
<1> QED
    BY <1>3, <1>4, <1>5, <1>6, Redrawn, ZenonT(60)

-----------------------------------------------------------------------------
(* Drafts: steps that leave them alone *)

LEMMA StayingSteps ==
    ASSUME SelectionInv,
           \/ Focus \/ Blur \/ NoticeEnd \/ Submit
           \/ \E b \in seen.own : BeginEdit(b)
           \/ \E b \in editing : LeaveEdit(b)
           \/ SendInspect \/ DeliverInspect \/ RetryInspect \/ FailInspect
           \/ RetryPreview \/ FailPreview \/ LoadTimeline
           \/ \E g \in Groups, m \in Minutes : OthersMove(g, m)
           \/ Tick \/ \E p \in posts : GiveUp(p)
    PROVE  SelectionInv'
<1>1. now \in Minutes /\ now <= now /\ DOMAIN preview = ReadFields
    BY DEF SelectionInv, PreviewSound, Minutes
<1>2. preview' = preview \/ preview' = Outdated \/ preview' = Wanted
      \/ (\E x \in {"wanted", "retry"} : preview' = [Wanted EXCEPT !.at = x]) \/ Event
      => PreviewMoves
    BY <1>1, Reads DEF PreviewMoves
<1>3. CASE Tick
    <2>1. now' \in Minutes /\ now <= now'
        BY <1>1, <1>3, PageAssumption DEF Tick, Minutes
    <2>2. UNCHANGED <<drafts, selected, refused, own, posts, preview>>
        BY <1>3 DEF Tick, page, ghosts
    <2> QED
        BY <1>2, <2>1, <2>2, Aside DEF SelectionInv
<1>4. CASE Submit
    <2> DEFINE new == [of |-> sequence, drafts |-> drafts, editing |-> editing, at |-> "sent"]
    <2>1. posts' = posts \cup {new} /\ new.drafts = drafts
        BY <1>4 DEF Submit
    <2> HIDE DEF new
    <2>2. UNCHANGED <<drafts, selected, refused, own, now>> /\ preview' = Outdated
        BY <1>4 DEF Submit, server, ghosts
    <2>3. \A p \in posts' : p.drafts \subseteq Draft
        BY <2>1 DEF SelectionInv, DraftsSound
    <2> QED
        BY <1>1, <1>2, <2>2, <2>3, Aside DEF SelectionInv
<1>5. CASE Focus \/ Blur \/ NoticeEnd \/ (\E b \in seen.own : BeginEdit(b)) \/ (\E b \in editing : LeaveEdit(b))
    <2>1. /\ UNCHANGED <<drafts, selected, refused, own, now, posts>>
          /\ preview' = preview \/ preview' = Outdated
        BY <1>5 DEF Focus, Blur, NoticeEnd, BeginEdit, LeaveEdit, Redraw, server, ghosts
    <2> QED
        BY <1>1, <1>2, <2>1, Aside DEF SelectionInv
<1>6. CASE SendInspect \/ DeliverInspect \/ RetryInspect \/ FailInspect
           \/ RetryPreview \/ FailPreview \/ LoadTimeline
    <2>1. /\ UNCHANGED <<drafts, selected, refused, own, now, posts>>
          /\ \/ preview' = preview \/ preview' = Outdated \/ preview' = Wanted
             \/ \E x \in {"wanted", "retry"} : preview' = [Wanted EXCEPT !.at = x]
        BY <1>6 DEF SendInspect, DeliverInspect, RetryInspect, FailInspect, RetryPreview, FailPreview,
                    LoadTimeline, page, server, ghosts
    <2> QED
        BY <1>1, <1>2, <2>1, Aside DEF SelectionInv
<1>7. CASE \/ \E g \in Groups, m \in Minutes : OthersMove(g, m)
           \/ \E p \in posts : GiveUp(p)
    <2>1. /\ UNCHANGED <<drafts, selected, refused, own, now>> /\ posts' \subseteq posts
          /\ preview' = Outdated \/ Event
        BY <1>7 DEF OthersMove, GiveUp, page, server, ghosts
    <2> QED
        BY <1>1, <1>2, <2>1, Aside DEF SelectionInv
<1> QED
    BY <1>3, <1>4, <1>5, <1>6, <1>7

\* A booking that is cut off is still a booking.
LEMMA CutRow ==
    ASSUME NEW b \in OwnRow, NEW m \in Minutes
    PROVE  [b EXCEPT !.to = m] \in OwnRow
<1>1. m \in 0..(LastMinute + 1)
    BY PageAssumption DEF Minutes
<1> QED
    BY <1>1 DEF OwnRow

LEMMA TrimmedKeeps ==
    ASSUME SelectionInv, NEW b \in own, NEW m \in Minutes, OwnTrimmed(b, m)
    PROVE  SelectionInv'
<1>1. /\ UNCHANGED <<drafts, selected, refused, now, posts>> /\ Event
      /\ own' \subseteq own \cup {[b EXCEPT !.to = m]}
    BY DEF OwnTrimmed, page, ghosts
<1>2. b \in OwnRow
    BY DEF SelectionInv
<1>3. own' \subseteq OwnRow
    BY <1>1, <1>2, CutRow DEF SelectionInv
<1>4. now' \in Minutes /\ now <= now'
    BY <1>1 DEF SelectionInv, Minutes
<1>5. PreviewMoves
    BY <1>1, Reads DEF SelectionInv, PreviewSound
<1> QED
    BY <1>1, <1>3, <1>4, <1>5, Aside DEF SelectionInv

LEMMA BookingsAreRows ==
    ASSUME SelectionInv, CommitsInv, NEW p \in posts, Books(p)
    PROVE  own' \subseteq OwnRow
<1> DEFINE free == Available(p.drafts, Ids(p.editing))
           row(d) == [id |-> <<p.of, d.target, d.from>>, target |-> d.target, from |-> d.from, to |-> d.to]
<1>1. own' = Replaced(p.editing) \cup {row(d) : d \in free} /\ p.editing \subseteq own
    BY DEF Books, Current
<1>2. p.of \in Nat
    BY DEF CommitsInv, PostsApart
<1>3. free \subseteq Draft
    <2>1. ASSUME NEW d \in p.drafts PROVE DraftsOn(d.target, Free(d, Ids(p.editing))) \subseteq Draft
        <3>1. d \in Draft
            BY DEF SelectionInv
        <3>2. d.target \in Targets /\ Free(d, Ids(p.editing)) \subseteq Minutes
            BY <3>1, RangeFacts DEF Draft, Free, Left
        <3> QED
            BY <3>2, DraftsOnFacts
    <2> QED
        BY <2>1 DEF Available
<1>4. ASSUME NEW d \in Draft PROVE row(d) \in OwnRow
    BY <1>2 DEF Draft, OwnRow
<1>5. Replaced(p.editing) \subseteq OwnRow
    <2>1. ASSUME NEW b \in p.editing PROVE b \in OwnRow /\ [b EXCEPT !.to = now] \in OwnRow
        BY <1>1, CutRow DEF SelectionInv
    <2> QED
        BY <2>1 DEF Replaced, SelectionInv
<1> HIDE DEF free, row
<1> QED
    BY <1>1, <1>3, <1>4, <1>5

LEMMA TakesKeeps ==
    ASSUME SelectionInv, CommitsInv, NEW p \in posts, ServerTakes(p)
    PROVE  SelectionInv'
<1>1. UNCHANGED <<drafts, selected, refused, now>>
    BY DEF ServerTakes, page
<1>2. now' \in Minutes /\ now <= now'
    BY <1>1 DEF SelectionInv, Minutes
<1>3. PICK outcome :
          posts' = (posts \ {p}) \cup {x \in {[p EXCEPT !.at = outcome]} : p.of \in awaited}
    BY DEF ServerTakes, Answered
<1>4. [p EXCEPT !.at = outcome].drafts = p.drafts
    BY DEF CommitsInv, PostsApart, PostFields
<1>5. \A q \in posts' : q.drafts \subseteq Draft
    BY <1>3, <1>4 DEF SelectionInv
<1>6. own' \subseteq OwnRow
    BY BookingsAreRows DEF ServerTakes, SelectionInv
<1>7. Event \/ preview' = preview
    BY DEF ServerTakes, Books
<1>8. PreviewMoves
    BY <1>7, Reads DEF SelectionInv, PreviewSound, PreviewMoves
<1> QED
    BY <1>1, <1>2, <1>5, <1>6, <1>8, Aside

-----------------------------------------------------------------------------
(* Drafts: drawing and typing *)

LEMMA AppendKeeps ==
    ASSUME SelectionInv, NEW target \in Targets, NEW r \in Range, Append(target, r)
    PROVE  SelectionInv'
<1>1. Projected(target, r) \subseteq Minutes
    BY RangeFacts DEF Projected, Left
<1> QED
    BY <1>1, Joins DEF Append

LEMMA FinishEditKeeps ==
    ASSUME SelectionInv, FinishEdit
    PROVE  SelectionInv'
<1>1. UNCHANGED <<server, posts, refused>>
    BY DEF FinishEdit
<1>2. CASE UNCHANGED <<drafts, selected, preview>>
    BY <1>1, <1>2, Aside DEF SelectionInv, server, Minutes, PreviewMoves
<1>3. CASE \E b \in own : LET rest == {m \in During(b) : m >= now}
                          IN  /\ Redraw(Merged(drafts \cup DraftsOn(b.target, rest)))
                              /\ Select(b.target, rest)
    <2> PICK b \in own : LET rest == {m \in During(b) : m >= now}
                         IN  /\ Redraw(Merged(drafts \cup DraftsOn(b.target, rest)))
                             /\ Select(b.target, rest)
        BY <1>3
    <2>1. b \in OwnRow
        BY DEF SelectionInv
    <2>2. b.target \in Targets /\ During(b) \subseteq Minutes
        BY <2>1, RangeFacts DEF OwnRow, During, Minutes
    <2> QED
        BY <1>1, <2>2, Joins
<1> QED
    BY <1>2, <1>3 DEF FinishEdit

LEMMA RemoveKeeps ==
    ASSUME SelectionInv, NEW d \in drafts, Remove(d)
    PROVE  SelectionInv'
<1>1. drafts \subseteq Draft /\ Apart(drafts) /\ d.target \in Targets
    BY DEF SelectionInv, DraftsSound, Draft
<1>2. drafts' = drafts \ {d} /\ preview' = Outdated /\ UNCHANGED <<server, posts, refused>>
    BY DEF Remove, Redraw
<1>3. drafts' \subseteq Draft /\ Apart(drafts')
    BY <1>1, <1>2 DEF Apart
<1>4. Covered(drafts', d.target) = (Covered(drafts, d.target) \ During(d)) \cup {}
    BY <1>1, <1>2, CoveredIs DEF Apart
<1>5. ASSUME NEW t \in Targets, t # d.target PROVE Covered(drafts', t) = Covered(drafts, t)
    <2>1. \A x : x \in drafts' /\ x.target = t <=> x \in drafts /\ x.target = t
        BY <1>2, <1>5
    <2> QED
        BY <2>1, CoveredSame
<1>6. selected' = [selected EXCEPT ![d.target] = (@ \ During(d)) \cup {}]
    BY DEF Remove, Withdraw
<1> QED
    BY <1>1, <1>2, <1>3, <1>4, <1>5, <1>6, Redrawn

LEMMA EraseKeeps ==
    ASSUME SelectionInv, NEW target \in Targets, NEW r \in Range, Erase(target, r)
    PROVE  SelectionInv'
<1> DEFINE hit == {d \in drafts : d.target = target /\ During(d) \cap During(r) # {}}
           rest == [d \in hit |-> During(d) \ During(r)]
           pieces == Pieces(hit, rest)
<1>1. drafts \subseteq Draft /\ Apart(drafts)
    BY DEF SelectionInv, DraftsSound
<1>2. /\ drafts' = (drafts \ hit) \cup pieces
      /\ preview' = Outdated /\ UNCHANGED <<server, posts, refused>>
    <2>1. UNION {DraftsOn(target, During(d) \ During(r)) : d \in hit} = pieces
        BY DEF Pieces
    <2>2. drafts' = (drafts \ hit) \cup UNION {DraftsOn(target, During(d) \ During(r)) : d \in hit}
        BY DEF Erase, Redraw
    <2> QED
        BY <2>1, <2>2 DEF Erase, Redraw
<1>3. /\ hit \subseteq drafts
      /\ \A d \in drafts : d \notin hit => d.target # target \/ During(d) \cap During(r) = {}
      /\ \A d \in hit : d.target = target /\ rest[d] = During(d) \ During(r)
    OBVIOUS
<1>4. hit \subseteq Draft /\ Apart(hit) /\ \A d \in hit : rest[d] \subseteq During(d)
    BY <1>1, <1>3 DEF Apart
<1> HIDE DEF hit, rest
<1>5. /\ pieces \subseteq Draft /\ Apart(pieces)
      /\ \A o \in pieces : \E d \in hit : o.target = d.target /\ During(o) \subseteq rest[d]
      /\ \A d \in hit : \A m \in rest[d] : \E o \in pieces : o.target = d.target /\ m \in During(o)
    BY <1>4, PiecesFacts
<1> HIDE DEF pieces
<1>6. drafts' \subseteq Draft
    BY <1>1, <1>2, <1>5
<1>7. ASSUME NEW d \in drafts \ hit, NEW o \in pieces, d.target = o.target
      PROVE  During(d) \cap During(o) = {}
    <2>1. PICK e \in hit : o.target = e.target /\ During(o) \subseteq During(e)
        BY <1>4, <1>5
    <2> QED
        BY <1>1, <1>3, <1>7, <2>1 DEF Apart
<1>8. Apart(drafts')
    BY <1>1, <1>2, <1>5, <1>7 DEF Apart
<1>9. Covered(drafts', target) = (Covered(drafts, target) \ During(r)) \cup {}
    <2>1. ASSUME NEW m \in Covered(drafts', target) PROVE m \in Covered(drafts, target) \ During(r)
        <3>1. PICK d \in drafts' : d.target = target /\ m \in During(d)
            BY <2>1, CoveredIs
        <3>2. CASE d \in drafts \ hit
            BY <1>3, <3>1, <3>2, CoveredIs
        <3>3. CASE d \in pieces
            BY <1>3, <1>5, <3>1, <3>3, CoveredIs
        <3> QED
            BY <1>2, <3>1, <3>2, <3>3
    <2>2. ASSUME NEW m \in Covered(drafts, target) \ During(r) PROVE m \in Covered(drafts', target)
        <3>1. PICK d \in drafts : d.target = target /\ m \in During(d)
            BY <2>2, CoveredIs
        <3>2. CASE d \notin hit
            BY <1>2, <3>1, <3>2, CoveredIs
        <3>3. CASE d \in hit
            <4>1. PICK o \in pieces : o.target = d.target /\ m \in During(o)
                BY <1>3, <1>5, <2>2, <3>1, <3>3
            <4> QED
                BY <1>2, <3>1, <4>1, CoveredIs
        <3> QED
            BY <3>2, <3>3
    <2> QED
        BY <2>1, <2>2
<1>10. ASSUME NEW t \in Targets, t # target PROVE Covered(drafts', t) = Covered(drafts, t)
    <2>1. \A d \in drafts' : d.target = t => d \in drafts
        BY <1>2, <1>3, <1>5, <1>10
    <2>2. \A d \in drafts : d.target = t => d \in drafts'
        BY <1>2, <1>3, <1>10
    <2> QED
        BY <2>1, <2>2 DEF Covered
<1>11. selected' = [selected EXCEPT ![target] = (@ \ During(r)) \cup {}]
    BY DEF Erase, Withdraw
<1> QED
    BY <1>2, <1>6, <1>8, <1>9, <1>10, <1>11, Redrawn

LEMMA TypedFacts ==
    ASSUME NEW d \in Draft, NEW e \in Typed(d)
    PROVE  e \in Draft /\ e.target = d.target
<1>1. \/ \E m \in Minutes : e = [d EXCEPT !.from = m]
      \/ \E m \in 0..(LastMinute + 1) : e = [d EXCEPT !.to = m]
    BY DEF Typed
<1> QED
    BY <1>1 DEF Draft

LEMMA RetimedFacts ==
    ASSUME NEW e \in Draft
    PROVE  /\ Retimed(e) \subseteq Draft
           /\ \A o \in Retimed(e) : o.target = e.target
           /\ ~Valid(e) => Retimed(e) = {e} /\ During(e) = {}
<1>1. e.target \in Targets /\ Projected(e.target, e) \subseteq Minutes
    BY RangeFacts DEF Draft, Projected, Left
<1> QED
    BY <1>1, DraftsOnFacts, InvalidEmpty DEF Retimed

LEMMA RetimeKeeps ==
    ASSUME SelectionInv, NEW d \in drafts, NEW e \in Typed(d), Retime(d, e)
    PROVE  SelectionInv'
<1> DEFINE rest == (drafts \ {d}) \cup Retimed(e)
           new == Covered(Retimed(e), d.target)
<1>1. drafts \subseteq Draft /\ Apart(drafts) /\ d \in Draft /\ d.target \in Targets
    BY DEF SelectionInv, DraftsSound, Draft
<1>2. /\ drafts' = (IF Valid(e) THEN Merged(rest) ELSE rest)
      /\ selected' = [selected EXCEPT ![d.target] = (@ \ During(d)) \cup new]
      /\ preview' = Outdated /\ UNCHANGED <<server, posts, refused>>
    BY DEF Retime, Redraw
<1>3. e \in Draft /\ e.target = d.target
    BY <1>1, TypedFacts
<1>4. rest \subseteq Draft
    BY <1>1, <1>3, RetimedFacts
<1>5. Covered(rest, d.target) = (Covered(drafts, d.target) \ During(d)) \cup new
    <2>1. \A m : m \in Covered(rest, d.target) <=> m \in Covered(drafts \ {d}, d.target) \/ m \in new
        BY CoveredIs
    <2>2. \A m : m \in Covered(drafts \ {d}, d.target)
                    <=> m \in Covered(drafts, d.target) /\ m \notin During(d)
        BY <1>1, CoveredIs DEF Apart
    <2> HIDE DEF rest, new
    <2> QED
        BY <2>1, <2>2
<1>6. ASSUME NEW t \in Targets, t # d.target PROVE Covered(rest, t) = Covered(drafts, t)
    <2>1. \A o \in Retimed(e) : o.target # t
        BY <1>3, <1>6, RetimedFacts
    <2>2. \A x : x \in rest /\ x.target = t <=> x \in drafts /\ x.target = t
        BY <1>6, <2>1
    <2> QED
        BY <2>2, CoveredSame
<1>7. Valid(e) \/ Apart(rest)
    <2>1. \A x \in rest : During(x) = {} \/ x \in drafts \/ Valid(e)
        BY <1>3, RetimedFacts
    <2> HIDE DEF rest
    <2> QED
        BY <1>1, <2>1 DEF Apart
<1> HIDE DEF rest, new
<1>8. /\ drafts' \subseteq Draft /\ Apart(drafts')
      /\ \A t \in Targets : Covered(drafts', t) = Covered(rest, t)
    BY <1>2, <1>4, <1>7, MergedFacts
<1>9. /\ Covered(drafts', d.target) = (Covered(drafts, d.target) \ During(d)) \cup new
      /\ \A t \in Targets : t # d.target => Covered(drafts', t) = Covered(drafts, t)
    BY <1>1, <1>5, <1>6, <1>8
<1> QED
    BY <1>1, <1>2, <1>8, <1>9, Redrawn

-----------------------------------------------------------------------------
(* Drafts: new sequences, the clock and previews *)

\* No drafts, no selection: a reset, and the answer that nothing is left to book.
LEMMA Emptied ==
    ASSUME SelectionInv, drafts' = {}, selected' = Empty,
           refused' = Empty \/ refused' = refused, preview' = Outdated,
           UNCHANGED server, posts' \subseteq posts
    PROVE  SelectionInv'
<1>1. DOMAIN Empty = Targets /\ \A t \in Targets : Empty[t] = {}
    BY DEF Empty
<1>2. DraftsSound'
    BY <1>1 DEF DraftsSound, Apart, DraftsAreSelection, Covered
<1>3. Superseded
    BY Reads DEF SelectionInv, PreviewSound
<1>4. DOMAIN selected' = Targets /\ DOMAIN refused' = Targets
    BY <1>1 DEF SelectionInv
<1> QED
    BY <1>2, <1>3, <1>4 DEF SelectionInv, PreviewSound, Superseded, server

LEMMA ClearKeeps ==
    ASSUME SelectionInv, Clear
    PROVE  SelectionInv'
BY Emptied DEF Clear, Reset

LEMMA AnswerKeepsSelection ==
    ASSUME SelectionInv, NEW p \in posts, Answer(p)
    PROVE  SelectionInv'
<1>1. UNCHANGED server /\ posts' \subseteq posts /\ preview' = Outdated
    BY DEF Answer, Learns, Reset, Redraw
<1>2. CASE drafts' = {} /\ selected' = Empty /\ (refused' = Empty \/ refused' = refused)
    BY <1>1, <1>2, Emptied
<1>3. CASE UNCHANGED <<drafts, selected, refused>>
    <2>1. PreviewMoves
        BY <1>1, Reads DEF SelectionInv, PreviewSound, PreviewMoves
    <2> QED
        BY <1>1, <1>3, <2>1, Aside DEF SelectionInv, server, Minutes
<1> QED
    BY <1>2, <1>3 DEF Answer, Learns, Reset, Redraw

\* advanceCalendarDrafts takes nothing but minutes that have elapsed.
LEMMA AdvancedFacts ==
    ASSUME drafts \subseteq Draft, now \in Minutes
    PROVE  /\ Advanced \subseteq Draft
           /\ \A t \in Targets : /\ Covered(Advanced, t) \subseteq Covered(drafts, t)
                                 /\ Covered(drafts, t) \subseteq Covered(Advanced, t) \cup 0..now
<1> DEFINE moved(d) == IF d.from < now THEN [d EXCEPT !.from = now] ELSE d
           left == {x \in drafts : x.from > now \/ x.to > now}
<1>1. Advanced = {moved(d) : d \in left}
    BY DEF Advanced
<1>2. ASSUME NEW d \in Draft
      PROVE  /\ moved(d) \in Draft /\ moved(d).target = d.target
             /\ \A m : m \in During(moved(d)) => m \in During(d)
             /\ \A m : m \in During(d) => m \in During(moved(d)) \/ m \in 0..now
    <2>1. CASE d.from < now
        <3> DEFINE e == [d EXCEPT !.from = now]
        <3>1. e \in Draft /\ e.target = d.target /\ e.from = now /\ e.to = d.to
            BY DEF Draft
        <3>2. moved(d) = e
            BY <2>1
        <3>3. d.from \in Int /\ d.to \in Int /\ now \in Int /\ During(d) \subseteq Minutes
            BY RangeFacts DEF Draft, Minutes
        <3> HIDE DEF e, moved
        <3> QED
            BY <2>1, <3>1, <3>2, <3>3, RangeFacts DEF Minutes, During
    <2> QED
        BY <2>1
<1>3. ASSUME NEW d \in drafts, d \notin left, NEW m \in During(d)
      PROVE  m \in 0..now
    <2>1. d.from \in Int /\ d.to \in Int /\ now \in Int /\ m \in Int /\ 0 <= m /\ m < d.to
        BY RangeFacts DEF Draft, Minutes
    <2> QED
        BY <1>3, <2>1
<1>4. left \subseteq drafts
    OBVIOUS
<1> HIDE DEF moved, left
<1>5. Advanced \subseteq Draft
    BY <1>1, <1>2, <1>4
<1>6. ASSUME NEW t \in Targets, NEW m \in Covered(Advanced, t) PROVE m \in Covered(drafts, t)
    <2>1. PICK o \in Advanced : o.target = t /\ m \in During(o)
        BY <1>6, CoveredIs
    <2>2. PICK d \in left : o = moved(d)
        BY <1>1, <2>1
    <2> QED
        BY <1>2, <1>4, <2>1, <2>2, CoveredIs
<1>7. ASSUME NEW t \in Targets, NEW m \in Covered(drafts, t) PROVE m \in Covered(Advanced, t) \cup 0..now
    <2>1. PICK d \in drafts : d.target = t /\ m \in During(d)
        BY <1>7, CoveredIs
    <2>2. CASE d \in left
        <3>1. moved(d) \in Advanced
            BY <1>1, <2>2
        <3> QED
            BY <1>2, <2>1, <3>1, CoveredIs
    <2>3. CASE d \notin left
        BY <1>3, <2>1, <2>3
    <2> QED
        BY <2>2, <2>3
<1> QED
    BY <1>5, <1>6, <1>7

LEMMA AdvanceKeeps ==
    ASSUME SelectionInv, Advance
    PROVE  SelectionInv'
<1>1. /\ drafts' = Merged(Advanced) /\ preview' = Outdated
      /\ UNCHANGED <<now, own, posts, selected, refused>>
    BY DEF Advance, Redraw, server, ghosts
<1>2. drafts \subseteq Draft /\ now \in Minutes
    BY DEF SelectionInv, DraftsSound
<1>3. /\ drafts' \subseteq Draft /\ Apart(drafts')
      /\ \A t \in Targets : Covered(drafts', t) = Covered(Advanced, t)
    BY <1>1, <1>2, AdvancedFacts, MergedFacts
<1>4. DraftsAreSelection'
    <2> SUFFICES ASSUME NEW t \in Targets
                 PROVE  /\ Covered(drafts', t) \subseteq selected[t]
                        /\ selected[t] \subseteq Covered(drafts', t) \cup refused[t] \cup 0..now
        BY <1>1 DEF DraftsAreSelection, Covered
    <2>1. /\ Covered(drafts', t) \subseteq Covered(drafts, t)
          /\ Covered(drafts, t) \subseteq Covered(drafts', t) \cup 0..now
        BY <1>2, <1>3, AdvancedFacts
    <2> QED
        BY <2>1 DEF SelectionInv, DraftsSound, DraftsAreSelection
<1>5. Superseded
    BY <1>1, Reads DEF SelectionInv, PreviewSound
<1> QED
    BY <1>1, <1>3, <1>4, <1>5 DEF SelectionInv, DraftsSound, PreviewSound, Superseded, Apart

\* What the server finds free of the drafts is theirs; the rest has elapsed or is taken.
LEMMA AvailableFacts ==
    ASSUME drafts \subseteq Draft, Apart(drafts), now \in Minutes, NEW ids
    PROVE  /\ Available(drafts, ids) \subseteq Draft /\ Apart(Available(drafts, ids))
           /\ \A t \in Targets :
                 /\ Covered(Available(drafts, ids), t) \subseteq Covered(drafts, t)
                 /\ Covered(drafts, t) \subseteq
                       Covered(Available(drafts, ids), t) \cup (Covered(drafts, t) \cap Busy(Server, t, ids))
                       \cup 0..now
<1> DEFINE free == [d \in drafts |-> Free(d, ids)]
           out == Pieces(drafts, free)
<1>1. Available(drafts, ids) = out
    BY DEF Available, Pieces
<1>2. \A d \in drafts : free[d] = Left(d, Busy(Server, d.target, ids))
    BY DEF Free
<1> HIDE DEF free
<1>3. \A d \in drafts : free[d] \subseteq During(d)
    BY <1>2 DEF Left
<1>4. /\ out \subseteq Draft /\ Apart(out)
      /\ \A o \in out : \E d \in drafts : o.target = d.target /\ During(o) \subseteq free[d]
      /\ \A d \in drafts : \A m \in free[d] : \E o \in out : o.target = d.target /\ m \in During(o)
    BY <1>3, PiecesFacts
<1> HIDE DEF out
<1>5. ASSUME NEW t \in Targets, NEW m \in Covered(out, t) PROVE m \in Covered(drafts, t)
    <2>1. PICK o \in out : o.target = t /\ m \in During(o)
        BY <1>5, CoveredIs
    <2>2. PICK d \in drafts : o.target = d.target /\ During(o) \subseteq free[d]
        BY <1>4, <2>1
    <2> QED
        BY <1>3, <2>1, <2>2, CoveredIs
<1>6. ASSUME NEW t \in Targets, NEW m \in Covered(drafts, t)
      PROVE  m \in Covered(out, t) \/ m \in Busy(Server, t, ids) \/ m \in 0..now
    <2>1. PICK d \in drafts : d.target = t /\ m \in During(d)
        BY <1>6, CoveredIs
    <2>2. m \in Nat /\ now \in Nat
        BY <2>1, RangeFacts DEF Minutes
    <2>3. m \in free[d] \/ m < now \/ m \in Busy(Server, t, ids)
        BY <1>2, <2>1, <2>2 DEF Left
    <2>4. CASE m \in free[d]
        BY <1>4, <2>1, <2>4, CoveredIs
    <2> QED
        BY <2>2, <2>3, <2>4
<1> QED
    BY <1>1, <1>4, <1>5, <1>6

LEMMA SendPreviewKeeps ==
    ASSUME SelectionInv, SendPreview
    PROVE  SelectionInv'
<1>1. UNCHANGED <<now, own, posts, drafts, selected>>
    BY DEF SendPreview, server, page
<1>2. DOMAIN preview = ReadFields /\ drafts \subseteq Draft /\ Apart(drafts) /\ now \in Minutes
    BY DEF SelectionInv, DraftsSound, PreviewSound
<1>3. CASE UNCHANGED refused /\ \E x \in {"retry", "conflict"} : preview' = [Wanted EXCEPT !.at = x]
    <2>1. PreviewMoves
        BY <1>2, <1>3, Reads DEF PreviewMoves
    <2> QED
        BY <1>1, <1>3, <2>1, Aside DEF SelectionInv, Minutes
<1>4. CASE /\ preview' = [Wanted EXCEPT !.at = "answered", !.asked = drafts,
                                        !.answer = Available(drafts, Ids(editing))]
           /\ refused' = [t \in Targets |->
                 refused[t] \cup (Covered(drafts, t) \cap Busy(Server, t, Ids(editing)))]
    <2> DEFINE out == Available(drafts, Ids(editing))
    <2>1. DOMAIN preview' = ReadFields /\ preview'.answer = out
        BY <1>4 DEF Wanted, ReadFields
    <2>2. /\ DOMAIN refused' = Targets
          /\ \A t \in Targets : refused'[t] = refused[t] \cup (Covered(drafts, t) \cap Busy(Server, t, Ids(editing)))
        BY <1>4
    <2>3. /\ out \subseteq Draft /\ Apart(out)
          /\ \A t \in Targets :
                /\ Covered(out, t) \subseteq Covered(drafts, t)
                /\ Covered(drafts, t) \subseteq
                      Covered(out, t) \cup (Covered(drafts, t) \cap Busy(Server, t, Ids(editing))) \cup 0..now
        BY <1>2, AvailableFacts
    <2> HIDE DEF out
    <2>4. ASSUME NEW t \in Targets
          PROVE  /\ Covered(out, t) \subseteq Covered(drafts, t)
                 /\ Covered(drafts, t) \subseteq Covered(out, t) \cup refused'[t] \cup 0..now
        BY <2>2, <2>3
    <2>5. PreviewSound'
        BY <1>1, <2>1, <2>3, <2>4 DEF PreviewSound, Covered, Apart
    <2>6. DraftsSound'
        <3>1. now <= now' /\ now' \in Minutes
            BY <1>1, <1>2 DEF Minutes
        <3> QED
            BY <1>1, <1>2, <2>2, <3>1, Stand DEF SelectionInv
    <2> QED
        BY <1>1, <2>2, <2>5, <2>6 DEF SelectionInv
<1> QED
    BY <1>3, <1>4 DEF SendPreview

LEMMA DeliverPreviewKeeps ==
    ASSUME SelectionInv, DeliverPreview
    PROVE  SelectionInv'
<1>1. UNCHANGED <<now, own, posts, selected, refused>> /\ preview' \in {Wanted, Idle}
    BY DEF DeliverPreview, server, ghosts
<1>2. Superseded
    BY <1>1, Reads DEF SelectionInv, PreviewSound
<1>3. CASE UNCHANGED drafts
    BY <1>1, <1>2, <1>3, Aside DEF SelectionInv, Minutes, PreviewMoves
<1>4. CASE drafts' = preview.answer /\ Applies
    <2>1. /\ drafts' \subseteq Draft /\ Apart(drafts')
          /\ \A t \in Targets :
                /\ Covered(drafts', t) \subseteq Covered(drafts, t)
                /\ Covered(drafts, t) \subseteq Covered(drafts', t) \cup refused[t] \cup 0..now
        BY <1>4 DEF SelectionInv, PreviewSound
    <2>2. DraftsAreSelection'
        <3> SUFFICES ASSUME NEW t \in Targets
                     PROVE  /\ Covered(drafts', t) \subseteq selected[t]
                            /\ selected[t] \subseteq Covered(drafts', t) \cup refused[t] \cup 0..now
            BY <1>1 DEF DraftsAreSelection, Covered
        <3> QED
            BY <2>1 DEF SelectionInv, DraftsSound, DraftsAreSelection
    <2> QED
        BY <1>1, <1>2, <2>1, <2>2 DEF SelectionInv, DraftsSound, PreviewSound, Superseded, Apart
<1> QED
    BY <1>3, <1>4 DEF DeliverPreview, Discarded, Applies

-----------------------------------------------------------------------------
(* Drafts: every step *)

LEMMA SelectionKeeps == SelectionInv /\ CommitsInv /\ [Next]_vars => SelectionInv'
<1> SUFFICES ASSUME SelectionInv, CommitsInv, [Next]_vars PROVE SelectionInv'
    OBVIOUS
<1>1. CASE UNCHANGED vars
    BY <1>1, Aside DEF vars, server, page, ghosts, SelectionInv, Minutes, PreviewMoves
<1>2. CASE DraftSteps
    <2>1. CASE \E t \in Targets, r \in Range : Drag(t, r) \/ FillIn(t, r) \/ Erase(t, r)
        BY <2>1, AppendKeeps, EraseKeeps DEF Drag, FillIn
    <2>2. CASE \E d \in drafts : Remove(d) \/ \E e \in Typed(d) : Retime(d, e)
        BY <2>2, RemoveKeeps, RetimeKeeps
    <2> QED
        BY <1>2, <2>1, <2>2, StayingSteps, AdvanceKeeps DEF DraftSteps
<1>3. CASE EditSteps
    BY <1>3, StayingSteps, FinishEditKeeps DEF EditSteps
<1>4. CASE ReadSteps
    BY <1>4, StayingSteps, SendPreviewKeeps, DeliverPreviewKeeps DEF ReadSteps
<1>5. CASE OtherSteps
    BY <1>5, StayingSteps, TrimmedKeeps DEF OtherSteps
<1>6. CASE PostSteps
    BY <1>6, StayingSteps, ClearKeeps, TakesKeeps, AnswerKeepsSelection DEF PostSteps
<1> QED
    BY <1>1, <1>2, <1>3, <1>4, <1>5, <1>6, StepsAre

LEMMA SelectionStarts == Init => SelectionInv
<1> SUFFICES ASSUME Init PROVE SelectionInv
    OBVIOUS
<1>1. /\ now = 0 /\ now \in Minutes /\ posts = {} /\ drafts = {}
      /\ selected = Empty /\ refused = Empty /\ preview = Idle
    BY PageAssumption DEF Init, Minutes
<1>2. own \subseteq OwnRow
    <2>1. ASSUME NEW b \in Held
          PROVE  [id |-> <<0, b.target, b.from>>, target |-> b.target, from |-> b.from, to |-> b.to] \in OwnRow
        BY PageAssumption DEF OwnRow, Minutes
    <2> QED
        BY <2>1 DEF Init
<1>3. DraftsSound
    BY <1>1 DEF DraftsSound, Apart, DraftsAreSelection, Covered, Empty
<1>4. PreviewSound
    BY <1>1 DEF PreviewSound, Applies, Idle, Wanted, ReadFields
<1> QED
    BY <1>1, <1>2, <1>3, <1>4 DEF SelectionInv, Empty

LEMMA SelectionInvariant == Spec => []SelectionInv
BY SelectionStarts, SelectionKeeps, CommitsInvariant, PTL DEF Spec

\* useCalendarController.ts, calendar-state.ts: drawing, merging, erasing, typing, adjusting
\* to previews that come late and advancing with the clock neither invent a minute nor lose
\* one, for any groups, minutes, gestures and interleavings.
THEOREM DraftsStaySelection == Spec => []DraftsAreSelection
<1>1. SelectionInv => DraftsAreSelection
    BY DEF SelectionInv, DraftsSound
<1> QED
    BY <1>1, SelectionInvariant, PTL

\* useCalendarController.ts, calendar-state.ts: the drafts on one target never overlap, which
\* is why a minute that is erased or retyped on one of them is in none of the others.
THEOREM DraftsStayApart == Spec => []Apart(drafts)
<1>1. SelectionInv => Apart(drafts)
    BY DEF SelectionInv, DraftsSound
<1> QED
    BY <1>1, SelectionInvariant, PTL
=============================================================================
