----------------------------- MODULE MCRealtime -----------------------------
(* Small instances of the refresh queue of a page (Realtime).  Variables that *)
(* are called like those of the queues in MCDelivery have names of their own, *)
(* so that DeliveryProofs can reason about all three.                         *)
EXTENDS Naturals, FiniteSets, TLC

CONSTANTS Machines, Slots, Window, MaxRevision

VARIABLES
    place, member, lapsed, noticed, live, journal, listening, topic, link, hidden,
    wanted, urgent, timer, reading, asked, heard,
    revision,   \* changes: how often the data changed or the server restarted
    stream,     \* wire: events written and not yet received
    display     \* shown: what the page shows

Q == INSTANCE Realtime
     WITH changes <- revision, wire <- stream, shown <- display, MaxChanges <- MaxRevision

ASSUME SlotsAreTimes == Slots = 1..Cardinality(Slots) /\ Window \subseteq Slots

RefreshSpec == Q!FairSpec

\* Who waits for a refresh gets data read after asking, and what was read before the page
\* heard that rights changed is never shown.
AnswersCurrent == Q!AnswersCurrent

\* A page that stays connected in the end shows what the database holds.
PageCatchesUp == Q!PageCatchesUp
=============================================================================
