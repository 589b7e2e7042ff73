--------------------------- MODULE Subscriptions ---------------------------
(***************************************************************************)
(* Update posts and those who subscribe to them: subscriptions/index.ts,   *)
(* subscriptions/notify.ts, the pages under /subscribe and the post editor *)
(* (content/updates.ts, admin/updates/[id]).                               *)
(*                                                                         *)
(* A row remembers by a cursor which posts it was told of.  The notice job *)
(* reads in one statement and queues and advances in a later transaction;  *)
(* in between subscribers save and leave, and the operator publishes.  The *)
(* clock counts minutes, the precision of the date an operator enters.     *)
(***************************************************************************)
EXTENDS Naturals, FiniteSets

CONSTANTS
    Addresses,
    Posts,
    Topics,          \* UPDATE_KINDS
    TopicOf,         \* update_post.kind
    MaxSubs,         \* bound: rows of subscription ever inserted
    NoticeLimit,     \* DEFAULT_LIMIT
    MaxMinute        \* bound: the clock

ASSUME SubscriptionAssumption ==
    /\ TopicOf \in [Posts -> Topics]
    /\ {MaxSubs, NoticeLimit, MaxMinute} \subseteq Nat \ {0}

VARIABLES
    sub, post, minute,
    plans,           \* of the tick between its select and its update
    told,            \* history: posts, as they were dated, mailed to a row
    between          \* history: posts that went live, dated as they did, while a
                     \* tick was in between

subsVars == <<sub, post, minute, plans, told, between>>

Subs == 1..MaxSubs
Never == 0                                           \* published_at IS NULL
SubRow == [state : {"absent", "unconfirmed", "confirmed", "gone"}, to : Addresses,
           topics : SUBSET Topics, link : BOOLEAN, cursor : 0..MaxMinute,
           floor : 0..MaxMinute]                     \* history: last confirmed or saved
Plan == [id : Subs, cursor : 1..MaxMinute, posts : SUBSET (Posts \X (1..MaxMinute))]
-----------------------------------------------------------------------------
SubsInit ==
    /\ sub \in [Subs -> {r \in SubRow : r.state = "absent" /\ r.topics = {} /\ ~r.link
                                        /\ r.cursor = 0 /\ r.floor = 0
                                        /\ r.to = CHOOSE a \in Addresses : TRUE}]
    /\ post = [p \in Posts |-> [date |-> Never, translated |-> FALSE]]
    /\ minute = 0
    /\ plans = {} /\ told = [i \in Subs |-> {}] /\ between = {}

Of(a) == {i \in Subs : sub[i].state \in {"unconfirmed", "confirmed"} /\ sub[i].to = a}
NextSub == Cardinality({i \in Subs : sub[i].state # "absent"}) + 1

(* subscribe: a new row, a new link for one that was never confirmed, and  *)
(* nothing at all for one that was.                                        *)
Subscribe(a, topics) ==
    /\ topics # {}
    /\ \A i \in Of(a) : sub[i].state = "unconfirmed"
    /\ \E i \in IF Of(a) = {} THEN {NextSub} \cap Subs ELSE Of(a) :
           sub' = [sub EXCEPT ![i].state = "unconfirmed", ![i].to = a, ![i].topics = topics,
                              ![i].link = TRUE]
    /\ UNCHANGED <<post, minute, plans, told, between>>

(* confirmSubscription: one conditional update.                            *)
ConfirmSubscription(i) ==
    /\ sub[i].state = "unconfirmed" /\ sub[i].link
    /\ sub' = [sub EXCEPT ![i].state = "confirmed", ![i].link = FALSE,
                          ![i].cursor = minute, ![i].floor = minute]
    /\ UNCHANGED <<post, minute, plans, told, between>>

LinkExpires(i) ==
    /\ sub[i].state = "unconfirmed" /\ sub[i].link
    /\ sub' = [sub EXCEPT ![i].link = FALSE]
    /\ UNCHANGED <<post, minute, plans, told, between>>

SweepUnconfirmed ==
    /\ sub' = [i \in Subs |-> IF sub[i].state = "unconfirmed" /\ ~sub[i].link
                              THEN [sub[i] EXCEPT !.state = "gone"] ELSE sub[i]]
    /\ UNCHANGED <<post, minute, plans, told, between>>

(* saveSubscription pushes the cursor whatever the topics become.          *)
Saved(row, topics) == [row EXCEPT !.topics = topics, !.cursor = minute, !.floor = minute]

SaveSubscription(i, topics) ==
    /\ sub[i].state = "confirmed" /\ topics # {}
    /\ sub' = [sub EXCEPT ![i] = Saved(sub[i], topics)]
    /\ UNCHANGED <<post, minute, plans, told, between>>

Unsubscribe(i) ==
    /\ sub[i].state = "confirmed"
    /\ sub' = [sub EXCEPT ![i].state = "gone"]
    /\ UNCHANGED <<post, minute, plans, told, between>>
-----------------------------------------------------------------------------
IsLive(p) == post[p].date \in 1..minute
IsLiveNext(p) == post'[p].date \in 1..minute'
NotesLive ==
    between' = IF plans = {} THEN between
               ELSE between \cup {p \in Posts : ~IsLive(p) /\ IsLiveNext(p) /\ post'[p].date = minute'}

(* saveMetaAction of the editor.  A date may be any minute, or none.       *)
SaveMeta(p, date) ==
    /\ post' = [post EXCEPT ![p].date = date]
    /\ UNCHANGED <<sub, minute, plans, told>>
    /\ NotesLive

SaveTranslations(p) ==
    /\ ~post[p].translated
    /\ post' = [post EXCEPT ![p].translated = TRUE]
    /\ UNCHANGED <<sub, minute, plans, told, between>>

DeleteUpdate(p) ==
    /\ post' = [post EXCEPT ![p].date = Never, ![p].translated = FALSE]
    /\ UNCHANGED <<sub, minute, plans, told, between>>

PassMinute ==
    /\ minute < MaxMinute /\ minute' = minute + 1
    /\ UNCHANGED <<sub, post, plans, told>>
    /\ NotesLive
-----------------------------------------------------------------------------
(* notifySubscribers.  The select takes the most overdue rows and, for     *)
(* each, its posts beyond the cursor; planNotices moves the cursor to the  *)
(* latest of them, also past those that cannot be rendered.                *)
News(i) == {p \in Posts : IsLive(p) /\ TopicOf[p] \in sub[i].topics /\ post[p].date > sub[i].cursor}
DueSubs == {i \in Subs : sub[i].state = "confirmed" /\ News(i) # {}}
IsMostOverdue(S) ==
    /\ S = DueSubs \/ Cardinality(S) = NoticeLimit
    /\ Cardinality(S) <= NoticeLimit
    /\ \A i \in S, j \in DueSubs \ S : sub[i].cursor <= sub[j].cursor
PlanFor(i) ==
    [id |-> i,
     cursor |-> CHOOSE d \in 1..MaxMinute : /\ \E p \in News(i) : post[p].date = d
                                            /\ \A p \in News(i) : post[p].date <= d,
     posts |-> {<<p, post[p].date>> : p \in {q \in News(i) : post[q].translated}}]

NotifyRead ==
    /\ plans = {} /\ DueSubs # {}
    /\ \E S \in SUBSET DueSubs : /\ IsMostOverdue(S)
                                 /\ plans' = {PlanFor(i) : i \in S}
    /\ UNCHANGED <<sub, post, minute, told, between>>

(* The update matches no row that has left and none whose cursor a save    *)
(* has pushed on; the mail is queued all the same.                         *)
FaultyAdvanced(row, cursor) == [row EXCEPT !.cursor = cursor]
Advanced(row, cursor) ==
    IF row.state = "confirmed" /\ row.cursor < cursor THEN [row EXCEPT !.cursor = cursor] ELSE row

NotifyCommit ==
    /\ plans # {} /\ plans' = {}
    /\ sub' = [i \in Subs |-> IF \E n \in plans : n.id = i
                              THEN Advanced(sub[i], (CHOOSE n \in plans : n.id = i).cursor) ELSE sub[i]]
    /\ told' = [i \in Subs |-> told[i] \cup UNION {n.posts : n \in {x \in plans : x.id = i}}]
    /\ UNCHANGED <<post, minute, between>>

(* The process dies before the commit: nothing was queued or advanced.     *)
NotifyLost ==
    /\ plans # {} /\ plans' = {}
    /\ UNCHANGED <<sub, post, minute, told, between>>

SubsNext ==
    \/ \E a \in Addresses, topics \in SUBSET Topics : Subscribe(a, topics)
    \/ \E i \in Subs : \/ ConfirmSubscription(i) \/ LinkExpires(i) \/ Unsubscribe(i)
                       \/ \E topics \in SUBSET Topics : SaveSubscription(i, topics)
    \/ SweepUnconfirmed
    \/ \E p \in Posts : \/ \E date \in 0..MaxMinute : SaveMeta(p, date)
                        \/ SaveTranslations(p) \/ DeleteUpdate(p)
    \/ PassMinute
    \/ NotifyRead \/ NotifyCommit \/ NotifyLost

SubsSpec == SubsInit /\ [][SubsNext]_subsVars
-----------------------------------------------------------------------------
SubsTypeOK ==
    /\ sub \in [Subs -> SubRow]
    /\ \A p \in Posts : post[p].date \in 0..MaxMinute /\ post[p].translated \in BOOLEAN
    /\ minute \in 0..MaxMinute
    /\ plans \subseteq Plan
    /\ told \in [Subs -> SUBSET (Posts \X (0..MaxMinute))]
    /\ between \subseteq Posts

(* A notice never repeats a post and never brings the back catalogue: a    *)
(* confirmed row's cursor is past everything it was told of and past the   *)
(* moment it was last confirmed or saved, although a save may fall between *)
(* the select and the update of a notice run (notifySubscribers,           *)
(* saveSubscription, confirmSubscription).                                 *)
NoticesAreNews ==
    \A i \in Subs : sub[i].state = "confirmed" =>
        /\ sub[i].cursor >= sub[i].floor
        /\ \A x \in told[i] : x[2] <= sub[i].cursor

(* "A post going live between the select and the update would otherwise be *)
(* stepped over permanently" (docs, P4.7): none does, and is left behind   *)
(* the cursor of a row that has subscribed to its topic.  A post dated     *)
(* before it went live is not meant to be announced.                       *)
NothingSteppedOver ==
    \A i \in Subs, p \in between :
        /\ plans = {} /\ sub[i].state = "confirmed" /\ TopicOf[p] \in sub[i].topics
        /\ IsLive(p) /\ post[p].translated /\ post[p].date > sub[i].floor
        => \/ post[p].date > sub[i].cursor
           \/ <<p, post[p].date>> \in told[i]
=============================================================================
