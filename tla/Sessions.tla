------------------------------ MODULE Sessions ------------------------------
(***************************************************************************)
(* Who is served as whom (src/lib/server/identity/requester.ts,            *)
(* magic-link.ts, auth/session.ts, oidc.ts, roles.ts, ratelimit.ts,        *)
(* hooks.server.ts and the routes under access/ and auth/).                *)
(*                                                                         *)
(* Two identity models that share nothing.  A requester consumes a link,   *)
(* and a later statement mints the session; the cookie is scoped to one    *)
(* locale's subtree.  A staff member comes back from the identity provider *)
(* with claims; the row is written, older sessions are revoked and a new   *)
(* one is minted in three statements.  Purges, disabling, sign-outs and    *)
(* expiries happen in between.  A request arrives with a token anybody may *)
(* have copied, and is decided by one query.                               *)
(***************************************************************************)
EXTENDS Naturals

CONSTANTS
    Visitors,      \* requesters
    SignInLinks,   \* magic links, of either purpose
    Tabs,          \* verify actions in flight
    Seats,         \* requester_session rows
    Locales,
    Colleagues,    \* OIDC subjects
    StaffSeats,    \* staff_session rows
    Callbacks,     \* logins in flight
    Nobody,        \* no token, no person
    VerifyLimit    \* attempts per window (20 per hour in verify/+page.server.ts)

ASSUME SessionsAssumption ==
    /\ Visitors # {} /\ Locales # {} /\ Colleagues # {}
    /\ Nobody \notin Visitors \cup Locales \cup Seats \cup StaffSeats
    /\ VerifyLimit \in Nat

VARIABLES
    gone,          \* requesters purged
    link,          \* magic_link rows
    tab,           \* verify actions between consuming and minting
    seat,          \* requester_session rows
    jar,           \* requester cookies of one browser, by locale path
    attempts,      \* rate_limit row of that browser's address
    visit,         \* a request carrying a requester token
    colleague,     \* staff_user rows
    staffSeat,     \* staff_session rows
    callback,      \* logins
    pending,       \* the state cookie: which login it belongs to
    staffVisit     \* a request carrying a staff token

visitorVars == <<gone, link, tab, seat, jar, attempts, visit>>
staffVars == <<colleague, staffSeat, callback, pending, staffVisit>>
sessionVars == <<visitorVars, staffVars>>

SessionRow(People) == [state : {"none", "live", "expired", "revoked"}, of : People]
NoSession(People) == [state |-> "none", of |-> CHOOSE p \in People : TRUE]

(* A request: ended is history, whether the session or its owner had       *)
(* already ended when it arrived; an owner enabled since is pardoned.      *)
VisitRow(Tokens) == [phase : {"idle", "arrived", "served"}, token : Tokens \cup {Nobody},
                     at : Locales \cup {Nobody}, ended : BOOLEAN]
NoVisit == [phase |-> "idle", token |-> Nobody, at |-> Nobody, ended |-> FALSE]

(* validateRequesterSession: one row, not revoked, not expired, and its    *)
(* owner not purged whether or not a job has revoked anything.             *)
FaultySessionOf(s) == seat[s].state = "live"
SessionOf(s) == seat[s].state = "live" /\ seat[s].of \notin gone

(* validateStaffSession, and a role the hook knows.                        *)
StaffSessionOf(s) ==
    staffSeat[s].state = "live" /\ ~ colleague[staffSeat[s].of].disabled

SessionsInit ==
    /\ gone = {}
    /\ link = [k \in SignInLinks |-> [state |-> "none", of |-> CHOOSE v \in Visitors : TRUE]]
    /\ tab = [t \in Tabs |-> [of |-> Nobody, at |-> CHOOSE l \in Locales : TRUE]]
    /\ seat = [s \in Seats |-> NoSession(Visitors)]
    /\ jar = [l \in Locales |-> Nobody]
    /\ attempts = 0
    /\ visit = NoVisit
    /\ colleague = [u \in Colleagues |-> [role |-> "none", disabled |-> FALSE]]
    /\ staffSeat = [s \in StaffSeats |-> NoSession(Colleagues)]
    /\ callback = [c \in Callbacks |-> [phase |-> "idle", of |-> CHOOSE u \in Colleagues : TRUE]]
    /\ pending = Nobody
    /\ staffVisit = NoVisit
-----------------------------------------------------------------------------
(* issueMagicLink; a link past its expiry is as good as spent.             *)
IssueLink(k, v) ==
    /\ link[k].state = "none"
    /\ link' = [link EXCEPT ![k] = [state |-> "live", of |-> v]]
    /\ UNCHANGED <<gone, tab, seat, jar, attempts, visit>>

SignInLinkExpires(k) ==
    /\ link[k].state = "live"
    /\ link' = [link EXCEPT ![k].state = "spent"]
    /\ UNCHANGED <<gone, tab, seat, jar, attempts, visit>>

(* consumeRateLimit: the upsert counts the attempt, refused ones included; *)
(* a window that has aged out, or that the sweep removed, starts again.    *)
Counted == attempts' = IF attempts > VerifyLimit THEN attempts ELSE attempts + 1

WindowPasses ==
    /\ attempts > 0
    /\ attempts' = 0
    /\ UNCHANGED <<gone, link, tab, seat, jar, visit>>

(* consumeMagicLink, for verifyRequest and consumeSignInLink, one purpose  *)
(* each: one UPDATE that requires the link to be unspent.                  *)
Consumable(k) == link[k].state = "live"

(* The verify action: limited, then whichever purpose the link has.        *)
Consume(t, k, l) ==
    /\ tab[t].of = Nobody
    /\ Counted
    /\ IF attempts < VerifyLimit /\ Consumable(k)
         THEN /\ link' = [link EXCEPT ![k].state = "spent"]
              /\ tab' = [tab EXCEPT ![t] = [of |-> link[k].of, at |-> l]]
         ELSE UNCHANGED <<link, tab>>
    /\ UNCHANGED <<gone, seat, jar, visit>>

(* createRequesterSession, a statement of its own, and the cookie at the   *)
(* path of the locale the link was opened under.                           *)
Mint(t, s) ==
    /\ tab[t].of # Nobody /\ seat[s].state = "none"
    /\ seat' = [seat EXCEPT ![s] = [state |-> "live", of |-> tab[t].of]]
    /\ jar' = [jar EXCEPT ![tab[t].at] = s]
    /\ tab' = [tab EXCEPT ![t].of = Nobody]
    /\ UNCHANGED <<gone, link, attempts, visit>>

(* The process dies, or the insert fails: the link is spent all the same.  *)
MintFails(t) ==
    /\ tab[t].of # Nobody
    /\ tab' = [tab EXCEPT ![t].of = Nobody]
    /\ UNCHANGED <<gone, link, seat, jar, attempts, visit>>

SessionExpires(s) ==
    /\ seat[s].state = "live"
    /\ seat' = [seat EXCEPT ![s].state = "expired"]
    /\ UNCHANGED <<gone, link, tab, jar, attempts, visit>>

(* access/switch: the token moves to the target's path with the session's  *)
(* own expiry, and is dropped from the path being left even when the two   *)
(* are the same.                                                           *)
SwitchLocale(from, to) ==
    /\ jar[from] # Nobody
    /\ LET moved == IF SessionOf(jar[from]) THEN [jar EXCEPT ![to] = jar[from]] ELSE jar
       IN  jar' = [moved EXCEPT ![from] = Nobody]
    /\ UNCHANGED <<gone, link, tab, seat, attempts, visit>>

(* access/logout: revoked at the server, whatever state it was in.         *)
SignOut(l) ==
    /\ jar[l] # Nobody
    /\ seat' = [seat EXCEPT ![jar[l]].state = "revoked"]
    /\ jar' = [jar EXCEPT ![l] = Nobody]
    /\ UNCHANGED <<gone, link, tab, attempts, visit>>

(* purgeRequester, as far as sessions go: revokeAllRequesterSessions and   *)
(* purged_at in one transaction.  A session inserted later is not revoked. *)
PurgeVisitor(v) ==
    /\ v \notin gone
    /\ gone' = gone \cup {v}
    /\ seat' = [s \in Seats |-> IF seat[s].state # "none" /\ seat[s].of = v
                                  THEN [seat[s] EXCEPT !.state = "revoked"] ELSE seat[s]]
    /\ UNCHANGED <<link, tab, jar, attempts, visit>>

(* A request below /access, with this browser's cookie or a copied token.  *)
Arrive(s, l) ==
    /\ visit.phase = "idle" /\ seat[s].state # "none"
    /\ l # Nobody => jar[l] = s
    /\ visit' = [phase |-> "arrived", token |-> s, at |-> l,
                 ended |-> seat[s].state # "live" \/ seat[s].of \in gone]
    /\ UNCHANGED <<gone, link, tab, seat, jar, attempts>>

(* handleRequest: served as the owner, or the cookie is deleted with the   *)
(* attributes it was set with and the layout redirects to the form.        *)
Validate ==
    /\ visit.phase = "arrived"
    /\ IF SessionOf(visit.token)
         THEN visit' = [visit EXCEPT !.phase = "served"] /\ UNCHANGED jar
         ELSE /\ visit' = NoVisit
              /\ jar' = [l \in Locales |-> IF l = visit.at THEN Nobody ELSE jar[l]]
    /\ UNCHANGED <<gone, link, tab, seat, attempts>>

Respond ==
    /\ visit.phase = "served"
    /\ visit' = NoVisit
    /\ UNCHANGED <<gone, link, tab, seat, jar, attempts>>

VisitorNext ==
    /\ \/ \E k \in SignInLinks :
            \/ \E v \in Visitors : IssueLink(k, v)
            \/ SignInLinkExpires(k)
            \/ \E t \in Tabs, l \in Locales : Consume(t, k, l)
       \/ WindowPasses
       \/ \E t \in Tabs : (\E s \in Seats : Mint(t, s)) \/ MintFails(t)
       \/ \E s \in Seats : SessionExpires(s) \/ \E l \in Locales \cup {Nobody} : Arrive(s, l)
       \/ \E from, to \in Locales : SwitchLocale(from, to)
       \/ \E l \in Locales : SignOut(l)
       \/ \E v \in Visitors : PurgeVisitor(v)
       \/ Validate
       \/ Respond
    /\ UNCHANGED staffVars
-----------------------------------------------------------------------------
(* beginLogin: one state cookie per browser, so a second tab replaces the  *)
(* first one's.                                                            *)
BeginLogin(c, u) ==
    /\ callback[c].phase = "idle"
    /\ callback' = [callback EXCEPT ![c] = [phase |-> "sent", of |-> u]]
    /\ pending' = c
    /\ UNCHANGED <<colleague, staffSeat, staffVisit>>

(* The provider refused: recorded before the cookies are touched.          *)
Refused(c) ==
    /\ callback[c].phase = "sent"
    /\ callback' = [callback EXCEPT ![c].phase = "idle"]
    /\ UNCHANGED <<colleague, staffSeat, pending, staffVisit>>

(* No row is written, and sessions the person holds are left alone.        *)
TurnedAway(c) ==
    /\ callback[c].phase = "sent"
    /\ callback' = [callback EXCEPT ![c].phase = "idle"]
    /\ pending' = Nobody
    /\ UNCHANGED <<colleague, staffSeat, staffVisit>>

(* The state cookie is missing or another login's.                         *)
StateMismatch(c) == pending # c /\ TurnedAway(c)

(* completeLogin throws, or a claim is missing.                            *)
ExchangeFails(c) == pending = c /\ TurnedAway(c)

(* mapRole over extractGroups: admin wins, and neither is no role.         *)
RoleOf(groups) ==
    IF "admin" \in groups THEN "admin" ELSE IF "approver" \in groups THEN "approver" ELSE "none"

(* None of the groups maps to a role.                                      *)
DeniedRole(c, groups) == pending = c /\ RoleOf(groups) = "none" /\ TurnedAway(c)

(* upsertStaffUser: the role of the latest login is the role of the row,   *)
(* a disabled one's too; the row it returns says whether to go on.         *)
RecogniseStaff(c, groups) ==
    LET u == callback[c].of
    IN  /\ callback[c].phase = "sent" /\ pending = c
        /\ RoleOf(groups) # "none"
        /\ colleague' = [colleague EXCEPT ![u].role = RoleOf(groups)]
        /\ callback' = [callback EXCEPT ![c].phase =
                            IF colleague[u].disabled THEN "idle" ELSE "known"]
        /\ pending' = Nobody
        /\ UNCHANGED <<staffSeat, staffVisit>>

(* revokeAllStaffSessions, before the new session is minted.               *)
RevokeOthers(c) ==
    /\ callback[c].phase = "known"
    /\ staffSeat' = [s \in StaffSeats |->
           IF staffSeat[s].state # "none" /\ staffSeat[s].of = callback[c].of
             THEN [staffSeat[s] EXCEPT !.state = "revoked"] ELSE staffSeat[s]]
    /\ callback' = [callback EXCEPT ![c].phase = "cleared"]
    /\ UNCHANGED <<colleague, pending, staffVisit>>

MintStaff(c, s) ==
    /\ callback[c].phase = "cleared" /\ staffSeat[s].state = "none"
    /\ staffSeat' = [staffSeat EXCEPT ![s] = [state |-> "live", of |-> callback[c].of]]
    /\ callback' = [callback EXCEPT ![c].phase = "idle"]
    /\ UNCHANGED <<colleague, pending, staffVisit>>

(* The process dies between two statements of a callback.                  *)
LoginLost(c) ==
    /\ callback[c].phase \in {"known", "cleared"}
    /\ callback' = [callback EXCEPT ![c].phase = "idle"]
    /\ UNCHANGED <<colleague, staffSeat, pending, staffVisit>>

(* An operator sets disabled_at in the database, or clears it; no code     *)
(* does.  A session that has not ended by itself is as good as before.     *)
Disable(u) ==
    /\ colleague[u].role # "none" /\ ~ colleague[u].disabled
    /\ colleague' = [colleague EXCEPT ![u].disabled = TRUE]
    /\ UNCHANGED <<staffSeat, callback, pending, staffVisit>>

Enable(u) ==
    LET s == staffVisit.token
        pardoned == staffVisit.phase # "idle" /\ staffSeat[s].state = "live" /\ staffSeat[s].of = u
    IN  /\ colleague[u].disabled
        /\ colleague' = [colleague EXCEPT ![u].disabled = FALSE]
        /\ staffVisit' = [staffVisit EXCEPT !.ended = @ /\ ~ pardoned]
        /\ UNCHANGED <<staffSeat, callback, pending>>

StaffSessionEnds(s, how) ==
    /\ staffSeat[s].state = "live" \/ (how = "revoked" /\ staffSeat[s].state = "expired")
    /\ staffSeat' = [staffSeat EXCEPT ![s].state = how]
    /\ UNCHANGED <<colleague, callback, pending, staffVisit>>

ArriveStaff(s) ==
    /\ staffVisit.phase = "idle" /\ staffSeat[s].state # "none"
    /\ staffVisit' = [phase |-> "arrived", token |-> s, at |-> Nobody,
                      ended |-> \/ staffSeat[s].state # "live"
                                \/ colleague[staffSeat[s].of].disabled]
    /\ UNCHANGED <<colleague, staffSeat, callback, pending>>

ValidateStaff ==
    /\ staffVisit.phase = "arrived"
    /\ staffVisit' = IF StaffSessionOf(staffVisit.token)
                       THEN [staffVisit EXCEPT !.phase = "served"] ELSE NoVisit
    /\ UNCHANGED <<colleague, staffSeat, callback, pending>>

RespondStaff ==
    /\ staffVisit.phase = "served"
    /\ staffVisit' = NoVisit
    /\ UNCHANGED <<colleague, staffSeat, callback, pending>>

StaffNext ==
    /\ \/ \E c \in Callbacks :
            \/ \E u \in Colleagues : BeginLogin(c, u)
            \/ Refused(c)
            \/ StateMismatch(c)
            \/ ExchangeFails(c)
            \/ \E groups \in SUBSET {"admin", "approver"} :
                  DeniedRole(c, groups) \/ RecogniseStaff(c, groups)
            \/ RevokeOthers(c)
            \/ \E s \in StaffSeats : MintStaff(c, s)
            \/ LoginLost(c)
       \/ \E u \in Colleagues : Disable(u) \/ Enable(u)
       \/ \E s \in StaffSeats :
            \/ \E how \in {"expired", "revoked"} : StaffSessionEnds(s, how)
            \/ ArriveStaff(s)
       \/ ValidateStaff
       \/ RespondStaff
    /\ UNCHANGED visitorVars

SessionsSpec == SessionsInit /\ [][VisitorNext \/ StaffNext]_sessionVars

SessionsTypeOK ==
    /\ gone \subseteq Visitors
    /\ link \in [SignInLinks -> [state : {"none", "live", "spent"}, of : Visitors]]
    /\ tab \in [Tabs -> [of : Visitors \cup {Nobody}, at : Locales]]
    /\ seat \in [Seats -> SessionRow(Visitors)]
    /\ jar \in [Locales -> Seats \cup {Nobody}]
    /\ attempts \in 0 .. VerifyLimit + 1
    /\ visit \in VisitRow(Seats)
    /\ colleague \in [Colleagues -> [role : {"none", "admin", "approver"}, disabled : BOOLEAN]]
    /\ staffSeat \in [StaffSeats -> SessionRow(Colleagues)]
    /\ callback \in [Callbacks -> [phase : {"idle", "sent", "known", "cleared"}, of : Colleagues]]
    /\ pending \in Callbacks \cup {Nobody}
    /\ staffVisit \in VisitRow(StaffSeats)

(* Nobody is served on a session that had ended, or as somebody who had    *)
(* been purged or disabled, when the request arrived, unless an operator   *)
(* enabled them again while it was decided: also when the session was      *)
(* minted after the purge revoked the others, by a link consumed before it *)
(* (requester.ts:130 "the guard that matters must not depend on a job      *)
(* having run").                                                           *)
OnlyTheLiveAreServed ==
    /\ visit.phase = "served" => ~ visit.ended
    /\ staffVisit.phase = "served" => ~ staffVisit.ended
=============================================================================
