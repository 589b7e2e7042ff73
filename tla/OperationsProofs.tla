-------------------------- MODULE OperationsProofs --------------------------
(***************************************************************************)
(* What the portal guarantees of its sessions, its public pages, its       *)
(* disclosures and its rules, for any number of people, links, tabs,       *)
(* sessions, logins, documents, exhibits, headings, languages,             *)
(* subprocessors, posts, domains and rules; and that what runs beside      *)
(* them keeps its types.                                                   *)
(*                                                                         *)
(* Sessions. SessionsTypeOK is inductive by itself. What makes             *)
(* OnlyTheLiveAreServed inductive is that a row once in use never comes    *)
(* back: it keeps its owner, an ended one stays ended, a purge is final    *)
(* and a disablement lasts until its owner is enabled again. A request on  *)
(* an ended row is then refused whenever it is decided.                    *)
(*                                                                         *)
(* Pages. The invariant follows the links from where they are read. A row  *)
(* marked free was public when the page was opened; evidence and           *)
(* certificates are public when the links are read; and whatever is public *)
(* at any moment while a page is open is recorded.                         *)
(*                                                                         *)
(* Disclosures. What the admin list warns about is computed from the rows  *)
(* each time it is read, so a warning comes and goes with a post; each     *)
(* part is a fact about one subprocessor whose row stays.                  *)
(*                                                                         *)
(* Rules. A fold is described by its prefixes (FoldRuns), so the reduce of *)
(* matchRule is followed row by row: what it holds is the first of the     *)
(* rows so far in the order Before, which is total on the rules that match *)
(* one domain unless two of them are tied. Wildcards that match a domain   *)
(* are suffixes of it, which is why equally long ones are equal.           *)
(***************************************************************************)
EXTENDS MCOperations, EgressProofs, SinkProofs, MailProofs, SequenceTheorems

VisitorTypes ==
    /\ gone \subseteq Visitors
    /\ link \in [SignInLinks -> [state : {"none", "live", "spent"}, of : Visitors]]
    /\ tab \in [Tabs -> [of : Visitors \cup {Nobody}, at : Locales]]
    /\ seat \in [Seats -> SessionRow(Visitors)]
    /\ jar \in [Locales -> Seats \cup {Nobody}]
    /\ attempts \in 0 .. VerifyLimit + 1
    /\ visit \in VisitRow(Seats)

StaffTypes ==
    /\ colleague \in [Colleagues -> [role : {"none", "admin", "approver"}, disabled : BOOLEAN]]
    /\ staffSeat \in [StaffSeats -> SessionRow(Colleagues)]
    /\ callback \in [Callbacks -> [phase : {"idle", "sent", "known", "cleared"}, of : Colleagues]]
    /\ pending \in Callbacks \cup {Nobody}
    /\ staffVisit \in VisitRow(StaffSeats)

LEMMA TypesSplit == SessionsTypeOK <=> VisitorTypes /\ StaffTypes
  BY DEF SessionsTypeOK, VisitorTypes, StaffTypes

(* The actions of VisitorNext, one disjunct each.                          *)
VisitorStep ==
    \/ \E k \in SignInLinks, v \in Visitors : IssueLink(k, v)
    \/ \E k \in SignInLinks : SignInLinkExpires(k)
    \/ \E k \in SignInLinks, t \in Tabs, l \in Locales : Consume(t, k, l)
    \/ WindowPasses
    \/ \E t \in Tabs, s \in Seats : Mint(t, s)
    \/ \E t \in Tabs : MintFails(t)
    \/ \E s \in Seats : SessionExpires(s)
    \/ \E s \in Seats, l \in Locales \cup {Nobody} : Arrive(s, l)
    \/ \E from, to \in Locales : SwitchLocale(from, to)
    \/ \E l \in Locales : SignOut(l)
    \/ \E v \in Visitors : PurgeVisitor(v)
    \/ Validate
    \/ Respond

StaffStep ==
    \/ \E c \in Callbacks, u \in Colleagues : BeginLogin(c, u)
    \/ \E c \in Callbacks : Refused(c)
    \/ \E c \in Callbacks : TurnedAway(c)
    \/ \E c \in Callbacks, groups \in SUBSET {"admin", "approver"} : RecogniseStaff(c, groups)
    \/ \E c \in Callbacks : RevokeOthers(c)
    \/ \E c \in Callbacks, s \in StaffSeats : MintStaff(c, s)
    \/ \E c \in Callbacks : LoginLost(c)
    \/ \E u \in Colleagues : Disable(u)
    \/ \E u \in Colleagues : Enable(u)
    \/ \E s \in StaffSeats, how \in {"expired", "revoked"} : StaffSessionEnds(s, how)
    \/ \E s \in StaffSeats : ArriveStaff(s)
    \/ ValidateStaff
    \/ RespondStaff

LEMMA VisitorSteps == VisitorNext => VisitorStep /\ UNCHANGED staffVars
  BY DEF VisitorNext, VisitorStep

LEMMA StaffSteps == StaffNext => StaffStep /\ UNCHANGED visitorVars
  BY DEF StaffNext, StaffStep, StateMismatch, ExchangeFails, DeniedRole
-----------------------------------------------------------------------------
LEMMA SessionsStartTyped == SessionsInit => SessionsTypeOK
  <1> SUFFICES ASSUME SessionsInit PROVE SessionsTypeOK
    OBVIOUS
  <1>1. /\ (CHOOSE v \in Visitors : TRUE) \in Visitors
        /\ (CHOOSE l \in Locales : TRUE) \in Locales
        /\ (CHOOSE u \in Colleagues : TRUE) \in Colleagues
    BY SessionsAssumption
  <1>2. VisitorTypes
    <2>1. link \in [SignInLinks -> [state : {"none", "live", "spent"}, of : Visitors]]
      BY <1>1 DEF SessionsInit
    <2>2. tab \in [Tabs -> [of : Visitors \cup {Nobody}, at : Locales]]
      BY <1>1 DEF SessionsInit
    <2>3. seat \in [Seats -> SessionRow(Visitors)]
      BY <1>1 DEF SessionsInit, SessionRow, NoSession
    <2>4. visit \in VisitRow(Seats)
      BY DEF SessionsInit, VisitRow, NoVisit
    <2>5. attempts \in 0 .. VerifyLimit + 1
      BY SessionsAssumption DEF SessionsInit
    <2> QED
      BY <2>1, <2>2, <2>3, <2>4, <2>5 DEF SessionsInit, VisitorTypes
  <1>3. StaffTypes
    BY <1>1, SessionsAssumption
    DEF SessionsInit, StaffTypes, SessionRow, NoSession, VisitRow, NoVisit
  <1> QED
    BY <1>2, <1>3, TypesSplit

LEMMA VisitorTypesKept == ASSUME VisitorTypes, VisitorStep PROVE VisitorTypes'
  <1> USE SessionsAssumption DEF VisitorTypes
  <1>1. ASSUME NEW k \in SignInLinks, NEW v \in Visitors, IssueLink(k, v) PROVE VisitorTypes'
    BY <1>1 DEF IssueLink
  <1>2. ASSUME NEW k \in SignInLinks, SignInLinkExpires(k) PROVE VisitorTypes'
    BY <1>2 DEF SignInLinkExpires
  <1>3. ASSUME NEW k \in SignInLinks, NEW t \in Tabs, NEW l \in Locales, Consume(t, k, l)
        PROVE VisitorTypes'
    <2>1. attempts' \in 0 .. VerifyLimit + 1
      BY <1>3 DEF Consume, Counted
    <2>2. CASE attempts < VerifyLimit /\ Consumable(k)
      <3>1. link' \in [SignInLinks -> [state : {"none", "live", "spent"}, of : Visitors]]
        BY <1>3, <2>2 DEF Consume
      <3>2. tab' \in [Tabs -> [of : Visitors \cup {Nobody}, at : Locales]]
        BY <1>3, <2>2 DEF Consume
      <3> QED
        BY <1>3, <2>1, <3>1, <3>2 DEF Consume
    <2>3. CASE ~ (attempts < VerifyLimit /\ Consumable(k))
      BY <1>3, <2>1, <2>3 DEF Consume
    <2> QED
      BY <2>2, <2>3
  <1>4. ASSUME WindowPasses PROVE VisitorTypes'
    BY <1>4 DEF WindowPasses
  <1>5. ASSUME NEW t \in Tabs, NEW s \in Seats, Mint(t, s) PROVE VisitorTypes'
    <2>1. seat' \in [Seats -> SessionRow(Visitors)]
      BY <1>5 DEF Mint, SessionRow
    <2>2. jar' \in [Locales -> Seats \cup {Nobody}]
      BY <1>5 DEF Mint
    <2>3. tab' \in [Tabs -> [of : Visitors \cup {Nobody}, at : Locales]]
      BY <1>5 DEF Mint
    <2> QED
      BY <1>5, <2>1, <2>2, <2>3 DEF Mint
  <1>6. ASSUME NEW t \in Tabs, MintFails(t) PROVE VisitorTypes'
    BY <1>6 DEF MintFails
  <1>7. ASSUME NEW s \in Seats, SessionExpires(s) PROVE VisitorTypes'
    BY <1>7 DEF SessionExpires, SessionRow
  <1>8. ASSUME NEW s \in Seats, NEW l \in Locales \cup {Nobody}, Arrive(s, l) PROVE VisitorTypes'
    BY <1>8 DEF Arrive, VisitRow
  <1>9. ASSUME NEW from \in Locales, NEW to \in Locales, SwitchLocale(from, to)
        PROVE VisitorTypes'
    <2> DEFINE moved == IF SessionOf(jar[from]) THEN [jar EXCEPT ![to] = jar[from]] ELSE jar
    <2>1. moved \in [Locales -> Seats \cup {Nobody}]
      <3>1. jar[from] \in Seats \cup {Nobody}
        OBVIOUS
      <3> QED
        BY <3>1
    <2>2. jar' = [moved EXCEPT ![from] = Nobody]
      BY <1>9 DEF SwitchLocale
    <2> HIDE DEF moved
    <2>3. jar' \in [Locales -> Seats \cup {Nobody}]
      BY <2>1, <2>2
    <2> QED
      BY <1>9, <2>3 DEF SwitchLocale
  <1>10. ASSUME NEW l \in Locales, SignOut(l) PROVE VisitorTypes'
    <2>1. seat' \in [Seats -> SessionRow(Visitors)]
      BY <1>10 DEF SignOut, SessionRow
    <2> QED
      BY <1>10, <2>1 DEF SignOut
  <1>11. ASSUME NEW v \in Visitors, PurgeVisitor(v) PROVE VisitorTypes'
    <2>1. seat' \in [Seats -> SessionRow(Visitors)]
      BY <1>11 DEF PurgeVisitor, SessionRow
    <2> QED
      BY <1>11, <2>1 DEF PurgeVisitor
  <1>12. ASSUME Validate PROVE VisitorTypes'
    <2>1. visit' \in VisitRow(Seats)
      <3>1. [visit EXCEPT !.phase = "served"] \in VisitRow(Seats)
        BY DEF VisitRow
      <3>2. NoVisit \in VisitRow(Seats)
        BY DEF VisitRow, NoVisit
      <3> QED
        BY ONLY <1>12, <3>1, <3>2 DEF Validate
    <2>2. jar' \in [Locales -> Seats \cup {Nobody}]
      BY <1>12 DEF Validate
    <2> QED
      BY <1>12, <2>1, <2>2 DEF Validate
  <1>13. ASSUME Respond PROVE VisitorTypes'
    BY <1>13 DEF Respond, VisitRow, NoVisit
  <1> QED
    BY <1>1, <1>2, <1>3, <1>4, <1>5, <1>6, <1>7, <1>8, <1>9, <1>10, <1>11, <1>12, <1>13
    DEF VisitorStep

LEMMA StaffTypesKept == ASSUME StaffTypes, StaffStep PROVE StaffTypes'
  <1> USE SessionsAssumption DEF StaffTypes
  <1>1. ASSUME NEW c \in Callbacks, NEW u \in Colleagues, BeginLogin(c, u) PROVE StaffTypes'
    BY <1>1 DEF BeginLogin
  <1>2. ASSUME NEW c \in Callbacks, Refused(c) PROVE StaffTypes'
    BY <1>2 DEF Refused
  <1>3. ASSUME NEW c \in Callbacks, TurnedAway(c) PROVE StaffTypes'
    BY <1>3 DEF TurnedAway
  <1>4. ASSUME NEW c \in Callbacks, NEW groups \in SUBSET {"admin", "approver"},
               RecogniseStaff(c, groups)
        PROVE StaffTypes'
    <2>1. colleague' \in [Colleagues -> [role : {"none", "admin", "approver"}, disabled : BOOLEAN]]
      BY <1>4 DEF RecogniseStaff, RoleOf
    <2>2. callback' \in [Callbacks -> [phase : {"idle", "sent", "known", "cleared"}, of : Colleagues]]
      BY <1>4 DEF RecogniseStaff
    <2> QED
      BY <1>4, <2>1, <2>2 DEF RecogniseStaff
  <1>5. ASSUME NEW c \in Callbacks, RevokeOthers(c) PROVE StaffTypes'
    <2>1. staffSeat' \in [StaffSeats -> SessionRow(Colleagues)]
      BY <1>5 DEF RevokeOthers, SessionRow
    <2> QED
      BY <1>5, <2>1 DEF RevokeOthers
  <1>6. ASSUME NEW c \in Callbacks, NEW s \in StaffSeats, MintStaff(c, s) PROVE StaffTypes'
    <2>1. staffSeat' \in [StaffSeats -> SessionRow(Colleagues)]
      BY <1>6 DEF MintStaff, SessionRow
    <2> QED
      BY <1>6, <2>1 DEF MintStaff
  <1>7. ASSUME NEW c \in Callbacks, LoginLost(c) PROVE StaffTypes'
    BY <1>7 DEF LoginLost
  <1>8. ASSUME NEW u \in Colleagues, Disable(u) PROVE StaffTypes'
    BY <1>8 DEF Disable
  <1>13. ASSUME NEW u \in Colleagues, Enable(u) PROVE StaffTypes'
    <2>1. staffVisit'.ended \in BOOLEAN /\ staffVisit' \in VisitRow(StaffSeats)
      BY <1>13 DEF Enable, VisitRow
    <2> QED
      BY <1>13, <2>1 DEF Enable
  <1>9. ASSUME NEW s \in StaffSeats, NEW how \in {"expired", "revoked"}, StaffSessionEnds(s, how)
        PROVE StaffTypes'
    BY <1>9 DEF StaffSessionEnds, SessionRow
  <1>10. ASSUME NEW s \in StaffSeats, ArriveStaff(s) PROVE StaffTypes'
    BY <1>10 DEF ArriveStaff, VisitRow
  <1>11. ASSUME ValidateStaff PROVE StaffTypes'
    BY <1>11 DEF ValidateStaff, VisitRow, NoVisit
  <1>12. ASSUME RespondStaff PROVE StaffTypes'
    BY <1>12 DEF RespondStaff, VisitRow, NoVisit
  <1> QED
    BY <1>1, <1>2, <1>3, <1>4, <1>5, <1>6, <1>7, <1>8, <1>9, <1>10, <1>11, <1>12, <1>13
    DEF StaffStep

LEMMA SessionsTypesKept == SessionsTypeOK /\ [VisitorNext \/ StaffNext]_sessionVars => SessionsTypeOK'
  <1> SUFFICES ASSUME SessionsTypeOK, [VisitorNext \/ StaffNext]_sessionVars
               PROVE  VisitorTypes' /\ StaffTypes'
    BY DEF SessionsTypeOK, VisitorTypes, StaffTypes
  <1>1. VisitorTypes /\ StaffTypes
    BY TypesSplit
  <1>2. CASE VisitorNext
    BY <1>1, <1>2, VisitorSteps, VisitorTypesKept DEF StaffTypes, staffVars
  <1>3. CASE StaffNext
    BY <1>1, <1>3, StaffSteps, StaffTypesKept DEF VisitorTypes, visitorVars
  <1>4. CASE UNCHANGED sessionVars
    BY <1>1, <1>4 DEF VisitorTypes, StaffTypes, sessionVars, visitorVars, staffVars
  <1> QED
    BY <1>2, <1>3, <1>4

(* Every row and cookie keeps its type, whatever the numbers of visitors,  *)
(* links, tabs, sessions, colleagues and logins.                           *)
THEOREM SessionsTypes == SessionsSpec => []SessionsTypeOK
  BY SessionsStartTyped, SessionsTypesKept, PTL DEF SessionsSpec
-----------------------------------------------------------------------------
(* A session in use keeps its owner and never comes back once it ended.    *)
Ages(old, new) ==
    old.state # "none" => /\ new.state # "none" /\ new.of = old.of
                          /\ new.state = "live" => old.state = "live"

LEMMA VisitorsAge ==
  ASSUME VisitorTypes, VisitorStep
  PROVE  gone \subseteq gone' /\ \A s \in Seats : Ages(seat[s], seat'[s])
  <1> USE DEF VisitorTypes, SessionRow, Ages
  <1>1. CASE UNCHANGED <<gone, seat>>
    BY <1>1
  <1>2. ASSUME NEW t \in Tabs, NEW z \in Seats, Mint(t, z)
        PROVE gone \subseteq gone' /\ \A s \in Seats : Ages(seat[s], seat'[s])
    BY <1>2 DEF Mint
  <1>3. ASSUME NEW z \in Seats, SessionExpires(z)
        PROVE gone \subseteq gone' /\ \A s \in Seats : Ages(seat[s], seat'[s])
    BY <1>3 DEF SessionExpires
  <1>4. ASSUME NEW l \in Locales, SignOut(l)
        PROVE gone \subseteq gone' /\ \A s \in Seats : Ages(seat[s], seat'[s])
    BY <1>4 DEF SignOut
  <1>5. ASSUME NEW v \in Visitors, PurgeVisitor(v)
        PROVE gone \subseteq gone' /\ \A s \in Seats : Ages(seat[s], seat'[s])
    BY <1>5 DEF PurgeVisitor
  <1> QED
    BY <1>1, <1>2, <1>3, <1>4, <1>5
    DEF VisitorStep, IssueLink, SignInLinkExpires, Consume, WindowPasses, MintFails, Arrive,
        SwitchLocale, Validate, Respond

LEMMA StaffAges ==
  ASSUME StaffTypes, StaffStep
  PROVE  /\ \/ \A u \in Colleagues : colleague[u].disabled => colleague'[u].disabled
            \/ \E u \in Colleagues : Enable(u)
         /\ \A s \in StaffSeats : Ages(staffSeat[s], staffSeat'[s])
  <1> USE DEF StaffTypes, SessionRow, Ages
  <1> DEFINE Goal == /\ \/ \A u \in Colleagues : colleague[u].disabled => colleague'[u].disabled
                        \/ \E u \in Colleagues : Enable(u)
                     /\ \A s \in StaffSeats : Ages(staffSeat[s], staffSeat'[s])
  <1>1. CASE UNCHANGED <<colleague, staffSeat>>
    BY <1>1
  <1>2. ASSUME NEW c \in Callbacks, NEW groups \in SUBSET {"admin", "approver"},
               RecogniseStaff(c, groups)
        PROVE Goal
    BY <1>2 DEF RecogniseStaff
  <1>3. ASSUME NEW c \in Callbacks, RevokeOthers(c) PROVE Goal
    BY <1>3 DEF RevokeOthers
  <1>4. ASSUME NEW c \in Callbacks, NEW z \in StaffSeats, MintStaff(c, z) PROVE Goal
    BY <1>4 DEF MintStaff
  <1>5. ASSUME NEW u \in Colleagues, Disable(u) PROVE Goal
    BY <1>5 DEF Disable
  <1>7. ASSUME NEW u \in Colleagues, Enable(u) PROVE Goal
    BY <1>7 DEF Enable
  <1>6. ASSUME NEW z \in StaffSeats, NEW how \in {"expired", "revoked"}, StaffSessionEnds(z, how)
        PROVE Goal
    BY <1>6 DEF StaffSessionEnds
  <1> QED
    BY <1>1, <1>2, <1>3, <1>4, <1>5, <1>6, <1>7
    DEF StaffStep, BeginLogin, Refused, TurnedAway, LoginLost, ArriveStaff, ValidateStaff,
        RespondStaff

(* A request on a row that had ended is on a row that is refused.          *)
VisitorsRefused ==
    /\ visit.phase # "idle" => /\ visit.token \in Seats
                               /\ seat[visit.token].state # "none"
                               /\ visit.ended => ~ SessionOf(visit.token)
    /\ visit.phase = "served" => ~ visit.ended

StaffRefused ==
    /\ staffVisit.phase # "idle" => /\ staffVisit.token \in StaffSeats
                                    /\ staffSeat[staffVisit.token].state # "none"
                                    /\ staffVisit.ended => ~ StaffSessionOf(staffVisit.token)
    /\ staffVisit.phase = "served" => ~ staffVisit.ended

SessionsInv == SessionsTypeOK /\ VisitorsRefused /\ StaffRefused

LEMMA VisitorsRefusedKept ==
  ASSUME VisitorTypes, VisitorsRefused, VisitorStep PROVE VisitorsRefused'
  <1>1. gone \subseteq gone' /\ \A s \in Seats : Ages(seat[s], seat'[s])
    BY VisitorsAge
  <1>2. CASE visit' = visit
    BY <1>1, <1>2 DEF VisitorsRefused, SessionOf, Ages
  <1>3. ASSUME NEW s \in Seats, NEW l \in Locales \cup {Nobody}, Arrive(s, l)
        PROVE VisitorsRefused'
    BY <1>3 DEF Arrive, VisitorsRefused, SessionOf
  <1>4. ASSUME Validate PROVE VisitorsRefused'
    <2>1. visit.phase = "arrived" /\ UNCHANGED <<gone, seat>>
      BY <1>4 DEF Validate
    <2>2. CASE SessionOf(visit.token)
      <3>1. visit' = [visit EXCEPT !.phase = "served"]
        BY <1>4, <2>2 DEF Validate
      <3>2. ~ visit.ended /\ visit.token \in Seats /\ seat[visit.token].state # "none"
        BY <2>1, <2>2 DEF VisitorsRefused
      <3>3. visit'.ended = visit.ended /\ visit'.token = visit.token
        BY <3>1 DEF VisitorTypes, VisitRow
      <3> QED
        BY <2>1, <3>2, <3>3 DEF VisitorsRefused
    <2>3. CASE ~ SessionOf(visit.token)
      BY <1>4, <2>3 DEF Validate, NoVisit, VisitorsRefused
    <2> QED
      BY <2>2, <2>3
  <1>5. ASSUME Respond PROVE VisitorsRefused'
    BY <1>5 DEF Respond, NoVisit, VisitorsRefused
  <1> QED
    BY <1>2, <1>3, <1>4, <1>5
    DEF VisitorStep, IssueLink, SignInLinkExpires, Consume, WindowPasses, Mint, MintFails,
        SessionExpires, SwitchLocale, SignOut, PurgeVisitor

LEMMA StaffRefusedKept ==
  ASSUME StaffTypes, StaffRefused, StaffStep PROVE StaffRefused'
  <1>1. /\ \/ \A u \in Colleagues : colleague[u].disabled => colleague'[u].disabled
           \/ \E u \in Colleagues : Enable(u)
        /\ \A s \in StaffSeats : Ages(staffSeat[s], staffSeat'[s])
    BY StaffAges
  <1>2. \A s \in StaffSeats : staffSeat[s].of \in Colleagues
    BY DEF StaffTypes, SessionRow
  <1>7. ASSUME NEW u \in Colleagues, Enable(u) PROVE StaffRefused'
    <2> DEFINE s == staffVisit.token
               pardoned == staffVisit.phase # "idle" /\ staffSeat[s].state = "live"
                           /\ staffSeat[s].of = u
    <2>1. /\ staffSeat' = staffSeat /\ staffVisit'.phase = staffVisit.phase
          /\ staffVisit'.token = staffVisit.token
          /\ staffVisit'.ended = (staffVisit.ended /\ ~ pardoned)
      BY <1>7 DEF Enable, StaffTypes, VisitRow
    <2>2. \A v \in Colleagues : v # u => colleague'[v].disabled = colleague[v].disabled
      BY <1>7 DEF Enable, StaffTypes
    <2>3. ASSUME staffVisit.phase # "idle", staffVisit'.ended PROVE ~ StaffSessionOf(s)'
      <3>1. staffVisit.ended /\ (staffSeat[s].state # "live" \/ staffSeat[s].of # u)
        BY <2>1, <2>3
      <3>2. ~ StaffSessionOf(s) /\ s \in StaffSeats /\ staffSeat[s].of \in Colleagues
        BY <1>2, <2>3, <3>1 DEF StaffRefused
      <3> QED
        BY <2>1, <2>2, <3>1, <3>2 DEF StaffSessionOf
    <2> HIDE DEF pardoned
    <2> QED
      BY <2>1, <2>3 DEF StaffRefused
  <1>3. CASE staffVisit' = staffVisit /\ ~ \E u \in Colleagues : Enable(u)
    BY <1>1, <1>2, <1>3 DEF StaffRefused, StaffSessionOf, Ages
  <1>4. ASSUME NEW s \in StaffSeats, ArriveStaff(s) PROVE StaffRefused'
    BY <1>4 DEF ArriveStaff, StaffRefused, StaffSessionOf
  <1>5. ASSUME ValidateStaff PROVE StaffRefused'
    <2>1. staffVisit.phase = "arrived" /\ UNCHANGED <<colleague, staffSeat>>
      BY <1>5 DEF ValidateStaff
    <2>2. CASE StaffSessionOf(staffVisit.token)
      <3>1. staffVisit' = [staffVisit EXCEPT !.phase = "served"]
        BY <1>5, <2>2 DEF ValidateStaff
      <3>2. /\ ~ staffVisit.ended /\ staffVisit.token \in StaffSeats
            /\ staffSeat[staffVisit.token].state # "none"
        BY <2>1, <2>2 DEF StaffRefused
      <3>3. staffVisit'.ended = staffVisit.ended /\ staffVisit'.token = staffVisit.token
        BY <3>1 DEF StaffTypes, VisitRow
      <3> QED
        BY <2>1, <3>2, <3>3 DEF StaffRefused
    <2>3. CASE ~ StaffSessionOf(staffVisit.token)
      BY <1>5, <2>3 DEF ValidateStaff, NoVisit, StaffRefused
    <2> QED
      BY <2>2, <2>3
  <1>6. ASSUME RespondStaff PROVE StaffRefused'
    BY <1>6 DEF RespondStaff, NoVisit, StaffRefused
  <1> QED
    BY <1>3, <1>4, <1>5, <1>6, <1>7
    DEF StaffStep, BeginLogin, Refused, TurnedAway, RecogniseStaff, RevokeOthers, MintStaff,
        LoginLost, Disable, StaffSessionEnds

(* The inductive invariant: no row in use comes back, so a request on an   *)
(* ended one stays on one that is refused.                                 *)
THEOREM SessionsInvariant == SessionsSpec => []SessionsInv
  <1>1. SessionsInit => SessionsInv
    BY SessionsStartTyped DEF SessionsInv, SessionsInit, VisitorsRefused, StaffRefused, NoVisit
  <1>2. SessionsInv /\ [VisitorNext \/ StaffNext]_sessionVars => SessionsInv'
    <2> SUFFICES ASSUME SessionsInv, [VisitorNext \/ StaffNext]_sessionVars PROVE SessionsInv'
      OBVIOUS
    <2>1. SessionsTypeOK'
      BY SessionsTypesKept DEF SessionsInv
    <2>2. VisitorTypes /\ StaffTypes /\ VisitorsRefused /\ StaffRefused
      BY TypesSplit DEF SessionsInv
    <2>3. CASE VisitorNext
      <3>1. VisitorsRefused'
        BY <2>2, <2>3, VisitorSteps, VisitorsRefusedKept
      <3>2. StaffRefused'
        BY <2>2, <2>3, VisitorSteps DEF staffVars, StaffRefused, StaffSessionOf
      <3> QED
        BY <2>1, <3>1, <3>2 DEF SessionsInv
    <2>4. CASE StaffNext
      <3>1. StaffRefused'
        BY <2>2, <2>4, StaffSteps, StaffRefusedKept
      <3>2. VisitorsRefused'
        BY <2>2, <2>4, StaffSteps DEF visitorVars, VisitorsRefused, SessionOf
      <3> QED
        BY <2>1, <3>1, <3>2 DEF SessionsInv
    <2>5. CASE UNCHANGED sessionVars
      BY <2>1, <2>2, <2>5
      DEF SessionsInv, sessionVars, visitorVars, staffVars, VisitorsRefused, StaffRefused,
          SessionOf, StaffSessionOf
    <2> QED
      BY <2>3, <2>4, <2>5
  <1> QED
    BY <1>1, <1>2, PTL DEF SessionsSpec

(* OnlyTheLiveAreServed for every behaviour: neither a link consumed       *)
(* before a purge nor a login that was under way when its owner was        *)
(* disabled serves anybody on a session that had ended, and an owner who   *)
(* was disabled is served again only when enabled again.                   *)
THEOREM OnlyLiveServed == SessionsSpec => []OnlyTheLiveAreServed
  <1>1. SessionsInv => OnlyTheLiveAreServed
    BY DEF SessionsInv, VisitorsRefused, StaffRefused, OnlyTheLiveAreServed
  <1> QED
    BY <1>1, SessionsInvariant, PTL
-----------------------------------------------------------------------------
PageRow ==
    [kind : PageKinds \cup {"none"}, lang : Langs, rows : SUBSET Listed, unread : SUBSET Reads,
     names : SUBSET ((Headings \cup {NoHeading}) \X Langs),
     titles : SUBSET ((Papers \cup Exhibits) \X Langs),
     links : SUBSET ((Papers \cup Exhibits) \X Papers \X Langs),
     offered : SUBSET Papers, wasPublic : SUBSET Papers,
     since : SUBSET (Papers \X Langs), shut : SUBSET (Papers \X Langs)]

RowTypes ==
    /\ heading \in [Headings -> [exists : BOOLEAN, names : SUBSET Langs]]
    /\ paper \in [Papers -> PaperRow]
    /\ exhibit \in [Exhibits -> ExhibitRow]

LEMMA UncitedTypes ==
  ASSUME RowTypes, NEW papers PROVE Uncited(papers) \in [Exhibits -> ExhibitRow]
  <1>1. ASSUME NEW row \in ExhibitRow PROVE [row EXCEPT !.cites = @ \ papers] \in ExhibitRow
    BY DEF ExhibitRow
  <1> QED
    BY <1>1 DEF Uncited, RowTypes

(* The actions of the editors, one disjunct each.                          *)
HeadingStep ==
    \/ \E h \in Headings : CreateCategory(h)
    \/ \E h \in Headings : CreateControlGroup(h)
    \/ \E h \in Headings, l \in Langs : SetCategoryName(h, l)
    \/ \E h \in Headings, l \in Langs : SetControlGroupName(h, l)
    \/ \E h \in Headings : DeleteCategory(h)
    \/ \E h \in Headings : DeleteControlGroup(h)

PaperStep ==
    \/ \E p \in Papers, h \in Categories, tier \in {"public", "request", "nda"} :
          CreatePaper(p, h, tier)
    \/ \E p \in Papers, h \in Categories, tier \in {"public", "request", "nda"},
          status \in {"withheld", "published"} : UpdatePaper(p, status, tier, h)
    \/ \E p \in Papers : DeletePaper(p)
    \/ \E p \in Papers, l \in Langs : SetPaperTitle(p, l)
    \/ \E p \in Papers, l \in Langs : AddPaperFile(p, l)
    \/ \E p \in Papers, l \in Langs : RemovePaperFile(p, l)

ExhibitStep ==
    \/ \E e \in Exhibits, h \in ControlGroups : CreateControl(e, h)
    \/ \E e \in Exhibits, cites \in SUBSET Papers : CreateCertification(e, cites)
    \/ \E e \in Exhibits : CreateAnswer(e)
    \/ \E e \in Exhibits, h \in ControlGroups, published \in BOOLEAN :
          UpdateControl(e, published, h)
    \/ \E e \in Exhibits, cites \in SUBSET Papers : SetEvidence(e, cites)
    \/ \E e \in Exhibits, published \in BOOLEAN, cites \in SUBSET Papers :
          UpdateCertification(e, published, cites)
    \/ \E e \in Exhibits, published \in BOOLEAN : UpdateAnswer(e, published)
    \/ \E e \in Exhibits, l \in Langs : SetExhibitTitle(e, l)
    \/ \E e \in Exhibits : DeleteExhibit(e)

LEMMA EditorsStep == EditorSteps => HeadingStep \/ PaperStep \/ ExhibitStep
  BY DEF EditorSteps, CategorySteps, ControlGroupSteps, PaperSteps, ControlSteps,
         CertificationSteps, AnswerSteps, HeadingStep, PaperStep, ExhibitStep

LEMMA EmptyRows ==
  NoPaper \in PaperRow /\ NoExhibit \in ExhibitRow /\ NoPage \in PageRow
  <1>1. (CHOOSE h \in Categories : TRUE) \in Categories /\ HomeLang \in Langs
    BY CatalogueAssumption
  <1> QED
    BY <1>1 DEF NoPaper, PaperRow, NoExhibit, ExhibitRow, NoPage, PageRow
-----------------------------------------------------------------------------
LEMMA HeadingTypes == ASSUME RowTypes, HeadingStep PROVE RowTypes'
  <1> USE EmptyRows DEF RowTypes, Headings
  <1>1. ASSUME NEW h \in Headings, CreateCategory(h) \/ CreateControlGroup(h) PROVE RowTypes'
    <2>1. [exists |-> TRUE, names |-> {}] \in [exists : BOOLEAN, names : SUBSET Langs]
      OBVIOUS
    <2>2. heading' \in [Headings -> [exists : BOOLEAN, names : SUBSET Langs]]
          /\ UNCHANGED <<paper, exhibit>>
      BY <1>1, <2>1 DEF CreateCategory, CreateControlGroup, Headed
    <2> QED
      BY <2>2
  <1>2. ASSUME NEW h \in Headings, NEW l \in Langs,
               SetCategoryName(h, l) \/ SetControlGroupName(h, l)
        PROVE  RowTypes'
    BY <1>2 DEF SetCategoryName, SetControlGroupName, Named
  <1>3. ASSUME NEW h \in Headings, DeleteCategory(h) PROVE RowTypes'
    BY <1>3, UncitedTypes DEF DeleteCategory
  <1>4. ASSUME NEW h \in Headings, DeleteControlGroup(h) PROVE RowTypes'
    BY <1>4 DEF DeleteControlGroup
  <1> QED
    BY <1>1, <1>2, <1>3, <1>4 DEF HeadingStep

LEMMA PaperTypes == ASSUME RowTypes, PaperStep PROVE RowTypes'
  <1> USE EmptyRows DEF RowTypes
  <1>1. ASSUME NEW p \in Papers, NEW h \in Categories, NEW tier \in {"public", "request", "nda"},
               CreatePaper(p, h, tier)
        PROVE  RowTypes'
    <2>1. [NoPaper EXCEPT !.status = "withheld", !.tier = tier, !.under = h] \in PaperRow
      BY DEF PaperRow
    <2> QED
      BY <1>1, <2>1 DEF CreatePaper
  <1>2. ASSUME NEW p \in Papers, NEW h \in Categories, NEW tier \in {"public", "request", "nda"},
               NEW status \in {"withheld", "published"}, UpdatePaper(p, status, tier, h)
        PROVE  RowTypes'
    <2> DEFINE row == [paper[p] EXCEPT !.status = status, !.tier = tier, !.under = h,
                   !.shut = IF status = "published" /\ tier = "public" THEN {} ELSE @]
    <2>1. row \in PaperRow
      BY DEF PaperRow
    <2>2. paper' = [paper EXCEPT ![p] = row] /\ UNCHANGED <<heading, exhibit>>
      BY <1>2 DEF UpdatePaper
    <2> HIDE DEF row
    <2> QED
      BY <2>1, <2>2
  <1>3. ASSUME NEW p \in Papers, DeletePaper(p) PROVE RowTypes'
    BY <1>3, UncitedTypes DEF DeletePaper
  <1>4. ASSUME NEW p \in Papers, NEW l \in Langs, SetPaperTitle(p, l) PROVE RowTypes'
    BY <1>4 DEF SetPaperTitle, PaperRow
  <1>5. ASSUME NEW p \in Papers, NEW l \in Langs, AddPaperFile(p, l) PROVE RowTypes'
    <2> DEFINE shut == IF IsPublic(p) THEN paper[p].shut \ {l} ELSE paper[p].shut \cup {l}
               row == [paper[p] EXCEPT !.files = @ \cup {l}, !.shut = shut]
    <2>1. shut \in SUBSET Langs
      BY DEF PaperRow
    <2>2. row \in PaperRow
      <3> HIDE DEF shut
      <3> QED
        BY <2>1 DEF PaperRow
    <2>3. paper' = [paper EXCEPT ![p] = row] /\ UNCHANGED <<heading, exhibit>>
      BY <1>5 DEF AddPaperFile
    <2> HIDE DEF row
    <2> QED
      BY <2>2, <2>3
  <1>6. ASSUME NEW p \in Papers, NEW l \in Langs, RemovePaperFile(p, l) PROVE RowTypes'
    BY <1>6 DEF RemovePaperFile, PaperRow
  <1> QED
    BY <1>1, <1>2, <1>3, <1>4, <1>5, <1>6 DEF PaperStep

LEMMA ExhibitTypes == ASSUME RowTypes, ExhibitStep PROVE RowTypes' /\ UNCHANGED <<paper, page>>
  <1> USE EmptyRows DEF RowTypes
  <1>1. ASSUME NEW e \in Exhibits, NEW h \in ControlGroups \cup {NoHeading},
               NEW cites \in SUBSET Papers, Drafted(e, h, cites)
        PROVE  RowTypes' /\ UNCHANGED <<paper, page>>
    <2>1. [NoExhibit EXCEPT !.exists = TRUE, !.under = h, !.cites = cites] \in ExhibitRow
      BY DEF ExhibitRow
    <2> QED
      BY <1>1, <2>1 DEF Drafted
  <1>2. ASSUME NEW e \in Exhibits, NEW h \in ControlGroups, CreateControl(e, h)
        PROVE  RowTypes' /\ UNCHANGED <<paper, page>>
    BY <1>1, <1>2 DEF CreateControl
  <1>3. ASSUME NEW e \in Exhibits, NEW cites \in SUBSET Papers,
               CreateCertification(e, cites) \/ CreateAnswer(e)
        PROVE  RowTypes' /\ UNCHANGED <<paper, page>>
    BY <1>1, <1>3 DEF CreateCertification, CreateAnswer
  <1>4. ASSUME NEW e \in Exhibits, NEW published \in BOOLEAN, UpdateAnswer(e, published)
        PROVE  RowTypes' /\ UNCHANGED <<paper, page>>
    <2>1. [exhibit[e] EXCEPT !.published = published] \in ExhibitRow
      BY DEF ExhibitRow
    <2>2. exhibit' = [exhibit EXCEPT ![e] = [exhibit[e] EXCEPT !.published = published]]
          /\ UNCHANGED <<heading, paper, page>>
      BY <1>4 DEF UpdateAnswer
    <2> QED
      BY <2>1, <2>2
  <1>5. ASSUME NEW e \in Exhibits, NEW cites \in SUBSET Papers, SetEvidence(e, cites)
        PROVE  RowTypes' /\ UNCHANGED <<paper, page>>
    BY <1>5 DEF SetEvidence, ExhibitRow
  <1>6. ASSUME NEW e \in Exhibits, NEW published \in BOOLEAN, NEW cites \in SUBSET Papers,
               UpdateCertification(e, published, cites)
        PROVE  RowTypes' /\ UNCHANGED <<paper, page>>
    BY <1>6 DEF UpdateCertification, ExhibitRow
  <1>7. ASSUME NEW e \in Exhibits, NEW l \in Langs, SetExhibitTitle(e, l)
        PROVE  RowTypes' /\ UNCHANGED <<paper, page>>
    BY <1>7 DEF SetExhibitTitle, ExhibitRow
  <1>8. ASSUME NEW e \in Exhibits, DeleteExhibit(e) PROVE RowTypes' /\ UNCHANGED <<paper, page>>
    BY <1>8 DEF DeleteExhibit
  <1>9. ASSUME NEW e \in Exhibits, NEW h \in ControlGroups, NEW published \in BOOLEAN,
               UpdateControl(e, published, h)
        PROVE  RowTypes' /\ UNCHANGED <<paper, page>>
    <2>1. [exhibit[e] EXCEPT !.published = published, !.under = h] \in ExhibitRow
      BY DEF ExhibitRow
    <2>2. exhibit' = [exhibit EXCEPT ![e] = [exhibit[e] EXCEPT !.published = published, !.under = h]]
          /\ UNCHANGED <<heading, paper, page>>
      BY <1>9 DEF UpdateControl
    <2> QED
      BY <2>1, <2>2
  <1> HIDE DEF RowTypes
  <1> QED
    BY ZenonT(40), <1>2, <1>3, <1>4, <1>5, <1>6, <1>7, <1>8, <1>9 DEF ExhibitStep
-----------------------------------------------------------------------------
(* The files a public document has are not shut, and of the documents the  *)
(* page lists with their files, the shut ones were uploaded since.         *)
Openings ==
    /\ \A p \in Papers : IsPublic(p) => paper[p].shut = {}
    /\ page.kind # "none" =>
          \A r \in page.rows : r.free =>
              \A l \in Langs : r.id \in Papers /\ l \in paper[r.id].shut => <<r.id, l>> \in page.since

(* Every document the page may yet link to was public since it was opened. *)
Sources ==
    /\ page.kind = "none" => page = NoPage
    /\ page.kind # "none" => Public \subseteq page.wasPublic
    /\ \A r \in page.rows : r.free => r.id \in page.wasPublic
    /\ \A t \in page.links : t[2] \in page.wasPublic
    /\ page.offered \subseteq page.wasPublic
    /\ page.shut # {} => page.kind = "document" /\ page.shut \subseteq page.since

CatalogueInv == RowTypes /\ page \in PageRow /\ Sources /\ Openings

LEMMA CatalogueStarts == CatalogueInit => CatalogueInv
  <1>1. NoPage.kind = "none" /\ NoPage.rows = {} /\ NoPage.links = {} /\ NoPage.offered = {}
    BY DEF NoPage
  <1>2. NoPage.shut = {} /\ NoPaper.shut = {}
    BY DEF NoPage, NoPaper
  <1>3. CatalogueInit => Openings
    BY <1>1, <1>2 DEF CatalogueInit, Openings
  <1> QED
    BY <1>1, <1>2, <1>3, EmptyRows DEF CatalogueInit, CatalogueInv, RowTypes, Sources

(* An editor's step leaves the page alone but for the history, which only  *)
(* grows.                                                                  *)
Recalls ==
    /\ page' \in PageRow
    /\ page.kind = "none" => page' = page
    /\ page'.kind = page.kind /\ page'.rows = page.rows /\ page'.links = page.links
    /\ page'.offered = page.offered /\ page'.shut = page.shut
    /\ page.wasPublic \subseteq page'.wasPublic /\ page.since \subseteq page'.since
    /\ page.kind # "none" => Public' \subseteq page'.wasPublic

LEMMA WatchedRecalls ==
  ASSUME page \in PageRow, Sources, Watched PROVE Recalls
  <1>1. CASE page.kind = "none"
    <2>1. page = NoPage
      BY <1>1 DEF Sources
    <2>2. page' = page
      BY <1>1, <2>1 DEF Watched, NoPage
    <2> QED
      BY <1>1, <2>2 DEF Recalls
  <1>2. CASE page.kind # "none"
    <2> DEFINE now == {p \in Papers : paper'[p].status = "published" /\ paper'[p].tier = "public"}
    <2>1. Public' = now
      BY DEF Public
    <2>2. page' = [page EXCEPT !.wasPublic = @ \cup now]
      BY <1>2 DEF Watched
    <2>3. now \in SUBSET Papers
      OBVIOUS
    <2> HIDE DEF now
    <2>4. /\ page'.kind = page.kind /\ page'.rows = page.rows /\ page'.links = page.links
          /\ page'.offered = page.offered /\ page'.wasPublic = page.wasPublic \cup now
          /\ page'.since = page.since /\ page'.shut = page.shut /\ page' \in PageRow
      BY <2>2, <2>3 DEF PageRow
    <2> QED
      BY <1>2, <2>1, <2>4 DEF Recalls
  <1> QED
    BY <1>1, <1>2

(* An upload is remembered, and makes no document public.                  *)
LEMMA UploadRecalls ==
  ASSUME RowTypes, page \in PageRow, Sources, NEW p \in Papers, NEW l \in Langs,
         AddPaperFile(p, l)
  PROVE  Recalls
  <1>1. \A q \in Papers : paper'[q].status = paper[q].status /\ paper'[q].tier = paper[q].tier
    BY DEF AddPaperFile, RowTypes, PaperRow
  <1>2. Public' = Public
    BY <1>1 DEF Public
  <1>3. CASE page.kind = "none"
    <2>1. page = NoPage
      BY <1>3 DEF Sources
    <2>2. page' = [page EXCEPT !.since = {}]
      BY <1>3 DEF AddPaperFile
    <2>3. page' = page
      BY ONLY <2>1, <2>2 DEF NoPage
    <2> QED
      BY <1>3, <2>3 DEF Recalls
  <1>4. CASE page.kind # "none"
    <2>1. page' = [page EXCEPT !.since = @ \cup {<<p, l>>}]
      BY <1>4 DEF AddPaperFile
    <2>2. /\ page'.kind = page.kind /\ page'.rows = page.rows /\ page'.links = page.links
          /\ page'.offered = page.offered /\ page'.wasPublic = page.wasPublic
          /\ page.since \subseteq page'.since /\ page'.shut = page.shut /\ page' \in PageRow
      BY <2>1 DEF PageRow
    <2> QED
      BY <1>2, <1>4, <2>2 DEF Recalls, Sources
  <1> QED
    BY <1>3, <1>4

LEMMA EditorsRecall == ASSUME CatalogueInv, EditorSteps PROVE Recalls
  <1>1. RowTypes /\ page \in PageRow /\ Sources
    BY DEF CatalogueInv
  <1>2. ASSUME page' = page, Public' = Public PROVE Recalls
    BY <1>1, <1>2 DEF Recalls, Sources
  <1>3. CASE HeadingStep
    <2>1. Watched \/ UNCHANGED <<paper, page>>
      BY <1>3 DEF HeadingStep, CreateCategory, CreateControlGroup, SetCategoryName,
                  SetControlGroupName, DeleteCategory, DeleteControlGroup
    <2> QED
      BY <1>1, <1>2, <2>1, WatchedRecalls DEF Public
  <1>4. CASE PaperStep
    <2>1. ASSUME NEW p \in Papers, NEW l \in Langs, RemovePaperFile(p, l) PROVE Recalls
      <3>1. \A q \in Papers : paper'[q].status = paper[q].status /\ paper'[q].tier = paper[q].tier
        BY <1>1, <2>1 DEF RemovePaperFile, RowTypes, PaperRow
      <3> QED
        BY <1>2, <2>1, <3>1 DEF RemovePaperFile, Public
    <2>2. \/ Watched
          \/ \E p \in Papers, l \in Langs : AddPaperFile(p, l)
          \/ \E p \in Papers, l \in Langs : RemovePaperFile(p, l)
      BY <1>4 DEF PaperStep, CreatePaper, UpdatePaper, DeletePaper, SetPaperTitle
    <2> QED
      BY <1>1, <2>1, <2>2, WatchedRecalls, UploadRecalls
  <1>5. CASE ExhibitStep
    BY <1>1, <1>2, <1>5, ExhibitTypes DEF Public
  <1> QED
    BY <1>3, <1>4, <1>5, EditorsStep

(* No file of a public document is shut, and a file gets shut by its upload *)
(* alone.                                                                   *)
LEMMA EditorsShut ==
  ASSUME CatalogueInv, EditorSteps, NEW p \in Papers
  PROVE  /\ IsPublic(p)' => paper'[p].shut = {}
         /\ page.kind # "none" =>
               \A l \in Langs : l \in paper'[p].shut => l \in paper[p].shut \/ <<p, l>> \in page'.since
  <1>1. RowTypes /\ page \in PageRow /\ (IsPublic(p) => paper[p].shut = {})
    BY DEF CatalogueInv, Openings
  <1>2. ASSUME paper'[p].shut = {}
        PROVE  /\ IsPublic(p)' => paper'[p].shut = {}
               /\ page.kind # "none" =>
                     \A l \in Langs : l \in paper'[p].shut => l \in paper[p].shut \/ <<p, l>> \in page'.since
    BY <1>2
  <1>3. ASSUME paper'[p].shut \subseteq paper[p].shut, IsPublic(p)' => IsPublic(p)
        PROVE  /\ IsPublic(p)' => paper'[p].shut = {}
               /\ page.kind # "none" =>
                     \A l \in Langs : l \in paper'[p].shut => l \in paper[p].shut \/ <<p, l>> \in page'.since
    BY <1>1, <1>3
  <1>4. NoPaper.shut = {}
    BY DEF NoPaper
  <1>5. ASSUME paper'[p] = paper[p]
        PROVE  paper'[p].shut \subseteq paper[p].shut /\ (IsPublic(p)' => IsPublic(p))
    BY <1>5 DEF IsPublic
  <1>6. CASE HeadingStep
    <2>1. paper'[p] = paper[p] \/ paper'[p] = NoPaper
      BY <1>6 DEF HeadingStep, CreateCategory, CreateControlGroup, SetCategoryName,
                  SetControlGroupName, DeleteCategory, DeleteControlGroup
    <2> QED
      BY <1>2, <1>3, <1>4, <1>5, <2>1
  <1>7. CASE ExhibitStep
    BY <1>1, <1>3, <1>5, <1>7, ExhibitTypes
  <1>8. ASSUME NEW q \in Papers,
               \/ DeletePaper(q)
               \/ \E h \in Categories, tier \in {"public", "request", "nda"} : CreatePaper(q, h, tier)
        PROVE  paper'[p] = paper[p] \/ paper'[p].shut = {}
    <2>1. \A h, tier :
              [NoPaper EXCEPT !.status = "withheld", !.tier = tier, !.under = h].shut = {}
      BY DEF NoPaper
    <2>2. \E row : row.shut = {} /\ paper' = [paper EXCEPT ![q] = row]
      BY <1>4, <1>8, <2>1 DEF CreatePaper, DeletePaper
    <2>3. PICK row : row.shut = {} /\ paper' = [paper EXCEPT ![q] = row]
      BY <2>2
    <2> QED
      BY <1>1, <2>3 DEF RowTypes
  <1>9. ASSUME NEW q \in Papers, NEW h \in Categories, NEW tier \in {"public", "request", "nda"},
               NEW status \in {"withheld", "published"}, UpdatePaper(q, status, tier, h)
        PROVE  \/ paper'[p] = paper[p] \/ paper'[p].shut = {}
               \/ paper'[p].shut = paper[p].shut /\ ~ IsPublic(p)'
    <2>1. CASE p # q
      BY <1>1, <1>9, <2>1 DEF UpdatePaper, RowTypes
    <2>2. CASE p = q
      <3> DEFINE shut == IF status = "published" /\ tier = "public" THEN {} ELSE paper[p].shut
      <3>1. /\ paper'[p].status = status /\ paper'[p].tier = tier
            /\ paper'[p].shut = shut
        BY <1>1, <1>9, <2>2 DEF UpdatePaper, RowTypes, PaperRow
      <3> QED
        BY <3>1 DEF IsPublic
    <2> QED
      BY <2>1, <2>2
  <1>10. ASSUME NEW q \in Papers, NEW l \in Langs, SetPaperTitle(q, l) \/ RemovePaperFile(q, l)
         PROVE  paper'[p].shut \subseteq paper[p].shut /\ (IsPublic(p)' => IsPublic(p))
    BY <1>1, <1>10 DEF SetPaperTitle, RemovePaperFile, RowTypes, PaperRow, IsPublic
  <1>11. ASSUME NEW q \in Papers, NEW l \in Langs, AddPaperFile(q, l)
         PROVE  /\ IsPublic(p)' => paper'[p].shut = {}
                /\ page.kind # "none" =>
                     \A m \in Langs : m \in paper'[p].shut => m \in paper[p].shut \/ <<p, m>> \in page'.since
    <2>1. CASE p # q
      <3>1. paper'[p] = paper[p]
        BY <1>1, <1>11, <2>1 DEF AddPaperFile, RowTypes
      <3> QED
        BY <1>3, <1>5, <3>1
    <2>2. CASE p = q
      <3>1. /\ paper'[p].shut = IF IsPublic(p) THEN paper[p].shut \ {l} ELSE paper[p].shut \cup {l}
            /\ paper'[p].status = paper[p].status /\ paper'[p].tier = paper[p].tier
        BY <1>1, <1>11, <2>2 DEF AddPaperFile, RowTypes, PaperRow
      <3>2. IsPublic(p)' = IsPublic(p)
        BY <3>1 DEF IsPublic
      <3>3. page.kind # "none" => <<p, l>> \in page'.since
        BY <1>1, <1>11, <2>2 DEF AddPaperFile, PageRow
      <3> QED
        BY <1>1, <3>1, <3>2, <3>3
    <2> QED
      BY <2>1, <2>2
  <1>12. CASE PaperStep
    <2> DEFINE Goal == /\ IsPublic(p)' => paper'[p].shut = {}
                       /\ page.kind # "none" =>
                            \A m \in Langs : m \in paper'[p].shut =>
                                                m \in paper[p].shut \/ <<p, m>> \in page'.since
    <2>1. paper'[p] = paper[p] \/ paper'[p].shut = {} => Goal
      BY <1>2, <1>3, <1>5
    <2>2. paper'[p].shut \subseteq paper[p].shut /\ (IsPublic(p)' => IsPublic(p)) => Goal
      BY <1>3
    <2>3. paper'[p].shut = paper[p].shut /\ ~ IsPublic(p)' => Goal
      OBVIOUS
    <2>4. \A q \in Papers, l \in Langs : AddPaperFile(q, l) => Goal
      BY <1>11
    <2> HIDE DEF Goal
    <2>5. Goal
      BY ZenonT(40), <1>8, <1>9, <1>10, <1>12, <2>1, <2>2, <2>3, <2>4 DEF PaperStep
    <2> QED
      BY <2>5 DEF Goal
  <1> QED
    BY <1>6, <1>7, <1>12, EditorsStep

LEMMA EditorsKeep == ASSUME CatalogueInv, EditorSteps PROVE CatalogueInv'
  <1>1. RowTypes /\ page \in PageRow /\ Sources /\ Openings
    BY DEF CatalogueInv
  <1>2. RowTypes'
    BY <1>1, EditorsStep, HeadingTypes, PaperTypes, ExhibitTypes
  <1>3. Recalls
    BY EditorsRecall
  <1>4. (page \in PageRow)' /\ Sources'
    BY <1>1, <1>3 DEF Recalls, Sources
  <1>5. Openings'
    <2>1. \A p \in Papers : IsPublic(p)' => paper'[p].shut = {}
      BY EditorsShut
    <2>2. ASSUME page'.kind # "none", NEW row \in page'.rows, row.free, NEW l \in Langs,
                 row.id \in Papers, l \in paper'[row.id].shut
          PROVE  <<row.id, l>> \in page'.since
      <3>1. page.kind # "none" /\ row \in page.rows /\ page.since \subseteq page'.since
        BY <1>3, <2>2 DEF Recalls
      <3>2. l \in paper[row.id].shut \/ <<row.id, l>> \in page'.since
        BY <2>2, <3>1, EditorsShut
      <3> QED
        BY <1>1, <2>2, <3>1, <3>2 DEF Openings
    <2> QED
      BY <2>1, <2>2 DEF Openings
  <1> QED
    BY <1>2, <1>4, <1>5 DEF CatalogueInv

(* A page moves on to a row, and nothing else changes.                     *)
LEMMA OpenKeeps ==
  ASSUME CatalogueInv, NEW kind \in PageKinds, NEW lang \in Langs, OpenPage(kind, lang)
  PROVE  CatalogueInv'
  <1> DEFINE rows == IF kind = "document" THEN ListedPapers ELSE ListedExhibits(kind)
  <1>1. rows \subseteq Listed
    <2>0. /\ \A p \in Papers : paper[p].under \in Headings
          /\ \A e \in Exhibits : /\ exhibit[e].under \in Headings \cup {NoHeading}
                                 /\ exhibit[e].cites \in SUBSET Papers
      BY DEF CatalogueInv, RowTypes, PaperRow, ExhibitRow, Headings
    <2>1. ListedPapers \subseteq Listed
      <3>1. ASSUME NEW p \in Papers
            PROVE  [id |-> p, under |-> paper[p].under, free |-> paper[p].tier = "public",
                    cites |-> {}] \in Listed
        BY <2>0, Zenon DEF Listed
      <3> QED
        BY <3>1 DEF ListedPapers
    <2>2. ListedExhibits(kind) \subseteq Listed
      <3>1. ASSUME NEW e \in Exhibits
            PROVE  [id |-> e, under |-> exhibit[e].under, free |-> FALSE,
                    cites |-> IF kind = "certification" THEN exhibit[e].cites ELSE {}] \in Listed
        BY <2>0 DEF Listed
      <3> QED
        BY <3>1 DEF ListedExhibits
    <2> QED
      BY <2>1, <2>2
  <1>2. \A r \in rows : r.free => r.id \in Public
    <2>1. \A r \in ListedPapers : r.free => r.id \in Public
      <3>1. ASSUME NEW p \in Papers, paper[p].status = "published"
            PROVE  paper[p].tier = "public" => p \in Public
        BY <3>1 DEF Public
      <3>2. ASSUME NEW r \in ListedPapers
            PROVE  \E p \in Papers : /\ paper[p].status = "published" /\ r.id = p
                                     /\ r.free = (paper[p].tier = "public")
        <4>1. PICK p \in {q \in Papers : paper[q].status = "published"} :
                  r = [id |-> p, under |-> paper[p].under, free |-> paper[p].tier = "public",
                       cites |-> {}]
          BY <3>2, Zenon DEF ListedPapers
        <4>2. r.id = p /\ r.free = (paper[p].tier = "public")
          BY <4>1, Zenon
        <4> QED
          BY <4>1, <4>2
      <3> QED
        BY <3>1, <3>2
    <2>2. \A r \in ListedExhibits(kind) : ~ r.free
      BY DEF ListedExhibits
    <2> QED
      BY <2>1, <2>2
  <1>3. Public \in SUBSET Papers /\ kind # "none"
    BY DEF Public, PageKinds
  <1>4. /\ page' = [NoPage EXCEPT !.kind = kind, !.lang = lang, !.unread = Reads,
                        !.rows = rows, !.wasPublic = Public]
        /\ UNCHANGED <<heading, paper, exhibit>>
    BY DEF OpenPage
  <1> HIDE DEF rows
  <1>5. /\ page'.kind = kind /\ page'.rows = rows /\ page'.links = {} /\ page'.offered = {}
        /\ page'.wasPublic = Public /\ page'.shut = {}
    BY <1>4 DEF NoPage
  <1>6. page' \in PageRow
    BY <1>1, <1>3, <1>4, EmptyRows DEF PageRow
  <1>7. Openings'
    <2>1. \A p \in Papers : IsPublic(p)' = IsPublic(p) /\ paper'[p] = paper[p]
      BY <1>4 DEF IsPublic
    <2>2. \A p \in Papers : IsPublic(p) => paper[p].shut = {}
      BY DEF CatalogueInv, Openings
    <2>3. \A p \in Public : paper[p].shut = {}
      BY <2>2 DEF Public, IsPublic
    <2> QED
      BY <1>2, <1>5, <2>1, <2>2, <2>3 DEF Openings
  <1> QED
    BY <1>2, <1>3, <1>4, <1>5, <1>6, <1>7 DEF CatalogueInv, RowTypes, Sources, Public

LEMMA ReadsKeep ==
  ASSUME CatalogueInv, ReadNames \/ ReadTitles \/ ReadLinks PROVE CatalogueInv'
  <1>1. page \in PageRow /\ Sources /\ RowTypes /\ Openings
    BY DEF CatalogueInv
  <1>2. RowIds \subseteq Papers \cup Exhibits
    BY <1>1 DEF RowIds, PageRow, Listed
  <1>3. page.kind # "none"
    <2>1. NoPage.unread = {}
      BY DEF NoPage
    <2> QED
      BY <1>1, <2>1 DEF ReadNames, ReadTitles, ReadLinks, Sources
  <1>4. Links \subseteq (Papers \cup Exhibits) \X Papers \X Langs
    BY <1>2 DEF Links
  <1>5. \A t \in Links : t[2] \in page.wasPublic
    BY <1>1, <1>3 DEF Links, IsPublic, Public, Sources
  <1> DEFINE Shut == {f \in Papers \X Langs :
                         /\ page.kind # "control" /\ f[2] \in paper[f[1]].shut
                         /\ \E t \in Links : t[2] = f[1] /\ t[3] = f[2]}
  <1>9. Shut # {} => page.kind = "document" /\ Shut \subseteq page.since
    <2> SUFFICES ASSUME NEW p \in Papers, NEW l \in Langs, page.kind # "control",
                        l \in paper[p].shut, NEW t \in Links, t[2] = p, t[3] = l
                 PROVE  page.kind = "document" /\ <<p, l>> \in page.since
      <3>1. \A f \in Shut : /\ page.kind # "control" /\ f[1] \in Papers /\ f[2] \in Langs
                            /\ f = <<f[1], f[2]>> /\ f[2] \in paper[f[1]].shut
                            /\ \E t \in Links : t[2] = f[1] /\ t[3] = f[2]
        OBVIOUS
      <3> HIDE DEF Shut
      <3> QED
        BY <3>1
    <2>1. ~ IsPublic(p)
      BY <1>1 DEF Openings
    <2>2. page.kind = "document"
      BY <2>1 DEF Links
    <2>3. t[1] = t[2] /\ \E r \in page.rows : r.id = t[1] /\ r.free
      BY <2>2 DEF Links
    <2> QED
      BY <1>1, <2>2, <2>3 DEF Openings
  <1>10. Shut \subseteq Papers \X Langs
    OBVIOUS
  <1>6. /\ page' \in PageRow /\ UNCHANGED <<heading, paper, exhibit>>
        /\ page'.kind = page.kind /\ page'.rows = page.rows /\ page'.offered = page.offered
        /\ page'.wasPublic = page.wasPublic /\ page'.links \in {page.links, Links}
        /\ page'.since = page.since /\ page'.shut \in {page.shut, Shut}
    <2>1. CASE ReadNames
      <3> DEFINE names == {n \in {r.under : r \in page.rows} \X Langs :
                              n[1] \in Headings /\ n[2] \in heading[n[1]].names}
      <3>1. names \subseteq (Headings \cup {NoHeading}) \X Langs
        BY <1>1 DEF PageRow, Listed
      <3>2. page' = [page EXCEPT !.unread = @ \ {"names"}, !.names = names]
        BY <2>1 DEF ReadNames
      <3>3. UNCHANGED <<heading, paper, exhibit>>
        BY <2>1 DEF ReadNames
      <3> HIDE DEF names
      <3> QED
        BY ONLY <1>1, <3>1, <3>2, <3>3 DEF PageRow
    <2>2. CASE ReadTitles
      <3> DEFINE titles == {n \in RowIds \X Langs :
                               n[2] \in IF n[1] \in Papers THEN paper[n[1]].titles
                                       ELSE exhibit[n[1]].titles}
      <3>1. titles \subseteq (Papers \cup Exhibits) \X Langs
        BY <1>2
      <3>2. page' = [page EXCEPT !.unread = @ \ {"titles"}, !.titles = titles]
        BY <2>2 DEF ReadTitles
      <3>3. UNCHANGED <<heading, paper, exhibit>>
        BY <2>2 DEF ReadTitles
      <3> HIDE DEF titles
      <3> QED
        BY ONLY <1>1, <3>1, <3>2, <3>3 DEF PageRow
    <2>3. CASE ReadLinks
      <3>1. page' = [page EXCEPT !.unread = @ \ {"links"}, !.links = Links, !.shut = Shut]
            /\ UNCHANGED <<heading, paper, exhibit>>
        BY <2>3 DEF ReadLinks
      <3> HIDE DEF Shut
      <3> QED
        BY ONLY <1>1, <1>4, <1>10, <3>1 DEF PageRow
    <2> QED
      BY <2>1, <2>2, <2>3
  <1> HIDE DEF Shut
  <1>7. RowTypes' /\ Public' = Public
    BY <1>1, <1>6 DEF RowTypes, Public
  <1>8. Sources'
    BY <1>1, <1>3, <1>5, <1>6, <1>7, <1>9 DEF Sources
  <1>11. Openings'
    BY <1>1, <1>6 DEF Openings, IsPublic
  <1> QED
    BY <1>6, <1>7, <1>8, <1>11 DEF CatalogueInv

LEMMA ShowKeeps == ASSUME CatalogueInv, ShowPage \/ ClosePage PROVE CatalogueInv'
  <1>1. /\ page \in PageRow /\ Sources /\ RowTypes /\ Openings
        /\ UNCHANGED <<heading, paper, exhibit>>
    BY DEF CatalogueInv, ShowPage, ClosePage
  <1>0. page'.rows = {} => Openings'
    BY <1>1 DEF Openings, IsPublic
  <1>2. RowTypes' /\ Public' = Public
    BY <1>1 DEF RowTypes, Public
  <1>3. CASE ShowPage
    <2> DEFINE offered == {p \in Papers : \E r \in page.rows :
                              /\ IsShown(r)
                              /\ PickTranslation({l \in Langs : <<r.id, p, l>> \in page.links}) # {}}
    <2>1. \A p \in offered : \E t \in page.links : t[2] = p
      <3>1. ASSUME NEW langs PROVE PickTranslation(langs) \subseteq langs
        BY DEF PickTranslation
      <3> QED
        BY <3>1
    <2>2. offered \subseteq page.wasPublic /\ offered \in SUBSET Papers
      BY <1>1, <2>1 DEF Sources
    <2>3. page' = [page EXCEPT !.rows = {}, !.offered = offered] /\ page.kind # "none"
      BY <1>3 DEF ShowPage
    <2> HIDE DEF offered
    <2>4. /\ page' \in PageRow /\ page'.kind = page.kind /\ page'.rows = {}
          /\ page'.links = page.links /\ page'.offered = offered
          /\ page'.wasPublic = page.wasPublic
          /\ page'.since = page.since /\ page'.shut = page.shut
      BY <1>1, <2>2, <2>3 DEF PageRow
    <2> QED
      BY <1>0, <1>1, <1>2, <2>2, <2>3, <2>4 DEF CatalogueInv, Sources
  <1>4. CASE ClosePage
    <2>1. page' = NoPage
      BY <1>4 DEF ClosePage
    <2>2. /\ NoPage.kind = "none" /\ NoPage.rows = {} /\ NoPage.links = {} /\ NoPage.offered = {}
          /\ NoPage.shut = {}
      BY DEF NoPage
    <2> QED
      BY <1>0, <1>2, <2>1, <2>2, EmptyRows DEF CatalogueInv, Sources
  <1> QED
    BY <1>3, <1>4
-----------------------------------------------------------------------------
(* The inductive invariant: types, and where what a page may link to comes *)
(* from.                                                                   *)
THEOREM CatalogueInvariant == CatalogueSpec => []CatalogueInv
  <1>1. CatalogueInv /\ [CatalogueNext]_catalogueVars => CatalogueInv'
    <2> SUFFICES ASSUME CatalogueInv, [CatalogueNext]_catalogueVars PROVE CatalogueInv'
      OBVIOUS
    <2>1. CASE PageSteps
      BY <2>1, OpenKeeps, ReadsKeep, ShowKeeps DEF PageSteps
    <2>2. CASE UNCHANGED catalogueVars
      BY <2>2 DEF catalogueVars, CatalogueInv, RowTypes, Sources, Public, Openings, IsPublic
    <2> QED
      BY <2>1, <2>2, EditorsKeep DEF CatalogueNext
  <1> QED
    BY <1>1, CatalogueStarts, PTL DEF CatalogueSpec

(* Every row of the catalogue and the page keep their types.               *)
THEOREM CatalogueTypes == CatalogueSpec => []CatalogueTypeOK
  <1>1. CatalogueInv => CatalogueTypeOK
    BY DEF CatalogueInv, CatalogueTypeOK, RowTypes, PageRow
  <1> QED
    BY <1>1, CatalogueInvariant, PTL

(* OfferedWasPublic: a page never links to a document that was not public  *)
(* at some moment while it was rendered, nor to a file its document was    *)
(* never public with, but for one uploaded between the page's queries.     *)
THEOREM OnlyPublicOffered == CatalogueSpec => []OfferedWasPublic
  <1>1. CatalogueInv => OfferedWasPublic
    BY DEF CatalogueInv, Sources, OfferedWasPublic
  <1> QED
    BY <1>1, CatalogueInvariant, PTL
-----------------------------------------------------------------------------
LEMMA VendorStepTyped ==
  ASSUME DisclosureTypeOK, NEW v \in Vendors, VendorSteps(v) PROVE DisclosureTypeOK'
  <1>1. ASSUME NEW published \in BOOLEAN, NEW started \in Dates \cup {Undated},
               NEW ended \in Dates \cup {Undated}
        PROVE  [exists |-> TRUE, published |-> published, started |-> started,
                ended |-> ended] \in VendorRow
    BY DEF VendorRow
  <1>2. NoVendor \in VendorRow
    BY DEF NoVendor, VendorRow
  <1>3. CASE DeleteSubprocessor(v)
    <2>1. notice' \in [Notices -> NoticeRow]
      BY <1>3 DEF DisclosureTypeOK, DeleteSubprocessor, NoticeRow
    <2> QED
      BY <1>2, <1>3, <2>1 DEF DisclosureTypeOK, DeleteSubprocessor
  <1>4. CASE \E started, ended \in Dates \cup {Undated} :
                \/ CreateSubprocessor(v, started, ended)
                \/ \E published \in BOOLEAN : UpdateSubprocessor(v, published, started, ended)
    <2>1. PICK row \in VendorRow : vendor' = [vendor EXCEPT ![v] = row]
      BY <1>1, <1>4 DEF CreateSubprocessor, UpdateSubprocessor
    <2>2. UNCHANGED <<notice, today>>
      BY <1>4 DEF CreateSubprocessor, UpdateSubprocessor
    <2> QED
      BY <2>1, <2>2 DEF DisclosureTypeOK
  <1> QED
    BY <1>3, <1>4 DEF VendorSteps

LEMMA NoticeStepTyped ==
  ASSUME DisclosureTypeOK, NEW n \in Notices, NoticeSteps(n) PROVE DisclosureTypeOK'
  <1>1. NoNotice \in NoticeRow
    BY DEF NoNotice, NoticeRow
  <1>2. ASSUME NEW at \in Dates \cup {Undated}, CreateUpdate(n, at) \/ UpdateUpdate(n, at)
        PROVE  DisclosureTypeOK'
    <2>1. [exists |-> TRUE, at |-> at, about |-> {}] \in NoticeRow
      BY DEF NoticeRow
    <2>2. CASE CreateUpdate(n, at)
      BY <2>1, <2>2 DEF DisclosureTypeOK, CreateUpdate
    <2>3. CASE UpdateUpdate(n, at)
      BY <2>3 DEF DisclosureTypeOK, UpdateUpdate, NoticeRow
    <2> QED
      BY <1>2, <2>2, <2>3
  <1>3. ASSUME NEW about \in SUBSET Vendors, SetUpdateSubprocessors(n, about)
        PROVE  DisclosureTypeOK'
    BY <1>3 DEF DisclosureTypeOK, SetUpdateSubprocessors, NoticeRow
  <1>4. CASE DeleteNotice(n)
    BY <1>1, <1>4 DEF DisclosureTypeOK, DeleteNotice
  <1> QED
    BY <1>2, <1>3, <1>4 DEF NoticeSteps

(* Every variable of the disclosures keeps its type.                       *)
THEOREM DisclosureTypes == DisclosureSpec => []DisclosureTypeOK
  <1>1. DisclosureInit => DisclosureTypeOK
    BY LastDayAssumption
    DEF DisclosureInit, DisclosureTypeOK, NoVendor, NoNotice, VendorRow, NoticeRow, Dates
  <1>2. DisclosureTypeOK /\ [DisclosureNext]_disclosureVars => DisclosureTypeOK'
    <2> SUFFICES ASSUME DisclosureTypeOK, [DisclosureNext]_disclosureVars PROVE DisclosureTypeOK'
      OBVIOUS
    <2>1. CASE NextDay
      BY <2>1, LastDayAssumption DEF DisclosureTypeOK, NextDay, Dates
    <2>2. CASE UNCHANGED disclosureVars
      BY <2>2 DEF DisclosureTypeOK, disclosureVars
    <2> QED
      BY <2>1, <2>2, VendorStepTyped, NoticeStepTyped DEF DisclosureNext
  <1> QED
    BY <1>1, <1>2, PTL DEF DisclosureSpec

(* The parts of WarningsHaveReasons, for a subprocessor whose row stays.   *)
AdditionAnnounced(v) ==
    (NoticeCoverage(v) = "addition-unannounced" /\ NoticeCoverage(v)' = "none") =>
        \E n \in Notices : /\ Tells(n, v)'
                           /\ ~ Tells(n, v) \/ notice'[n].at # notice[n].at
                           /\ vendor[v].ended = Undated \/ notice'[n].at < vendor[v].ended
RemovalAnnounced(v) ==
    (NoticeCoverage(v) = "removal-unannounced" /\ NoticeCoverage(v)' # "removal-unannounced") =>
        \E n \in Notices : Tells(n, v)' /\ notice'[n].at >= vendor[v].ended
AnnouncementLost(v) ==
    (NoticeCoverage(v) = "none" /\ NoticeCoverage(v)' # "none") =>
        \E n \in Notices : Tells(n, v) /\ (~ Tells(n, v)' \/ notice'[n].at # notice[n].at)
FormerIsWarnedOf(v) ==
    (Former(v) /\ \A n \in Notices : Tells(n, v) => notice[n].at < vendor[v].ended) =>
        NoticeCoverage(v) = "removal-unannounced"

LEMMA AdditionsNeedAPost ==
  ASSUME NEW v \in Vendors, vendor'[v] = vendor[v] PROVE AdditionAnnounced(v)
  <1> SUFFICES ASSUME NoticeCoverage(v) = "addition-unannounced", NoticeCoverage(v)' = "none"
               PROVE  \E n \in Notices :
                          /\ Tells(n, v)'
                          /\ ~ Tells(n, v) \/ notice'[n].at # notice[n].at
                          /\ vendor[v].ended = Undated \/ notice'[n].at < vendor[v].ended
    BY DEF AdditionAnnounced
  <1>1. /\ ~Covers(v, vendor[v].started, vendor[v].ended)
        /\ Covers(v, vendor[v].started, vendor[v].ended)'
    BY DEF NoticeCoverage
  <1> QED
    BY <1>1 DEF Covers, CoveringPublishedAt, Tells

LEMMA RemovalsNeedAPost ==
  ASSUME NEW v \in Vendors, vendor'[v] = vendor[v] PROVE RemovalAnnounced(v)
  <1> SUFFICES ASSUME NoticeCoverage(v) = "removal-unannounced",
                      NoticeCoverage(v)' # "removal-unannounced"
               PROVE  \E n \in Notices : Tells(n, v)' /\ notice'[n].at >= vendor[v].ended
    BY DEF RemovalAnnounced
  <1>1. vendor[v].ended # Undated /\ Covers(v, vendor[v].ended, Undated)'
    BY DEF NoticeCoverage
  <1> QED
    BY <1>1 DEF Covers, CoveringPublishedAt, Tells

LEMMA WarningsNeedALoss ==
  ASSUME NEW v \in Vendors, vendor'[v] = vendor[v] PROVE AnnouncementLost(v)
  <1> SUFFICES ASSUME NoticeCoverage(v) = "none", NoticeCoverage(v)' # "none"
               PROVE  \E n \in Notices :
                          Tells(n, v) /\ (~ Tells(n, v)' \/ notice'[n].at # notice[n].at)
    BY DEF AnnouncementLost
  <1>1. \/ Covers(v, vendor[v].ended, Undated) /\ ~Covers(v, vendor[v].ended, Undated)'
        \/ /\ Covers(v, vendor[v].started, vendor[v].ended)
           /\ ~Covers(v, vendor[v].started, vendor[v].ended)'
    BY DEF NoticeCoverage
  <1> QED
    BY <1>1 DEF Covers, CoveringPublishedAt, Tells

LEMMA FormerAreWarnedOf ==
  ASSUME DisclosureTypeOK, NEW v \in Vendors PROVE FormerIsWarnedOf(v)
  <1> SUFFICES ASSUME Former(v), \A n \in Notices : Tells(n, v) => notice[n].at < vendor[v].ended
               PROVE  NoticeCoverage(v) = "removal-unannounced"
    BY DEF FormerIsWarnedOf
  <1>1. vendor[v].ended \in Dates /\ vendor[v].ended # Undated /\ vendor[v].published
    BY DEF Former, DisclosureTypeOK, VendorRow
  <1>2. \A n \in Notices : Tells(n, v) => notice[n].at \in Dates
    BY DEF Tells, LivePost, DisclosureTypeOK, NoticeRow
  <1>3. ~Covers(v, vendor[v].ended, Undated)
    BY <1>1, <1>2, LastDayAssumption DEF Covers, CoveringPublishedAt, Tells, Dates
  <1> QED
    BY <1>1, <1>3 DEF NoticeCoverage

(* A warning comes and goes for a reason (noticeCoverage in                *)
(* subprocessors.ts): with the row as it was, one about an addition goes   *)
(* only by a post dated before the removal, one about a removal only by a  *)
(* post dated since, and one comes up only by a post that went away; and   *)
(* what the portal lists as former with nobody told is warned about.       *)
THEOREM WarningsComeAndGo == DisclosureSpec => WarningsHaveReasons
  <1> DEFINE Step == \A v \in Vendors :
        /\ vendor'[v] = vendor[v] =>
              /\ (NoticeCoverage(v) = "addition-unannounced" /\ NoticeCoverage(v)' = "none") =>
                    \E n \in Notices :
                        /\ Tells(n, v)'
                        /\ ~ Tells(n, v) \/ notice'[n].at # notice[n].at
                        /\ vendor[v].ended = Undated \/ notice'[n].at < vendor[v].ended
              /\ (NoticeCoverage(v) = "removal-unannounced"
                    /\ NoticeCoverage(v)' # "removal-unannounced") =>
                    \E n \in Notices : Tells(n, v)' /\ notice'[n].at >= vendor[v].ended
              /\ (NoticeCoverage(v) = "none" /\ NoticeCoverage(v)' # "none") =>
                    \E n \in Notices :
                        Tells(n, v) /\ (~ Tells(n, v)' \/ notice'[n].at # notice[n].at)
        /\ (Former(v) /\ \A n \in Notices : Tells(n, v) => notice[n].at < vendor[v].ended) =>
              NoticeCoverage(v) = "removal-unannounced"
  <1>1. DisclosureTypeOK => Step
    BY AdditionsNeedAPost, RemovalsNeedAPost, WarningsNeedALoss, FormerAreWarnedOf
    DEF AdditionAnnounced, RemovalAnnounced, AnnouncementLost, FormerIsWarnedOf
  <1>2. WarningsHaveReasons <=> [][Step]_disclosureVars
    BY DEF WarningsHaveReasons
  <1> HIDE DEF Step
  <1> QED
    BY <1>1, <1>2, DisclosureTypes, PTL

----------------------------------------------------------------------------
LEMMA LeastExists ==
  ASSUME NEW S \in SUBSET Nat, S # {}
  PROVE  \E least \in S : \A n \in S : least <= n
  <1> DEFINE R == {ss \in Nat \X Nat : ss[1] < ss[2]}
  <1>1. PICK least \in S : \A n \in S : ~ (<<n, least>> \in R)
    BY WFMin, LessIsWellFounded
  <1>2. ASSUME NEW n \in S PROVE least <= n
    <2>1. n \in Nat /\ least \in Nat
      OBVIOUS
    <2>2. ~ (n < least)
      BY <1>1, <2>1
    <2> QED
      BY <2>1, <2>2
  <1> QED
    BY <1>2

(* Induction up to n, for the set of the numbers it is shown for.           *)
LEMMA UpTo ==
  ASSUME NEW n \in Nat, NEW T, 0 \in T, \A i \in 1..n : i - 1 \in T => i \in T
  PROVE  \A i \in 0..n : i \in T
  <1> DEFINE Bad == {i \in 0..n : i \notin T}
  <1>1. SUFFICES ASSUME Bad # {} PROVE FALSE
    OBVIOUS
  <1>2. PICK least \in Bad : \A i \in Bad : least <= i
    <2>1. Bad \in SUBSET Nat
      OBVIOUS
    <2> HIDE DEF Bad
    <2> QED
      BY <2>1, <1>1, LeastExists
  <1>3. least \in 1..n /\ least \notin T
    OBVIOUS
  <1>4. least - 1 \in 0..n /\ ~ (least <= least - 1)
    BY <1>3
  <1> QED
    BY <1>2, <1>3, <1>4

LEMMA MaxOfNumbers ==
  ASSUME NEW n \in Nat, NEW s \in SUBSET (1..n), s # {}
  PROVE  /\ Max(s) \in s
         /\ \A x \in s : x <= Max(s)
  <1> DEFINE Gaps == {n - x : x \in s}
  <1>1. PICK gap \in Gaps : \A other \in Gaps : gap <= other
    <2>1. \A x \in s : n - x \in Nat
      OBVIOUS
    <2>2. Gaps \in SUBSET Nat /\ Gaps # {}
      BY <2>1
    <2> HIDE DEF Gaps
    <2> QED
      BY <2>2, LeastExists
  <1>2. PICK m \in s : gap = n - m
    OBVIOUS
  <1>3. ASSUME NEW x \in s PROVE m >= x
    <2>1. n - x \in Gaps
      OBVIOUS
    <2> HIDE DEF Gaps
    <2> QED
      BY <2>1, <1>1, <1>2
  <1>4. \E x \in s : \A y \in s : x >= y
    BY <1>3
  <1>5. Max(s) \in s /\ \A y \in s : Max(s) >= y
    BY <1>4 DEF Max
  <1> QED
    BY <1>5

FoldsWith(g, base, seq, op) ==
    \A s \in SUBSET (1 .. Len(seq)) :
        g[s] = IF s = {} THEN base ELSE op[<<g[s \ {Max(s)}], seq[Max(s)]>>]

LEMMA FoldExists ==
  ASSUME NEW A, NEW B, NEW base \in A, NEW seq \in Seq(B), NEW op \in [A \X B -> A]
  PROVE  \E g \in [SUBSET (1..Len(seq)) -> A] : FoldsWith(g, base, seq, op)
  <1> DEFINE Works(g, n) ==
               /\ g \in [SUBSET (1..n) -> A]
               /\ \A s \in SUBSET (1..n) :
                     g[s] = IF s = {} THEN base ELSE op[<<g[s \ {Max(s)}], seq[Max(s)]>>]
             T == {n \in 0..Len(seq) : \E g : Works(g, n)}
  <1>0. Len(seq) \in Nat /\ \A i \in 1..Len(seq) : seq[i] \in B
    BY LenProperties, ElementOfSeq
  <1>1. 0 \in T
    <2> DEFINE g == [s \in SUBSET (1..0) |-> base]
    <2>1. Works(g, 0)
      <3>1. 1..0 = {}
        OBVIOUS
      <3> QED
        BY <3>1
    <2>2. \E f : Works(f, 0)
      <3> HIDE DEF g, Works
      <3> QED
        BY <2>1
    <2> HIDE DEF Works
    <2> QED
      BY <2>2, <1>0
  <1>2. ASSUME NEW n \in 1..Len(seq), n - 1 \in T PROVE n \in T
    <2>0. n \in Nat /\ n > 0 /\ n \in 0..Len(seq)
      BY <1>0
    <2>1. PICK g : Works(g, n - 1)
      BY <1>2
    <2> DEFINE h == [s \in SUBSET (1..n) |->
                       IF n \in s THEN op[<<g[s \ {n}], seq[n]>>] ELSE g[s]]
    <2>2. \A s \in SUBSET (1..n) :
              s \ {n} \in SUBSET (1..n - 1) /\ (n \notin s => s \in SUBSET (1..n - 1))
      BY <2>0
    <2>3. ASSUME NEW s \in SUBSET (1..n) PROVE h[s] \in A
      <3>1. s \ {n} \in SUBSET (1..n - 1) /\ (n \notin s => s \in SUBSET (1..n - 1))
        BY <2>2
      <3>2. g[s \ {n}] \in A /\ (n \notin s => g[s] \in A)
        BY <3>1, <2>1
      <3> QED
        BY <3>2, <1>0
    <2>4. ASSUME NEW s \in SUBSET (1..n)
          PROVE  h[s] = IF s = {} THEN base ELSE op[<<h[s \ {Max(s)}], seq[Max(s)]>>]
      <3>1. CASE n \in s
        <4>1. Max(s) = n
          <5>1. Max(s) \in s /\ \A x \in s : x <= Max(s)
            BY MaxOfNumbers, <3>1, <2>0
          <5>2. Max(s) \in 1..n /\ n <= Max(s)
            BY <5>1, <3>1
          <5> QED
            BY <5>2, <2>0
        <4>2. h[s \ {n}] = g[s \ {n}]
          <5>1. s \ {n} \in SUBSET (1..n) /\ n \notin s \ {n}
            OBVIOUS
          <5> QED
            BY <5>1
        <4>3. h[s] = op[<<g[s \ {n}], seq[n]>>]
          BY <3>1
        <4> HIDE DEF h
        <4> QED
          BY <4>1, <4>2, <4>3, <3>1
      <3>2. CASE n \notin s
        <4>1. s \in SUBSET (1..n - 1) /\ s \ {Max(s)} \in SUBSET (1..n - 1)
          BY <2>2, <3>2
        <4>2. h[s] = g[s] /\ h[s \ {Max(s)}] = g[s \ {Max(s)}]
          BY <3>2
        <4>3. g[s] = IF s = {} THEN base ELSE op[<<g[s \ {Max(s)}], seq[Max(s)]>>]
          BY <4>1, <2>1
        <4> HIDE DEF h
        <4> QED
          BY <4>2, <4>3
      <3> QED
        BY <3>1, <3>2
    <2>5. h \in [SUBSET (1..n) -> A]
      BY <2>3
    <2>6. Works(h, n)
      <3> HIDE DEF h
      <3> QED
        BY <2>4, <2>5
    <2>7. \E k : Works(k, n)
      <3> HIDE DEF h, Works
      <3> QED
        BY <2>6
    <2> QED
      BY <2>7, <2>0
  <1>3. \A n \in 0..Len(seq) : n \in T
    <2> HIDE DEF T
    <2> QED
      BY <1>0, <1>1, <1>2, UpTo
  <1>4. PICK g : Works(g, Len(seq))
    <2>1. Len(seq) \in T
      <3> HIDE DEF T
      <3> QED
        BY <1>3, <1>0
    <2> QED
      BY <2>1
  <1> QED
    BY <1>4 DEF FoldsWith

LEMMA FirstNumbers ==
  ASSUME NEW n \in Nat, n > 0
  PROVE  /\ 1..n # {} /\ Max(1..n) = n
         /\ (1..n) \ {n} = 1..(n - 1)
  <1>1. Max(1..n) \in 1..n /\ n <= Max(1..n)
    <2>1. 1..n \in SUBSET (1..n) /\ 1..n # {} /\ n \in 1..n
      OBVIOUS
    <2> QED
      BY <2>1, MaxOfNumbers
  <1>2. Max(1..n) = n
    BY <1>1
  <1> QED
    BY <1>2

(* A fold is known by its prefixes: what it comes to after each element.    *)
RunsAs(run, A, base, seq, op, result) ==
    /\ run \in [0..Len(seq) -> A]
    /\ run[0] = base /\ run[Len(seq)] = result
    /\ \A n \in 1..Len(seq) : run[n] = op[<<run[n - 1], seq[n]>>]

TakesLast(fold, A, seq, op) ==
    \A s \in SUBSET (1..Len(seq)) : s # {} /\ fold[s \ {Max(s)}] \in A =>
        fold[s] = op[<<fold[s \ {Max(s)}], seq[Max(s)]>>]

LEMMA FoldRuns ==
  ASSUME NEW A, NEW B, NEW base \in A, NEW seq \in Seq(B), NEW op \in [A \X B -> A],
         NEW fold, fold[{}] = base, TakesLast(fold, A, seq, op)
  PROVE  \E run : RunsAs(run, A, base, seq, op, fold[1..Len(seq)])
  <1>0. Len(seq) \in Nat /\ \A i \in 1..Len(seq) : seq[i] \in B
    BY LenProperties, ElementOfSeq
  <1>1. 1..0 = {}
    OBVIOUS
  <1>2. ASSUME NEW n \in 1..Len(seq), fold[1..(n - 1)] \in A
        PROVE  fold[1..n] = op[<<fold[1..(n - 1)], seq[n]>>] /\ fold[1..n] \in A
    <2>1. n \in Nat /\ n > 0 /\ 1..n \in SUBSET (1..Len(seq))
      BY <1>0
    <2>2. Max(1..n) = n /\ (1..n) \ {n} = 1..(n - 1) /\ 1..n # {}
      BY <2>1, FirstNumbers
    <2>3. fold[1..n] = op[<<fold[1..(n - 1)], seq[n]>>]
      BY <2>1, <2>2, <1>2 DEF TakesLast
    <2> QED
      BY <2>3, <1>2, <1>0
  <1>3. \A n \in 0..Len(seq) : fold[1..n] \in A
    <2> DEFINE T == {n \in 0..Len(seq) : fold[1..n] \in A}
    <2>1. 0 \in T
      BY <1>0, <1>1
    <2>2. ASSUME NEW n \in 1..Len(seq), n - 1 \in T PROVE n \in T
      <3>1. n \in 0..Len(seq)
        BY <1>0
      <3> QED
        BY <2>2, <3>1, <1>2
    <2>3. \A n \in 0..Len(seq) : n \in T
      <3> HIDE DEF T
      <3> QED
        BY <2>1, <2>2, <1>0, UpTo
    <2> QED
      BY <2>3
  <1> DEFINE run == [n \in 0..Len(seq) |-> fold[1..n]]
  <1>4. run \in [0..Len(seq) -> A]
    BY <1>3
  <1>5. run[0] = base /\ run[Len(seq)] = fold[1..Len(seq)]
    BY <1>0, <1>1
  <1>6. ASSUME NEW n \in 1..Len(seq) PROVE run[n] = op[<<run[n - 1], seq[n]>>]
    <2>1. n \in 0..Len(seq) /\ n - 1 \in 0..Len(seq)
      BY <1>0
    <2>2. fold[1..n] = op[<<fold[1..(n - 1)], seq[n]>>]
      BY <2>1, <1>2, <1>3
    <2> QED
      BY <2>1, <2>2
  <1> HIDE DEF run
  <1> QED
    BY <1>4, <1>5, <1>6 DEF RunsAs

(* The reduce of matchRule, row by row.                                     *)
LEMMA MatchSteps ==
  ASSUME NEW rows \in Seq(Rule), NEW domain
  PROVE  \E best \in [0..Len(rows) -> Rule \cup {NoRule}] :
           /\ best[0] = NoRule
           /\ \A n \in 1..Len(rows) : best[n] = BetterMatch(best[n - 1], rows[n], domain)
           /\ MatchRule(rows, domain) = best[Len(rows)]
  <1> DEFINE Found == Rule \cup {NoRule}
             op == [p \in Found \X Rule |-> BetterMatch(p[1], p[2], domain)]
             Step(f, s) == IF s = {} THEN NoRule
                           ELSE BetterMatch(f[s \ {Max(s)}], rows[Max(s)], domain)
             Folds(f) == f = [s \in SUBSET DOMAIN rows |-> Step(f, s)]
             fold == CHOOSE f : Folds(f)
  <1>0. Len(rows) \in Nat /\ DOMAIN rows = 1..Len(rows) /\ \A i \in 1..Len(rows) : rows[i] \in Rule
    BY LenProperties, ElementOfSeq
  <1>1. \A b \in Found, r \in Rule : BetterMatch(b, r, domain) \in Found
    BY DEF BetterMatch, Preferred
  <1>2. op \in [Found \X Rule -> Found] /\ NoRule \in Found
    BY <1>1
  <1>3. \A f, s : s \in SUBSET (1..Len(rows)) /\ s # {} /\ f[s \ {Max(s)}] \in Found =>
            Step(f, s) = op[<<f[s \ {Max(s)}], rows[Max(s)]>>]
    <2> SUFFICES ASSUME NEW f, NEW s \in SUBSET (1..Len(rows)), s # {}, f[s \ {Max(s)}] \in Found
                 PROVE  Step(f, s) = op[<<f[s \ {Max(s)}], rows[Max(s)]>>]
      OBVIOUS
    <2>1. rows[Max(s)] \in Rule
      BY <1>0, MaxOfNumbers
    <2> HIDE DEF Found
    <2> QED
      BY <2>1
  <1>4. \E f : Folds(f)
    <2> HIDE DEF Found, op, Step
    <2>1. PICK g \in [SUBSET (1..Len(rows)) -> Found] : FoldsWith(g, NoRule, rows, op)
      BY <1>2, FoldExists
    <2>2. ASSUME NEW s \in SUBSET (1..Len(rows)) PROVE g[s] = Step(g, s)
      BY <2>1, <1>3 DEF FoldsWith, Step
    <2>3. Folds(g)
      BY <2>1, <2>2, <1>0
    <2> HIDE DEF Folds
    <2> QED
      BY <2>3
  <1>5. Folds(fold)
    <2> HIDE DEF Folds
    <2> QED
      BY <1>4
  <1>6. MatchRule(rows, domain) = fold[1..Len(rows)]
    BY <1>0 DEF MatchRule, FoldLeft, MapThenFoldSet
  <1> HIDE DEF fold, op, Found
  <1>7. \A s \in SUBSET (1..Len(rows)) : fold[s] = Step(fold, s)
    <2> HIDE DEF Step
    <2> QED
      BY <1>5, <1>0
  <1>8. fold[{}] = NoRule
    BY <1>7
  <1>9. PICK best : RunsAs(best, Found, NoRule, rows, op, fold[1..Len(rows)])
    <2>1. TakesLast(fold, Found, rows, op)
      <3> HIDE DEF Step
      <3> QED
        BY <1>3, <1>7 DEF TakesLast
    <2> QED
      BY <1>2, <1>8, <2>1, FoldRuns
  <1>10. ASSUME NEW n \in 1..Len(rows) PROVE best[n] = BetterMatch(best[n - 1], rows[n], domain)
    <2>1. best[n - 1] \in Found /\ rows[n] \in Rule
      BY <1>0, <1>9 DEF RunsAs
    <2> QED
      BY <2>1, <1>9 DEF op, RunsAs
  <1> QED
    BY <1>6, <1>9, <1>10 DEF RunsAs, Found

(* The length of a pattern, label by label.                                 *)
LEMMA LengthSteps ==
  ASSUME NEW rule \in Rule
  PROVE  \E sum \in [0..Len(rule.name) -> Nat] :
           /\ sum[0] = IF rule.wild THEN 2 ELSE 0
           /\ \A n \in 1..Len(rule.name) : sum[n] = sum[n - 1] + LabelLength[rule.name[n]] + 1
           /\ PatternLength(rule) = sum[Len(rule.name)]
  <1> DEFINE Labels == DOMAIN LabelLength
             name == rule.name
             start == IF rule.wild THEN 2 ELSE 0
             op == [p \in Nat \X Labels |-> p[1] + LabelLength[p[2]] + 1]
             Step(f, s) == IF s = {} THEN start
                           ELSE f[s \ {Max(s)}] + LabelLength[name[Max(s)]] + 1
             Folds(f) == f = [s \in SUBSET DOMAIN name |-> Step(f, s)]
             fold == CHOOSE f : Folds(f)
  <1>0. name \in Seq(Labels)
    BY RulesAssumption DEF Rule
  <1>1. Len(name) \in Nat /\ DOMAIN name = 1..Len(name) /\ \A i \in 1..Len(name) : name[i] \in Labels
    <2> HIDE DEF name, Labels
    <2> QED
      BY <1>0, LenProperties, ElementOfSeq
  <1>2. op \in [Nat \X Labels -> Nat] /\ start \in Nat
    BY RulesAssumption
  <1> HIDE DEF name, Labels, start
  <1>3. \A f, s : s \in SUBSET (1..Len(name)) /\ s # {} /\ f[s \ {Max(s)}] \in Nat =>
            Step(f, s) = op[<<f[s \ {Max(s)}], name[Max(s)]>>]
    <2> SUFFICES ASSUME NEW f, NEW s \in SUBSET (1..Len(name)), s # {}, f[s \ {Max(s)}] \in Nat
                 PROVE  Step(f, s) = op[<<f[s \ {Max(s)}], name[Max(s)]>>]
      OBVIOUS
    <2>1. name[Max(s)] \in Labels
      BY <1>1, MaxOfNumbers
    <2> QED
      BY <2>1
  <1>4. \E f : Folds(f)
    <2> HIDE DEF op, Step
    <2>1. PICK g \in [SUBSET (1..Len(name)) -> Nat] : FoldsWith(g, start, name, op)
      BY <1>0, <1>2, FoldExists
    <2>2. ASSUME NEW s \in SUBSET (1..Len(name)) PROVE g[s] = Step(g, s)
      BY <2>1, <1>3 DEF FoldsWith, Step
    <2>3. Folds(g)
      BY <2>1, <2>2, <1>1
    <2> HIDE DEF Folds
    <2> QED
      BY <2>3
  <1>5. Folds(fold)
    <2> HIDE DEF Folds
    <2> QED
      BY <1>4
  <1>6. PatternLength(rule) = fold[1..Len(name)]
    BY <1>1 DEF PatternLength, FoldLeft, MapThenFoldSet, name, start
  <1> HIDE DEF fold, op
  <1>7. \A s \in SUBSET (1..Len(name)) : fold[s] = Step(fold, s)
    <2> HIDE DEF Step
    <2> QED
      BY <1>5, <1>1
  <1>8. fold[{}] = start
    BY <1>7
  <1>9. PICK sum : RunsAs(sum, Nat, start, name, op, fold[1..Len(name)])
    <2>1. TakesLast(fold, Nat, name, op)
      <3> HIDE DEF Step
      <3> QED
        BY <1>3, <1>7 DEF TakesLast
    <2> QED
      BY <1>0, <1>2, <1>8, <2>1, FoldRuns
  <1>10. ASSUME NEW n \in 1..Len(name) PROVE sum[n] = sum[n - 1] + LabelLength[name[n]] + 1
    <2>1. sum[n - 1] \in Nat /\ name[n] \in Labels
      BY <1>1, <1>9 DEF RunsAs
    <2> QED
      BY <2>1, <1>9 DEF op, RunsAs
  <1> QED
    BY <1>6, <1>9, <1>10 DEF RunsAs, name, start

(* Along a function that grows with each step, later values are greater; and *)
(* two functions that grow alike differ by the same amount throughout.       *)
LEMMA GrowingIsAtLeast ==
  ASSUME NEW n \in Nat, NEW f \in [0..n -> Int], \A i \in 1..n : f[i] > f[i - 1]
  PROVE  \A i \in 0..n : f[i] >= f[0] + i
  <1> DEFINE T == {i \in 0..n : f[i] >= f[0] + i}
  <1>1. 0 \in T
    OBVIOUS
  <1>2. ASSUME NEW i \in 1..n, i - 1 \in T PROVE i \in T
    <2>1. f[i - 1] >= f[0] + (i - 1) /\ f[i] > f[i - 1] /\ i \in 0..n /\ i - 1 \in 0..n
      BY <1>2
    <2>2. f[i] \in Int /\ f[i - 1] \in Int /\ f[0] \in Int
      BY <2>1
    <2>3. f[i] >= f[0] + i
      BY <2>1, <2>2
    <2> QED
      BY <2>1, <2>3
  <1>3. \A i \in 0..n : i \in T
    <2> HIDE DEF T
    <2> QED
      BY <1>1, <1>2, UpTo
  <1> QED
    BY <1>3

GrowsBy(f, e, n) == \A i \in 1..n : f[i] = f[i - 1] + e[i]

LEMMA GrowingAlike ==
  ASSUME NEW n \in Nat, NEW f \in [0..n -> Int], NEW g \in [0..n -> Int], NEW e \in [1..n -> Int],
         GrowsBy(f, e, n), GrowsBy(g, e, n)
  PROVE  f[n] + g[0] = g[n] + f[0]
  <1> DEFINE T == {i \in 0..n : f[i] + g[0] = g[i] + f[0]}
  <1>1. 0 \in T
    OBVIOUS
  <1>2. ASSUME NEW i \in 1..n, i - 1 \in T PROVE i \in T
    <2>1. i \in 0..n /\ i - 1 \in 0..n
      OBVIOUS
    <2>2. f[i - 1] + g[0] = g[i - 1] + f[0]
      BY <1>2
    <2>3. f[i] + g[0] = g[i] + f[0]
      <3>1. f[i] = f[i - 1] + e[i] /\ g[i] = g[i - 1] + e[i]
        BY DEF GrowsBy
      <3>2. f[i - 1] \in Int /\ f[0] \in Int /\ g[i - 1] \in Int /\ g[0] \in Int /\ e[i] \in Int
        BY <2>1
      <3> DEFINE a == f[i - 1]  b == g[i - 1]  c == f[0]  d == g[0]  x == e[i]  fi == f[i]  gi == g[i]
      <3>3. /\ a \in Int /\ b \in Int /\ c \in Int /\ d \in Int /\ x \in Int
            /\ a + d = b + c /\ fi = a + x /\ gi = b + x
        BY <2>2, <3>1, <3>2
      <3>4. fi + d = gi + c
        <4> HIDE DEF a, b, c, d, x, fi, gi
        <4> QED
          BY <3>3
      <3> QED
        BY <3>4
    <2> QED
      BY <2>1, <2>3
  <1>3. \A i \in 0..n : i \in T
    <2> HIDE DEF T
    <2> QED
      BY <1>1, <1>2, UpTo
  <1> QED
    BY <1>3

(* A wildcard that matches is a suffix of the domain.                       *)
LEMMA WildMatchIsSuffix ==
  ASSUME NEW rule \in Rule, NEW domain \in Domains, rule.wild, PatternMatches(rule, domain)
  PROVE  /\ rule.name \in Seq(DOMAIN LabelLength) /\ domain \in Seq(DOMAIN LabelLength)
         /\ Len(rule.name) \in Nat /\ Len(domain) \in Nat /\ Len(rule.name) < Len(domain)
         /\ \A i \in 1..Len(rule.name) :
                rule.name[i] = domain[Len(domain) - Len(rule.name) + i]
  <1> DEFINE s == rule.name
  <1>1. s \in Seq(DOMAIN LabelLength) /\ domain \in Seq(DOMAIN LabelLength)
    BY RulesAssumption DEF Rule
  <1>2. Len(s) \in Nat /\ Len(domain) \in Nat
    BY <1>1, LenProperties
  <1>3. Len(domain) > Len(s) /\ IsSuffix(s, domain)
    BY DEF PatternMatches
  <1> HIDE DEF s
  <1> DEFINE rs == Reverse(s)
             rd == Reverse(domain)
  <1>4. /\ rs \in Seq(DOMAIN LabelLength) /\ Len(rs) = Len(s)
        /\ \A i \in 1..Len(s) : rs[i] = s[Len(s) - i + 1]
    BY <1>1, <1>2 DEF Reverse
  <1>5. /\ rd \in Seq(DOMAIN LabelLength) /\ Len(rd) = Len(domain)
        /\ \A i \in 1..Len(domain) : rd[i] = domain[Len(domain) - i + 1]
    BY <1>1, <1>2 DEF Reverse
  <1>6. SubSeq(rs, 1, Len(s)) = SubSeq(rd, 1, Len(s))
    BY <1>3, <1>4 DEF IsSuffix, IsPrefix
  <1> HIDE DEF rs, rd
  <1>7. ASSUME NEW i \in 1..Len(s) PROVE rs[i] = rd[i]
    <2>1. \A j \in 1..Len(s) : rs[j] \in DOMAIN LabelLength /\ rd[j] \in DOMAIN LabelLength
      BY <1>2, <1>3, <1>4, <1>5, ElementOfSeq
    <2>2. SubSeq(rs, 1, Len(s))[i] = rs[i] /\ SubSeq(rd, 1, Len(s))[i] = rd[i]
      BY <2>1, <1>2, SubSeqProperties
    <2> QED
      BY <2>2, <1>6
  <1>8. ASSUME NEW i \in 1..Len(s) PROVE s[i] = domain[Len(domain) - Len(s) + i]
    <2> DEFINE j == Len(s) - i + 1
    <2>1. j \in 1..Len(s) /\ j \in 1..Len(domain) /\ Len(s) - j + 1 = i
          /\ Len(domain) - j + 1 = Len(domain) - Len(s) + i
      BY <1>2, <1>3
    <2> QED
      BY <2>1, <1>4, <1>5, <1>7
  <1> QED
    BY <1>1, <1>2, <1>3, <1>8 DEF s

(* Of two wildcards that match a domain, the one over more labels is the     *)
(* longer pattern, and two over as many labels are the same.                 *)
LEMMA LongerNameIsLonger ==
  ASSUME NEW a \in Rule, NEW b \in Rule, NEW domain \in Domains, a.wild, b.wild,
         PatternMatches(a, domain), PatternMatches(b, domain), Len(b.name) < Len(a.name)
  PROVE  PatternLength(b) < PatternLength(a)
  <1> DEFINE k == Len(b.name)
             m == Len(a.name)
             w == Len(domain)
             d == m - k
  <1>0. k \in Nat /\ m \in Nat /\ w \in Nat /\ d \in Nat /\ d > 0 /\ m = d + k
    <2>1. m \in Nat /\ w \in Nat
      BY WildMatchIsSuffix
    <2>2. k \in Nat
      BY WildMatchIsSuffix
    <2>3. k < m
      OBVIOUS
    <2> HIDE DEF k, m
    <2> QED
      BY <2>1, <2>2, <2>3
  <1>1. \A i \in 1..m : a.name[i] \in DOMAIN LabelLength /\ a.name[i] = domain[w - m + i]
    BY WildMatchIsSuffix, ElementOfSeq
  <1>2. \A i \in 1..k : b.name[i] = a.name[d + i] /\ d + i \in 1..m
    <2>1. \A i \in 1..k : b.name[i] = domain[w - k + i]
      BY WildMatchIsSuffix
    <2>2. \A i \in 1..k : d + i \in 1..m /\ w - m + (d + i) = w - k + i
      <3> HIDE DEF k, m, w
      <3> QED
        BY <1>0
    <2> HIDE DEF k, m, w, d
    <2> QED
      BY <2>1, <2>2, <1>1
  <1>3. PICK sa \in [0..m -> Nat] :
            /\ sa[0] = 2 /\ PatternLength(a) = sa[m]
            /\ \A n \in 1..m : sa[n] = sa[n - 1] + LabelLength[a.name[n]] + 1
    BY LengthSteps
  <1>4. PICK sb \in [0..k -> Nat] :
            /\ sb[0] = 2 /\ PatternLength(b) = sb[k]
            /\ \A n \in 1..k : sb[n] = sb[n - 1] + LabelLength[b.name[n]] + 1
    BY LengthSteps
  <1> HIDE DEF k, d, m, w
  <1>5. \A n \in 1..m : LabelLength[a.name[n]] \in Nat
    BY <1>1, RulesAssumption
  <1>6. sa[d] >= 2 + d
    <2>1. \A n \in 1..m : sa[n] > sa[n - 1]
      <3> TAKE n \in 1..m
      <3> DEFINE x == sa[n]  y == sa[n - 1]  l == LabelLength[a.name[n]]
      <3>1. x = y + l + 1 /\ y \in Nat /\ l \in Nat
        BY <1>0, <1>3, <1>5
      <3>2. x > y
        <4> HIDE DEF x, y, l
        <4> QED
          BY <3>1
      <3> QED
        BY <3>2
    <2>2. sa \in [0..m -> Int]
      OBVIOUS
    <2>3. \A i \in 0..m : sa[i] >= sa[0] + i
      BY <2>1, <2>2, <1>0, GrowingIsAtLeast
    <2>4. d \in 0..m
      BY <1>0
    <2> QED
      BY <2>3, <2>4, <1>3
  <1>7. sa[d + k] + sb[0] = sb[k] + sa[d]
    <2> DEFINE f == [i \in 0..k |-> sa[d + i]]
               e == [i \in 1..k |-> LabelLength[b.name[i]] + 1]
    <2>1. \A i \in 0..k : d + i \in 0..m
      BY <1>0
    <2>2. f \in [0..k -> Int] /\ sb \in [0..k -> Int] /\ e \in [1..k -> Int]
      BY <2>1, <1>2, <1>5
    <2>3. GrowsBy(sb, e, k)
      <3> SUFFICES ASSUME NEW i \in 1..k PROVE sb[i] = sb[i - 1] + e[i]
        BY DEF GrowsBy
      <3> DEFINE x == sb[i - 1]  l == LabelLength[b.name[i]]
      <3>1. i - 1 \in 0..k
        BY <1>0
      <3>2. x \in Nat
        BY <3>1
      <3>3. l \in Nat
        BY <1>2, <1>5
      <3>4. sb[i] = (x + l) + 1 /\ e[i] = l + 1
        BY <1>4
      <3>5. (x + l) + 1 = x + (l + 1)
        <4> HIDE DEF x, l
        <4> QED
          BY <3>2, <3>3
      <3> QED
        BY <3>4, <3>5
    <2>4. GrowsBy(f, e, k)
      <3> SUFFICES ASSUME NEW i \in 1..k PROVE f[i] = f[i - 1] + e[i]
        BY DEF GrowsBy
      <3>1. f[i] = sa[d + i] /\ f[i - 1] = sa[d + (i - 1)] /\ (d + i) - 1 = d + (i - 1)
        BY <1>0
      <3>2. d + i \in 1..m /\ d + (i - 1) \in 0..m
        BY <1>0
      <3>3. sa[d + i] = sa[d + (i - 1)] + LabelLength[b.name[i]] + 1
        BY <3>1, <3>2, <1>2, <1>3
      <3>4. LabelLength[b.name[i]] \in Nat /\ sa[d + (i - 1)] \in Nat
        BY <3>2, <1>2, <1>5
      <3> QED
        BY <3>1, <3>3, <3>4
    <2>5. f[0] = sa[d] /\ f[k] = sa[d + k]
      BY <1>0
    <2>6. f[k] + sb[0] = sb[k] + f[0]
      <3> HIDE DEF f, e
      <3> QED
        BY <2>2, <2>3, <2>4, <1>0, GrowingAlike
    <2> QED
      BY <2>5, <2>6
  <1>8. sa[d] \in Nat /\ sb[k] \in Nat /\ sa[d + k] \in Nat
    BY <1>0
  <1>9. sb[k] < sa[d + k]
    <2> DEFINE p == sa[d]  q == sb[k]  r == sa[d + k]
    <2>1. p \in Nat /\ q \in Nat /\ r \in Nat /\ p >= 2 + d /\ r + 2 = q + p
      BY <1>4, <1>6, <1>7, <1>8
    <2> HIDE DEF p, q, r
    <2>2. q < r
      BY <2>1, <1>0
    <2> QED
      BY <2>2 DEF q, r
  <1> QED
    BY <1>0, <1>3, <1>4, <1>9

LEMMA LengthIsNatural == ASSUME NEW rule \in Rule PROVE PatternLength(rule) \in Nat
  <1>1. PICK sum \in [0..Len(rule.name) -> Nat] : PatternLength(rule) = sum[Len(rule.name)]
    BY LengthSteps
  <1>2. Len(rule.name) \in Nat
    <2>1. rule.name \in Seq(DOMAIN LabelLength)
      BY RulesAssumption DEF Rule
    <2> QED
      BY <2>1, LenProperties
  <1> QED
    BY <1>1, <1>2

LEMMA SameLengthIsSame ==
  ASSUME NEW a \in Rule, NEW b \in Rule, NEW domain \in Domains, a.wild, b.wild,
         PatternMatches(a, domain), PatternMatches(b, domain), PatternLength(a) = PatternLength(b)
  PROVE  a.name = b.name
  <1>1. Len(a.name) \in Nat /\ Len(b.name) \in Nat
    BY WildMatchIsSuffix
  <1>2. Len(a.name) = Len(b.name)
    <2>1. ~ (Len(a.name) < Len(b.name)) /\ ~ (Len(b.name) < Len(a.name))
      BY LongerNameIsLonger, LengthIsNatural
    <2> QED
      BY <2>1, <1>1
  <1>3. \A i \in 1..Len(a.name) : a.name[i] = b.name[i]
    BY ZenonT(40), <1>2, WildMatchIsSuffix
  <1>4. a.name \in Seq(DOMAIN LabelLength) /\ b.name \in Seq(DOMAIN LabelLength)
    BY WildMatchIsSuffix
  <1> QED
    BY <1>2, <1>3, <1>4, SeqEqual

----------------------------------------------------------------------------
(* What Preferred compares is a total order on the rules that match a        *)
(* domain and are not tied.                                                  *)
Before(a, b) ==
    \/ a.priority < b.priority
    \/ a.priority = b.priority /\ ~ a.wild /\ b.wild
    \/ a.priority = b.priority /\ a.wild = b.wild /\ PatternLength(a) > PatternLength(b)

Competing(a, b, domain) ==
    PatternMatches(a, domain) /\ PatternMatches(b, domain) /\ ~ Tied(a, b)

LEMMA PreferredIsFirst ==
  ASSUME NEW a \in Rule, NEW b \in Rule, NEW domain \in Domains, Competing(a, b, domain)
  PROVE  \/ Before(a, b) /\ ~ Before(b, a) /\ Preferred(a, b) = a
         \/ Before(b, a) /\ ~ Before(a, b) /\ Preferred(a, b) = b
  <1>1. a.priority \in Int /\ b.priority \in Int /\ a.wild \in BOOLEAN /\ b.wild \in BOOLEAN
    BY RulesAssumption DEF Rule
  <1>2. PatternLength(a) \in Nat /\ PatternLength(b) \in Nat
    BY LengthIsNatural
  <1>3. CASE a.priority # b.priority
    BY <1>3, <1>1 DEF Before, Preferred
  <1>4. CASE a.priority = b.priority /\ a.wild # b.wild
    BY <1>4, <1>1 DEF Before, Preferred
  <1>5. CASE a.priority = b.priority /\ a.wild = b.wild
    <2>1. PatternLength(a) # PatternLength(b)
      <3>1. CASE a.wild
        BY <3>1, <1>5, SameLengthIsSame DEF Competing, Tied
      <3>2. CASE ~ a.wild
        BY <3>2, <1>5 DEF Competing, Tied, PatternMatches
      <3> QED
        BY <3>1, <3>2
    <2> QED
      BY <2>1, <1>5, <1>1, <1>2 DEF Before, Preferred
  <1> QED
    BY <1>3, <1>4, <1>5

LEMMA BeforeIsTransitive ==
  ASSUME NEW a \in Rule, NEW b \in Rule, NEW c \in Rule, Before(a, b), Before(b, c)
  PROVE  Before(a, c)
  <1>1. /\ a.priority \in Int /\ b.priority \in Int /\ c.priority \in Int
        /\ a.wild \in BOOLEAN /\ b.wild \in BOOLEAN /\ c.wild \in BOOLEAN
    BY RulesAssumption DEF Rule
  <1>2. PatternLength(a) \in Nat /\ PatternLength(b) \in Nat /\ PatternLength(c) \in Nat
    BY LengthIsNatural
  <1> QED
    BY <1>1, <1>2 DEF Before

(* What matchRule comes to: the first, in that order, of the rows that       *)
(* match.                                                                    *)
Untied(rows) == \A i, j \in DOMAIN rows : i # j => ~ Tied(rows[i], rows[j])

FirstUpTo(rows, domain, n, found) ==
    \/ found = NoRule /\ \A i \in 1..n : ~ PatternMatches(rows[i], domain)
    \/ \E i \in 1..n :
          /\ found = rows[i] /\ PatternMatches(rows[i], domain)
          /\ \A j \in 1..n : PatternMatches(rows[j], domain) /\ j # i => Before(rows[i], rows[j])

LEMMA NoRuleIsNone == NoRule \notin Rule
  <1> SUFFICES ASSUME NoRule \in Rule PROVE FALSE
    OBVIOUS
  <1>1. DOMAIN NoRule = {"action", "tiers"} /\ "wild" \in DOMAIN NoRule
    BY DEF NoRule, Rule
  <1> QED
    BY <1>1

LEMMA BetterIsFirst ==
  ASSUME NEW rows \in Seq(Rule), NEW domain \in Domains, Untied(rows),
         NEW n \in 1..Len(rows), NEW found, FirstUpTo(rows, domain, n - 1, found)
  PROVE  FirstUpTo(rows, domain, n, BetterMatch(found, rows[n], domain))
  <1>0. /\ Len(rows) \in Nat /\ DOMAIN rows = 1..Len(rows)
        /\ \A i \in 1..n : rows[i] \in Rule /\ i \in 1..Len(rows)
        /\ \A i \in 1..n : i \in 1..(n - 1) \/ i = n
        /\ \A i \in 1..(n - 1) : i \in 1..n /\ i # n
        /\ n \in 1..n
    BY LenProperties, ElementOfSeq
  <1>1. CASE ~ PatternMatches(rows[n], domain)
    <2>1. BetterMatch(found, rows[n], domain) = found
      BY <1>1 DEF BetterMatch
    <2> QED
      BY <2>1, <1>1, <1>0 DEF FirstUpTo
  <1>2. CASE PatternMatches(rows[n], domain) /\ found = NoRule
    <2>1. BetterMatch(found, rows[n], domain) = rows[n]
      BY <1>2 DEF BetterMatch
    <2>2. \A i \in 1..(n - 1) : ~ PatternMatches(rows[i], domain)
      BY <1>2, <1>0, NoRuleIsNone DEF FirstUpTo
    <2> QED
      BY <2>1, <2>2, <1>2, <1>0 DEF FirstUpTo
  <1>3. CASE PatternMatches(rows[n], domain) /\ found # NoRule
    <2>1. PICK i \in 1..(n - 1) :
              /\ found = rows[i] /\ PatternMatches(rows[i], domain)
              /\ \A j \in 1..(n - 1) : PatternMatches(rows[j], domain) /\ j # i => Before(rows[i], rows[j])
      BY <1>3 DEF FirstUpTo
    <2>2. Competing(rows[i], rows[n], domain)
      BY <2>1, <1>3, <1>0 DEF Competing, Untied
    <2>3. BetterMatch(found, rows[n], domain) = Preferred(rows[i], rows[n])
      BY <2>1, <1>3 DEF BetterMatch
    <2>4. rows[i] \in Rule /\ rows[n] \in Rule
      BY <1>0
    <2>5. CASE Before(rows[i], rows[n]) /\ Preferred(rows[i], rows[n]) = rows[i]
      <3>1. \A j \in 1..n : PatternMatches(rows[j], domain) /\ j # i => Before(rows[i], rows[j])
        BY <2>1, <2>5, <1>0
      <3> QED
        BY <3>1, <2>1, <2>3, <2>5, <1>0 DEF FirstUpTo
    <2>6. CASE Before(rows[n], rows[i]) /\ Preferred(rows[i], rows[n]) = rows[n]
      <3>1. ASSUME NEW j \in 1..n, PatternMatches(rows[j], domain), j # n
            PROVE  Before(rows[n], rows[j])
        <4>1. j = i \/ Before(rows[i], rows[j])
          BY <3>1, <2>1, <1>0
        <4>2. rows[j] \in Rule
          BY <1>0
        <4> QED
          BY <4>1, <4>2, <2>4, <2>6, BeforeIsTransitive
      <3> QED
        BY <3>1, <2>3, <2>6, <1>3, <1>0 DEF FirstUpTo
    <2> QED
      BY <2>2, <2>4, <2>5, <2>6, PreferredIsFirst
  <1> QED
    BY <1>1, <1>2, <1>3

LEMMA MatchIsFirst ==
  ASSUME NEW rows \in Seq(Rule), NEW domain \in Domains, Untied(rows)
  PROVE  FirstUpTo(rows, domain, Len(rows), MatchRule(rows, domain))
  <1>0. Len(rows) \in Nat
    BY LenProperties
  <1>1. PICK best \in [0..Len(rows) -> Rule \cup {NoRule}] :
           /\ best[0] = NoRule
           /\ \A n \in 1..Len(rows) : best[n] = BetterMatch(best[n - 1], rows[n], domain)
           /\ MatchRule(rows, domain) = best[Len(rows)]
    BY MatchSteps
  <1> DEFINE T == {n \in 0..Len(rows) : FirstUpTo(rows, domain, n, best[n])}
  <1>2. 0 \in T
    <2>1. 1..0 = {} /\ 0 \in 0..Len(rows)
      BY <1>0
    <2> QED
      BY <2>1, <1>1 DEF FirstUpTo
  <1>3. ASSUME NEW n \in 1..Len(rows), n - 1 \in T PROVE n \in T
    <2>1. best[n] = BetterMatch(best[n - 1], rows[n], domain)
      BY <1>1
    <2>2. FirstUpTo(rows, domain, n - 1, best[n - 1])
      BY <1>3
    <2>3. n \in 0..Len(rows)
      BY <1>0
    <2> QED
      BY <2>1, <2>2, <2>3, BetterIsFirst
  <1>4. \A n \in 0..Len(rows) : n \in T
    <2> HIDE DEF T
    <2> QED
      BY <1>0, <1>2, <1>3, UpTo
  <1> QED
    BY <1>4, <1>1, <1>0

LEMMA OrderIsOnto ==
  ASSUME NEW n \in Nat, NEW order \in SetToSeqs(1..n)
  PROVE  /\ order \in [1..n -> 1..n]
         /\ \A i, j \in 1..n : i # j => order[i] # order[j]
         /\ \A i \in 1..n : \E j \in 1..n : order[j] = i
  <1>1. IsFiniteSet(1..n) /\ Cardinality(1..n) = n
    BY FS_Interval
  <1>2. order \in [1..n -> 1..n] /\ \A i, j \in 1..n : i # j => order[i] # order[j]
    BY <1>1 DEF SetToSeqs
  <1>3. order \in Injection(1..n, 1..n)
    BY <1>2 DEF Injection, IsInjective
  <1>4. order \in Surjection(1..n, 1..n)
    BY <1>1, <1>3, FS_Injection
  <1> QED
    BY <1>2, <1>4 DEF Surjection

LEMMA MatchIgnoresOrder ==
  ASSUME NEW rows \in Seq(Rule), NEW domain \in Domains, Untied(rows),
         NEW order \in SetToSeqs(DOMAIN rows)
  PROVE  MatchRule([i \in DOMAIN rows |-> rows[order[i]]], domain) = MatchRule(rows, domain)
  <1> DEFINE n == Len(rows)
             other == [i \in DOMAIN rows |-> rows[order[i]]]
             a == MatchRule(rows, domain)
             b == MatchRule(other, domain)
  <1> SUFFICES b = a
    OBVIOUS
  <1>0. n \in Nat /\ DOMAIN rows = 1..n /\ \A i \in 1..n : rows[i] \in Rule
    BY LenProperties, ElementOfSeq
  <1>1. /\ order \in [1..n -> 1..n]
        /\ \A i, j \in 1..n : i # j => order[i] # order[j]
        /\ \A i \in 1..n : \E j \in 1..n : order[j] = i
    BY <1>0, OrderIsOnto
  <1>2. /\ other \in Seq(Rule) /\ Len(other) = n /\ DOMAIN other = 1..n
        /\ \A i \in 1..n : other[i] = rows[order[i]]
    BY <1>0, <1>1
  <1> HIDE DEF n, other
  <1>3. Untied(other)
    <2> SUFFICES ASSUME NEW i \in 1..n, NEW j \in 1..n, i # j PROVE ~ Tied(other[i], other[j])
      BY <1>2 DEF Untied
    <2>1. order[i] \in 1..n /\ order[j] \in 1..n /\ order[i] # order[j]
      BY <1>1
    <2> QED
      BY <2>1, <1>0, <1>2 DEF Untied
  <1>4. FirstUpTo(rows, domain, n, a) /\ FirstUpTo(other, domain, n, b)
    BY <1>2, <1>3, MatchIsFirst DEF n
  <1> HIDE DEF a, b
  <1>5. CASE \A i \in 1..n : ~ PatternMatches(rows[i], domain)
    BY <1>5, <1>4, <1>1, <1>2 DEF FirstUpTo
  <1>6. CASE \E i \in 1..n : PatternMatches(rows[i], domain)
    <2>1. PICK i \in 1..n :
              /\ a = rows[i] /\ PatternMatches(rows[i], domain)
              /\ \A j \in 1..n : PatternMatches(rows[j], domain) /\ j # i => Before(rows[i], rows[j])
      BY <1>4, <1>6 DEF FirstUpTo
    <2>2. \E k \in 1..n : PatternMatches(other[k], domain)
      BY <2>1, <1>1, <1>2
    <2>3. PICK k \in 1..n :
              /\ b = other[k] /\ PatternMatches(other[k], domain)
              /\ \A j \in 1..n : PatternMatches(other[j], domain) /\ j # k => Before(other[k], other[j])
      BY <1>4, <2>2 DEF FirstUpTo
    <2>4. order[k] = i
      <3> SUFFICES ASSUME order[k] # i PROVE FALSE
        OBVIOUS
      <3>1. PICK j \in 1..n : order[j] = i
        BY <1>1
      <3>2. Before(rows[order[k]], rows[i])
        BY <3>1, <2>1, <2>3, <1>2
      <3>3. Before(rows[i], rows[order[k]])
        BY <2>1, <2>3, <1>1, <1>2
      <3>4. Competing(rows[i], rows[order[k]], domain)
        BY <2>1, <2>3, <1>0, <1>1, <1>2 DEF Competing, Untied
      <3> QED
        BY <3>2, <3>3, <3>4, <1>0, <1>1, PreferredIsFirst
    <2> QED
      BY <2>1, <2>3, <2>4, <1>2
  <1> QED
    BY <1>5, <1>6

----------------------------------------------------------------------------
LEMMA RulesAreASequence ==
  RulesTypeOK => /\ rules \in Seq(Rule) /\ Len(rules) \in Nat /\ Len(rules) <= MaxRules
                 /\ DOMAIN rules = 1..Len(rules) /\ \A i \in 1..Len(rules) : rules[i] \in Rule
  <1> SUFFICES ASSUME RulesTypeOK
               PROVE  rules \in Seq(Rule) /\ Len(rules) <= MaxRules
    BY LenProperties, ElementOfSeq
  <1>1. PICK n \in 0..MaxRules : rules \in [1..n -> Rule]
    BY DEF RulesTypeOK
  <1>2. n \in Nat /\ n <= MaxRules
    BY RulesAssumption
  <1>3. rules \in Seq(Rule)
    BY <1>1, <1>2
  <1>4. Len(rules) = n
    BY <1>1, <1>2
  <1> QED
    BY <1>2, <1>3, <1>4

LEMMA SequenceIsTyped ==
  ASSUME NEW s \in Seq(Rule), Len(s) <= MaxRules
  PROVE  s \in UNION {[1..n -> Rule] : n \in 0..MaxRules}
  <1>1. Len(s) \in 0..MaxRules /\ s \in [1..Len(s) -> Rule]
    BY LenProperties, RulesAssumption
  <1> QED
    BY <1>1

(* What RemoveAt and InsertAt leave: one row fewer, one row more.           *)
LEMMA RemoveAtIsShorter ==
  ASSUME NEW s \in Seq(Rule), NEW i \in 1..Len(s)
  PROVE  RemoveAt(s, i) \in Seq(Rule) /\ Len(RemoveAt(s, i)) = Len(s) - 1
  <1>0. Len(s) \in Nat /\ \A j \in 1..Len(s) : s[j] \in Rule
    BY LenProperties, ElementOfSeq
  <1> DEFINE h == SubSeq(s, 1, i - 1)
             t == SubSeq(s, i + 1, Len(s))
  <1>1. h \in Seq(Rule) /\ Len(h) = i - 1
    <2>1. i - 1 \in Int /\ \A j \in 1..i - 1 : s[j] \in Rule
      BY <1>0
    <2>2. h \in Seq(Rule) /\ Len(h) = IF 1 <= i - 1 THEN (i - 1) - 1 + 1 ELSE 0
      BY <2>1, SubSeqProperties
    <2> QED
      BY <2>2, <1>0
  <1>2. t \in Seq(Rule) /\ Len(t) = Len(s) - i
    <2>1. i + 1 \in Int /\ Len(s) \in Int /\ \A j \in i + 1..Len(s) : s[j] \in Rule
      BY <1>0
    <2>2. t \in Seq(Rule) /\ Len(t) = IF i + 1 <= Len(s) THEN Len(s) - (i + 1) + 1 ELSE 0
      BY <2>1, SubSeqProperties
    <2> QED
      BY <2>2, <1>0
  <1>3. RemoveAt(s, i) = h \o t
    BY DEF RemoveAt
  <1> HIDE DEF h, t
  <1>4. h \o t \in Seq(Rule) /\ Len(h \o t) = Len(h) + Len(t)
    BY <1>1, <1>2, ConcatProperties
  <1> QED
    BY <1>0, <1>1, <1>2, <1>3, <1>4

LEMMA InsertAtIsLonger ==
  ASSUME NEW s \in Seq(Rule), NEW i \in 1..Len(s) + 1, NEW e \in Rule
  PROVE  InsertAt(s, i, e) \in Seq(Rule) /\ Len(InsertAt(s, i, e)) = Len(s) + 1
  <1>0. Len(s) \in Nat /\ \A j \in 1..Len(s) : s[j] \in Rule
    BY LenProperties, ElementOfSeq
  <1> DEFINE h == SubSeq(s, 1, i - 1)
             m == <<e>>
             t == SubSeq(s, i, Len(s))
  <1>1. h \in Seq(Rule) /\ Len(h) = i - 1
    <2>1. i - 1 \in Int /\ \A j \in 1..i - 1 : s[j] \in Rule
      BY <1>0
    <2>2. h \in Seq(Rule) /\ Len(h) = IF 1 <= i - 1 THEN (i - 1) - 1 + 1 ELSE 0
      BY <2>1, SubSeqProperties
    <2> QED
      BY <2>2, <1>0
  <1>2. t \in Seq(Rule) /\ Len(t) = Len(s) - i + 1
    <2>1. i \in Int /\ Len(s) \in Int /\ \A j \in i..Len(s) : s[j] \in Rule
      BY <1>0
    <2>2. t \in Seq(Rule) /\ Len(t) = IF i <= Len(s) THEN Len(s) - i + 1 ELSE 0
      BY <2>1, SubSeqProperties
    <2> QED
      BY <2>2, <1>0
  <1>3. m \in Seq(Rule) /\ Len(m) = 1
    OBVIOUS
  <1>4. InsertAt(s, i, e) = (h \o m) \o t
    BY DEF InsertAt
  <1> HIDE DEF h, m, t
  <1>5. h \o m \in Seq(Rule) /\ Len(h \o m) = Len(h) + Len(m)
    BY <1>1, <1>3, ConcatProperties
  <1>6. (h \o m) \o t \in Seq(Rule) /\ Len((h \o m) \o t) = Len(h \o m) + Len(t)
    BY <1>2, <1>5, ConcatProperties
  <1> QED
    BY <1>0, <1>1, <1>2, <1>3, <1>4, <1>5, <1>6

LEMMA RulesStayTyped == ASSUME RulesTypeOK, [RulesNext]_rulesVars PROVE RulesTypeOK'
  <1>0. /\ rules \in Seq(Rule) /\ Len(rules) \in Nat /\ Len(rules) <= MaxRules
        /\ DOMAIN rules = 1..Len(rules) /\ \A i \in 1..Len(rules) : rules[i] \in Rule
    BY RulesAreASequence
  <1> SUFFICES rules' \in Seq(Rule) /\ Len(rules') <= MaxRules
    BY SequenceIsTyped DEF RulesTypeOK
  <1>1. ASSUME NEW rule \in Rule, CreateRule(rule) PROVE rules' \in Seq(Rule) /\ Len(rules') <= MaxRules
    <2>1. rules' = Append(rules, rule) /\ Len(rules) < MaxRules
      BY <1>1 DEF CreateRule
    <2>2. Append(rules, rule) \in Seq(Rule) /\ Len(Append(rules, rule)) = Len(rules) + 1
      BY <1>0, AppendProperties
    <2> QED
      BY <2>1, <2>2, <1>0, RulesAssumption
  <1>2. ASSUME NEW i \in 1..Len(rules), NEW rule \in Rule, UpdateRule(i, rule)
        PROVE  rules' \in Seq(Rule) /\ Len(rules') <= MaxRules
    <2>1. PICK at \in 1..Len(rules) : rules' = InsertAt(RemoveAt(rules, i), at, rule)
      BY <1>2 DEF UpdateRule
    <2>2. RemoveAt(rules, i) \in Seq(Rule) /\ Len(RemoveAt(rules, i)) = Len(rules) - 1
      BY <1>0, RemoveAtIsShorter
    <2>3. at \in 1..Len(RemoveAt(rules, i)) + 1
      BY <2>2, <1>0
    <2>4. rules' \in Seq(Rule) /\ Len(rules') = Len(RemoveAt(rules, i)) + 1
      BY <2>1, <2>2, <2>3, InsertAtIsLonger
    <2> QED
      BY <2>2, <2>4, <1>0
  <1>3. ASSUME NEW i \in 1..Len(rules), DeleteRule(i)
        PROVE  rules' \in Seq(Rule) /\ Len(rules') <= MaxRules
    <2>1. rules' \in Seq(Rule) /\ Len(rules') = Len(rules) - 1
      BY <1>0, <1>3, RemoveAtIsShorter DEF DeleteRule
    <2> QED
      BY <2>1, <1>0, RulesAssumption
  <1>4. CASE UNCHANGED rulesVars
    BY <1>4, <1>0 DEF rulesVars
  <1> QED
    BY <1>1, <1>2, <1>3, <1>4 DEF RulesNext

LEMMA RulesStartTyped == RulesInit => RulesTypeOK
  <1> SUFFICES ASSUME RulesInit PROVE RulesTypeOK
    OBVIOUS
  <1>1. rules \in Seq(Rule) /\ Len(rules) <= MaxRules
    BY RulesAssumption DEF RulesInit
  <1> QED
    BY <1>1, SequenceIsTyped DEF RulesTypeOK

(* The table keeps its type: a sequence of at most MaxRules rules.          *)
THEOREM RulesTypes == RulesSpec => []RulesTypeOK
  <1> QED
    BY RulesStartTyped, RulesStayTyped, PTL DEF RulesSpec

(* No order of the rows decides, whatever the rules and the domain, unless   *)
(* two rules have the same pattern and the same priority (matchRule).        *)
THEOREM OrderNeverDecides == RulesSpec => []OrderDoesNotDecide
  <1>1. RulesTypeOK => OrderDoesNotDecide
    <2> SUFFICES ASSUME RulesTypeOK, Untied(rules),
                        NEW order \in SetToSeqs(DOMAIN rules), NEW domain \in Domains
                 PROVE  DecideFromRules([i \in DOMAIN rules |-> rules[order[i]]], domain)
                          = DecideFromRules(rules, domain)
      BY DEF OrderDoesNotDecide, Untied
    <2>1. rules \in Seq(Rule)
      BY RulesAreASequence
    <2>2. MatchRule([i \in DOMAIN rules |-> rules[order[i]]], domain) = MatchRule(rules, domain)
      BY <2>1, MatchIgnoresOrder
    <2> QED
      BY <2>2 DEF DecideFromRules
  <1> QED
    BY <1>1, RulesTypes, PTL

----------------------------------------------------------------------------
(* The parts side by side: a behaviour of the whole is one of each part,     *)
(* which moves when `part` says so and stands still otherwise.               *)
LEMMA PartsStart ==
  Init => /\ EgressInit /\ MailInit /\ SubsInit /\ SinkInit
          /\ SessionsInit /\ RulesInit /\ CatalogueInit /\ DisclosureInit
  BY DEF Init

LEMMA PartsMove ==
  [Next]_partVars =>
      /\ [EgressNext]_egressVars /\ [MailNext]_mailVars /\ [SubsNext]_subsVars /\ [SinkNext]_sinkVars
      /\ [VisitorNext \/ StaffNext]_sessionVars /\ [RulesNext]_rulesVars
      /\ [CatalogueNext]_catalogueVars /\ [DisclosureNext]_disclosureVars
  <1>1. CASE UNCHANGED partVars
    BY <1>1 DEF partVars
  <1> QED
    BY <1>1 DEF Next

(* The parts of the run keep their types side by side, from the type theorem *)
(* of each (mail, which is also fair, from its inductive invariant).         *)
THEOREM OperationsTypes == Spec => []TypeOK
  <1>1. Spec => EgressSpec
    BY PartsStart, PartsMove, PTL DEF Spec, EgressSpec
  <1>2. Spec => []MailInv
    BY PartsStart, PartsMove, MailStart, MailKept, PTL DEF Spec
  <1>3. Spec => SubsSpec
    BY PartsStart, PartsMove, PTL DEF Spec, SubsSpec
  <1>4. Spec => SinkSpec
    BY PartsStart, PartsMove, PTL DEF Spec, SinkSpec
  <1>5. Spec => SessionsSpec
    BY PartsStart, PartsMove, PTL DEF Spec, SessionsSpec
  <1>6. Spec => RulesSpec
    BY PartsStart, PartsMove, PTL DEF Spec, RulesSpec
  <1>7. Spec => CatalogueSpec
    BY PartsStart, PartsMove, PTL DEF Spec, CatalogueSpec
  <1>8. Spec => DisclosureSpec
    BY PartsStart, PartsMove, PTL DEF Spec, DisclosureSpec
  <1>9. EgressTypeOK /\ MailTypeOK /\ SubsTypeOK /\ SinkTypeOK /\ SessionsTypeOK
          /\ RulesTypeOK /\ CatalogueTypeOK /\ DisclosureTypeOK => TypeOK
    BY DEF TypeOK
  <1> QED
    BY <1>1, <1>2, <1>3, <1>4, <1>5, <1>6, <1>7, <1>8, <1>9, DeliveriesTypes, MailTypesFollow,
       SubscriptionsTypes, SinkTypes, SessionsTypes, RulesTypes, CatalogueTypes, DisclosureTypes, PTL
=============================================================================
