---------------------------- MODULE MCOperations ----------------------------
(* Delivery of events, mail, subscriptions, the audit sink, sessions, rules, *)
(* the catalogue and the disclosures, for TLC.  They share no rows in what   *)
(* is modelled of them, so one run checks them side by side: `part` says     *)
(* which of them moves, and what is left out of a part for its size.         *)
EXTENDS EgressDelivery, MailQueue, MCSubscriptions, AuditSink,
        Sessions, AccessRules, Catalogue, Disclosure

VARIABLE part

partVars == <<part, egressVars, mailVars, subsVars, sinkVars, sessionVars, rulesVars,
              catalogueVars, disclosureVars>>

(* One channel, one delivery, one owner; a document for an exhibit each.     *)
SoleChannel == [d \in Deliveries |-> CHOOSE c \in Channels : TRUE]
OfDocuments == [d \in Deliveries |-> "document"]
WithOrWithoutKey == {[on |-> TRUE, key |-> k] : k \in RootKeys \cup {NoRoot}}
WithKey == CHOOSE e \in WithOrWithoutKey : e.key # NoRoot
SoleOwner == [g \in MailGrants |-> CHOOSE p \in People : TRUE]
KindOfItself == [e \in {"control", "certification", "answer"} |-> e]

(* acme.com-like names: a wildcard and an exact pattern may both match, and  *)
(* so may wildcards of two lengths.                                          *)
ThreeDomains == {<<"a", "acme">>, <<"b", "a", "acme">>, <<"acme">>}
TwoNames == {<<"a", "acme">>, <<"acme">>}
Lengths == [l \in {"a", "b", "acme"} |-> IF l = "acme" THEN 4 ELSE 1]

(* The catalogue, one kind of page at a time: the page is read in a language *)
(* other than the default one, which headings and documents fall back to.    *)
CatalogueBound ==
    /\ \A e \in Exhibits : exhibit'[e].exists => ExhibitKind[e] = part
    /\ page'.kind \in {"none", part} /\ (page'.kind = "none" \/ page'.lang # HomeLang)
    /\ \A g \in ControlGroups : heading'[g].exists => part = "control"
    /\ part = "answer" => paper' = paper
    /\ part = "control" => \A p \in Papers : paper'[p].files = {}
    /\ part = "certification" => \A p \in Papers : paper'[p].titles = {}
    /\ \A h \in Headings : heading'[h].names \subseteq {HomeLang}
    /\ \A p \in Papers : paper'[p].titles \subseteq {HomeLang} /\ paper'[p].tier # "nda"
    /\ \A e \in Exhibits : exhibit'[e].titles \subseteq Langs \ {HomeLang}

(* Delivery, once with rotations, restarts and one tick at a time, once with *)
(* two ticks that overlap.                                                   *)
EgressBound ==
    \/ part = "signing" /\ tick'[2] = Asleep
    \/ /\ part = "ticks" /\ starts' = 0
       /\ \A c \in Channels : channel'[c].version = 1 /\ channel'[c].known = NoSecret

(* Rules, three at most, changed or deleted while there are two.             *)
RulesBound == Len(rules) < MaxRules

(* Subscriptions: one of the two posts is never translated.                  *)
SubsBound == Cardinality({p \in Posts : post'[p].translated}) < Cardinality(Posts)

(* Mail, once with letters and reminders, once with reminders and a crash.   *)
MailBound ==
    \/ part = "mail" /\ crashes' = 0
    \/ part = "crash" /\ desk' = {}

(* The sink, one tick at a time with three transactions and restarts of one  *)
(* with two, and two ticks that overlap, one transaction running at a time.   *)
(* An erasure follows one or two events with its own.                        *)
SinkBound ==
    \/ /\ part = "log" /\ shift'[2] = OffShift /\ sinkStarts' = 0
       /\ nextSeq' > MaxSeq => Cardinality(running') <= 1
    \/ part = "restart" /\ shift'[2] = OffShift /\ nextXid' <= 3 /\ nextSeq' <= 3
    \/ /\ part = "overlap" /\ nextXid' <= 3 /\ nextSeq' <= 3 /\ sinkStarts' = 0
       /\ Cardinality(running') <= 1

Init ==
    /\ EgressInit /\ MailInit /\ SubsInit /\ SinkInit
    /\ SessionsInit /\ RulesInit /\ CatalogueInit /\ DisclosureInit
    /\ part \in {"signing", "ticks", "mail", "crash", "subscriptions", "log", "restart",
                 "overlap", "visitor", "staff", "rules", "disclosure"} \cup PageKinds
    /\ part \notin {"log", "restart", "overlap"} => adapters = Sinks

Next ==
    \/ /\ part \in {"signing", "ticks"} /\ EgressNext /\ EgressBound
       /\ UNCHANGED <<part, mailVars, subsVars, sinkVars, sessionVars, rulesVars,
                      catalogueVars, disclosureVars>>
    \/ /\ part \in {"mail", "crash"} /\ MailNext /\ MailBound
       /\ UNCHANGED <<part, egressVars, subsVars, sinkVars, sessionVars, rulesVars,
                      catalogueVars, disclosureVars>>
    \/ /\ part = "subscriptions" /\ SubsNext /\ SubsBound
       /\ UNCHANGED <<part, egressVars, mailVars, sinkVars, sessionVars, rulesVars,
                      catalogueVars, disclosureVars>>
    \/ /\ part \in {"log", "restart", "overlap"} /\ SinkNext /\ SinkBound
       /\ UNCHANGED <<part, egressVars, mailVars, subsVars, sessionVars, rulesVars,
                      catalogueVars, disclosureVars>>
    \/ /\ \/ part = "visitor" /\ VisitorNext
          \/ part = "staff" /\ StaffNext
       /\ UNCHANGED <<part, egressVars, mailVars, subsVars, sinkVars, rulesVars,
                      catalogueVars, disclosureVars>>
    \/ /\ part = "rules" /\ RulesBound /\ RulesNext
       /\ UNCHANGED <<part, egressVars, mailVars, subsVars, sinkVars, sessionVars,
                      catalogueVars, disclosureVars>>
    \/ /\ part \in PageKinds /\ CatalogueNext /\ CatalogueBound
       /\ UNCHANGED <<part, egressVars, mailVars, subsVars, sinkVars, sessionVars, rulesVars,
                      disclosureVars>>
    \/ /\ part = "disclosure" /\ DisclosureNext
       /\ UNCHANGED <<part, egressVars, mailVars, subsVars, sinkVars, sessionVars, rulesVars,
                      catalogueVars>>

Spec == Init /\ [][Next]_partVars

(* Every variable of the modules keeps its type (those of other parts keep   *)
(* their initial value).                                                     *)
TypeOK ==
    /\ part \in {"signing", "ticks"} => EgressTypeOK
    /\ part \in {"mail", "crash"} => MailTypeOK
    /\ part = "subscriptions" => SubsTypeOK
    /\ part \in {"log", "restart", "overlap"} => SinkTypeOK
    /\ part \in {"visitor", "staff"} => SessionsTypeOK
    /\ part = "rules" => RulesTypeOK
    /\ part \in PageKinds => CatalogueTypeOK
    /\ part = "disclosure" => DisclosureTypeOK
=============================================================================
