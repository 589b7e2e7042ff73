---------------------------- MODULE AccessRules ----------------------------
(***************************************************************************)
(* The rules that decide a verified request without a person               *)
(* (src/lib/server/access/rules.ts, verify.ts, and the pages that write    *)
(* rules).                                                                 *)
(*                                                                         *)
(* Verification reads the table without an ORDER BY, so the rows come in   *)
(* heap order, and an update moves a row: `rules` is that sequence.        *)
(* A domain is the sequence of its labels, a pattern the same with or      *)
(* without a leading wildcard; only lengths of labels are kept of their    *)
(* characters, because the tie-break compares the lengths of patterns.     *)
(***************************************************************************)
EXTENDS Integers, SequencesExt

CONSTANTS
    Domains,       \* domains of requesters, sequences of labels
    Names,         \* what a pattern may be written over
    LabelLength,   \* characters of each label
    Priorities,
    RuleActions,   \* what a rule may do, of "auto_approve", "review", "deny"
    RuleTiers,     \* tiers a rule may name
    MaxRules

ASSUME RulesAssumption ==
    /\ LabelLength \in [DOMAIN LabelLength -> Nat]
    /\ Domains \cup Names \subseteq Seq(DOMAIN LabelLength)
    /\ Priorities \subseteq Int
    /\ MaxRules \in Nat

VARIABLE rules     \* access_rule rows with their access_rule_tier rows

rulesVars == <<rules>>

Rule == [wild : BOOLEAN, name : Names, priority : Priorities,
         action : RuleActions, tiers : SUBSET RuleTiers]
HonouredTiers == {"request", "nda"}

(* patternMatches: the domain itself, or a proper subdomain of it.         *)
PatternMatches(rule, domain) ==
    IF rule.wild THEN Len(domain) > Len(rule.name) /\ IsSuffix(rule.name, domain)
                 ELSE domain = rule.name

(* pattern.length, with the dots between labels and the leading "*.".      *)
PatternLength(rule) ==
    FoldLeft(LAMBDA sum, l : sum + LabelLength[l] + 1, IF rule.wild THEN 2 ELSE 0, rule.name)

(* The reduce of matchRule: lower priority, then exact before wildcard,    *)
(* then the longer pattern; otherwise the one that came first.             *)
FaultyPreferred(best, rule) ==
    IF rule.priority # best.priority THEN (IF rule.priority < best.priority THEN rule ELSE best)
    ELSE IF PatternLength(rule) > PatternLength(best) THEN rule ELSE best

Preferred(best, rule) ==
    IF rule.priority # best.priority THEN (IF rule.priority < best.priority THEN rule ELSE best)
    ELSE IF rule.wild # best.wild THEN (IF rule.wild THEN best ELSE rule)
    ELSE IF PatternLength(rule) > PatternLength(best) THEN rule ELSE best

(* matchRule: the preferred of the rows that match, taken in their order.  *)
NoRule == [action |-> "review", tiers |-> {}]

BetterMatch(best, rule, domain) ==
    IF ~ PatternMatches(rule, domain) THEN best
    ELSE IF best = NoRule THEN rule
    ELSE Preferred(best, rule)

MatchRule(rows, domain) ==
    FoldLeft(LAMBDA best, rule : BetterMatch(best, rule, domain), NoRule, rows)

(* decideFromRules: no rule is a review that carries no blanket.            *)
DecideFromRules(rows, domain) ==
    LET matched == MatchRule(rows, domain)
    IN  [action |-> matched.action, tiers |-> matched.tiers \cap HonouredTiers]

RulesInit == rules = <<>>

(* createRule and setRuleTiers in one transaction; nothing is unique.      *)
CreateRule(rule) ==
    /\ Len(rules) < MaxRules
    /\ rules' = Append(rules, rule)

(* updateRule: the new row version is somewhere else in the heap.          *)
UpdateRule(i, rule) ==
    /\ rule # rules[i]
    /\ \E at \in 1 .. Len(rules) : rules' = InsertAt(RemoveAt(rules, i), at, rule)

DeleteRule(i) == rules' = RemoveAt(rules, i)

RulesNext ==
    \/ \E rule \in Rule : CreateRule(rule)
    \/ \E i \in 1 .. Len(rules) : (\E rule \in Rule : UpdateRule(i, rule)) \/ DeleteRule(i)

RulesSpec == RulesInit /\ [][RulesNext]_rulesVars

RulesTypeOK == rules \in UNION {[1 .. n -> Rule] : n \in 0 .. MaxRules}

(* Two rules nobody can tell apart by what decides.                        *)
Tied(a, b) == a.wild = b.wild /\ a.name = b.name /\ a.priority = b.priority

(* Whatever order the rows come in, a domain gets the same decision, as    *)
(* long as no two rules have the same pattern and the same priority, which *)
(* the table and the forms allow (rules.ts:45 "Without a total order the   *)
(* outcome depends on row order, which nobody decided").                   *)
OrderDoesNotDecide ==
    (\A i, j \in DOMAIN rules : i # j => ~ Tied(rules[i], rules[j])) =>
        \A order \in SetToSeqs(DOMAIN rules), domain \in Domains :
            DecideFromRules([i \in DOMAIN rules |-> rules[order[i]]], domain)
                = DecideFromRules(rules, domain)
=============================================================================
