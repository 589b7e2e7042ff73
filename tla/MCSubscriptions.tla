-------------------------- MODULE MCSubscriptions --------------------------
(* Posts and their topics for TLC.                                         *)
EXTENDS Subscriptions

(* All posts are of one topic.                                             *)
SoleTopic == [p \in Posts |-> CHOOSE x \in Topics : TRUE]

(* One post is of one topic and the rest of another.                       *)
TwoTopics ==
    LET first == CHOOSE x \in Topics : TRUE
        sole == CHOOSE p \in Posts : TRUE
    IN  [p \in Posts |-> IF p = sole THEN first ELSE CHOOSE x \in Topics : x # first]
=============================================================================
