------------------------- MODULE MCAccessLifecycle -------------------------
(* Small instances of AccessLifecycle for TLC: who submits which request,  *)
(* who works where, and what the access rules say of each company.         *)
EXTENDS AccessLifecycle, TLC

CONSTANTS r1, r2, ann, eve, acme, spam

OneSubmitter == [r \in Requests |-> ann]
OneCompany == [p \in Requesters |-> acme]
Reviewed == [d \in Domains |-> "review"]

(* Ann and Bob are colleagues at a company the operator allow-lists, Eve   *)
(* writes from one the operator turns away.                                *)
TwoSubmitters == r1 :> ann @@ r2 :> eve
TwoCompanies == [p \in Requesters |-> IF p = eve THEN spam ELSE acme]
Ruled == acme :> "auto_approve" @@ spam :> "deny"
=============================================================================
