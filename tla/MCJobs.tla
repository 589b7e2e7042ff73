------------------------------- MODULE MCJobs -------------------------------
(* What the fan-out and the outbox get done in the end, for TLC.  The two    *)
(* share no rows, so one run checks them side by side: `part` says which of  *)
(* them moves.  Letters fill the outbox here; the reminders stand still.     *)
EXTENDS MCEventFanout, MailQueue

VARIABLE part

SoleOwner == [g \in MailGrants |-> CHOOSE p \in People : TRUE]

jobVars == <<part, vars, mailVars>>
OnlyFanout(A) == part = "fanout" /\ A /\ UNCHANGED <<part, mailVars>>
OnlyMail(A) == part = "mail" /\ A /\ UNCHANGED <<part, vars, reminder, remind>>

JobsInit == Init /\ MailInit /\ part \in {"fanout", "mail"}
JobsNext == OnlyFanout(Next) \/ OnlyMail(MailNext)

(* Fairness and MailFairness, each where its part is what moves.             *)
JobsSpec ==
    /\ JobsInit /\ [][JobsNext]_jobVars
    /\ \A x \in Xids : WF_jobVars(OnlyFanout(Commit(x) \/ Abort(x)))
    /\ WF_jobVars(OnlyFanout(TickBegin))
    /\ WF_jobVars(OnlyFanout(TickRead \/ TickDepths \/ TickPatterns))
    /\ WF_jobVars(OnlyFanout(TickCommit))
    /\ \A e \in Endpoints :
          WF_jobVars(OnlyFanout(TickScan(e) \/ TickSkips(e) \/ TickOrphaned(e)))
    /\ \A d \in Endpoints \X Seqs : WF_jobVars(OnlyFanout(Settle(d)))
    /\ WF_jobVars(OnlyMail(DrainNext))
    /\ \A m \in Mails : WF_jobVars(OnlyMail(BackoffEnds(m)))
=============================================================================
