-------------------------- MODULE AgreementRegister --------------------------
(***************************************************************************)
(* What the rest of the trust center relies on when it asks about an       *)
(* agreement: which version is in force, and who has signed which version. *)
(* AgreementVersions has drafts, bodies, locales, concurrent editors and   *)
(* signatories, and implements this module; DocumentDelivery is written    *)
(* against it.                                                             *)
(*                                                                         *)
(* The promise is small, because little more is true.  A version can come  *)
(* back into force after a newer one (a locale is enabled that only the    *)
(* older one has a body for), and a signature may be recorded just after   *)
(* its version was superseded.  But a signature is never lost, and it is   *)
(* always for a version that people have been shown.                       *)
(***************************************************************************)
EXTENDS Naturals

CONSTANTS
    Requesters,    \* people
    Templates,     \* agreements
    MaxVersion     \* bound: versions of each

ASSUME RegisterAssumption == MaxVersion \in Nat \ {0}

VARIABLES
    inForce,       \* the version of each agreement a reader would be shown, 0 for none
    offered,       \* the versions that have ever been in force
    signed         \* who has signed which version

registerVars == <<inForce, offered, signed>>

InForcePairs == {<<t, inForce[t]>> : t \in {u \in Templates : inForce[u] > 0}}

(* validAcceptance under the "person" scope: only a signature of the       *)
(* version now in force counts.                                            *)
HoldsValid(p, t) == inForce[t] > 0 /\ <<p, t, inForce[t]>> \in signed

RegisterTypeOK ==
    /\ inForce \in [Templates -> 0..MaxVersion]
    /\ offered \subseteq Templates \X (1..MaxVersion)
    /\ signed \subseteq Requesters \X Templates \X (1..MaxVersion)

RegisterInit ==
    /\ inForce \in [Templates -> {0, 1}]
    /\ offered = InForcePairs
    /\ signed = {}

(* A publication, or a restart with another set of enabled locales.        *)
Supersede ==
    /\ inForce' \in [Templates -> 0..MaxVersion]
    /\ inForce' # inForce
    /\ offered' = offered \cup InForcePairs'
    /\ UNCHANGED signed

Sign(p, t, v) ==
    /\ <<t, v>> \in offered
    /\ signed' = signed \cup {<<p, t, v>>}
    /\ UNCHANGED <<inForce, offered>>

RegisterNext ==
    \/ Supersede
    \/ \E p \in Requesters, t \in Templates, v \in 1..MaxVersion : Sign(p, t, v)

RegisterSpec == RegisterInit /\ [][RegisterNext]_registerVars
=============================================================================
