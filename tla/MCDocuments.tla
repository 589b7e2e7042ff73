---------------------------- MODULE MCDocuments ----------------------------
(* Agreements, the delivery of documents and their files, for TLC.  The     *)
(* three share no rows (delivery sees agreements through AgreementRegister, *)
(* which AgreementVersions implements), so one run checks them side by      *)
(* side: `part` says which of them moves.                                   *)
EXTENDS AgreementVersions, DocumentDelivery, DocumentFiles

VARIABLE part

partVars == <<part, versionVars, deliveryVars, fileVars>>

Init ==
    /\ VersionsInit /\ DeliveryInit /\ FilesInit
    /\ part \in {"agreements", "delivery", "files"}
    /\ part # "delivery" => offered = {}

Next ==
    /\ \/ part = "agreements" /\ VersionsNext /\ UNCHANGED <<deliveryVars, fileVars>>
       \/ part = "delivery" /\ DeliveryNext /\ UNCHANGED <<versionVars, fileVars>>
       \/ part = "files" /\ FilesNext /\ UNCHANGED <<versionVars, deliveryVars>>
    /\ UNCHANGED part

Spec == Init /\ [][Next]_partVars

(* Every variable of the three modules keeps its type.                      *)
TypeOK == VersionsTypeOK /\ DeliveryTypeOK /\ FilesTypeOK
=============================================================================
