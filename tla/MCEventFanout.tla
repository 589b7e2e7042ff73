---------------------------- MODULE MCEventFanout ----------------------------
(* Instances of EventFanout for TLC.                                        *)
EXTENDS EventFanout

(* Actions as the patterns of an endpoint tell them apart.  After a purge   *)
(* the enricher refuses a decision (its requester is purged) but sends a    *)
(* download, whose row now looks like one of a public document.             *)
MCKinds == {"decision", "download", "endpoint"}
MCPersonal == {"decision", "download"}
MCWithheld == {"decision"}
MCTwoKinds == {"download", "endpoint"}
MCDownload == {"download"}
==============================================================================
