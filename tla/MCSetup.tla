------------------------------ MODULE MCSetup ------------------------------
(***************************************************************************)
(* A configuration in the old format, started with the example of the      *)
(* override or one of the customer's own, and what an operator saves: one  *)
(* with HTTPS and customer credentials, one the service refuses.           *)
(***************************************************************************)
EXTENDS Setup

CONSTANTS h1, good

Old == [k \in DOMAIN Example |->
            CASE k \in {"serviceType", "dataPaths", "logFilePath"} -> Example[k]
              [] k = "snapshotHost" -> [host |-> h1, slashes |-> TRUE]
              [] k = "adminToken" -> good
              [] OTHER -> Missing]
New == [Example EXCEPT !.token = good, !.tlsEnabled = TRUE, !.appId = "customer",
                       !.appCertificate = "customer", !.bootstrapMode = FALSE]
Refused == [New EXCEPT !.logFilePath = "app.log"]

MCLegacy == {Old}
MCOverrides == {"example", "custom"}
MCSaved == {New, Refused}
=============================================================================
