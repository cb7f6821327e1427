------------------------------ MODULE Service ------------------------------
(***************************************************************************)
(* The life of one config/app.json and of the service that reads it: the   *)
(* file is merged by an upgrade and checked, the service reads it once, at *)
(* its start, and answers the requests whose answer the configuration      *)
(* decides (src/src/index.ts).  The steps come in any order, and the file  *)
(* on disk need not be the one the service runs on.                        *)
(***************************************************************************)
EXTENDS Config

CONSTANT CustomerFile   \* the files an installation may have before its next upgrade

ASSUME CustomerAssumption == CustomerFile \subseteq Config

VARIABLES file,      \* config/app.json
          checks,    \* the checks it has passed since it was written: strict or not
          service,   \* the process: not running, refused to start, or running
          loaded,    \* what the process read: its effective configuration, or the file it refused
          trusted,   \* the checks the file had passed when the process read it
          reply      \* the last answer

serviceVars == <<file, checks, service, loaded, trusted, reply>>

NoReply == [to |-> "none", status |-> 0]

ServiceInit ==
    /\ file \in CustomerFile
    /\ checks = {}
    /\ service = "stopped"
    /\ loaded = file
    /\ trusted = {}
    /\ reply = NoReply

\* node config-merge.js --current config/app.json --output config/app.json
Upgrade ==
    /\ file' = Merge(file)
    /\ checks' = {}
    /\ UNCHANGED <<service, loaded, trusted, reply>>

\* node validate-config.js, with --strict or without; it exits with 0.
Check(strict) ==
    /\ Valid(file, strict)
    /\ checks' = checks \cup {strict}
    /\ UNCHANGED <<file, service, loaded, trusted, reply>>

Start ==
    /\ service # "running"
    /\ \/ Starts(file) /\ service' = "running" /\ loaded' = Effective(file)
       \/ ~Starts(file) /\ service' = "refused" /\ loaded' = file
    /\ trusted' = checks
    /\ reply' = NoReply
    /\ UNCHANGED <<file, checks>>

Stop ==
    /\ service = "running"
    /\ service' = "stopped"
    /\ reply' = NoReply
    /\ UNCHANGED <<file, checks, loaded, trusted>>

-----------------------------------------------------------------------------
(* Requests *)

Answer(to, status) ==
    /\ service = "running"
    /\ reply' = [to |-> to, status |-> status]
    /\ UNCHANGED <<file, checks, service, loaded, trusted>>

\* GET /snapshot/:roomId and /v2/snapshot/:roomId, for a valid room, with a Host
\* header or without.
GetSnapshotUrl(named) ==
    Answer(IF named THEN "snapshotUrl" ELSE "snapshotUrlNoHost",
           IF PublicBaseUrl(loaded, named) = <<"refused">> THEN 400 ELSE 200)

\* POST /:roomId/:userId/rtm/token
PostRtmToken == Answer("rtmToken", IF IsBootstrapRtmConfig(loaded) THEN 503 ELSE 200)

\* The /admin endpoints, behind requireAdminAccess; t is X-Admin-Token.
CallAdmin(t) ==
    Answer(IF t = loaded.token THEN "adminWithToken" ELSE "admin",
           IF HasAdminAccess(loaded, t) THEN 200 ELSE 401)

ServiceNext ==
    \/ Upgrade \/ Start \/ Stop
    \/ \E strict \in BOOLEAN : Check(strict)
    \/ \E named \in BOOLEAN : GetSnapshotUrl(named)
    \/ PostRtmToken
    \/ \E t \in Token \cup {Missing} : CallAdmin(t)

ServiceSpec == ServiceInit /\ [][ServiceNext]_serviceVars

-----------------------------------------------------------------------------
(* Properties *)

\* A running process has none of its four defaults left open.
TypeOK ==
    /\ file \in Config /\ loaded \in Config
    /\ service = "running" =>
          Missing \notin {loaded.publicBaseUrl, loaded.bootstrapPublicUrl, loaded.token, loaded.bootstrapMode}
    /\ checks \subseteq BOOLEAN /\ trusted \subseteq BOOLEAN
    /\ service \in {"stopped", "refused", "running"}
    /\ reply \in [to : {"none", "snapshotUrl", "snapshotUrlNoHost", "rtmToken", "admin", "adminWithToken"},
                  status : {0, 200, 400, 401, 503}]

\* "Preserve customer state": on a file the service starts with, the upgrade
\* changes no answer of the service, whichever keys are new, old or absent.
UpgradeKeepsMeaning ==
    [][file' # file /\ Starts(file) /\ ~ShadowedToken(file) =>
          Starts(file') /\ Behaviour(file') = Behaviour(file)]_serviceVars

\* A file that passed a check passes it again after the upgrade, and a second
\* upgrade finds nothing to do.
UpgradeSettles ==
    [][file' # file =>
          /\ \A strict \in BOOLEAN : Valid(file, strict) => Valid(file', strict)
          /\ Merge(file') = file']_serviceVars

\* A checked file is served: the process starts on it, unless the name of its
\* log only ends in server.log; it hands out snapshot URLs to requests that name
\* a host and lets its administrator in; and after a strict check it hands out
\* RTM tokens, and snapshot URLs whatever the request names.
CheckedServes ==
    /\ service = "refused" /\ trusted # {} => loaded.logFilePath = "my-server.log"
    /\ reply.to \in {"snapshotUrl", "adminWithToken"} /\ trusted # {} => reply.status = 200
    /\ reply.to \in {"rtmToken", "snapshotUrlNoHost"} /\ TRUE \in trusted => reply.status = 200
=============================================================================
