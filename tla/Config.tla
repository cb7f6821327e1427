------------------------------- MODULE Config -------------------------------
(***************************************************************************)
(* config/app.json: what the upgrade writes into it (config-merge.js),     *)
(* what the check before start-up asks of it (validate-config.js), and     *)
(* what the service makes of it (init.ts, url.ts, bootstrap.ts,            *)
(* admin-auth.ts).                                                         *)
(* Only the keys that decide a behaviour are fields.  deployMode is not:   *)
(* every script passes the mode on its command line.  Nor are the          *)
(* retention keys (the example and the service have the same defaults) and *)
(* admin.allowRemoteAccess, which nothing reads.                           *)
(***************************************************************************)
CONSTANTS Host,         \* origins a public URL may name
          Token,        \* admin tokens
          Long,         \* those of at least 32 characters
          Placeholder,  \* the one shipped in config.json.example
          Missing,      \* the key is not in the file
          Empty         \* the key holds ""

\* A public URL, with or without slashes at its end.
Url == [host : Host, slashes : BOOLEAN]
Credential == {"project", "customer"}
\* server.log in some directory, a file whose name only ends so, another file.
LogPath == {"server.log", "my-server.log", "app.log"}

ASSUME ConfigAssumption ==
    /\ Placeholder \in Long
    /\ Long \subseteq Token
    /\ Missing # Empty
    /\ {Missing, Empty} \cap (Url \cup Token \cup Credential \cup LogPath \cup BOOLEAN) = {}

Config ==
    [serviceType : {"localFile", "other"},
     dataPaths : {"given", Missing},
     logFilePath : LogPath \cup {Missing},
     publicBaseUrl : Url \cup {Missing, Empty},
     snapshotHost : Url \cup {Missing, Empty},
     bootstrapPublicUrl : BOOLEAN \cup {Missing},
     token : Token \cup {Missing, Empty},
     adminToken : Token \cup {Missing, Empty},
     appId : Credential \cup {Missing, Empty},
     appCertificate : Credential \cup {Missing, Empty},
     bootstrapMode : BOOLEAN \cup {Missing},
     tlsEnabled : BOOLEAN \cup {Missing},
     tlsFiles : {"standard", "elsewhere", Missing}]

\* config.json.example
Example ==
    [serviceType |-> "localFile", dataPaths |-> "given", logFilePath |-> "server.log",
     publicBaseUrl |-> Empty, snapshotHost |-> Missing, bootstrapPublicUrl |-> TRUE,
     token |-> Placeholder, adminToken |-> Missing,
     appId |-> "project", appCertificate |-> "project", bootstrapMode |-> TRUE,
     tlsEnabled |-> FALSE, tlsFiles |-> "standard"]

Given(v) == v \notin {Missing, Empty}
Else(v, w) == IF v = Missing THEN w ELSE v

\* One of the RTM credentials is absent or still the shipped one.
BootstrapRtm(c) == c.appId # "customer" \/ c.appCertificate # "customer"

-----------------------------------------------------------------------------
(* The merge *)

\* Fault: a file without the flag gets the example's, real credentials or not.
NormalizedWithoutRtm(c) ==
    [c EXCEPT !.publicBaseUrl =
                  IF Given(c.snapshotHost) /\ ~Given(@) THEN c.snapshotHost ELSE @,
              !.token = IF Given(c.adminToken) /\ ~Given(@) THEN c.adminToken ELSE @]

\* The deprecated keys moved to where they are read today.
Normalized(c) ==
    [c EXCEPT !.publicBaseUrl =
                  IF Given(c.snapshotHost) /\ ~Given(@) THEN c.snapshotHost ELSE @,
              !.token = IF Given(c.adminToken) /\ ~Given(@) THEN c.adminToken ELSE @,
              !.bootstrapMode = Else(@, BootstrapRtm(c))]

\* Fault: the example's values win.
MergeOverwriting(c) ==
    LET n == Normalized(c)
    IN  [k \in DOMAIN c |-> IF k = "bootstrapPublicUrl" THEN Example[k] ELSE Else(n[k], Example[k])]

\* mergeConfig: the example, overwritten by every key the file has.
Merge(c) == LET n == Normalized(c) IN [k \in DOMAIN c |-> Else(n[k], Example[k])]

-----------------------------------------------------------------------------
(* The check before start-up *)

\* Fault: the shipped token is long enough.
ValidShipped(c, strict) ==
    /\ c.serviceType = "localFile" /\ c.dataPaths # Missing
    /\ c.logFilePath \in {"server.log", "my-server.log"}
    /\ c.token \in Long
    /\ c.tlsEnabled = TRUE => c.tlsFiles = "standard"
    /\ Given(c.publicBaseUrl) \/ (~strict /\ c.bootstrapPublicUrl = TRUE)
    /\ c.bootstrapMode = FALSE => ~BootstrapRtm(c)
    /\ strict => Else(c.bootstrapMode, BootstrapRtm(c)) = FALSE

\* Fault: strict asks the flag only, as if it were always there.
ValidByFlag(c, strict) ==
    /\ c.serviceType = "localFile" /\ c.dataPaths # Missing
    /\ c.logFilePath \in {"server.log", "my-server.log"}
    /\ c.token \in Long \ {Placeholder}
    /\ c.tlsEnabled = TRUE => c.tlsFiles = "standard"
    /\ Given(c.publicBaseUrl) \/ (~strict /\ c.bootstrapPublicUrl = TRUE)
    /\ c.bootstrapMode = FALSE => ~BootstrapRtm(c)
    /\ strict => c.bootstrapMode # TRUE

Valid(c, strict) ==
    /\ c.serviceType = "localFile"
    /\ c.dataPaths # Missing
    /\ c.logFilePath \in {"server.log", "my-server.log"}
    /\ c.token \in Long \ {Placeholder}
    /\ c.tlsEnabled = TRUE => c.tlsFiles = "standard"
    /\ Given(c.publicBaseUrl) \/ (~strict /\ c.bootstrapPublicUrl = TRUE)
    /\ c.bootstrapMode = FALSE => ~BootstrapRtm(c)
    /\ strict => Else(c.bootstrapMode, BootstrapRtm(c)) = FALSE

-----------------------------------------------------------------------------
(* The service *)

\* init.ts throws otherwise, and the process ends.
Starts(c) ==
    /\ c.serviceType = "localFile"
    /\ c.dataPaths # Missing
    /\ c.logFilePath = "server.log"

\* Fault: the file as it is.
EffectiveRaw(c) == c

\* What the running service holds.
Effective(c) ==
    LET url == Else(c.publicBaseUrl, c.snapshotHost)
    IN  [c EXCEPT !.publicBaseUrl = Else(url, Empty),
                  !.bootstrapPublicUrl = Else(@, ~Given(url)),
                  !.token = Else(@, Else(c.adminToken, Empty)),
                  !.bootstrapMode = Else(@, BootstrapRtm(c))]

\* Trailing slashes go.
Trim(url) == [url EXCEPT !.slashes = FALSE]

\* resolvePublicBaseUrl on the effective configuration: a configured origin, the
\* one the request came by, if it named one in its Host header, or an error.
PublicBaseUrl(e, named) ==
    CASE Given(e.publicBaseUrl) -> <<"configured", Trim(e.publicBaseUrl)>>
      [] ~Given(e.publicBaseUrl) /\ Given(e.snapshotHost) -> <<"configured", Trim(e.snapshotHost)>>
      [] ~Given(e.publicBaseUrl) /\ ~Given(e.snapshotHost) ->
             IF e.bootstrapPublicUrl = TRUE /\ named THEN <<"asRequested">> ELSE <<"refused">>

\* isBootstrapRtmConfig
IsBootstrapRtmConfig(e) == e.bootstrapMode = TRUE \/ BootstrapRtm(e)

\* hasAdminAccess
HasAdminAccess(e, t) == Given(e.token) /\ e.token # Placeholder /\ t = e.token

\* What clients and administrators get from a service started on c.
Behaviour(c) ==
    LET e == Effective(c)
    IN  [url |-> [named \in BOOLEAN |-> PublicBaseUrl(e, named)], rtm |-> IsBootstrapRtmConfig(e),
         admin |-> {t \in Token : HasAdminAccess(e, t)}]

\* An administration token left empty beside a deprecated one is the one case
\* where the merge gives access that was not there before.
ShadowedToken(c) == c.token = Empty /\ Given(c.adminToken)
=============================================================================
