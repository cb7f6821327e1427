--------------------------- MODULE ServiceProofs ---------------------------
(***************************************************************************)
(* Lemmas about the operators of Config, for every set of origins and      *)
(* tokens, and theorems about Service, for every set of customer files     *)
(* besides.  Merge is a function of the key, so its lemmas go from the     *)
(* keys of Normalized to those of Merge, and the others compare what two   *)
(* configurations hold key by key.                                         *)
(***************************************************************************)
EXTENDS Service, TLAPS

-----------------------------------------------------------------------------
(* The operators of Config *)

Keys == {"serviceType", "dataPaths", "logFilePath", "publicBaseUrl", "snapshotHost",
         "bootstrapPublicUrl", "token", "adminToken", "appId", "appCertificate",
         "bootstrapMode", "tlsEnabled", "tlsFiles"}

LEMMA ConfigKeys == ASSUME NEW c \in Config PROVE DOMAIN c = Keys
  BY DEF Config, Keys

\* What mergeConfig leaves in each key.
LEMMA MergedKeys ==
    ASSUME NEW c \in Config
    PROVE  /\ Merge(c) = [k \in Keys |-> Else(Normalized(c)[k], Example[k])]
           /\ DOMAIN Merge(c) = Keys
           /\ \A k \in Keys : Merge(c)[k] = Else(Normalized(c)[k], Example[k])
  BY ConfigKeys DEF Merge

LEMMA NormalizedKeys ==
    ASSUME NEW c \in Config
    PROVE  /\ Normalized(c).publicBaseUrl =
                  IF Given(c.snapshotHost) /\ ~Given(c.publicBaseUrl)
                  THEN c.snapshotHost ELSE c.publicBaseUrl
           /\ Normalized(c).token =
                  IF Given(c.adminToken) /\ ~Given(c.token) THEN c.adminToken ELSE c.token
           /\ Normalized(c).bootstrapMode = Else(c.bootstrapMode, BootstrapRtm(c))
           /\ \A k \in Keys \ {"publicBaseUrl", "token", "bootstrapMode"} : Normalized(c)[k] = c[k]
  BY ConfigKeys DEF Normalized, Config, Keys

LEMMA MergedUrl ==
    ASSUME NEW c \in Config
    PROVE  /\ Merge(c).publicBaseUrl =
                  Else(IF Given(c.snapshotHost) /\ ~Given(c.publicBaseUrl)
                       THEN c.snapshotHost ELSE c.publicBaseUrl, Empty)
           /\ Merge(c).snapshotHost = Else(c.snapshotHost, Missing)
           /\ Merge(c).bootstrapPublicUrl = Else(c.bootstrapPublicUrl, TRUE)
  <1>1. {"publicBaseUrl", "snapshotHost", "bootstrapPublicUrl"} \subseteq Keys
    BY DEF Keys
  <1>2. /\ Example["publicBaseUrl"] = Empty
        /\ Example["snapshotHost"] = Missing
        /\ Example["bootstrapPublicUrl"] = TRUE
    BY DEF Example
  <1>3. /\ Normalized(c)["snapshotHost"] = c["snapshotHost"]
        /\ Normalized(c)["bootstrapPublicUrl"] = c["bootstrapPublicUrl"]
    BY <1>1, NormalizedKeys
  <1>4. Merge(c).publicBaseUrl = Else(Normalized(c).publicBaseUrl, Empty)
    BY <1>1, <1>2, MergedKeys
  <1>5. Merge(c).snapshotHost = Else(c.snapshotHost, Missing)
    BY <1>1, <1>2, <1>3, MergedKeys
  <1>6. Merge(c).bootstrapPublicUrl = Else(c.bootstrapPublicUrl, TRUE)
    BY <1>1, <1>2, <1>3, MergedKeys
  <1> QED BY <1>4, <1>5, <1>6, NormalizedKeys

LEMMA MergedAdmin ==
    ASSUME NEW c \in Config
    PROVE  /\ Merge(c).token =
                  Else(IF Given(c.adminToken) /\ ~Given(c.token) THEN c.adminToken ELSE c.token,
                       Placeholder)
           /\ Merge(c).adminToken = Else(c.adminToken, Missing)
  <1>1. {"token", "adminToken"} \subseteq Keys
    BY DEF Keys
  <1>2. Example["token"] = Placeholder /\ Example["adminToken"] = Missing
    BY DEF Example
  <1> QED BY <1>1, <1>2, MergedKeys, NormalizedKeys

LEMMA MergedRtm ==
    ASSUME NEW c \in Config
    PROVE  /\ Merge(c).appId = Else(c.appId, "project")
           /\ Merge(c).appCertificate = Else(c.appCertificate, "project")
           /\ Merge(c).bootstrapMode = Else(c.bootstrapMode, BootstrapRtm(c))
  <1>1. {"appId", "appCertificate", "bootstrapMode"} \subseteq Keys
    BY DEF Keys
  <1>2. /\ Example["appId"] = "project" /\ Example["appCertificate"] = "project"
        /\ Example["bootstrapMode"] = TRUE
    BY DEF Example
  <1>3. BootstrapRtm(c) # Missing
    BY ConfigAssumption DEF BootstrapRtm
  <1>4. Merge(c).bootstrapMode = Else(Else(c.bootstrapMode, BootstrapRtm(c)), TRUE)
    BY <1>1, <1>2, MergedKeys, NormalizedKeys
  <1>5. Else(Else(c.bootstrapMode, BootstrapRtm(c)), TRUE) = Else(c.bootstrapMode, BootstrapRtm(c))
    BY <1>3 DEF Else
  <1> QED BY <1>1, <1>2, <1>4, <1>5, MergedKeys, NormalizedKeys

LEMMA MergedPaths ==
    ASSUME NEW c \in Config
    PROVE  /\ Merge(c).serviceType = Else(c.serviceType, "localFile")
           /\ Merge(c).dataPaths = Else(c.dataPaths, "given")
           /\ Merge(c).logFilePath = Else(c.logFilePath, "server.log")
           /\ Merge(c).tlsEnabled = Else(c.tlsEnabled, FALSE)
           /\ Merge(c).tlsFiles = Else(c.tlsFiles, "standard")
  <1>1. {"serviceType", "dataPaths", "logFilePath", "tlsEnabled", "tlsFiles"} \subseteq Keys
    BY DEF Keys
  <1>2. /\ Example["serviceType"] = "localFile" /\ Example["dataPaths"] = "given"
        /\ Example["logFilePath"] = "server.log"
        /\ Example["tlsEnabled"] = FALSE /\ Example["tlsFiles"] = "standard"
    BY DEF Example
  <1> QED BY <1>1, <1>2, MergedKeys, NormalizedKeys

LEMMA MergeType == ASSUME NEW c \in Config PROVE Merge(c) \in Config
  <1>1. BootstrapRtm(c) \in BOOLEAN
    BY DEF BootstrapRtm
  <1>2. Placeholder \in Token
    BY ConfigAssumption
  <1>3. /\ Merge(c).publicBaseUrl \in Url \cup {Missing, Empty}
        /\ Merge(c).snapshotHost \in Url \cup {Missing, Empty}
        /\ Merge(c).bootstrapPublicUrl \in BOOLEAN \cup {Missing}
    BY MergedUrl DEF Config, Else
  <1>4. /\ Merge(c).token \in Token \cup {Missing, Empty}
        /\ Merge(c).adminToken \in Token \cup {Missing, Empty}
    BY <1>2, MergedAdmin DEF Config, Else
  <1>5. /\ Merge(c).appId \in Credential \cup {Missing, Empty}
        /\ Merge(c).appCertificate \in Credential \cup {Missing, Empty}
        /\ Merge(c).bootstrapMode \in BOOLEAN \cup {Missing}
    BY <1>1, MergedRtm DEF Config, Else, Credential
  <1>6. /\ Merge(c).serviceType \in {"localFile", "other"}
        /\ Merge(c).dataPaths \in {"given", Missing}
        /\ Merge(c).logFilePath \in LogPath \cup {Missing}
        /\ Merge(c).tlsEnabled \in BOOLEAN \cup {Missing}
        /\ Merge(c).tlsFiles \in {"standard", "elsewhere", Missing}
    BY MergedPaths DEF Config, Else, LogPath
  <1>7. Merge(c) = [k \in Keys |-> Merge(c)[k]]
    BY MergedKeys
  <1> QED BY <1>3, <1>4, <1>5, <1>6, <1>7 DEF Config, Keys

\* What init.ts leaves in each key.
LEMMA EffectiveKeys ==
    ASSUME NEW c \in Config
    PROVE  /\ Effective(c).publicBaseUrl = Else(Else(c.publicBaseUrl, c.snapshotHost), Empty)
           /\ Effective(c).snapshotHost = c.snapshotHost
           /\ Effective(c).bootstrapPublicUrl =
                  Else(c.bootstrapPublicUrl, ~Given(Else(c.publicBaseUrl, c.snapshotHost)))
           /\ Effective(c).token = Else(c.token, Else(c.adminToken, Empty))
           /\ Effective(c).appId = c.appId
           /\ Effective(c).appCertificate = c.appCertificate
           /\ Effective(c).bootstrapMode = Else(c.bootstrapMode, BootstrapRtm(c))
           /\ Effective(c).logFilePath = c.logFilePath
  BY DEF Effective, Config

LEMMA EffectiveType ==
    ASSUME NEW c \in Config
    PROVE  /\ Effective(c) \in Config
           /\ Missing \notin {Effective(c).publicBaseUrl, Effective(c).bootstrapPublicUrl,
                              Effective(c).token, Effective(c).bootstrapMode}
  <1>1. /\ BootstrapRtm(c) \in BOOLEAN
        /\ (~Given(Else(c.publicBaseUrl, c.snapshotHost))) \in BOOLEAN
    BY Zenon DEF BootstrapRtm, Given
  <1>2. /\ Else(Else(c.publicBaseUrl, c.snapshotHost), Empty) \in Url \cup {Empty}
        /\ Else(c.token, Else(c.adminToken, Empty)) \in Token \cup {Empty}
        /\ Else(c.bootstrapMode, BootstrapRtm(c)) \in BOOLEAN
        /\ Else(c.bootstrapPublicUrl, ~Given(Else(c.publicBaseUrl, c.snapshotHost))) \in BOOLEAN
    BY <1>1 DEF Else, Config
  <1>3. Missing \notin Url \cup {Empty} \cup Token \cup BOOLEAN
    BY ConfigAssumption
  <1>4. Effective(c) \in Config
    <2>1. /\ DOMAIN Effective(c) = Keys
          /\ Effective(c) = [k \in Keys |-> Effective(c)[k]]
      BY ConfigKeys DEF Effective
    <2>2. \A k \in Keys \ {"publicBaseUrl", "bootstrapPublicUrl", "token", "bootstrapMode"} :
              Effective(c)[k] = c[k]
      BY ConfigKeys DEF Effective
    <2>3. /\ Effective(c).publicBaseUrl \in Url \cup {Missing, Empty}
          /\ Effective(c).bootstrapPublicUrl \in BOOLEAN \cup {Missing}
          /\ Effective(c).token \in Token \cup {Missing, Empty}
          /\ Effective(c).bootstrapMode \in BOOLEAN \cup {Missing}
      BY <1>2, EffectiveKeys
    <2>4. /\ Effective(c).serviceType \in {"localFile", "other"}
          /\ Effective(c).dataPaths \in {"given", Missing}
          /\ Effective(c).logFilePath \in LogPath \cup {Missing}
          /\ Effective(c).snapshotHost \in Url \cup {Missing, Empty}
          /\ Effective(c).adminToken \in Token \cup {Missing, Empty}
          /\ Effective(c).appId \in Credential \cup {Missing, Empty}
          /\ Effective(c).appCertificate \in Credential \cup {Missing, Empty}
          /\ Effective(c).tlsEnabled \in BOOLEAN \cup {Missing}
          /\ Effective(c).tlsFiles \in {"standard", "elsewhere", Missing}
      BY <2>2 DEF Config, Keys
    <2> QED BY <2>1, <2>3, <2>4 DEF Config, Keys
  <1> QED BY <1>2, <1>3, <1>4, EffectiveKeys

-----------------------------------------------------------------------------
(* The upgrade *)

LEMMA MergeKeepsStart ==
    ASSUME NEW c \in Config, Starts(c)
    PROVE  Starts(Merge(c))
  BY MergedPaths DEF Starts, Else

LEMMA MergeKeepsUrl ==
    ASSUME NEW c \in Config, NEW named \in BOOLEAN
    PROVE  PublicBaseUrl(Effective(Merge(c)), named) = PublicBaseUrl(Effective(c), named)
  <1> DEFINE e == Effective(c)
             m == Merge(c)
             f == Effective(m)
  <1>1. m \in Config
    BY MergeType
  <1>2. CASE Given(c.publicBaseUrl)
    <2>1. e.publicBaseUrl = c.publicBaseUrl /\ f.publicBaseUrl = c.publicBaseUrl
      BY <1>1, <1>2, EffectiveKeys, MergedUrl DEF Given, Else
    <2> QED BY <1>2, <2>1 DEF PublicBaseUrl
  <1>3. CASE ~Given(c.publicBaseUrl) /\ Given(c.snapshotHost)
    <2>1. f.publicBaseUrl = c.snapshotHost
      BY <1>1, <1>3, EffectiveKeys, MergedUrl DEF Given, Else
    <2>2. \/ e.publicBaseUrl = c.snapshotHost
          \/ ~Given(e.publicBaseUrl) /\ e.snapshotHost = c.snapshotHost
      BY <1>3, EffectiveKeys DEF Given, Else
    <2> QED BY <1>3, <2>1, <2>2 DEF PublicBaseUrl
  <1>4. CASE ~Given(c.publicBaseUrl) /\ ~Given(c.snapshotHost)
    <2>1. /\ ~Given(e.publicBaseUrl) /\ ~Given(e.snapshotHost)
          /\ ~Given(f.publicBaseUrl) /\ ~Given(f.snapshotHost)
      BY <1>1, <1>4, EffectiveKeys, MergedUrl DEF Given, Else
    <2>2. CASE c.bootstrapPublicUrl = Missing
      <3>1. ~Given(Else(c.publicBaseUrl, c.snapshotHost))
        BY <1>4 DEF Given, Else
      <3>2. e.bootstrapPublicUrl = TRUE
        BY <2>2, <3>1, EffectiveKeys DEF Else
      <3>3. m.bootstrapPublicUrl = TRUE
        BY <2>2, MergedUrl DEF Else
      <3>4. TRUE # Missing
        BY ConfigAssumption
      <3>5. f.bootstrapPublicUrl = TRUE
        BY <1>1, <3>3, <3>4, EffectiveKeys DEF Else
      <3> QED BY <2>1, <3>2, <3>5 DEF PublicBaseUrl
    <2>3. CASE c.bootstrapPublicUrl # Missing
      <3>1. e.bootstrapPublicUrl = c.bootstrapPublicUrl
        BY <2>3, EffectiveKeys DEF Else
      <3>2. m.bootstrapPublicUrl = c.bootstrapPublicUrl
        BY <2>3, MergedUrl DEF Else
      <3>3. f.bootstrapPublicUrl = c.bootstrapPublicUrl
        BY <1>1, <2>3, <3>2, EffectiveKeys DEF Else
      <3> QED BY <2>1, <3>1, <3>3 DEF PublicBaseUrl
    <2> QED BY <2>2, <2>3
  <1> QED BY <1>2, <1>3, <1>4

LEMMA MergeKeepsRtm ==
    ASSUME NEW c \in Config
    PROVE  /\ BootstrapRtm(Merge(c)) = BootstrapRtm(c)
           /\ IsBootstrapRtmConfig(Effective(Merge(c))) = IsBootstrapRtmConfig(Effective(c))
  <1> DEFINE m == Merge(c)
  <1>1. m \in Config
    BY MergeType
  <1>2. BootstrapRtm(m) = BootstrapRtm(c)
    <2>1. /\ m.appId = "customer" <=> c.appId = "customer"
          /\ m.appCertificate = "customer" <=> c.appCertificate = "customer"
      BY MergedRtm, ConfigAssumption DEF Else, Credential
    <2> QED BY <2>1 DEF BootstrapRtm
  <1>3. BootstrapRtm(c) # Missing
    BY ConfigAssumption DEF BootstrapRtm
  <1>4. m.bootstrapMode # Missing /\ m.bootstrapMode = Else(c.bootstrapMode, BootstrapRtm(c))
    BY <1>3, MergedRtm DEF Else
  <1>5. Effective(m).bootstrapMode = Effective(c).bootstrapMode
    BY <1>1, <1>4, EffectiveKeys DEF Else
  <1>6. /\ BootstrapRtm(Effective(m)) = BootstrapRtm(m)
        /\ BootstrapRtm(Effective(c)) = BootstrapRtm(c)
    BY <1>1, EffectiveKeys DEF BootstrapRtm
  <1>7. IsBootstrapRtmConfig(Effective(m)) = IsBootstrapRtmConfig(Effective(c))
    BY <1>2, <1>5, <1>6 DEF IsBootstrapRtmConfig
  <1> QED BY <1>2, <1>7

LEMMA MergeKeepsAdmin ==
    ASSUME NEW c \in Config, ~ShadowedToken(c), NEW t \in Token
    PROVE  HasAdminAccess(Effective(Merge(c)), t) <=> HasAdminAccess(Effective(c), t)
  <1> DEFINE m == Merge(c)
             old == Effective(c).token
             new == Effective(m).token
  <1>1. m \in Config
    BY MergeType
  <1>2. old = Else(c.token, Else(c.adminToken, Empty)) /\ new = Else(m.token, Else(m.adminToken, Empty))
    BY <1>1, EffectiveKeys
  <1>3. Placeholder \notin {Missing, Empty}
    BY ConfigAssumption
  <1>4. \/ new = old
        \/ new = Placeholder /\ ~Given(old)
    BY <1>2, <1>3, MergedAdmin DEF ShadowedToken, Given, Else
  <1> QED BY <1>4 DEF HasAdminAccess

LEMMA MergeKeepsBehaviour ==
    ASSUME NEW c \in Config, ~ShadowedToken(c)
    PROVE  Behaviour(Merge(c)) = Behaviour(c)
  <1>1. {t \in Token : HasAdminAccess(Effective(Merge(c)), t)} = {t \in Token : HasAdminAccess(Effective(c), t)}
    BY MergeKeepsAdmin
  <1> QED BY <1>1, MergeKeepsUrl, MergeKeepsRtm DEF Behaviour

LEMMA MergeKeepsValid ==
    ASSUME NEW c \in Config, NEW strict \in BOOLEAN, Valid(c, strict)
    PROVE  Valid(Merge(c), strict)
  <1> DEFINE m == Merge(c)
  <1>1. /\ m.serviceType = "localFile" /\ m.dataPaths # Missing
        /\ m.logFilePath \in {"server.log", "my-server.log"}
    BY MergedPaths DEF Valid, Else
  <1>2. m.token \in Long \ {Placeholder}
    BY MergedAdmin, ConfigAssumption DEF Valid, Else, Given
  <1>3. m.tlsEnabled = TRUE => m.tlsFiles = "standard"
    BY MergedPaths DEF Valid, Else
  <1>4. Given(m.publicBaseUrl) \/ (~strict /\ m.bootstrapPublicUrl = TRUE)
    <2>1. CASE Given(c.publicBaseUrl)
      BY <2>1, MergedUrl DEF Given, Else
    <2>2. CASE ~strict /\ c.bootstrapPublicUrl = TRUE
      BY <2>2, MergedUrl DEF Else
    <2> QED BY <2>1, <2>2 DEF Valid
  <1>5. BootstrapRtm(c) # Missing
    BY ConfigAssumption DEF BootstrapRtm
  <1>6. m.bootstrapMode = Else(c.bootstrapMode, BootstrapRtm(c)) /\ m.bootstrapMode # Missing
    BY <1>5, MergedRtm DEF Else
  <1>7. BootstrapRtm(m) = BootstrapRtm(c)
    BY MergeKeepsRtm
  <1>8. m.bootstrapMode = FALSE => ~BootstrapRtm(m)
    <2>1. CASE c.bootstrapMode = Missing
      BY <1>6, <1>7, <2>1 DEF Else
    <2>2. CASE c.bootstrapMode # Missing
      BY <1>6, <1>7, <2>2 DEF Else, Valid
    <2> QED BY <2>1, <2>2
  <1>9. strict => Else(m.bootstrapMode, BootstrapRtm(m)) = FALSE
    <2>1. Else(m.bootstrapMode, BootstrapRtm(m)) = Else(c.bootstrapMode, BootstrapRtm(c))
      BY <1>6 DEF Else
    <2> QED BY <2>1 DEF Valid
  <1> QED BY <1>1, <1>2, <1>3, <1>4, <1>8, <1>9 DEF Valid

LEMMA MergeTwice == ASSUME NEW c \in Config PROVE Merge(Merge(c)) = Merge(c)
  <1> DEFINE m == Merge(c)
  <1>1. m \in Config
    BY MergeType
  <1>2. Given(Placeholder)
    BY ConfigAssumption DEF Given
  <1>3. Normalized(m).publicBaseUrl = m.publicBaseUrl
    BY <1>1, NormalizedKeys, MergedUrl DEF Given, Else
  <1>4. Normalized(m).token = m.token
    BY <1>1, <1>2, NormalizedKeys, MergedAdmin DEF Given, Else
  <1>5. BootstrapRtm(c) # Missing
    BY ConfigAssumption DEF BootstrapRtm
  <1>6. m.bootstrapMode # Missing
    BY <1>5, MergedRtm DEF Else
  <1>7. Normalized(m).bootstrapMode = m.bootstrapMode
    BY <1>1, <1>6, NormalizedKeys DEF Else
  <1>8. \A k \in Keys : Normalized(m)[k] = m[k]
    BY <1>1, <1>3, <1>4, <1>7, NormalizedKeys DEF Keys
  <1>9. \A k \in Keys : Else(m[k], Example[k]) = m[k]
    BY MergedKeys DEF Else
  <1>10. Merge(m) = [k \in Keys |-> m[k]]
    BY <1>1, <1>8, <1>9, MergedKeys
  <1>11. m = [k \in Keys |-> m[k]]
    BY MergedKeys
  <1> QED BY <1>10, <1>11

-----------------------------------------------------------------------------
(* The service *)

\* The types hold in every reachable state.
THEOREM TypeCorrectness == ServiceSpec => []TypeOK
  <1>1. ServiceInit => TypeOK
    BY CustomerAssumption DEF ServiceInit, TypeOK, NoReply
  <1>2. TypeOK /\ [ServiceNext]_serviceVars => TypeOK'
    <2> SUFFICES ASSUME TypeOK, [ServiceNext]_serviceVars PROVE TypeOK'
      OBVIOUS
    <2> USE DEF TypeOK
    <2>1. CASE Upgrade
      BY <2>1, MergeType DEF Upgrade
    <2>2. ASSUME NEW strict \in BOOLEAN, Check(strict) PROVE TypeOK'
      BY <2>2 DEF Check
    <2>3. CASE Start
      <3>1. CASE Starts(file) /\ service' = "running" /\ loaded' = Effective(file)
        BY <2>3, <3>1, EffectiveType DEF Start, NoReply
      <3>2. CASE ~Starts(file) /\ service' = "refused" /\ loaded' = file
        BY <2>3, <3>2 DEF Start, NoReply
      <3> QED BY <2>3, <3>1, <3>2 DEF Start
    <2>4. CASE Stop
      BY <2>4 DEF Stop, NoReply
    <2>5. ASSUME NEW named \in BOOLEAN, GetSnapshotUrl(named) PROVE TypeOK'
      BY <2>5 DEF GetSnapshotUrl, Answer
    <2>6. CASE PostRtmToken
      BY <2>6 DEF PostRtmToken, Answer
    <2>7. ASSUME NEW t \in Token \cup {Missing}, CallAdmin(t) PROVE TypeOK'
      BY <2>7 DEF CallAdmin, Answer
    <2>8. CASE UNCHANGED serviceVars
      BY <2>8 DEF serviceVars
    <2> QED BY <2>1, <2>2, <2>3, <2>4, <2>5, <2>6, <2>7, <2>8 DEF ServiceNext
  <1> QED BY <1>1, <1>2, PTL DEF ServiceSpec

\* Only the upgrade writes the file, so a changed file is a merged one.
LEMMA OnlyUpgradeWrites ==
    ASSUME TypeOK, [ServiceNext]_serviceVars, file' # file
    PROVE  file' = Merge(file)
  BY DEF ServiceNext, serviceVars, Upgrade, Check, Start, Stop,
         GetSnapshotUrl, PostRtmToken, CallAdmin, Answer

\* Whatever keys a customer's file has, new, old or none, the merge changes no
\* answer of a service that starts on it.
THEOREM UpgradeKeepsMeaningHolds == ServiceSpec => UpgradeKeepsMeaning
  <1>1. TypeOK /\ [ServiceNext]_serviceVars =>
            [file' # file /\ Starts(file) /\ ~ShadowedToken(file) =>
                Starts(file') /\ Behaviour(file') = Behaviour(file)]_serviceVars
    <2> SUFFICES ASSUME TypeOK, [ServiceNext]_serviceVars, file' # file, Starts(file), ~ShadowedToken(file)
                 PROVE  Starts(file') /\ Behaviour(file') = Behaviour(file)
      OBVIOUS
    <2>1. file' = Merge(file) /\ file \in Config
      BY OnlyUpgradeWrites DEF TypeOK
    <2> QED BY <2>1, MergeKeepsStart, MergeKeepsBehaviour
  <1> QED BY <1>1, TypeCorrectness, PTL DEF ServiceSpec, UpgradeKeepsMeaning

\* The merge keeps a file's checks and is idempotent.
THEOREM UpgradeSettlesHolds == ServiceSpec => UpgradeSettles
  <1>1. TypeOK /\ [ServiceNext]_serviceVars =>
            [file' # file =>
                /\ \A strict \in BOOLEAN : Valid(file, strict) => Valid(file', strict)
                /\ Merge(file') = file']_serviceVars
    <2> SUFFICES ASSUME TypeOK, [ServiceNext]_serviceVars, file' # file
                 PROVE  /\ \A strict \in BOOLEAN : Valid(file, strict) => Valid(file', strict)
                        /\ Merge(file') = file'
      OBVIOUS
    <2>1. file' = Merge(file) /\ file \in Config
      BY OnlyUpgradeWrites DEF TypeOK
    <2> QED BY <2>1, MergeKeepsValid, MergeTwice
  <1> QED BY <1>1, TypeCorrectness, PTL DEF ServiceSpec, UpgradeSettles

-----------------------------------------------------------------------------
(* What a check is worth *)

LEMMA ValidAnswers ==
    ASSUME NEW c \in Config, NEW strict \in BOOLEAN, Valid(c, strict)
    PROVE  /\ ~Starts(c) => c.logFilePath = "my-server.log"
           /\ \A named \in BOOLEAN :
                  named \/ strict => PublicBaseUrl(Effective(c), named) # <<"refused">>
           /\ HasAdminAccess(Effective(c), Effective(c).token)
           /\ strict => ~IsBootstrapRtmConfig(Effective(c))
  <1>1. ~Starts(c) => c.logFilePath = "my-server.log"
    BY DEF Valid, Starts
  <1>2. ASSUME NEW named \in BOOLEAN, named \/ strict
        PROVE  PublicBaseUrl(Effective(c), named) # <<"refused">>
    <2>1. CASE Given(c.publicBaseUrl)
      BY <2>1, EffectiveKeys DEF PublicBaseUrl, Given, Else
    <2>2. CASE c.bootstrapPublicUrl = TRUE /\ ~strict
      <3>1. Effective(c).bootstrapPublicUrl = TRUE
        BY <2>2, EffectiveKeys, ConfigAssumption DEF Else
      <3> QED BY <1>2, <2>2, <3>1 DEF PublicBaseUrl
    <2> QED BY <2>1, <2>2 DEF Valid
  <1>3. HasAdminAccess(Effective(c), Effective(c).token)
    <2>1. c.token \in Long \ {Placeholder} /\ Given(c.token)
      BY ConfigAssumption DEF Valid, Given
    <2>2. Effective(c).token = c.token
      BY <2>1, EffectiveKeys DEF Given, Else
    <2> QED BY <2>1, <2>2 DEF HasAdminAccess
  <1>4. strict => ~IsBootstrapRtmConfig(Effective(c))
    <2> SUFFICES ASSUME strict PROVE ~IsBootstrapRtmConfig(Effective(c))
      OBVIOUS
    <2>1. Effective(c).bootstrapMode = FALSE
      BY EffectiveKeys DEF Valid
    <2>2. ~BootstrapRtm(c)
      BY DEF Valid, Else
    <2>3. BootstrapRtm(Effective(c)) = BootstrapRtm(c)
      BY EffectiveKeys DEF BootstrapRtm
    <2> QED BY <2>1, <2>2, <2>3 DEF IsBootstrapRtmConfig
  <1> QED BY <1>1, <1>2, <1>3, <1>4

\* Checks only count for the file they were made on, and a process that
\* trusts them runs on what it read from that file.
Trust ==
    /\ \A strict \in checks : Valid(file, strict)
    /\ \A strict \in trusted :
           \E c \in Config :
               /\ Valid(c, strict)
               /\ service = "running" => loaded = Effective(c)
               /\ service = "refused" => loaded = c /\ ~Starts(c)

\* Every reply is that of the process which is running.
ReplyRight ==
    /\ reply.to # "none" => service = "running"
    /\ reply.to = "snapshotUrl" =>
           reply.status = IF PublicBaseUrl(loaded, TRUE) = <<"refused">> THEN 400 ELSE 200
    /\ reply.to = "snapshotUrlNoHost" =>
           reply.status = IF PublicBaseUrl(loaded, FALSE) = <<"refused">> THEN 400 ELSE 200
    /\ reply.to = "rtmToken" => reply.status = IF IsBootstrapRtmConfig(loaded) THEN 503 ELSE 200
    /\ reply.to = "adminWithToken" =>
           reply.status = IF HasAdminAccess(loaded, loaded.token) THEN 200 ELSE 401

CheckInv == TypeOK /\ Trust /\ ReplyRight

LEMMA TrustKept ==
    ASSUME TypeOK, Trust, [ServiceNext]_serviceVars
    PROVE  Trust'
  <1>1. ASSUME UNCHANGED <<file, checks, trusted, service, loaded>> PROVE Trust'
    BY <1>1 DEF Trust
  <1>2. CASE Upgrade
    BY <1>2 DEF Upgrade, Trust
  <1>3. ASSUME NEW strict \in BOOLEAN, Check(strict) PROVE Trust'
    BY <1>3 DEF Check, Trust
  <1>4. CASE Start
    <2>1. trusted' = checks /\ checks' = checks /\ file' = file /\ file \in Config
      BY <1>4 DEF Start, TypeOK
    <2>2. /\ service' = "running" => loaded' = Effective(file)
          /\ service' = "refused" => loaded' = file /\ ~Starts(file)
      BY <1>4 DEF Start
    <2> QED BY <2>1, <2>2 DEF Trust
  <1>5. CASE Stop
    <2>1. service' = "stopped" /\ UNCHANGED <<file, checks, trusted>>
      BY <1>5 DEF Stop
    <2> QED BY <2>1 DEF Trust
  <1>6. ASSUME NEW to, NEW status, Answer(to, status) PROVE Trust'
    BY <1>1, <1>6 DEF Answer
  <1>7. ASSUME NEW named \in BOOLEAN, GetSnapshotUrl(named) PROVE Trust'
    BY <1>6, <1>7 DEF GetSnapshotUrl
  <1>8. CASE PostRtmToken
    BY <1>6, <1>8 DEF PostRtmToken
  <1>9. ASSUME NEW t \in Token \cup {Missing}, CallAdmin(t) PROVE Trust'
    BY <1>6, <1>9 DEF CallAdmin
  <1>10. CASE UNCHANGED serviceVars
    BY <1>1, <1>10 DEF serviceVars
  <1> QED BY <1>2, <1>3, <1>4, <1>5, <1>7, <1>8, <1>9, <1>10 DEF ServiceNext

LEMMA ReplyKept ==
    ASSUME ReplyRight, [ServiceNext]_serviceVars
    PROVE  ReplyRight'
  <1>1. ASSUME UNCHANGED <<reply, service, loaded>> PROVE ReplyRight'
    BY <1>1 DEF ReplyRight
  <1>2. CASE Upgrade
    BY <1>1, <1>2 DEF Upgrade
  <1>3. ASSUME NEW strict \in BOOLEAN, Check(strict) PROVE ReplyRight'
    BY <1>1, <1>3 DEF Check
  <1>4. CASE Start \/ Stop
    <2>1. reply'.to = "none"
      BY <1>4 DEF Start, Stop, NoReply
    <2> QED BY <2>1 DEF ReplyRight
  <1>5. ASSUME NEW named \in BOOLEAN, GetSnapshotUrl(named) PROVE ReplyRight'
    <2>1. /\ service' = "running" /\ loaded' = loaded
          /\ reply'.to = IF named THEN "snapshotUrl" ELSE "snapshotUrlNoHost"
          /\ reply'.status = IF PublicBaseUrl(loaded, named) = <<"refused">> THEN 400 ELSE 200
      BY <1>5 DEF GetSnapshotUrl, Answer
    <2>2. CASE named
      BY <2>1, <2>2 DEF ReplyRight
    <2>3. CASE ~named
      <3>1. named = FALSE
        BY <2>3
      <3> QED BY <2>1, <3>1 DEF ReplyRight
    <2> QED BY <2>2, <2>3
  <1>6. CASE PostRtmToken
    BY <1>6 DEF PostRtmToken, Answer, ReplyRight
  <1>7. ASSUME NEW t \in Token \cup {Missing}, CallAdmin(t) PROVE ReplyRight'
    BY <1>7 DEF CallAdmin, Answer, ReplyRight
  <1>8. CASE UNCHANGED serviceVars
    BY <1>1, <1>8 DEF serviceVars
  <1> QED BY <1>2, <1>3, <1>4, <1>5, <1>6, <1>7, <1>8 DEF ServiceNext

LEMMA CheckInvHolds == ServiceSpec => []CheckInv
  <1>1. ServiceInit => Trust /\ ReplyRight
    BY DEF ServiceInit, Trust, ReplyRight, NoReply
  <1>2. TypeOK /\ (Trust /\ ReplyRight) /\ [ServiceNext]_serviceVars => (Trust /\ ReplyRight)'
    BY TrustKept, ReplyKept
  <1>3. TypeOK /\ Trust /\ ReplyRight => CheckInv
    BY DEF CheckInv
  <1> QED BY <1>1, <1>2, <1>3, TypeCorrectness, PTL DEF ServiceSpec

\* A checked file is served, and a strictly checked one with RTM tokens and
\* with snapshot URLs for requests without a Host header.
THEOREM CheckedServesHolds == ServiceSpec => []CheckedServes
  <1>1. CheckInv => CheckedServes
    <2> SUFFICES ASSUME CheckInv PROVE CheckedServes
      OBVIOUS
    <2>1. trusted \subseteq BOOLEAN
      BY DEF CheckInv, TypeOK
    <2>2. ASSUME NEW strict \in trusted
          PROVE  /\ service = "refused" => loaded.logFilePath = "my-server.log"
                 /\ reply.to \in {"snapshotUrl", "adminWithToken"} => reply.status = 200
                 /\ reply.to \in {"rtmToken", "snapshotUrlNoHost"} /\ strict => reply.status = 200
      <3>1. PICK c \in Config :
                /\ Valid(c, strict)
                /\ service = "running" => loaded = Effective(c)
                /\ service = "refused" => loaded = c /\ ~Starts(c)
        BY DEF CheckInv, Trust
      <3>2. /\ ~Starts(c) => c.logFilePath = "my-server.log"
            /\ PublicBaseUrl(Effective(c), TRUE) # <<"refused">>
            /\ strict => PublicBaseUrl(Effective(c), FALSE) # <<"refused">>
            /\ HasAdminAccess(Effective(c), Effective(c).token)
            /\ strict => ~IsBootstrapRtmConfig(Effective(c))
        BY <2>1, <3>1, ValidAnswers
      <3>3. reply.to \in {"snapshotUrl", "snapshotUrlNoHost", "adminWithToken", "rtmToken"} => loaded = Effective(c)
        BY <3>1 DEF CheckInv, ReplyRight
      <3>4. service = "refused" => loaded.logFilePath = "my-server.log"
        BY <3>1, <3>2
      <3>5. ReplyRight
        BY DEF CheckInv
      <3>6. reply.to = "snapshotUrl" => reply.status = 200
        <4> SUFFICES ASSUME reply.to = "snapshotUrl" PROVE reply.status = 200
          OBVIOUS
        <4>1. PublicBaseUrl(loaded, TRUE) # <<"refused">>
          BY <3>2, <3>3
        <4> QED BY <3>5, <4>1, Zenon DEF ReplyRight
      <3>7. reply.to = "adminWithToken" => reply.status = 200
        <4> SUFFICES ASSUME reply.to = "adminWithToken" PROVE reply.status = 200
          OBVIOUS
        <4>1. HasAdminAccess(loaded, loaded.token)
          BY <3>2, <3>3
        <4> QED BY <3>5, <4>1, Zenon DEF ReplyRight
      <3>8. reply.to = "snapshotUrlNoHost" /\ strict => reply.status = 200
        <4> SUFFICES ASSUME reply.to = "snapshotUrlNoHost", strict PROVE reply.status = 200
          OBVIOUS
        <4>1. PublicBaseUrl(loaded, FALSE) # <<"refused">>
          BY <3>2, <3>3
        <4> QED BY <3>5, <4>1, Zenon DEF ReplyRight
      <3>9. reply.to = "rtmToken" /\ strict => reply.status = 200
        <4> SUFFICES ASSUME reply.to = "rtmToken", strict PROVE reply.status = 200
          OBVIOUS
        <4>1. ~IsBootstrapRtmConfig(loaded)
          BY <3>2, <3>3
        <4> QED BY <3>5, <4>1, Zenon DEF ReplyRight
      <3>10. reply.to \in {"snapshotUrl", "adminWithToken"} => reply.status = 200
        BY <3>6, <3>7
      <3>11. reply.to \in {"rtmToken", "snapshotUrlNoHost"} /\ strict => reply.status = 200
        BY <3>8, <3>9
      <3> QED BY <3>4, <3>10, <3>11
    <2> QED BY <2>2 DEF CheckedServes
  <1> QED BY <1>1, CheckInvHolds, PTL
=============================================================================
