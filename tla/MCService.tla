----------------------------- MODULE MCService -----------------------------
(***************************************************************************)
(* The files: what init leaves, with any two of its four aspects (public   *)
(* URL, admin token, RTM, paths and TLS) set in every way, absent and      *)
(* empty values included.                                                  *)
(***************************************************************************)
EXTENDS Service

MCUrl == {Missing, Empty} \cup {[host |-> h, slashes |-> TRUE] : h \in Host}
MCToken == {Missing, Empty} \cup Token
Flag == {Missing, TRUE, FALSE}

UrlVariants(c) ==
    {[c EXCEPT !.publicBaseUrl = p, !.snapshotHost = s, !.bootstrapPublicUrl = b] :
        p \in MCUrl, s \in MCUrl, b \in Flag}
AdminVariants(c) == {[c EXCEPT !.token = t, !.adminToken = a] : t \in MCToken, a \in MCToken}
RtmVariants(c) ==
    {[c EXCEPT !.appId = i, !.appCertificate = s, !.bootstrapMode = b] :
        i \in Credential \cup {Missing, Empty}, s \in Credential \cup {Missing}, b \in Flag}
PathVariants(c) ==
    {[c EXCEPT !.serviceType = s, !.dataPaths = d, !.logFilePath = l, !.tlsEnabled = e, !.tlsFiles = f] :
        s \in {"localFile", "other"}, d \in {"given", Missing}, l \in LogPath \cup {Missing},
        e \in Flag, f \in {"standard", "elsewhere", Missing}}

Installed == [Example EXCEPT !.token = CHOOSE t \in Long : t # Placeholder]

MCCustomerFile ==
    UNION {AdminVariants(c) \cup RtmVariants(c) \cup PathVariants(c) : c \in UrlVariants(Installed)}
    \cup UNION {RtmVariants(c) \cup PathVariants(c) : c \in AdminVariants(Installed)}
    \cup UNION {PathVariants(c) : c \in RtmVariants(Installed)}
=============================================================================
