---------------------------- MODULE GatewayAccess ----------------------------
(***************************************************************************)
(* Who may ask marengo-gateway for what (access.rs, http.rs): the browser  *)
(* Origin, the credential a request presents, the capability its route     *)
(* asks for.  Decided before the body of a request is read.                *)
(***************************************************************************)
EXTENDS Integers, FiniteSets

Capabilities == {"control", "calibration", "configuration", "management", "sensitive_read"}

\* from_environment: the operator and the historical log token grant everything,
\* the other tokens one capability each; any other string grants nothing.
Credentials == Capabilities \cup {"operator", "log", "unknown"}
Grants(c) == IF c \in {"operator", "log"} THEN Capabilities
             ELSE IF c \in Capabilities THEN {c} ELSE {}

\* What a request carries: its Origin headers, and the credentials in the
\* Authorization header and in the historical header.
Origins == {"none", "listed", "robot", "other", "twice"}
Headers == [origin : Origins, bearer : SUBSET Credentials, legacy : SUBSET Credentials]

\* allows_origin and validate_origin: no Origin (no browser), a listed one, or
\* the robot's own HTTPS page; two Origin headers are refused.
OriginAllowed(h) == h.origin \in {"none", "listed", "robot"}

\* authenticate: exactly one header, once, with a known credential.
Authenticated(h) ==
    LET shown == IF h.legacy = {} THEN h.bearer ELSE IF h.bearer = {} THEN h.legacy ELSE {}
    IN  IF Cardinality(shown) = 1 THEN UNION {Grants(c) : c \in shown} ELSE {}

\* authorize.
Authorized(h, capability) == OriginAllowed(h) /\ capability \in Authenticated(h)
AccessStatus(h, capability) ==
    CASE ~OriginAllowed(h) -> "forbidden"
      [] OriginAllowed(h) /\ Authenticated(h) = {} -> "unauthorized"
      [] OriginAllowed(h) /\ Authenticated(h) # {} /\ capability \notin Authenticated(h)
            -> "forbidden"
      [] OTHER -> "ok"

\* The topics a stream may carry, and those that need a reader's credential.
\* The batch topic is sensitive and not streamed at all.
SensitiveTopics == {"logs", "audit", "testing_batch"}
AllowedTopics == {"connection", "state", "logs", "audit"}

\* filter_topics: the allowed ones, and with them the connection's changes.
FilterTopics(ts) ==
    LET allowed == ts \cap AllowedTopics
    IN  IF allowed = {} THEN {} ELSE allowed \cup {"connection"}
=============================================================================
