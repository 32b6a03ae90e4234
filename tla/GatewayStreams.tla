--------------------------- MODULE GatewayStreams ---------------------------
(***************************************************************************)
(* What a browser is streamed of the runtime: the broadcast ring every     *)
(* stream reads at its own pace (state.rs, framing.rs), the HTTP stream    *)
(* and its permits (http.rs stream_chappe), the WebTransport session and   *)
(* its admission (webtransport.rs).  A stream that falls behind the ring   *)
(* loses envelopes; Consul may only trust what it shows if it is told.     *)
(***************************************************************************)
EXTENDS Integers, Sequences, GatewayAccess

CONSTANTS
    Viewers,        \* browsers that open streams
    RingSize,       \* ENVELOPE_BROADCAST_CAPACITY
    StreamPermits,  \* MAX_HTTP_STREAMS, SESSION_CAPACITY
    MaxFrames       \* bound: envelopes the gateway takes in

VARIABLES
    sRing,      \* every envelope sent so far, by topic; the last RingSize are kept
    sView,      \* each viewer's stream
    sHttp, sWt  \* permits in use

svars == <<sRing, sView, sHttp, sWt>>

NoView == [at |-> "none", via |-> "none", topics |-> {}, held |-> {}, next |-> 0, got |-> <<>>]

StreamsInit == sRing = <<>> /\ sView = [v \in Viewers |-> NoView] /\ sHttp = 0 /\ sWt = 0

\* ingest_runtime_frame, runtime_connection_changed: envelope_tx.send.
FrameArrives(topic) ==
    /\ Len(sRing) < MaxFrames
    /\ sRing' = Append(sRing, topic)
    /\ UNCHANGED <<sView, sHttp, sWt>>

Opened(v, via, topics, h) ==
    sView' = [sView EXCEPT ![v] = [at |-> "open", via |-> via, topics |-> topics,
                                   held |-> Authenticated(h), next |-> Len(sRing) + 1,
                                   got |-> <<>>]]

\* authorize_api and stream_chappe: the credential is asked for what the query
\* names, the stream carries what is allowed of it; one of the permits.
HttpSensitive(asked) == asked \cap SensitiveTopics # {}
OpenHttp(v, asked, h) ==
    /\ sView[v].at = "none" /\ OriginAllowed(h)
    /\ HttpSensitive(asked) => Authorized(h, "sensitive_read")
    /\ FilterTopics(asked) # {} /\ sHttp < StreamPermits
    /\ sHttp' = sHttp + 1
    /\ Opened(v, "http", FilterTopics(asked), h)
    /\ UNCHANGED <<sRing, sWt>>

\* serve_webtransport: a session takes its permit before anything is known of
\* it; path and Origin are checked, then the handshake.
ConnectWt(v, h) ==
    /\ sView[v].at = "none" /\ sWt < StreamPermits /\ OriginAllowed(h)
    /\ sWt' = sWt + 1
    /\ sView' = [sView EXCEPT ![v] = [NoView EXCEPT !.at = "session", !.via = "wt"]]
    /\ UNCHANGED <<sRing, sHttp>>

\* handle_session: the subscription names the topics and carries its credential
\* in the message; a credential in the headers is not accepted with it.
WtSensitive_Query(asked) == asked \cap {"logs"} # {}   \* mutant: audit is forgotten
WtSensitive(asked) == FilterTopics(asked) \cap SensitiveTopics # {}
WtAdmits(asked, h) ==
    /\ FilterTopics(asked) # {}
    /\ WtSensitive(asked) => h.legacy = {} /\ Authorized(h, "sensitive_read")
SubscribeWt(v, asked, h) ==
    /\ sView[v].at = "session"
    /\ IF WtAdmits(asked, h)
       THEN Opened(v, "wt", FilterTopics(asked), h) /\ UNCHANGED <<sRing, sHttp, sWt>>
       ELSE /\ sView' = [sView EXCEPT ![v] = NoView] /\ sWt' = sWt - 1
            /\ UNCHANGED <<sRing, sHttp>>

\* SUBSCRIPTION_TIMEOUT: nothing came over the session.
SubscriptionTimesOut(v) ==
    /\ sView[v].at = "session"
    /\ sView' = [sView EXCEPT ![v] = NoView] /\ sWt' = sWt - 1
    /\ UNCHANGED <<sRing, sHttp>>

Behind(v) == sView[v].next <= Len(sRing) - RingSize
Given(v, what, next) == sView' = [sView EXCEPT ![v].got = Append(@, what), ![v].next = next]
Ended(v) ==
    /\ sView' = [sView EXCEPT ![v] = NoView]
    /\ sHttp' = IF sView[v].via = "http" THEN sHttp - 1 ELSE sHttp
    /\ sWt' = IF sView[v].via = "wt" THEN sWt - 1 ELSE sWt

\* next_stream_envelope, Lagged: the reader starts again at the newest envelope
\* and sends a gap first.
Lagged_Skips(v) ==   \* mutant: the reader goes on with the oldest envelope kept
    sView' = [sView EXCEPT ![v].next = Len(sRing) - RingSize + 1]
Lagged(v) == Given(v, 0, Len(sRing) + 1)

\* next_stream_envelope: a matching envelope is sent, another one passed over.
StreamNext(v) ==
    /\ sView[v].at = "open"
    /\ \/ Behind(v) /\ Lagged(v)
       \/ /\ ~Behind(v) /\ sView[v].next <= Len(sRing)
          /\ IF sRing[sView[v].next] \in sView[v].topics
             THEN Given(v, sView[v].next, sView[v].next + 1)
             ELSE sView' = [sView EXCEPT ![v].next = @ + 1]
    /\ UNCHANGED <<sRing, sHttp, sWt>>

\* The browser goes.  A WebTransport session notices at once; an HTTP stream
\* only when it next has something to write, and keeps its permit until then.
ViewerGoes(v) ==
    /\ sView[v].at = "open"
    /\ IF sView[v].via = "wt" THEN Ended(v)
       ELSE sView' = [sView EXCEPT ![v].at = "gone"] /\ UNCHANGED <<sHttp, sWt>>
    /\ UNCHANGED sRing
WriteFails(v) ==
    /\ sView[v].at = "gone"
    /\ Behind(v) \/ \E i \in sView[v].next .. Len(sRing) : sRing[i] \in sView[v].topics
    /\ Ended(v)
    /\ UNCHANGED sRing

StreamHeaders ==
    {[origin |-> "robot", bearer |-> {"sensitive_read"}, legacy |-> {}],
     [origin |-> "none", bearer |-> {}, legacy |-> {"log"}],
     [origin |-> "listed", bearer |-> {"control"}, legacy |-> {}],
     [origin |-> "other", bearer |-> {"operator"}, legacy |-> {}]}
Asked == {{"state"}, {"state", "logs"}, {"audit"}, {"testing_batch"}, {"state", "testing_batch"}}

StreamsNext ==
    \/ \E t \in AllowedTopics : FrameArrives(t)
    \/ \E v \in Viewers : StreamNext(v) \/ ViewerGoes(v) \/ WriteFails(v)
                          \/ SubscriptionTimesOut(v)
    \/ \E v \in Viewers, h \in StreamHeaders :
          \/ ConnectWt(v, h)
          \/ \E asked \in Asked : OpenHttp(v, asked, h) \/ SubscribeWt(v, asked, h)

StreamsSpec == StreamsInit /\ [][StreamsNext]_svars

------------------------------------------------------------------------------
\* Between two envelopes a viewer is given with no gap between them, no envelope
\* of its topics is missing: a viewer that fell behind the ring is told before
\* it sees anything newer.
LossIsMarked ==
    \A v \in Viewers : \A i \in 1 .. Len(sView[v].got) - 1 :
        LET a == sView[v].got[i]  b == sView[v].got[i + 1]
        IN  a # 0 /\ b # 0 =>
                a < b /\ \A j \in a + 1 .. b - 1 : sRing[j] \notin sView[v].topics

\* Logs and audit events go to readers' credentials only, by either transport.
SensitiveNeedsReader ==
    \A v \in Viewers : sView[v].at # "none" /\ sView[v].topics \cap SensitiveTopics # {}
        => "sensitive_read" \in sView[v].held

\* Every permit in use belongs to a stream that is open or was abandoned.
PermitsAreReturned ==
    /\ sHttp = Cardinality({v \in Viewers : sView[v].at # "none" /\ sView[v].via = "http"})
    /\ sWt = Cardinality({v \in Viewers : sView[v].at # "none" /\ sView[v].via = "wt"})

\* The streams as a whole.
StreamsHold == LossIsMarked /\ SensitiveNeedsReader /\ PermitsAreReturned
=============================================================================
