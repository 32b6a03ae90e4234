--------------------------- MODULE GatewayCommands ---------------------------
(***************************************************************************)
(* The gateway's command routes: admission (http.rs authorize_api), the    *)
(* token buckets (ratelimit.rs), the command handlers (http.rs,            *)
(* actuator.rs) and the publication to marengo-pi (state.rs).  A handler   *)
(* takes its token, then awaits the blocking IPC write, then gives the     *)
(* token back if the write failed: other requests and time pass between.   *)
(***************************************************************************)
EXTENDS Integers, FiniteSets, GatewayAccess

CONSTANTS
    CmdClients,     \* client ids a caller may name
    CmdSlots,       \* requests being served at once
    CmdJoints,      \* command-eligible joints
    Burst,          \* token capacity of each bucket kind, in quarter tokens
    Refill,         \* quarter tokens per tick of each bucket kind
    BucketTtl,      \* ticks after which an idle bucket is evicted
    MaxCmdTicks,    \* bound: time
    CmdFocuses      \* bound: the sets of routes the callers of one behaviour use

BucketKinds == {"tuning", "motion", "diagnostics", "poll", "testing"}

\* An evicted bucket comes back full: it must have refilled by then.
BucketTtlAssumption ==
    /\ Burst \in [BucketKinds -> Nat] /\ Refill \in [BucketKinds -> Nat]
    /\ \A b \in BucketKinds : BucketTtl * Refill[b] >= Burst[b]

VARIABLES
    cBuckets,   \* RateLimiter: key -> [tokens, idle]; an absent key is full
    cReq,       \* each slot's request, while it is published
    cLast,      \* the last answer given: what was asked, the status
    cLink,      \* is marengo-pi reading the command socket
    cTime,      \* ticks so far
    cSent,      \* commands published per global key
    cFocus      \* the routes in use

cvars == <<cBuckets, cReq, cLast, cLink, cTime, cSent, cFocus>>

\* What is asked.  "stop" is /command/enable with enable = false; "disable" its
\* credential-free sibling; "tuning_persist" and "tuning_firmware" are the tiers
\* of /command/actuator that ask for more than control.
Tunings == {"tuning", "tuning_persist", "tuning_firmware"}
CmdKinds == Tunings \cup {"enable", "stop", "disable", "testing", "set_zero", "acquire",
                          "release", "poll", "home"}

\* authorize_api: the capability of a route (none for the stop and the retired
\* route), and the further one a decoded tuning may ask for.
RouteCapabilities(kind) ==
    CASE kind = "set_zero" -> {"calibration"}
      [] kind \in {"disable", "home"} -> {}
      [] kind = "tuning_persist" -> {"control", "configuration"}
      [] kind = "tuning_firmware" -> {"control", "calibration"}
      [] OTHER -> {"control"}

\* The bucket a request is charged to, if any: stops and releases are not.
BucketOf(kind) ==
    CASE kind \in {"enable", "set_zero"} -> "motion"
      [] kind = "testing" -> "testing"
      [] kind = "acquire" -> "diagnostics"
      [] kind = "poll" -> "poll"
      [] kind \in Tunings -> "tuning"
      [] OTHER -> "none"

\* bucket_key: only a tuning is counted per client; an enable and a batch have a
\* key of their own, a poll one for all joints.
BucketKey_PerClient(r) ==   \* mutant: the client id is part of every key
    [kind |-> BucketOf(r.kind), client |-> r.client, joint |-> r.joint]
BucketKey(r) ==
    [kind |-> BucketOf(r.kind),
     client |-> IF r.kind \in Tunings THEN r.client ELSE "global",
     joint |-> IF r.kind \in {"enable", "testing", "poll"} THEN r.kind ELSE r.joint]

Needs(r) == BucketOf(r.kind) # "none"
FullBucket(k) == [tokens |-> Burst[k.kind], idle |-> 0]
CmdIdle == [at |-> "idle"]

CommandsInit ==
    /\ cBuckets = <<>> /\ cReq = [s \in CmdSlots |-> CmdIdle]
    /\ cLast = [kind |-> "home", status |-> "gone"]
    /\ cLink = TRUE /\ cTime = 0 /\ cSent = <<>> /\ cFocus \in CmdFocuses

\* Time: every bucket refills to its capacity and grows idle (refill is lazy in
\* the code and adds up to the same).
CmdTick ==
    /\ cTime < MaxCmdTicks /\ cTime' = cTime + 1
    /\ cBuckets' = [k \in DOMAIN cBuckets |->
            [tokens |-> IF cBuckets[k].tokens + Refill[k.kind] > Burst[k.kind]
                        THEN Burst[k.kind] ELSE cBuckets[k].tokens + Refill[k.kind],
             idle |-> IF cBuckets[k].idle = BucketTtl THEN BucketTtl ELSE cBuckets[k].idle + 1]]
    /\ UNCHANGED <<cReq, cLast, cLink, cSent, cFocus>>

CmdLinkChanges == cLink' = ~cLink /\ UNCHANGED <<cBuckets, cReq, cLast, cTime, cSent, cFocus>>

\* What each handler asks of the body it decoded.  command_disable reads none.
EnableBody(r) == r.wellFormed
TestingBody(r) == r.wellFormed     \* every entry: an eligible joint, a speed fraction in range
SetZeroBody(r) == r.wellFormed /\ r.client # ""    \* confirmed, attested, an eligible joint
LeaseBody(r) == r.wellFormed /\ r.client # ""      \* a lease id, an action, an eligible joint
PollBody(r) == r.wellFormed /\ r.client # ""
TuningBody(r) == r.wellFormed /\ r.client # ""     \* kp or kd, a live limit to clamp to
BodyAccepted(r) ==
    CASE r.kind = "disable" -> TRUE
      [] r.kind \in {"enable", "stop"} -> EnableBody(r)
      [] r.kind = "testing" -> TestingBody(r)
      [] r.kind = "set_zero" -> SetZeroBody(r)
      [] r.kind \in {"acquire", "release"} -> LeaseBody(r)
      [] r.kind = "poll" -> PollBody(r)
      [] r.kind \in Tunings -> TuningBody(r)

\* What a request has against it before the limiter is asked: its Origin, its
\* credential, then its body.
Refusal(r) ==
    LET asked == RouteCapabilities(r.kind)
        held  == [c \in asked |-> AccessStatus(r.headers, c)]
    IN  CASE ~OriginAllowed(r.headers) -> "forbidden"
          [] OriginAllowed(r.headers) /\ \E c \in asked : held[c] = "unauthorized"
                -> "unauthorized"
          [] OriginAllowed(r.headers) /\ (\A c \in asked : held[c] # "unauthorized")
                /\ (\E c \in asked : held[c] = "forbidden") -> "forbidden"
          [] OriginAllowed(r.headers) /\ (\A c \in asked : held[c] = "ok") ->
                IF r.kind = "home" THEN "gone"
                ELSE IF BodyAccepted(r) THEN "none" ELSE "bad_request"

\* A slot keeps its request while it is published; then the answer is given.
Publishing(s, r) ==
    /\ cReq' = [cReq EXCEPT ![s] = [at |-> "publish", kind |-> r.kind, client |-> r.client,
                                    joint |-> r.joint, held |-> Authenticated(r.headers)]]
    /\ UNCHANGED cLast
Answered(s, kind, status) ==
    /\ cReq' = [cReq EXCEPT ![s] = CmdIdle]
    /\ cLast' = [kind |-> kind, status |-> status]
Evicted(bs) == [k \in {k \in DOMAIN bs : bs[k].idle < BucketTtl} |-> bs[k]]
With(f, k, v) == [x \in DOMAIN f \cup {k} |-> IF x = k THEN v ELSE f[x]]

\* RateLimiter::allow: evict, take one token if there is one.
Allow(s, r) ==
    LET k == BucketKey(r)
        kept == Evicted(cBuckets)
        b == IF k \in DOMAIN kept THEN kept[k] ELSE FullBucket(k)
    IN  IF b.tokens >= 4
        THEN /\ cBuckets' = With(kept, k, [tokens |-> b.tokens - 4, idle |-> 0])
             /\ Publishing(s, r)
        ELSE /\ cBuckets' = With(kept, k, [b EXCEPT !.idle = 0])
             /\ Answered(s, r.kind, "too_many")

\* A request arrives and is refused, or reaches the publication.
Command(s, r) ==
    /\ cReq[s].at = "idle"
    /\ \/ /\ Refusal(r) # "none" /\ Answered(s, r.kind, Refusal(r)) /\ UNCHANGED cBuckets
       \/ /\ Refusal(r) = "none" /\ Needs(r) /\ Allow(s, r)
       \/ /\ Refusal(r) = "none" /\ ~Needs(r)
          /\ Publishing(s, r) /\ UNCHANGED cBuckets
    /\ UNCHANGED <<cLink, cTime, cSent, cFocus>>

Sent(k) == IF k \in DOMAIN cSent THEN cSent[k] ELSE 0
SentTo(r) == [kind |-> BucketOf(r.kind), joint |-> BucketKey(r).joint]

\* publish_command_envelope: the IPC write, then the local bus (which cannot
\* fail); the handler answers.
PublishSucceeds(s) ==
    /\ cReq[s].at = "publish" /\ cLink
    /\ LET r == cReq[s] IN
        /\ Answered(s, r.kind, "ok")
        /\ cSent' = IF Needs(r) /\ r.kind \notin Tunings
                    THEN With(cSent, SentTo(r), Sent(SentTo(r)) + 1) ELSE cSent
    /\ UNCHANGED <<cBuckets, cLink, cTime, cFocus>>

\* RateLimiter::refund: one token back, never above the capacity.
Refund(r) ==
    LET k == BucketKey(r) IN
    IF k \in DOMAIN cBuckets
    THEN [cBuckets EXCEPT ![k] = [tokens |-> IF @.tokens + 4 > Burst[k.kind] THEN Burst[k.kind]
                                             ELSE @.tokens + 4, idle |-> 0]]
    ELSE cBuckets

PublishFails(s) ==
    /\ cReq[s].at = "publish" /\ ~cLink
    /\ Answered(s, cReq[s].kind, "bad_gateway")
    /\ cBuckets' = IF Needs(cReq[s]) THEN Refund(cReq[s]) ELSE cBuckets
    /\ UNCHANGED <<cLink, cTime, cSent, cFocus>>

\* A request that has all it needs, and those with one thing wrong: no client
\* id, a malformed body, a credential that does not suffice, two credentials,
\* an Origin that is not allowed.
CmdHeader(origin, bearer, legacy) == [origin |-> origin, bearer |-> bearer, legacy |-> legacy]
Operator == CmdHeader("robot", {"operator"}, {})
Unfit == {CmdHeader("none", {}, {}), CmdHeader("none", {"unknown"}, {}),
          CmdHeader("listed", {}, {"calibration"}), CmdHeader("none", {"operator"}, {"log"}),
          CmdHeader("other", {"operator"}, {}), CmdHeader("twice", {}, {})}
CmdRequests(kinds) ==
    LET ask(clients, sound, hs) ==
            [kind : kinds, client : clients, joint : CmdJoints, wellFormed : sound, headers : hs]
        one == CHOOSE c \in CmdClients : TRUE
    IN  ask(CmdClients, {TRUE}, {Operator}) \cup ask({""}, {TRUE}, {Operator})
        \cup ask({one}, {FALSE}, {Operator}) \cup ask({one}, {TRUE}, Unfit)

CommandsNext ==
    \/ CmdTick \/ CmdLinkChanges
    \/ \E s \in CmdSlots : PublishSucceeds(s) \/ PublishFails(s)
    \/ \E s \in CmdSlots, r \in CmdRequests(cFocus) : Command(s, r)

CommandsSpec == CommandsInit /\ [][CommandsNext]_cvars

------------------------------------------------------------------------------
\* What reaches the robot of enables, zero captures, batches, leases and polls
\* never exceeds the bucket's burst and what time has refilled, whatever client
\* ids the callers name, however requests overlap, and although a failed write
\* gives its token back and an idle bucket is forgotten.
CommandsAreCapped ==
    \A k \in DOMAIN cSent : 4 * cSent[k] <= Burst[k.kind] + Refill[k.kind] * cTime

\* A stop is never refused for its rate, and /command/disable not for its
\* credential or its body either: it fails only when its Origin is refused or
\* the robot cannot be reached.  A lease can always be released.
StopsAreNeverHeldBack ==
    /\ cLast.kind \in {"stop", "disable", "release"} => cLast.status # "too_many"
    /\ cLast.kind = "disable" => cLast.status \in {"ok", "bad_gateway", "forbidden"}

\* Nothing but a stop is published for a request that did not present the
\* capability for it: control, or calibration for a zero capture, and both
\* for a tuning of the firmware tier.
OnlyAuthorized ==
    \A s \in CmdSlots : cReq[s].at = "publish" =>
        /\ cReq[s].kind \notin {"disable", "set_zero"} => "control" \in cReq[s].held
        /\ cReq[s].kind \in {"set_zero", "tuning_firmware"} => "calibration" \in cReq[s].held

\* The command edge as a whole.
CommandEdgeHolds == CommandsAreCapped /\ StopsAreNeverHeldBack /\ OnlyAuthorized
=============================================================================
