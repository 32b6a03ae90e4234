------------------------------ MODULE LogLayer ------------------------------
(***************************************************************************)
(* ChappeLogLayer (crates/chappe/src/tracing_layer.rs): every thread of    *)
(* the motor owner that logs passes its event through a per-second quota   *)
(* before it is published on logs/structured.  WARN and ERROR have a       *)
(* budget of their own.  A budget is one atomic word, the second and the   *)
(* count packed together, changed by a compare-exchange loop.              *)
(***************************************************************************)
EXTENDS Naturals, FiniteSets

CONSTANTS Threads,
          Classes,        \* {"urgent", "normal"}
          Limit,          \* [class |-> MAX_URGENT_PER_SEC / MAX_LOGS_PER_SEC]
          CountMask,      \* QUOTA_COUNT_MASK
          MaxSeconds,     \* bounds of the model
          MaxLogEvents

LogAssumption ==
  /\ Limit \in [Classes -> 1..CountMask]

VARIABLES second,    \* elapsed(), in whole seconds
          bucket,    \* quota, urgent_quota: [class -> packed word]
          dropped,   \* dropped_normal, dropped_urgent
          caller,    \* thread -> its call of on_event
          seen,      \* ghost: events of each class so far
          granted    \* ghost: [class -> [second counted -> admissions]]

logvars == <<second, bucket, dropped, caller, seen, granted>>

Base2 == CountMask + 1
Window(word) == word \div Base2
Count(word)  == word % Base2

Idle == [pc |-> "idle", class |-> "normal", window |-> 0, current |-> 0]

LogInit ==
  /\ second = 0
  /\ bucket = [c \in Classes |-> 0]
  /\ dropped = [c \in Classes |-> 0]
  /\ caller = [t \in Threads |-> Idle]
  /\ seen = [c \in Classes |-> 0]
  /\ granted = [c \in Classes |-> [s \in 0..MaxSeconds |-> 0]]

\* on_event, allow_event: the clock is read before the bucket is.
Begin(t, c) ==
  /\ caller[t].pc = "idle" /\ seen[c] < MaxLogEvents
  /\ caller' = [caller EXCEPT ![t] = [Idle EXCEPT !.pc = "load", !.class = c,
                                                  !.window = second]]
  /\ seen' = [seen EXCEPT ![c] = @ + 1]
  /\ UNCHANGED <<second, bucket, dropped, granted>>

Load(t) ==
  /\ caller[t].pc = "load"
  /\ caller' = [caller EXCEPT ![t].pc = "cas", ![t].current = bucket[caller[t].class]]
  /\ UNCHANGED <<second, bucket, dropped, seen, granted>>

\* allow_in_bucket: the word a call would install.
NextWord_Reopens(k) == IF Window(k.current) # k.window THEN k.window * Base2 + 1
                       ELSE k.current + 1
NextWord(k) == IF Window(k.current) < k.window THEN k.window * Base2 + 1
               ELSE k.current + 1

Refused(k) == ~(Window(k.current) < k.window) /\ Count(k.current) >= Limit[k.class]

\* The budget is spent: record_drop.
Drop(t) ==
  /\ caller[t].pc = "cas" /\ Refused(caller[t])
  /\ dropped' = [dropped EXCEPT ![caller[t].class] = @ + 1]
  /\ caller' = [caller EXCEPT ![t] = Idle]
  /\ UNCHANGED <<second, bucket, seen, granted>>

\* What compare_exchange_weak compares before it stores.
Matches_Stores(k) == TRUE
Matches(k) == bucket[k.class] = k.current

\* compare_exchange_weak succeeds and the event is published, or it fails,
\* also for no reason, and the loop goes on with the word it found.
Exchange(t) ==
  LET k == caller[t]
      c == k.class
  IN  /\ k.pc = "cas" /\ ~Refused(k)
      /\ \/ /\ Matches(k)
            /\ bucket' = [bucket EXCEPT ![c] = NextWord(k)]
            /\ granted' = [granted EXCEPT ![c][Window(NextWord(k))] = @ + 1]
            /\ caller' = [caller EXCEPT ![t] = Idle]
         \/ /\ caller' = [caller EXCEPT ![t].current = bucket[c]]
            /\ UNCHANGED <<bucket, granted>>
      /\ UNCHANGED <<second, dropped, seen>>

SecondPasses ==
  /\ second < MaxSeconds
  /\ second' = second + 1
  /\ UNCHANGED <<bucket, dropped, caller, seen, granted>>

LogNext ==
  \/ SecondPasses
  \/ \E t \in Threads : (\E c \in Classes : Begin(t, c)) \/ Load(t) \/ Drop(t) \/ Exchange(t)

LogSpec == LogInit /\ [][LogNext]_logvars

Admitted(c) == LET total[s \in 0..MaxSeconds] ==
                     granted[c][s] + (IF s = 0 THEN 0 ELSE total[s - 1])
               IN  total[MaxSeconds]

Underway(c) == Cardinality({t \in Threads : caller[t].pc # "idle" /\ caller[t].class = c})

\* No second admits more events of a class than its budget, however the
\* threads' reads of the clock, their loads and their exchanges interleave,
\* a late thread of an earlier second included; the word never runs back to
\* an earlier second, which would reopen a spent budget; and every event is
\* published or counted as dropped.
QuotaHolds ==
  \A c \in Classes :
    /\ \A s \in 0..MaxSeconds : granted[c][s] <= Limit[c]
    /\ Count(bucket[c]) = granted[c][Window(bucket[c])]
    /\ Admitted(c) + dropped[c] + Underway(c) = seen[c]
=============================================================================
