----------------------------- MODULE TimerQueue -----------------------------
(***************************************************************************)
(* src/rocket/net/timer.cc: the timer events of one event loop, kept in a  *)
(* multimap ordered by arrival time, and the timerfd that wakes the loop   *)
(* for the first of them.  Every caller in the repository runs on the      *)
(* thread of the loop, so operations do not interleave; but time passes    *)
(* between the steps of onTimer, and the tasks it runs add and delete      *)
(* events themselves.                                                      *)
(*                                                                         *)
(* Arrival times are wall clock times (gettimeofday), the timerfd counts   *)
(* monotonic time; the wall clock may be set.  Times are kept relative to  *)
(* the wall clock's present: an event has arrived when its time is not     *)
(* positive.                                                               *)
(***************************************************************************)
EXTENDS Integers, Sequences

CONSTANTS
    Events,     \* timer events; a member may be created again after its end
    Interval,   \* m_interval of each event
    Repeated,   \* the events created with is_repeated
    Retry,      \* delay after which events that have arrived are tried again (100 ms)
    Settings,   \* differences by which the wall clock may be set
    MaxSettings,\* bound: how often it is set
    MaxLag      \* bound: arrival times older than this are not told apart

ASSUME EventsAssumption == Interval \in [Events -> Nat] /\ Repeated \subseteq Events
ASSUME RetryAssumption == Retry \in Nat \ {0}
ASSUME ClockAssumption == Settings \subseteq Int /\ MaxSettings \in Nat /\ MaxLag \in Nat

VARIABLES
    pending,    \* m_pending_events, in the order of the multimap
    arrive,     \* m_arrive_time of each event
    canceled,   \* m_is_cancled
    remaining,  \* time until the timerfd expires, 0 if it is disarmed
    expired,    \* the timerfd is readable
    pc,         \* where the loop's thread is in onTimer
    tmps,       \* collected events that are still to be looked at for repetition
    tasks,      \* collected events whose callbacks are still to be run
    settings    \* how often the clock has been set

vars == <<pending, arrive, canceled, remaining, expired, pc, tmps, tasks, settings>>

Elements(s) == {s[i] : i \in 1 .. Len(s)}

\* A sequence without its members outside a set.  (SelectSeq, written so that
\* proofs can unfold it.)
Kept(s, S) ==
    LET kept[i \in 0 .. Len(s)] ==
            IF i = 0 THEN <<>>
            ELSE IF s[i] \in S THEN Append(kept[i - 1], s[i]) ELSE kept[i - 1]
    IN  kept[Len(s)]

\* How many events are in front of the first that arrives after a time.
UpTo(s, at, time) ==
    CHOOSE k \in 0 .. Len(s) :
        /\ \A i \in 1 .. k : at[s[i]] <= time
        /\ k < Len(s) => at[s[k + 1]] > time

Idle(e) == e \notin Elements(pending) \cup Elements(tmps) \cup Elements(tasks)

Init ==
    /\ pending = <<>> /\ tmps = <<>> /\ tasks = <<>>
    /\ arrive = [e \in Events |-> 0]
    /\ canceled = {}
    /\ remaining = 0 /\ expired = FALSE
    /\ pc = "loop"
    /\ settings = 0

(***************************************************************************)
(* The multimap and the timerfd.                                           *)
(***************************************************************************)

\* fault: a map ordered by insertion.
EmplaceLast(s, e, at) == Append(s, e)

\* emplace puts an event behind those that arrive no later.
Emplace(s, e, at) ==
    LET k == UpTo(s, at, at[e])
    IN  SubSeq(s, 1, k) \o <<e>> \o SubSeq(s, k + 1, Len(s))

\* fault: an event that has arrived sets the timerfd to 0, which disarms it.
Untried(time) == time

\* The time to which resetArriveTime sets the timerfd for an arrival time.
Delay(time) == IF time > 0 THEN time ELSE Retry

\* timerfd_settime: a new setting also forgets an expiration not yet read.
ResetArriveTime(s, at) ==
    IF s = <<>> THEN UNCHANGED <<remaining, expired>>
    ELSE remaining' = Delay(at[Head(s)]) /\ expired' = FALSE

\* fault: only an event added to an empty map sets the timerfd.
EmptyOnly(s, e, at) == s = <<>>

BecomesFirst(s, e, at) == s = <<>> \/ at[Head(s)] > at[e]

AddTimerEvent(e, at) ==
    /\ pending' = Emplace(pending, e, at)
    /\ IF BecomesFirst(pending, e, at) THEN ResetArriveTime(pending', at)
       ELSE UNCHANGED <<remaining, expired>>

(***************************************************************************)
(* What application code does: outside onTimer, or as one of its tasks.    *)
(***************************************************************************)

Application == pc \in {"loop", "run"}

\* A TimerEvent is constructed and added.
Add(e) ==
    /\ Application /\ Idle(e)
    /\ arrive' = [arrive EXCEPT ![e] = Interval[e]]
    /\ canceled' = canceled \ {e}
    /\ AddTimerEvent(e, arrive')
    /\ UNCHANGED <<pc, tmps, tasks, settings>>

\* fault: the first event with the same arrival time is erased.
EraseEqual(e) ==
    LET same == {i \in 1 .. Len(pending) : arrive[pending[i]] = arrive[e]}
        first == CHOOSE i \in same : \A j \in same : i <= j
    IN  IF same = {} THEN pending
        ELSE SubSeq(pending, 1, first - 1) \o SubSeq(pending, first + 1, Len(pending))

Erase(e) == Kept(pending, Events \ {e})

\* The timerfd keeps its setting.
Delete(e) ==
    /\ Application /\ ~Idle(e) /\ e \notin canceled
    /\ canceled' = canceled \cup {e}
    /\ pending' = Erase(e)
    /\ UNCHANGED <<arrive, remaining, expired, pc, tmps, tasks, settings>>

(***************************************************************************)
(* onTimer.                                                                *)
(***************************************************************************)

\* The timerfd is read and the events that have arrived are taken out.  (In the
\* code onTimer also runs when timerfd_settime has forgotten the expiration since
\* it was queued: it then takes out what has arrived and sets the timerfd again.)
OnTimer ==
    /\ pc = "loop" /\ expired
    /\ expired' = FALSE
    /\ LET due == UpTo(pending, arrive, 0)
           live == Kept(SubSeq(pending, 1, due), Events \ canceled)
       IN  /\ pending' = SubSeq(pending, due + 1, Len(pending))
           /\ tmps' = live
           /\ tasks' = live
    /\ pc' = "add"
    /\ UNCHANGED <<arrive, canceled, remaining, settings>>

AddAgain ==
    /\ pc = "add" /\ tmps # <<>>
    /\ LET e == Head(tmps) IN
         IF e \in Repeated
           THEN /\ arrive' = [arrive EXCEPT ![e] = Interval[e]]
                /\ AddTimerEvent(e, arrive')
           ELSE UNCHANGED <<pending, arrive, remaining, expired>>
    /\ tmps' = Tail(tmps)
    /\ UNCHANGED <<canceled, pc, tasks, settings>>

\* fault: the timerfd is set only if an event was added again.
NoReset ==
    /\ pc = "add" /\ tmps = <<>>
    /\ pc' = "run"
    /\ UNCHANGED <<pending, arrive, canceled, remaining, expired, tmps, tasks, settings>>

Reset ==
    /\ pc = "add" /\ tmps = <<>>
    /\ ResetArriveTime(pending, arrive)
    /\ pc' = "run"
    /\ UNCHANGED <<pending, arrive, canceled, tmps, tasks, settings>>

RunTask ==
    /\ pc = "run" /\ tasks # <<>>
    /\ tasks' = Tail(tasks)
    /\ UNCHANGED <<pending, arrive, canceled, remaining, expired, pc, tmps, settings>>

Return ==
    /\ pc = "run" /\ tasks = <<>>
    /\ pc' = "loop"
    /\ UNCHANGED <<pending, arrive, canceled, remaining, expired, tmps, tasks, settings>>

(***************************************************************************)
(* Time.                                                                   *)
(***************************************************************************)

Later(by) ==
    arrive' = [e \in Events |-> IF arrive[e] - by < -MaxLag THEN -MaxLag ELSE arrive[e] - by]

Tick ==
    /\ Later(1)
    /\ remaining' = IF remaining > 0 THEN remaining - 1 ELSE 0
    /\ expired' = (expired \/ remaining = 1)
    /\ UNCHANGED <<pending, canceled, pc, tmps, tasks, settings>>

SetClock ==
    /\ settings < MaxSettings
    /\ \E by \in Settings : Later(by)
    /\ settings' = settings + 1
    /\ UNCHANGED <<pending, canceled, remaining, expired, pc, tmps, tasks>>

LoopStep == OnTimer \/ AddAgain \/ Reset \/ RunTask \/ Return

Next == LoopStep \/ Tick \/ SetClock \/ \E e \in Events : Add(e) \/ Delete(e)

\* Time passes, and the loop runs the handler of a readable timerfd.
Fairness == WF_vars(Tick) /\ WF_vars(LoopStep)

Spec == Init /\ [][Next]_vars /\ Fairness

(***************************************************************************)
(* Properties.                                                             *)
(***************************************************************************)

Distinct(s) == \A i, j \in 1 .. Len(s) : s[i] = s[j] => i = j
Ordered(s, at) == \A i, j \in 1 .. Len(s) : i < j => at[s[i]] <= at[s[j]]

\* Types.  The multimap is ordered by arrival time and holds an event once.
TypeOK ==
    /\ pending \in Seq(Events) /\ Distinct(pending) /\ Ordered(pending, arrive)
    /\ tmps \in Seq(Events) /\ Distinct(tmps)
    /\ tasks \in Seq(Events) /\ Distinct(tasks)
    /\ arrive \in [Events -> Int]
    /\ canceled \subseteq Events
    /\ remaining \in Nat /\ expired \in BOOLEAN
    /\ pc \in {"loop", "add", "run"}
    /\ settings \in 0 .. MaxSettings

\* While the loop may go to sleep with events pending, the timerfd is armed or
\* readable, whatever was added, deleted, repeated or late before: no event is
\* forgotten.
AlwaysArmed == Application /\ pending # <<>> => expired \/ remaining > 0

\* As long as nobody sets the clock, the timerfd expires by the arrival of the
\* first event, or within the retry delay if that has passed.
InTime ==
    Application /\ pending # <<>> /\ settings = 0 /\ ~expired =>
        remaining <= IF arrive[Head(pending)] > Retry THEN arrive[Head(pending)] ELSE Retry

\* A deleted event is gone: it is not pending, and so not added again either.
DeletedIsGone == \A e \in canceled : e \notin Elements(pending) \cup Elements(tmps)

\* Every pending event is collected to be run, unless it is deleted: the timer
\* keeps being set for it through retries, repeated events and a clock that is set.
PendingRuns ==
    \A e \in Events :
        (e \in Elements(pending)) ~> (e \in Elements(tasks) \/ e \in canceled)
=============================================================================
