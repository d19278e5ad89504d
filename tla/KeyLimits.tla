------------------------------- MODULE KeyLimits -------------------------------
(***************************************************************************)
(* The limits of one API key: the in-memory limits per minute and per day  *)
(* (server/ratelimit.py) and the daily and monthly quotas, which are       *)
(* counted from the usage rows that the chat handler inserts much later    *)
(* (server/api/chat.py).                                                   *)
(*                                                                         *)
(* RateLimiter.check is called by a coroutine and awaits nothing, so a     *)
(* whole check is one step of the event loop.  The key it is given was     *)
(* read by require_api_key in a worker thread, so its quotas may be old.   *)
(* Between the check of a request and its usage row any number of other    *)
(* checks may come.                                                        *)
(*                                                                         *)
(* Time is discrete: Window is the 60 of the code, a day and a month are   *)
(* DayLength and MonthDays * DayLength long.  The minute deque is the part *)
(* of `stamps' from `head' on: the code pops at the left and appends at    *)
(* the right.                                                              *)
(*                                                                         *)
(* Abstracted: what the requests do with accounts (ChatSlots); usage rows, *)
(* but for their id and their day; the other keys, which share nothing     *)
(* with this one; toggling the key, as a request that require_api_key      *)
(* turns away does not reach the limiter.  The key is its id: that it is   *)
(* deleted and a new key gets the id and with it rows and buckets is an    *)
(* Update of the quotas.  The clock does not go back.                      *)
(***************************************************************************)
EXTENDS Integers, Sequences, FiniteSets

CONSTANTS Requests,     \* the requests made with the key
          Streams,      \* those of them with body.stream
          PerMinute,    \* cfg.api.rate_limit.requests_per_minute
          PerDay,       \* cfg.api.rate_limit.requests_per_day, 0: no limit
          Quotas,       \* quotas an administrator may set, 0: no limit
          MaxAttempts,  \* cfg.api.retry_max + 1
          Window, DayLength, MonthDays,
          MaxTime,      \* bound: the clock
          MaxAdminOps,  \* bound: updates of the key and resets of statistics
          MaxRestarts,  \* bound: restarts of the server
          DbFaults,     \* TRUE: a commit may raise
          Never

ASSUME LimitsAssumption ==
  /\ PerMinute \in Nat /\ PerDay \in Nat /\ Quotas \subseteq Nat
  /\ MaxAttempts \in Nat \ {0}
ASSUME TimeAssumption ==
  /\ Window \in Nat /\ DayLength \in Nat \ {0} /\ MonthDays \in Nat \ {0}
  /\ MaxTime \in Nat
  /\ Never \notin Nat
ASSUME BoundsAssumption ==
  /\ IsFiniteSet(Requests) /\ Requests # {} /\ Streams \subseteq Requests
  /\ MaxAdminOps \in Nat /\ MaxRestarts \in Nat /\ DbFaults \in BOOLEAN

Times  == 0..MaxTime
Day(t) == t \div DayLength
Days   == 0..Day(MaxTime)
Month(d) == d \div MonthDays

(* The requests insert no more rows than this, so it stands for "no limit". *)
AllRows == Cardinality(Requests) * MaxAttempts
RowIds  == 1..AllRows

VARIABLES
  now,
  stamps, head,  \* _minute_buckets[kid] is stamps[head], stamps[head + 1], ...
  dayCount,      \* _day_buckets[kid]
  usage,         \* usage rows of the key: id, and the day of created_at
  daily, monthly,\* api_key.daily_quota, api_key.monthly_quota
  seen,          \* seen[r]: the quotas in the ApiKey that r was given
  pc,            \* "new", "known", "inFlight", "answered", "refused"
  attempt,
  adminOps, restarts,
  admittedAt,    \* history: when this server admitted r, or Never
  loosestDaily, loosestMonthly, \* history: the highest quotas so far
  peak           \* history: the most requests in flight at a time

limiterVars == <<stamps, head, dayCount>>
keyVars     == <<daily, monthly, loosestDaily, loosestMonthly>>
vars == <<now, stamps, head, dayCount, usage, daily, monthly, seen, pc, attempt,
          adminOps, restarts, admittedAt, loosestDaily, loosestMonthly, peak>>

Today    == Day(now)
InFlight == {r \in Requests : pc[r] = "inFlight"}

Loosest(quota) == IF quota = 0 THEN AllRows ELSE quota

RowsToday     == Cardinality({u \in usage : u.day >= Today})
RowsThisMonth == Cardinality({u \in usage : Month(u.day) >= Month(Today)})

-------------------------------------------------------------------------------
(* RateLimiter.check *)

(* mutant: a stamp that is exactly Window old is popped *)
Expired_Early(i) == now - stamps[i] >= Window

Expired(i) == now - stamps[i] > Window

(* pop at the left while the leftmost stamp is too old *)
PopExpired ==
  \E h \in head..(Len(stamps) + 1) :
    /\ \A i \in head..(h - 1) : Expired(i)
    /\ h <= Len(stamps) => ~Expired(h)
    /\ head' = h

(* mutant: the length is taken before the pops *)
MinuteFull_BeforePop == Len(stamps) + 1 - head >= PerMinute

MinuteFull == Len(stamps) + 1 - head' >= PerMinute

DayFull == PerDay # 0 /\ dayCount[Today] >= PerDay

(* mutant: off by one *)
QuotaReached_OneMore(q) ==
  \/ q.daily # 0 /\ RowsToday > q.daily
  \/ q.monthly # 0 /\ RowsThisMonth > q.monthly

QuotaReached(q) ==
  \/ q.daily # 0 /\ RowsToday >= q.daily
  \/ q.monthly # 0 /\ RowsThisMonth >= q.monthly

Exhausted(q) == MinuteFull \/ DayFull \/ QuotaReached(q)

Refuse(r) ==
  /\ pc' = [pc EXCEPT ![r] = "refused"]
  /\ UNCHANGED <<stamps, dayCount, admittedAt, peak>>

Admit(r) ==
  /\ pc' = [pc EXCEPT ![r] = "inFlight"]
  /\ stamps' = Append(stamps, now)
  /\ dayCount' = [dayCount EXCEPT ![Today] = @ + 1]
  /\ admittedAt' = [admittedAt EXCEPT ![r] = now]
  /\ peak' = IF Cardinality(InFlight) + 1 > peak THEN Cardinality(InFlight) + 1
             ELSE peak

(* require_api_key, in its worker thread *)
Authenticate(r) ==
  /\ pc[r] = "new"
  /\ pc' = [pc EXCEPT ![r] = "known"]
  /\ seen' = [seen EXCEPT ![r] = [daily |-> daily, monthly |-> monthly]]
  /\ UNCHANGED <<now, limiterVars, usage, keyVars, attempt, adminOps, restarts,
                 admittedAt, peak>>

(* what was popped stays popped when the request is refused *)
Check(r) ==
  /\ pc[r] = "known"
  /\ PopExpired
  /\ \/ Exhausted(seen[r]) /\ Refuse(r)
     \/ ~Exhausted(seen[r]) /\ Admit(r)
  /\ UNCHANGED <<now, usage, keyVars, seen, attempt, adminOps, restarts>>

-------------------------------------------------------------------------------
(* What becomes of an admitted request, as far as its usage rows go *)

AfterCheck ==
  UNCHANGED <<now, limiterVars, keyVars, seen, adminOps, restarts, admittedAt, peak>>

(* the id is the largest in use plus one *)
InsertRow ==
  \E i \in RowIds :
    /\ \A u \in usage : u.id < i
    /\ i = 1 \/ \E u \in usage : u.id = i - 1
    /\ usage' = usage \cup {[id |-> i, day |-> Today]}

Answer(r) == pc' = [pc EXCEPT ![r] = "answered"] /\ UNCHANGED attempt

(* mutant: range(max_attempts + 1) *)
NextAttempt_OneMore(r) ==
  \/ /\ attempt[r] <= MaxAttempts
     /\ attempt' = [attempt EXCEPT ![r] = @ + 1]
     /\ UNCHANGED pc
  \/ attempt[r] > MaxAttempts /\ Answer(r)

NextAttempt(r) ==
  \/ /\ attempt[r] < MaxAttempts
     /\ attempt' = [attempt EXCEPT ![r] = @ + 1]
     /\ UNCHANGED pc
  \/ attempt[r] = MaxAttempts /\ Answer(r)

(* 503, or an exception: no row *)
Fails(r) ==
  /\ pc[r] = "inFlight"
  /\ Answer(r)
  /\ UNCHANGED usage /\ AfterCheck

(* a login failed, or the upstream of a non-stream request raised *)
AttemptFails(r) ==
  /\ pc[r] = "inFlight"
  /\ NextAttempt(r)
  /\ UNCHANGED usage /\ AfterCheck

(* _create_pending_usage: the row is there before the stream starts *)
StreamCounted(r) ==
  /\ pc[r] = "inFlight" /\ r \in Streams
  /\ InsertRow
  /\ Answer(r)
  /\ AfterCheck

(* _record_usage after the whole answer; if mark_success then raises, the   *)
(* request is tried again and counted again                                 *)
PlainCounted(r) ==
  /\ pc[r] = "inFlight" /\ r \notin Streams
  /\ InsertRow
  /\ Answer(r) \/ (DbFaults /\ NextAttempt(r))
  /\ AfterCheck

-------------------------------------------------------------------------------
(* Clock, administrator, restart *)

Tick ==
  /\ now < MaxTime
  /\ now' = now + 1
  /\ UNCHANGED <<limiterVars, usage, keyVars, seen, pc, attempt, adminOps,
                 restarts, admittedAt, peak>>

Higher(a, b) == IF a > b THEN a ELSE b

(* apikeys_update *)
Update(d, m) ==
  /\ adminOps < MaxAdminOps
  /\ adminOps' = adminOps + 1
  /\ daily' = d /\ monthly' = m
  /\ loosestDaily' = Higher(Loosest(d), loosestDaily)
  /\ loosestMonthly' = Higher(Loosest(m), loosestMonthly)
  /\ UNCHANGED <<now, limiterVars, usage, seen, pc, attempt, restarts,
                 admittedAt, peak>>

(* usage_reset_key deletes all rows of the key, usage_reset_account those    *)
(* of one account                                                           *)
ResetStatistics ==
  /\ adminOps < MaxAdminOps
  /\ adminOps' = adminOps + 1
  /\ \E gone \in SUBSET usage : usage' = usage \ gone
  /\ UNCHANGED <<now, limiterVars, keyVars, seen, pc, attempt, restarts, admittedAt,
                 peak>>

(* the buckets and the requests in flight are gone, the rows stay *)
Restart ==
  /\ restarts < MaxRestarts
  /\ restarts' = restarts + 1
  /\ stamps' = <<>> /\ head' = 1
  /\ dayCount' = [d \in Days |-> 0]
  /\ admittedAt' = [r \in Requests |-> Never]
  /\ pc' = [r \in Requests |->
              IF pc[r] \in {"known", "inFlight"} THEN "answered" ELSE pc[r]]
  /\ UNCHANGED <<now, usage, keyVars, seen, attempt, adminOps, peak>>

Init ==
  /\ now = 0
  /\ stamps = <<>> /\ head = 1
  /\ dayCount = [d \in Days |-> 0]
  /\ usage = {}
  /\ daily \in Quotas /\ monthly \in Quotas
  /\ seen = [r \in Requests |-> [daily |-> daily, monthly |-> monthly]]
  /\ pc = [r \in Requests |-> "new"]
  /\ attempt = [r \in Requests |-> 1]
  /\ adminOps = 0 /\ restarts = 0
  /\ admittedAt = [r \in Requests |-> Never]
  /\ loosestDaily = Loosest(daily) /\ loosestMonthly = Loosest(monthly)
  /\ peak = 0

Next ==
  \/ \E r \in Requests : \/ Authenticate(r) \/ Check(r) \/ Fails(r) \/ AttemptFails(r)
                         \/ StreamCounted(r) \/ PlainCounted(r)
  \/ Tick
  \/ \E d, m \in Quotas : Update(d, m)
  \/ ResetStatistics \/ Restart

Spec == Init /\ [][Next]_vars

-------------------------------------------------------------------------------
(* Properties *)

(* Every variable has its type; the deque is a suffix of the stamps. *)
TypeOK ==
  /\ now \in Times
  /\ stamps \in Seq(Times)
  /\ head \in 1..(Len(stamps) + 1)
  /\ dayCount \in [Days -> Nat]
  /\ usage \subseteq [id : RowIds, day : Days]
  /\ daily \in Quotas /\ monthly \in Quotas
  /\ seen \in [Requests -> [daily : Quotas, monthly : Quotas]]
  /\ pc \in [Requests -> {"new", "known", "inFlight", "answered", "refused"}]
  /\ attempt \in [Requests -> 1..MaxAttempts]
  /\ adminOps \in 0..MaxAdminOps /\ restarts \in 0..MaxRestarts
  /\ admittedAt \in [Requests -> Times \cup {Never}]
  /\ loosestDaily \in Nat /\ loosestMonthly \in Nat /\ peak \in Nat

(* The window slides: of the requests one server admits, no PerMinute + 1   *)
(* successive ones lie within one window, wherever it starts.               *)
MinuteWindow ==
  \A i \in 1..Len(stamps) :
    i + PerMinute <= Len(stamps) => stamps[i + PerMinute] - stamps[i] > Window

(* One server admits at most PerDay requests on a UTC day.                  *)
AdmittedOn(d) == {r \in Requests : admittedAt[r] # Never /\ Day(admittedAt[r]) = d}

DayLimit == PerDay # 0 => \A d \in Days : Cardinality(AdmittedOn(d)) <= PerDay

(* The verdicts are those of a limiter that remembers every admission and   *)
(* counts anew each time: nobody is admitted beyond a limit, nobody is      *)
(* refused without enough admissions in the window or on the day or a used  *)
(* up quota, refusals do not prolong themselves, and popping and the two    *)
(* kinds of buckets make no difference.                                     *)
Verdict(r) == CASE pc[r] \in {"new", "known"} -> "open"
                [] pc[r] = "refused" -> "refused"
                [] OTHER -> "over"

Ledger == INSTANCE AdmissionLedger
            WITH clock <- now, admitted <- admittedAt,
                 verdict <- [r \in Requests |-> Verdict(r)],
                 spent <- [r \in Requests |-> QuotaReached(seen[r])]
ImplementsLedger == Ledger!LedgerSpec

(* The quotas are counted from rows that come late, so they can be overrun, *)
(* but only by what was in flight when the last request was admitted: each  *)
(* request in flight adds at most a row per attempt, a restart adds none.   *)
QuotaOverrun ==
  /\ RowsToday <= (loosestDaily - 1) + MaxAttempts * peak
  /\ RowsThisMonth <= (loosestMonthly - 1) + MaxAttempts * peak
===============================================================================
