---------------------------- MODULE KeyLimits_proofs ---------------------------
(***************************************************************************)
(* Proofs about KeyLimits, for any limits, window, day length, number of   *)
(* requests, updates and restarts.                                         *)
(*                                                                         *)
(* The argument for the minute: what was popped is older than the window   *)
(* and stays so (PoppedAreOld), so a request that is admitted while fewer  *)
(* than PerMinute stamps remain comes more than a window after the stamp   *)
(* PerMinute places before it.  For the day: the counter of a day is the   *)
(* number of requests admitted on it (DayCounted), and it passes the limit *)
(* never (DayBounded).  The refinement of AdmissionLedger needs the        *)
(* converse too: a stamp for every admission and none besides              *)
(* (StampsCounted), in order of time, so that what is left after popping   *)
(* is what was admitted within the window (MinuteCount).  For the quotas:  *)
(* the rows that count and the attempts that may still add one are bounded *)
(* together (QuotaInv); an insert turns one into the other.                *)
(***************************************************************************)
EXTENDS KeyLimits, FiniteSetTheorems, SequenceTheorems, TLAPS

PoppedAreOld == \A i \in 1..(head - 1) : now - stamps[i] > Window

(* A request that was not checked yet was not admitted either. *)
Unchecked == \A r \in Requests : pc[r] \in {"new", "known"} => admittedAt[r] = Never

DayCounted == \A d \in Days : dayCount[d] = Cardinality(AdmittedOn(d))
DayBounded == PerDay # 0 => \A d \in Days : dayCount[d] <= PerDay

(* The inductive invariant. *)
IInv == TypeOK /\ PoppedAreOld /\ MinuteWindow /\ Unchecked /\ DayCounted /\ DayBounded

-------------------------------------------------------------------------------
(* Facts about the operators the model is built from *)

(* The clock never leaves the days that have a counter.                      *)
LEMMA DayType ==
  ASSUME NEW t \in Times
  PROVE  Day(t) \in Days
<1>1. t \in Nat /\ t <= MaxTime /\ MaxTime \in Nat /\ DayLength \in Nat \ {0}
  BY TimeAssumption DEF Times
<1>2. t \div DayLength \in Nat /\ MaxTime \div DayLength \in Nat
  BY <1>1
<1>3. t \div DayLength <= MaxTime \div DayLength
  BY <1>1
<1>4. QED  BY <1>2, <1>3 DEF Day, Days

(* A quota that stands for "no limit" is a number too.                       *)
LEMMA LoosestType ==
  ASSUME NEW q \in Quotas
  PROVE  Loosest(q) \in Nat
<1>1. Cardinality(Requests) \in Nat
  BY BoundsAssumption, FS_CardinalityType
<1>2. q \in Nat /\ MaxAttempts \in Nat
  BY LimitsAssumption
<1>3. AllRows \in Nat
  BY <1>1, <1>2 DEF AllRows
<1>4. QED  BY <1>2, <1>3 DEF Loosest

(* Popping keeps a suffix of the stamps, and only expired ones go.           *)
LEMMA PopDropsExpired ==
  ASSUME TypeOK, PoppedAreOld, PopExpired
  PROVE  \E h \in 1..(Len(stamps) + 1) :
           head' = h /\ \A i \in 1..(h - 1) : now - stamps[i] > Window
<1>1. PICK h \in head..(Len(stamps) + 1) :
        head' = h /\ \A i \in head..(h - 1) : Expired(i)
  BY DEF PopExpired
<1>2. head \in Nat \ {0} /\ Len(stamps) \in Nat
  BY DEF TypeOK
<1>3. QED  BY <1>1, <1>2 DEF PoppedAreOld, Expired

(* The requests admitted on a day are finitely many.                         *)
LEMMA AdmittedFinite ==
  ASSUME NEW d
  PROVE  IsFiniteSet(AdmittedOn(d)) /\ Cardinality(AdmittedOn(d)) \in Nat
<1>1. AdmittedOn(d) \in SUBSET Requests
  BY DEF AdmittedOn
<1>2. IsFiniteSet(AdmittedOn(d))
  BY <1>1, BoundsAssumption, FS_Subset
<1>3. QED  BY <1>2, FS_CardinalityType

-------------------------------------------------------------------------------
(* The two outcomes of a check *)

(* Booking a request that the minute limit let through keeps the window.     *)
LEMMA AdmitKeepsWindow ==
  ASSUME IInv, NEW r \in Requests, PopExpired, ~MinuteFull, Admit(r), now' = now
  PROVE  PoppedAreOld' /\ MinuteWindow'
<1> DEFINE n == Len(stamps) + 1
<1>1. /\ stamps \in Seq(Times) /\ now \in Times /\ Times \subseteq Nat
      /\ PerMinute \in Nat /\ Window \in Nat
  BY TimeAssumption, LimitsAssumption DEF IInv, TypeOK, Times
<1>2. /\ stamps' \in Seq(Times) /\ Len(stamps') = n /\ stamps'[n] = now
      /\ \A i \in 1..Len(stamps) : stamps'[i] = stamps[i]
  BY <1>1 DEF Admit
<1>3. PICK h \in 1..n : head' = h /\ \A i \in 1..(h - 1) : now - stamps[i] > Window
  BY PopDropsExpired DEF IInv
<1>4. h \in Nat /\ 1 <= h /\ h <= Len(stamps) + 1 /\ Len(stamps) \in Nat
  BY <1>1, <1>3
<1>5. n - h < PerMinute
  BY <1>1, <1>3 DEF MinuteFull
<1>6. PoppedAreOld'
  <2>1. SUFFICES ASSUME NEW i \in 1..(h - 1)
                 PROVE  now - stamps'[i] > Window
    BY <1>3 DEF PoppedAreOld
  <2>2. i \in 1..Len(stamps)
    BY <1>4
  <2>3. QED  BY <1>2, <1>3, <2>2
<1>7. MinuteWindow'
  <2>1. SUFFICES ASSUME NEW i \in 1..n, i + PerMinute <= n
                 PROVE  stamps'[i + PerMinute] - stamps'[i] > Window
    BY <1>2 DEF MinuteWindow
  <2>2. CASE i + PerMinute <= Len(stamps)
    <3>1. i \in 1..Len(stamps) /\ i + PerMinute \in 1..Len(stamps)
      BY <1>1, <1>4, <2>2
    <3>2. stamps[i + PerMinute] - stamps[i] > Window
      BY <3>1, <2>2 DEF IInv, MinuteWindow
    <3>3. QED  BY <3>1, <3>2, <1>2
  <2>3. CASE i + PerMinute = n
    <3>1. i \in 1..(h - 1) /\ i \in 1..Len(stamps)
      BY <1>1, <1>4, <1>5, <2>3 DEF n
    <3>2. now - stamps[i] > Window
      BY <3>1, <1>3
    <3>3. QED  BY <3>1, <3>2, <1>2, <2>3
  <2>4. QED  BY <1>1, <1>4, <2>1, <2>2, <2>3
<1>8. QED  BY <1>6, <1>7

(* Booking a request that the day limit let through keeps the day's count.   *)
LEMMA AdmitKeepsDays ==
  ASSUME IInv, NEW r \in Requests, pc[r] = "known", ~DayFull, Admit(r)
  PROVE  DayCounted' /\ DayBounded'
<1>1. /\ dayCount \in [Days -> Nat] /\ admittedAt \in [Requests -> Times \cup {Never}]
      /\ now \in Times /\ Today \in Days /\ now # Never
      /\ admittedAt[r] = Never
  BY DayType, TimeAssumption DEF IInv, TypeOK, Unchecked, Today, Times
<1>2. /\ dayCount' = [dayCount EXCEPT ![Today] = @ + 1]
      /\ admittedAt' = [admittedAt EXCEPT ![r] = now]
  BY DEF Admit
<1>3. DayCounted'
  <2>1. SUFFICES ASSUME NEW d \in Days
                 PROVE  dayCount'[d] = Cardinality(AdmittedOn(d)')
    BY DEF DayCounted
  <2>2. dayCount[d] = Cardinality(AdmittedOn(d))
    BY DEF IInv, DayCounted
  <2>3. CASE d = Today
    <3>1. AdmittedOn(d)' = AdmittedOn(d) \cup {r} /\ r \notin AdmittedOn(d)
      BY <1>1, <1>2, <2>3 DEF AdmittedOn, Today
    <3>2. Cardinality(AdmittedOn(d)') = Cardinality(AdmittedOn(d)) + 1
      BY <3>1, AdmittedFinite, FS_AddElement
    <3>3. QED  BY <1>1, <1>2, <2>2, <2>3, <3>2
  <2>4. CASE d # Today
    <3>1. AdmittedOn(d)' = AdmittedOn(d)
      BY <1>1, <1>2, <2>4 DEF AdmittedOn, Today
    <3>2. QED  BY <1>1, <1>2, <2>2, <2>4, <3>1
  <2>5. QED  BY <2>3, <2>4
<1>4. DayBounded'
  BY <1>1, <1>2, LimitsAssumption DEF IInv, DayBounded, DayFull
<1>5. QED  BY <1>3, <1>4

(* Steps that touch neither the limiter nor the admissions keep its part of  *)
(* the invariant, as long as the clock does not go back.                     *)
LEMMA LimiterUntouched ==
  ASSUME IInv, TypeOK', now' >= now, UNCHANGED limiterVars, UNCHANGED admittedAt
  PROVE  PoppedAreOld' /\ MinuteWindow' /\ DayCounted' /\ DayBounded'
<1>1. /\ stamps' = stamps /\ head' = head /\ dayCount' = dayCount
      /\ admittedAt' = admittedAt
  BY DEF limiterVars
<1>2. PoppedAreOld'
  <2>1. /\ stamps \in Seq(Times) /\ Times \subseteq Nat /\ now \in Nat /\ now' \in Nat
        /\ head \in 1..(Len(stamps) + 1) /\ Window \in Nat
    BY TimeAssumption DEF IInv, TypeOK, Times
  <2>2. SUFFICES ASSUME NEW i \in 1..(head - 1)
                 PROVE  now' - stamps[i] > Window
    BY <1>1 DEF PoppedAreOld
  <2>3. stamps[i] \in Nat
    <3>1. i \in 1..Len(stamps)
      <4>1. Len(stamps) \in Nat /\ head \in Nat /\ head <= Len(stamps) + 1
        BY <2>1
      <4>2. QED  BY <4>1
    <3>2. stamps[i] \in Times
      BY <2>1, <3>1, ElementOfSeq
    <3>3. QED  BY <2>1, <3>2
  <2>4. now - stamps[i] > Window
    BY DEF IInv, PoppedAreOld
  <2>5. QED  BY <2>1, <2>3, <2>4
<1>3. MinuteWindow'
  BY <1>1 DEF IInv, MinuteWindow
<1>4. DayCounted' /\ DayBounded'
  BY <1>1 DEF IInv, DayCounted, DayBounded, AdmittedOn
<1>5. QED  BY <1>2, <1>3, <1>4

-------------------------------------------------------------------------------
(* The induction *)

LEMMA InitEstablishes ==
  ASSUME Init
  PROVE  IInv
<1>1. 0 \in Times /\ <<>> \in Seq(Times) /\ Len(<<>>) = 0
  BY TimeAssumption DEF Times
<1>2. Loosest(daily) \in Nat /\ Loosest(monthly) \in Nat
  BY LoosestType DEF Init
<1>3. TypeOK
  <2>1. 1 \in 1..MaxAttempts /\ 0 \in 0..MaxAdminOps /\ 0 \in 0..MaxRestarts
    BY LimitsAssumption, BoundsAssumption
  <2>2. QED  BY <1>1, <1>2, <2>1 DEF Init, TypeOK
<1>4. PoppedAreOld /\ MinuteWindow /\ Unchecked
  BY <1>1, LimitsAssumption DEF Init, PoppedAreOld, MinuteWindow, Unchecked
<1>5. DayCounted
  <2>1. SUFFICES ASSUME NEW d \in Days
                 PROVE  dayCount[d] = Cardinality(AdmittedOn(d))
    BY DEF DayCounted
  <2>2. AdmittedOn(d) = {}
    BY DEF Init, AdmittedOn
  <2>3. QED  BY <2>2, FS_EmptySet DEF Init
<1>6. DayBounded
  BY LimitsAssumption DEF Init, DayBounded
<1>7. QED  BY <1>3, <1>4, <1>5, <1>6 DEF IInv

(* Types of what the handlers share.                                         *)
LEMMA AttemptType ==
  ASSUME TypeOK, NEW r \in Requests, NextAttempt(r) \/ Answer(r)
  PROVE  /\ pc' \in [Requests -> {"new", "known", "inFlight", "answered", "refused"}]
         /\ attempt' \in [Requests -> 1..MaxAttempts]
<1>1. MaxAttempts \in Nat
  BY LimitsAssumption
<1>2. CASE Answer(r)
  BY <1>2 DEF TypeOK, Answer
<1>3. CASE /\ attempt[r] < MaxAttempts
           /\ attempt' = [attempt EXCEPT ![r] = @ + 1]
           /\ UNCHANGED pc
  <2>1. attempt[r] \in 1..MaxAttempts
    BY DEF TypeOK
  <2>2. attempt[r] + 1 \in 1..MaxAttempts
    BY <1>1, <1>3, <2>1
  <2>3. QED  BY <1>3, <2>2 DEF TypeOK
<1>4. QED  BY <1>2, <1>3 DEF NextAttempt

LEMMA RowType ==
  ASSUME TypeOK, InsertRow \/ UNCHANGED usage
  PROVE  usage' \subseteq [id : RowIds, day : Days]
<1>1. Today \in Days /\ usage \subseteq [id : RowIds, day : Days]
  BY DayType DEF TypeOK, Today
<1>2. CASE InsertRow
  <2>1. PICK i \in RowIds : usage' = usage \cup {[id |-> i, day |-> Today]}
    BY <1>2 DEF InsertRow
  <2>2. [id |-> i, day |-> Today] \in [id : RowIds, day : Days]
    BY <1>1
  <2>3. QED  BY <1>1, <2>1, <2>2
<1>3. CASE UNCHANGED usage
  BY <1>1, <1>3
<1>4. QED  BY <1>2, <1>3

(* Whatever becomes of a request after its check leaves the limits alone.    *)
LEMMA HandlerStep ==
  ASSUME IInv, NEW r \in Requests, pc[r] = "inFlight", NextAttempt(r) \/ Answer(r),
         InsertRow \/ UNCHANGED usage, AfterCheck
  PROVE  IInv'
<1>1. TypeOK'
  <2>1. /\ pc' \in [Requests -> {"new", "known", "inFlight", "answered", "refused"}]
        /\ attempt' \in [Requests -> 1..MaxAttempts]
    BY AttemptType DEF IInv
  <2>2. usage' \subseteq [id : RowIds, day : Days]
    BY RowType DEF IInv
  <2>3. QED  BY <2>1, <2>2 DEF IInv, TypeOK, AfterCheck, limiterVars, keyVars
<1>2. now' >= now
  BY TimeAssumption DEF AfterCheck, IInv, TypeOK, Times
<1>3. PoppedAreOld' /\ MinuteWindow' /\ DayCounted' /\ DayBounded'
  BY <1>1, <1>2, LimiterUntouched DEF AfterCheck
<1>4. Unchecked'
  <2>1. \A q \in Requests : pc'[q] \in {"new", "known"} => pc[q] \in {"new", "known"}
    BY DEF IInv, TypeOK, NextAttempt, Answer
  <2>2. admittedAt' = admittedAt
    BY DEF AfterCheck
  <2>3. QED  BY <2>1, <2>2 DEF IInv, Unchecked
<1>5. QED  BY <1>1, <1>3, <1>4 DEF IInv

LEMMA CheckStep ==
  ASSUME IInv, NEW r \in Requests, Check(r)
  PROVE  IInv'
<1>1. /\ pc[r] = "known" /\ PopExpired /\ now' = now /\ usage' = usage
      /\ attempt' = attempt /\ seen' = seen /\ adminOps' = adminOps
      /\ restarts' = restarts /\ UNCHANGED keyVars
  BY DEF Check
<1>2. now \in Times /\ Times \subseteq Nat /\ stamps \in Seq(Times) /\ Today \in Days
  BY DayType, TimeAssumption DEF IInv, TypeOK, Times, Today
<1>3. PICK h \in 1..(Len(stamps) + 1) :
        head' = h /\ \A i \in 1..(h - 1) : now - stamps[i] > Window
  BY <1>1, PopDropsExpired DEF IInv
<1>4. CASE Refuse(r)
  <2>1. TypeOK'
    BY <1>1, <1>3, <1>4 DEF IInv, TypeOK, Refuse, keyVars
  <2>2. PoppedAreOld'
    BY <1>1, <1>3, <1>4 DEF PoppedAreOld, Refuse
  <2>3. MinuteWindow' /\ DayCounted' /\ DayBounded'
    BY <1>4 DEF IInv, MinuteWindow, DayCounted, DayBounded, AdmittedOn, Refuse
  <2>4. Unchecked'
    BY <1>4 DEF IInv, TypeOK, Unchecked, Refuse
  <2>5. QED  BY <2>1, <2>2, <2>3, <2>4 DEF IInv
<1>5. CASE ~Exhausted(seen[r]) /\ Admit(r)
  <2>1. ~MinuteFull /\ ~DayFull
    BY <1>5 DEF Exhausted
  <2>2. TypeOK'
    <3>1. stamps' \in Seq(Times) /\ Len(stamps') = Len(stamps) + 1
      BY <1>2, <1>5 DEF Admit
    <3>2. head' \in 1..(Len(stamps') + 1)
      <4>1. Len(stamps) \in Nat
        BY <1>2
      <4>2. h \in 1..(Len(stamps) + 2)
        BY <1>3, <4>1
      <4>3. QED  BY <1>3, <3>1, <4>1, <4>2
    <3>3. dayCount' \in [Days -> Nat]
      BY <1>2, <1>5 DEF IInv, TypeOK, Admit
    <3>4. /\ admittedAt' \in [Requests -> Times \cup {Never}]
          /\ pc' \in [Requests -> {"new", "known", "inFlight", "answered", "refused"}]
      BY <1>2, <1>5 DEF IInv, TypeOK, Admit
    <3>5. peak' \in Nat
      <4>1. InFlight \in SUBSET Requests
        BY DEF InFlight
      <4>2. Cardinality(InFlight) \in Nat
        BY <4>1, BoundsAssumption, FS_Subset, FS_CardinalityType
      <4>3. QED  BY <1>5, <4>2 DEF IInv, TypeOK, Admit
    <3>6. QED
      BY <1>1, <1>2, <3>1, <3>2, <3>3, <3>4, <3>5 DEF IInv, TypeOK, keyVars
  <2>3. PoppedAreOld' /\ MinuteWindow'
    BY <1>1, <1>5, <2>1, AdmitKeepsWindow
  <2>4. DayCounted' /\ DayBounded'
    BY <1>1, <1>5, <2>1, AdmitKeepsDays
  <2>5. Unchecked'
    BY <1>5 DEF IInv, TypeOK, Unchecked, Admit
  <2>6. QED  BY <2>2, <2>3, <2>4, <2>5 DEF IInv
<1>6. QED  BY <1>4, <1>5 DEF Check

(* The steps outside the handlers: authentication, clock, administrator.     *)
LEMMA EnvironmentStep ==
  ASSUME IInv, (\E r \in Requests : Authenticate(r)) \/ Tick \/ ResetStatistics
                 \/ (\E d, m \in Quotas : Update(d, m))
  PROVE  IInv'
<1>1. now \in Nat /\ now <= MaxTime /\ Times = 0..MaxTime
  BY TimeAssumption DEF IInv, TypeOK, Times
<1>2. ASSUME NEW r \in Requests, Authenticate(r)
      PROVE  /\ TypeOK' /\ now' >= now /\ Unchecked'
             /\ UNCHANGED limiterVars /\ UNCHANGED admittedAt
  BY <1>1, <1>2 DEF IInv, TypeOK, Unchecked, Authenticate, limiterVars, keyVars
<1>3. ASSUME Tick
      PROVE  /\ TypeOK' /\ now' >= now /\ Unchecked'
             /\ UNCHANGED limiterVars /\ UNCHANGED admittedAt
  <2>1. now' \in Times /\ now' >= now
    BY <1>1, <1>3, TimeAssumption DEF Tick
  <2>2. QED  BY <1>3, <2>1 DEF IInv, TypeOK, Unchecked, Tick, limiterVars, keyVars
<1>4. ASSUME NEW d \in Quotas, NEW m \in Quotas, Update(d, m)
      PROVE  /\ TypeOK' /\ now' >= now /\ Unchecked'
             /\ UNCHANGED limiterVars /\ UNCHANGED admittedAt
  <2>1. Loosest(d) \in Nat /\ Loosest(m) \in Nat
    BY LoosestType
  <2>2. loosestDaily' \in Nat /\ loosestMonthly' \in Nat
    BY <1>4, <2>1 DEF IInv, TypeOK, Update, Higher
  <2>3. adminOps' \in 0..MaxAdminOps
    BY <1>4, BoundsAssumption DEF IInv, TypeOK, Update
  <2>4. QED
    BY <1>1, <1>4, <2>2, <2>3 DEF IInv, TypeOK, Unchecked, Update, limiterVars
<1>5. ASSUME ResetStatistics
      PROVE  /\ TypeOK' /\ now' >= now /\ Unchecked'
             /\ UNCHANGED limiterVars /\ UNCHANGED admittedAt
  <2>1. adminOps' \in 0..MaxAdminOps
    BY <1>5, BoundsAssumption DEF IInv, TypeOK, ResetStatistics
  <2>2. usage' \subseteq [id : RowIds, day : Days]
    BY <1>5 DEF IInv, TypeOK, ResetStatistics
  <2>3. QED
    BY <1>1, <1>5, <2>1, <2>2 DEF IInv, TypeOK, Unchecked, ResetStatistics,
                                  limiterVars, keyVars
<1>6. QED
  BY <1>2, <1>3, <1>4, <1>5, LimiterUntouched DEF IInv

LEMMA RestartStep ==
  ASSUME IInv, Restart
  PROVE  IInv'
<1>1. stamps' = <<>> /\ <<>> \in Seq(Times) /\ Len(<<>>) = 0
  BY DEF Restart
<1>2. TypeOK'
  <2>1. restarts' \in 0..MaxRestarts
    BY BoundsAssumption DEF IInv, TypeOK, Restart
  <2>2. pc' \in [Requests -> {"new", "known", "inFlight", "answered", "refused"}]
    BY DEF IInv, TypeOK, Restart
  <2>3. QED  BY <1>1, <2>1, <2>2 DEF IInv, TypeOK, Restart, keyVars
<1>3. PoppedAreOld' /\ MinuteWindow' /\ Unchecked'
  BY <1>1, LimitsAssumption DEF Restart, PoppedAreOld, MinuteWindow, Unchecked
<1>4. DayCounted'
  <2>1. SUFFICES ASSUME NEW d \in Days
                 PROVE  dayCount'[d] = Cardinality(AdmittedOn(d)')
    BY DEF DayCounted
  <2>2. AdmittedOn(d)' = {}
    BY DEF Restart, AdmittedOn
  <2>3. QED  BY <2>2, FS_EmptySet DEF Restart
<1>5. DayBounded'
  BY LimitsAssumption DEF Restart, DayBounded
<1>6. QED  BY <1>2, <1>3, <1>4, <1>5 DEF IInv

LEMMA NextKeeps ==
  ASSUME IInv, [Next]_vars
  PROVE  IInv'
<1>1. ASSUME NEW r \in Requests, Fails(r) \/ AttemptFails(r) \/ StreamCounted(r)
                                  \/ PlainCounted(r)
      PROVE  IInv'
  <2>1. /\ pc[r] = "inFlight" /\ (NextAttempt(r) \/ Answer(r))
        /\ InsertRow \/ UNCHANGED usage
        /\ AfterCheck
    BY <1>1 DEF Fails, AttemptFails, StreamCounted, PlainCounted
  <2>2. QED  BY <2>1, HandlerStep
<1>2. CASE UNCHANGED vars
  BY <1>2 DEF IInv, TypeOK, PoppedAreOld, MinuteWindow, Unchecked, DayCounted,
              DayBounded, AdmittedOn, vars
<1>3. QED
  BY <1>1, <1>2, CheckStep, EnvironmentStep, RestartStep DEF Next

(* The inductive invariant holds in every reachable state.                   *)
THEOREM Inductive == Spec => []IInv
<1>1. Init => IInv
  BY InitEstablishes
<1>2. IInv /\ [Next]_vars => IInv'
  BY NextKeeps
<1>3. QED  BY <1>1, <1>2, PTL DEF Spec

(* Every variable keeps its type; no request goes beyond its attempts.       *)
THEOREM TypeCorrect == Spec => []TypeOK
<1>1. IInv => TypeOK
  BY DEF IInv
<1>2. QED  BY <1>1, Inductive, PTL

(* The minute window slides for every limit and window: no PerMinute + 1     *)
(* requests admitted by one server lie within a window.                      *)
THEOREM NoBurst == Spec => []MinuteWindow
<1>1. IInv => MinuteWindow
  BY DEF IInv
<1>2. QED  BY <1>1, Inductive, PTL

(* One server admits at most PerDay requests on a day.                       *)
THEOREM DayLimitHolds == Spec => []DayLimit
<1>1. IInv => DayLimit
  BY DEF IInv, DayLimit, DayCounted, DayBounded
<1>2. QED  BY <1>1, Inductive, PTL

-------------------------------------------------------------------------------
(* The ledger of admissions *)

StampsInOrder ==
  /\ \A i \in 1..Len(stamps) : stamps[i] <= now
  /\ \A i, j \in 1..Len(stamps) : i <= j => stamps[i] <= stamps[j]

StampsSince(t) == {i \in 1..Len(stamps) : stamps[i] >= t}
RequestsSince(t) == {r \in Requests : admittedAt[r] # Never /\ admittedAt[r] >= t}

StampsCounted ==
  \A t \in Int : Cardinality(StampsSince(t)) = Cardinality(RequestsSince(t))

Booked == StampsInOrder /\ StampsCounted

(* The sets that are counted are finite.                                     *)
LEMMA SinceFinite ==
  ASSUME TypeOK, NEW t \in Int
  PROVE  /\ IsFiniteSet(StampsSince(t)) /\ Cardinality(StampsSince(t)) \in Nat
         /\ IsFiniteSet(RequestsSince(t)) /\ Cardinality(RequestsSince(t)) \in Nat
<1>1. StampsSince(t) \in SUBSET (1..Len(stamps)) /\ RequestsSince(t) \in SUBSET Requests
  BY DEF StampsSince, RequestsSince
<1>2. IsFiniteSet(1..Len(stamps)) /\ IsFiniteSet(Requests)
  <2>1. Len(stamps) \in Nat
    BY DEF TypeOK
  <2>2. QED  BY <2>1, FS_Interval, BoundsAssumption
<1>3. IsFiniteSet(StampsSince(t)) /\ IsFiniteSet(RequestsSince(t))
  BY <1>1, <1>2, FS_Subset
<1>4. QED  BY <1>3, FS_CardinalityType

(* A time up to a is of a's day if and only if it is past the day's begin.   *)
LEMMA DayOf ==
  ASSUME NEW a \in Nat, NEW t \in Nat, t <= a, NEW D \in Nat \ {0}
  PROVE  t >= (a \div D) * D <=> t \div D = a \div D
<1> DEFINE q == a \div D
           p == t \div D
<1>1. q \in Nat /\ p \in Nat /\ p <= q
  OBVIOUS
<1>2. t % D \in 0..(D - 1) /\ t = D * p + (t % D)
  OBVIOUS
<1> HIDE DEF q, p
<1>3. CASE p = q
  <2>1. D * q \in Nat /\ q * D = D * q
    BY <1>1
  <2>2. QED  BY <1>2, <1>3, <2>1 DEF p, q
<1>4. CASE p # q
  <2>1. p + 1 <= q
    BY <1>1, <1>4
  <2>2. D * (p + 1) <= D * q
    BY <1>1, <2>1
  <2>3. D * (p + 1) = D * p + D /\ D * p \in Nat /\ D * q \in Nat /\ q * D = D * q
    BY <1>1
  <2>4. t < q * D
    BY <1>2, <2>2, <2>3
  <2>5. QED  BY <1>1, <1>4, <2>3, <2>4 DEF p, q
<1>5. QED  BY <1>3, <1>4

(* An admission is booked with a stamp of its own, the latest.               *)
LEMMA AdmitBooks ==
  ASSUME IInv, Booked, NEW r \in Requests, pc[r] = "known", Admit(r), now' = now
  PROVE  Booked'
<1> DEFINE n == Len(stamps) + 1
<1>1. /\ stamps \in Seq(Times) /\ now \in Times /\ Times \subseteq Nat /\ now # Never
      /\ admittedAt \in [Requests -> Times \cup {Never}] /\ admittedAt[r] = Never
      /\ Len(stamps) \in Nat
  BY TimeAssumption DEF IInv, TypeOK, Unchecked, Times
<1>2. /\ stamps' \in Seq(Times) /\ Len(stamps') = n /\ stamps'[n] = now
      /\ \A i \in 1..Len(stamps) : stamps'[i] = stamps[i]
      /\ admittedAt' = [admittedAt EXCEPT ![r] = now]
  BY <1>1 DEF Admit
<1>3. \A i \in 1..n : i = n \/ i \in 1..Len(stamps)
  BY <1>1
<1>4. StampsInOrder'
  <2>1. \A i \in 1..n : stamps'[i] <= now
    BY <1>1, <1>2, <1>3 DEF Booked, StampsInOrder
  <2>2. ASSUME NEW i \in 1..n, NEW j \in 1..n, i <= j
        PROVE  stamps'[i] <= stamps'[j]
    <3>1. CASE j = n
      BY <1>2, <2>1, <3>1
    <3>2. CASE j # n
      <4>1. i \in 1..Len(stamps) /\ j \in 1..Len(stamps)
        BY <1>1, <2>2, <3>2
      <4>2. QED  BY <1>2, <2>2, <4>1 DEF Booked, StampsInOrder
    <3>3. QED  BY <3>1, <3>2
  <2>3. QED  BY <1>2, <2>1, <2>2 DEF StampsInOrder
<1>5. StampsCounted'
  <2>1. SUFFICES ASSUME NEW t \in Int
                 PROVE  Cardinality(StampsSince(t)') = Cardinality(RequestsSince(t)')
    BY DEF StampsCounted
  <2>2. Cardinality(StampsSince(t)) = Cardinality(RequestsSince(t))
    BY DEF Booked, StampsCounted
  <2>3. CASE now >= t
    <3>1. StampsSince(t)' = StampsSince(t) \cup {n} /\ n \notin StampsSince(t)
      <4>1. n \notin 1..Len(stamps) /\ n \in 1..n
        BY <1>1
      <4>2. \A i \in 1..n : i \in StampsSince(t)' <=> i \in StampsSince(t) \cup {n}
        BY <1>2, <1>3, <2>3, <4>1 DEF StampsSince
      <4>3. StampsSince(t)' \subseteq 1..n /\ StampsSince(t) \cup {n} \subseteq 1..n
        BY <1>1, <1>2 DEF StampsSince
      <4>4. QED  BY <4>1, <4>2, <4>3 DEF StampsSince
    <3>2. RequestsSince(t)' = RequestsSince(t) \cup {r} /\ r \notin RequestsSince(t)
      BY <1>1, <1>2, <2>3 DEF RequestsSince
    <3>3. /\ Cardinality(StampsSince(t) \cup {n}) = Cardinality(StampsSince(t)) + 1
          /\ Cardinality(RequestsSince(t) \cup {r}) = Cardinality(RequestsSince(t)) + 1
      <4>1. IsFiniteSet(StampsSince(t)) /\ IsFiniteSet(RequestsSince(t))
        BY SinceFinite DEF IInv
      <4>2. QED  BY <3>1, <3>2, <4>1, FS_AddElement
    <3>4. QED
      BY <2>2, <3>1, <3>2, <3>3
  <2>4. CASE ~(now >= t)
    <3>1. StampsSince(t)' = StampsSince(t)
      <4>1. n \in 1..n /\ n \notin StampsSince(t)'
        BY <1>1, <1>2, <2>4 DEF StampsSince
      <4>2. \A i \in 1..Len(stamps) : i \in StampsSince(t)' <=> i \in StampsSince(t)
        BY <1>1, <1>2 DEF StampsSince
      <4>3. StampsSince(t)' \subseteq 1..n /\ StampsSince(t) \subseteq 1..Len(stamps)
        BY <1>2 DEF StampsSince
      <4>4. QED  BY <1>3, <4>1, <4>2, <4>3
    <3>2. RequestsSince(t)' = RequestsSince(t)
      BY <1>1, <1>2, <2>4 DEF RequestsSince
    <3>3. QED  BY <2>2, <3>1, <3>2
  <2>5. QED  BY <2>3, <2>4
<1>6. QED  BY <1>4, <1>5 DEF Booked

(* Nothing else books: the rest keeps the stamps and the admissions, or      *)
(* forgets both.                                                             *)
LEMMA UnbookedKeeps ==
  ASSUME IInv, Booked, now' \in Nat, now' >= now, UNCHANGED <<stamps, admittedAt>>
  PROVE  Booked'
<1>1. StampsCounted'
  BY DEF Booked, StampsCounted, StampsSince, RequestsSince
<1>2. now \in Nat /\ stamps \in Seq(Times) /\ Times \subseteq Nat
  BY TimeAssumption DEF IInv, TypeOK, Times
<1>3. \A i \in 1..Len(stamps) : stamps[i] \in Nat
  BY <1>2, ElementOfSeq
<1>4. StampsInOrder'
  BY <1>2, <1>3 DEF Booked, StampsInOrder
<1>5. QED  BY <1>1, <1>4 DEF Booked

LEMMA NoStamps ==
  ASSUME stamps = <<>>, \A r \in Requests : admittedAt[r] = Never
  PROVE  Booked
<1>1. \A t \in Int : StampsSince(t) = {} /\ RequestsSince(t) = {}
  BY DEF StampsSince, RequestsSince
<1>2. StampsCounted
  BY <1>1 DEF StampsCounted
<1>3. StampsInOrder
  BY DEF StampsInOrder
<1>4. QED  BY <1>2, <1>3 DEF Booked

LEMMA NoStampsLeft ==
  ASSUME stamps' = <<>>, \A r \in Requests : admittedAt'[r] = Never
  PROVE  Booked'
<1>1. \A t \in Int : StampsSince(t)' = {} /\ RequestsSince(t)' = {}
  BY DEF StampsSince, RequestsSince
<1>2. StampsCounted'
  BY <1>1 DEF StampsCounted
<1>3. StampsInOrder'
  BY DEF StampsInOrder
<1>4. QED  BY <1>2, <1>3 DEF Booked

LEMMA StepBooked ==
  ASSUME IInv, Booked, [Next]_vars
  PROVE  Booked'
<1>1. now \in Nat
  BY TimeAssumption DEF IInv, TypeOK, Times
<1>2. CASE \E r \in Requests : Check(r) /\ Admit(r)
  BY <1>2, AdmitBooks DEF Check
<1>3. CASE Restart
  BY <1>3, NoStampsLeft DEF Restart
<1>4. CASE ~(\E r \in Requests : Check(r) /\ Admit(r)) /\ ~Restart
  <2>1. UNCHANGED <<stamps, admittedAt>> /\ (now' = now \/ now' = now + 1)
    BY <1>4 DEF Next, vars, Authenticate, Check, Refuse, Fails, AttemptFails,
                StreamCounted, PlainCounted, AfterCheck, limiterVars, Tick, Update,
                ResetStatistics
  <2>2. QED  BY <1>1, <2>1, UnbookedKeeps
<1>5. QED  BY <1>2, <1>3, <1>4

LEMMA AlwaysBooked == Spec => []Booked
<1>1. Init => Booked
  BY NoStamps DEF Init
<1>2. IInv /\ Booked /\ [Next]_vars => Booked'
  BY StepBooked
<1>3. QED  BY <1>1, <1>2, Inductive, PTL DEF Spec

(* What is left in the deque after popping are the admissions of the window. *)
LEMMA MinuteCount ==
  ASSUME IInv, Booked, PopExpired
  PROVE  Cardinality(RequestsSince(now - Window)) = Len(stamps) + 1 - head'
<1>1. /\ stamps \in Seq(Times) /\ Times \subseteq Nat /\ now \in Nat
      /\ Window \in Nat /\ Len(stamps) \in Nat /\ head \in 1..(Len(stamps) + 1)
  BY TimeAssumption DEF IInv, TypeOK, Times
<1>2. PICK h \in head..(Len(stamps) + 1) :
        /\ head' = h /\ (h <= Len(stamps) => ~Expired(h))
        /\ \A i \in head..(h - 1) : Expired(i)
  BY DEF PopExpired
<1>3. h \in Nat /\ h >= 1 /\ h <= Len(stamps) + 1
  BY <1>1, <1>2
<1>4. \A i \in 1..Len(stamps) : stamps[i] \in Nat
  BY <1>1, ElementOfSeq
<1>5. ASSUME NEW i \in 1..Len(stamps)
      PROVE  stamps[i] >= now - Window <=> i >= h
  <2>1. CASE i < h
    <3>1. i \in 1..(head - 1) \/ i \in head..(h - 1)
      BY <1>1, <1>3, <2>1
    <3>2. now - stamps[i] > Window
      BY <3>1, <1>2 DEF IInv, PoppedAreOld, Expired
    <3>3. QED  BY <1>1, <1>3, <1>4, <2>1, <3>2
  <2>2. CASE i >= h
    <3>1. h \in 1..Len(stamps)
      BY <1>1, <1>3, <2>2
    <3>2. stamps[h] <= stamps[i] /\ ~(now - stamps[h] > Window)
      BY <1>2, <2>2, <3>1 DEF Booked, StampsInOrder, Expired
    <3>3. stamps[h] \in Nat /\ stamps[i] \in Nat
      BY <1>4, <3>1
    <3>4. QED  BY <1>1, <2>2, <3>2, <3>3
  <2>3. QED  BY <1>3, <2>1, <2>2
<1>6. StampsSince(now - Window) = h..Len(stamps)
  <2>1. \A i \in 1..Len(stamps) : i \in StampsSince(now - Window) <=> i \in h..Len(stamps)
    BY <1>1, <1>3, <1>5 DEF StampsSince
  <2>2. h..Len(stamps) \subseteq 1..Len(stamps)
    BY <1>1, <1>3
  <2>3. QED  BY <2>1, <2>2 DEF StampsSince
<1>7. Cardinality(h..Len(stamps)) = Len(stamps) + 1 - h
  <2>1. h \in Int /\ Len(stamps) \in Int
    BY <1>1, <1>3
  <2>2. Cardinality(h..Len(stamps)) =
          IF h > Len(stamps) THEN 0 ELSE Len(stamps) - h + 1
    BY <2>1, FS_Interval
  <2>3. QED  BY <1>1, <1>3, <2>2
<1>8. now - Window \in Int
  BY <1>1
<1>9. QED  BY <1>2, <1>6, <1>7, <1>8 DEF Booked, StampsCounted

(* Nobody is admitted in the future.                                         *)
LEMMA NobodyLater ==
  ASSUME IInv, Booked, NEW r \in Requests, admittedAt[r] # Never
  PROVE  admittedAt[r] \in Nat /\ admittedAt[r] <= now
<1>1. admittedAt[r] \in Nat /\ now \in Nat /\ now + 1 \in Int /\ stamps \in Seq(Nat)
  BY TimeAssumption DEF IInv, TypeOK, Times
<1>2. StampsSince(now + 1) = {}
  <2>1. \A i \in 1..Len(stamps) : stamps[i] <= now /\ stamps[i] \in Nat
    BY <1>1, ElementOfSeq DEF Booked, StampsInOrder
  <2>2. QED  BY <1>1, <2>1 DEF StampsSince
<1>3. Cardinality(RequestsSince(now + 1)) = 0
  BY <1>1, <1>2, FS_EmptySet DEF Booked, StampsCounted
<1>4. RequestsSince(now + 1) = {}
  BY <1>1, <1>3, SinceFinite, FS_EmptySet DEF IInv
<1>5. ~(admittedAt[r] >= now + 1)
  BY <1>4 DEF RequestsSince
<1>6. QED  BY <1>1, <1>5

(* The counter of the day counts the requests admitted since it began.       *)
LEMMA DayCount ==
  ASSUME IInv, Booked
  PROVE  dayCount[Today] = Cardinality(RequestsSince(Today * DayLength))
<1>1. /\ now \in Nat /\ Today \in Days /\ DayLength \in Nat \ {0}
      /\ Today \in Nat
  BY DayType, TimeAssumption DEF IInv, TypeOK, Today, Times, Days
<1>2. ASSUME NEW r \in Requests, admittedAt[r] # Never
      PROVE  admittedAt[r] >= Today * DayLength <=> Day(admittedAt[r]) = Today
  <2>1. admittedAt[r] \in Nat /\ admittedAt[r] <= now
    BY <1>2, NobodyLater
  <2>2. QED  BY <1>1, <2>1, DayOf DEF Day, Today
<1>3. AdmittedOn(Today) = RequestsSince(Today * DayLength)
  BY <1>2 DEF AdmittedOn, RequestsSince
<1>4. QED  BY <1>1, <1>3 DEF IInv, DayCounted

(* The limiter turns a request away exactly when the ledger has no room.     *)
LEMMA SameVerdict ==
  ASSUME IInv, Booked, NEW r \in Requests, PopExpired
  PROVE  Ledger!Room(r) <=> ~Exhausted(seen[r])
<1>1. \A t : Ledger!Since(t) = Cardinality(RequestsSince(t))
  BY DEF Ledger!Since, RequestsSince, Ledger!Cardinality, Cardinality
<1>2. Ledger!DayBegin = Today * DayLength
  BY DEF Ledger!DayBegin, Today, Day
<1>3. Ledger!Room(r) <=> /\ Cardinality(RequestsSince(now - Window)) < PerMinute
                         /\ \/ PerDay = 0
                            \/ Cardinality(RequestsSince(Today * DayLength)) < PerDay
                         /\ ~QuotaReached(seen[r])
  BY <1>1, <1>2 DEF Ledger!Room
<1>4. Cardinality(RequestsSince(now - Window)) < PerMinute <=> ~MinuteFull
  <2>1. Cardinality(RequestsSince(now - Window)) = Len(stamps) + 1 - head'
    BY MinuteCount
  <2>2. Cardinality(RequestsSince(now - Window)) \in Nat /\ PerMinute \in Nat
    <3>1. now - Window \in Int
      BY TimeAssumption DEF IInv, TypeOK, Times
    <3>2. QED  BY <3>1, SinceFinite, LimitsAssumption DEF IInv
  <2>3. QED  BY <2>1, <2>2 DEF MinuteFull
<1>5. Cardinality(RequestsSince(Today * DayLength)) < PerDay
        <=> ~(dayCount[Today] >= PerDay)
  <2>1. dayCount[Today] \in Nat /\ PerDay \in Nat
    BY DayType, LimitsAssumption DEF IInv, TypeOK, Today
  <2>2. QED  BY <2>1, DayCount
<1>6. QED  BY <1>3, <1>4, <1>5 DEF Exhausted, DayFull

LEMMA StatusType ==
  ASSUME IInv
  PROVE  pc \in [Requests -> {"new", "known", "inFlight", "answered", "refused"}]
BY DEF IInv, TypeOK

Verdicts == [r \in Requests |-> Verdict(r)]
Spent    == [r \in Requests |-> QuotaReached(seen[r])]

(* What a decision does to the verdicts.                                     *)
LEMMA VerdictMoves ==
  ASSUME IInv, NEW r \in Requests
  PROVE  /\ pc' = [pc EXCEPT ![r] = "refused"]
              => Verdicts' = [Verdicts EXCEPT ![r] = "refused"]
         /\ pc' = [pc EXCEPT ![r] = "inFlight"]
              => Verdicts' = [Verdicts EXCEPT ![r] = "over"]
<1>1. ASSUME pc' = [pc EXCEPT ![r] = "refused"]
      PROVE  Verdicts' = [Verdicts EXCEPT ![r] = "refused"]
  <2>1. \A q \in Requests : Verdict(q)' = IF q = r THEN "refused" ELSE Verdict(q)
    BY <1>1, StatusType DEF Verdict
  <2>2. QED  BY <2>1 DEF Verdicts
<1>2. ASSUME pc' = [pc EXCEPT ![r] = "inFlight"]
      PROVE  Verdicts' = [Verdicts EXCEPT ![r] = "over"]
  <2>1. \A q \in Requests : Verdict(q)' = IF q = r THEN "over" ELSE Verdict(q)
    BY <1>2, StatusType DEF Verdict
  <2>2. QED  BY <2>1 DEF Verdicts
<1>3. QED  BY <1>1, <1>2

LEMMA SpentKept ==
  ASSUME UNCHANGED <<now, usage, seen>>
  PROVE  Spent' = Spent
BY DEF Spent, QuotaReached, RowsToday, RowsThisMonth, Today

(* A step that neither decides on a request nor forgets one only lets time   *)
(* pass.                                                                     *)
LEMMA OnlyElapses ==
  ASSUME IInv, IInv', now' >= now, admittedAt' = admittedAt, Verdicts' = Verdicts
  PROVE  Ledger!LedgerNext
<1>1. now' \in Nat
  BY TimeAssumption DEF IInv, TypeOK, Times
<1>2. Spent' \in [Requests -> BOOLEAN]
  BY DEF Spent, QuotaReached
<1>3. Ledger!Elapse
  BY <1>1, <1>2 DEF Ledger!Elapse, Verdicts, Spent
<1>4. QED  BY <1>3 DEF Ledger!LedgerNext

LEMMA CheckDecides ==
  ASSUME IInv, Booked, NEW r \in Requests, Check(r)
  PROVE  Ledger!LedgerNext
<1>1. pc[r] = "known" /\ PopExpired /\ UNCHANGED <<now, usage, seen>>
  BY DEF Check
<1>2. Verdicts[r] = "open" /\ Spent' = Spent
  BY <1>1, SpentKept DEF Verdicts, Verdict
<1>3. CASE Exhausted(seen[r]) /\ Refuse(r)
  <2>1. Verdicts' = [Verdicts EXCEPT ![r] = "refused"] /\ admittedAt' = admittedAt
    BY <1>3, VerdictMoves DEF Refuse
  <2>2. ~Ledger!Room(r)
    BY <1>1, <1>3, SameVerdict
  <2>3. Ledger!TurnAway(r)
    BY <1>1, <1>2, <2>1, <2>2 DEF Ledger!TurnAway, Verdicts, Spent
  <2>4. QED  BY <2>3 DEF Ledger!LedgerNext
<1>4. CASE ~Exhausted(seen[r]) /\ Admit(r)
  <2>1. /\ Verdicts' = [Verdicts EXCEPT ![r] = "over"]
        /\ admittedAt' = [admittedAt EXCEPT ![r] = now]
    BY <1>4, VerdictMoves DEF Admit
  <2>2. Ledger!Room(r)
    BY <1>1, <1>4, SameVerdict
  <2>3. Ledger!Accept(r)
    BY <1>1, <1>2, <2>1, <2>2 DEF Ledger!Accept, Verdicts, Spent
  <2>4. QED  BY <2>3 DEF Ledger!LedgerNext
<1>5. QED  BY <1>3, <1>4 DEF Check

LEMMA RestartForgets ==
  ASSUME IInv, Restart
  PROVE  Ledger!LedgerNext
<1>1. Spent' = Spent
  BY SpentKept DEF Restart
<1>2. ASSUME NEW r \in Requests
      PROVE  /\ Verdicts'[r] \in {"open", "refused", "over"}
             /\ \/ Verdicts'[r] = Verdicts[r]
                \/ Verdicts[r] = "open" /\ Verdicts'[r] = "over"
  <2>1. pc'[r] = IF pc[r] \in {"known", "inFlight"} THEN "answered" ELSE pc[r]
    BY DEF Restart
  <2>2. QED  BY <2>1 DEF Verdicts, Verdict
<1>3. Verdicts' \in [Requests -> {"open", "refused", "over"}]
  BY <1>2 DEF Verdicts
<1>4. Ledger!Forget
  BY <1>1, <1>2, <1>3 DEF Ledger!Forget, Verdicts, Spent, Restart
<1>5. QED  BY <1>4 DEF Ledger!LedgerNext

LEMMA StepLedger ==
  ASSUME IInv, IInv', Booked, [Next]_vars
  PROVE  [Ledger!LedgerNext]_(Ledger!ledgerVars)
<1>1. now \in Nat /\ pc \in [Requests -> {"new", "known", "inFlight", "answered", "refused"}]
  BY StatusType, TimeAssumption DEF IInv, TypeOK, Times
<1>2. ASSUME NEW r \in Requests,
             \/ Authenticate(r) \/ Fails(r) \/ AttemptFails(r)
             \/ StreamCounted(r) \/ PlainCounted(r)
      PROVE  Ledger!LedgerNext
  <2>1. now' = now /\ admittedAt' = admittedAt
    BY <1>2 DEF Authenticate, Fails, AttemptFails, StreamCounted, PlainCounted,
                AfterCheck
  <2>2. \/ pc[r] = "new" /\ pc' = [pc EXCEPT ![r] = "known"]
        \/ pc[r] = "inFlight" /\ (pc' = [pc EXCEPT ![r] = "answered"] \/ pc' = pc)
    BY <1>2 DEF Authenticate, Fails, AttemptFails, StreamCounted, PlainCounted,
                NextAttempt, Answer
  <2>3. \A q \in Requests : Verdict(q)' = Verdict(q)
    BY <1>1, <2>2 DEF Verdict
  <2>4. Verdicts' = Verdicts
    BY <2>3 DEF Verdicts
  <2>5. QED  BY <1>1, <2>1, <2>4, OnlyElapses
<1>3. ASSUME Tick \/ ResetStatistics \/ \E d, m \in Quotas : Update(d, m)
      PROVE  Ledger!LedgerNext
  <2>1. pc' = pc /\ admittedAt' = admittedAt /\ (now' = now \/ now' = now + 1)
    BY <1>3 DEF Tick, ResetStatistics, Update
  <2>2. Verdicts' = Verdicts
    BY <2>1 DEF Verdicts, Verdict
  <2>3. QED  BY <1>1, <2>1, <2>2, OnlyElapses
<1>4. CASE UNCHANGED vars
  <2>1. Verdicts' = Verdicts /\ Spent' = Spent /\ UNCHANGED <<now, admittedAt>>
    BY <1>4, SpentKept DEF Verdicts, Verdict, vars
  <2>2. QED  BY <2>1 DEF Ledger!ledgerVars, Verdicts, Spent
<1>5. QED  BY <1>2, <1>3, <1>4, CheckDecides, RestartForgets DEF Next

(* ratelimit.py:35-100: the deque and the counters give the verdicts of a      *)
(* limiter that remembers every admission: a request is turned away exactly  *)
(* when enough others were admitted within the window or on the day, or a    *)
(* quota is used up; refusals leave no trace.                                *)
THEOREM LimiterImplementsLedger == Spec => ImplementsLedger
<1>1. Init => Ledger!LedgerInit
  BY DEF Init, Ledger!LedgerInit, Verdict, QuotaReached
<1>2. IInv /\ IInv' /\ Booked /\ [Next]_vars => [Ledger!LedgerNext]_(Ledger!ledgerVars)
  BY StepLedger
<1>3. QED
  BY <1>1, <1>2, Inductive, AlwaysBooked, PTL
     DEF Spec, ImplementsLedger, Ledger!LedgerSpec
-------------------------------------------------------------------------------
(* The quotas *)

TodaysRows == {u \in usage : u.day >= Today}
MonthsRows == {u \in usage : Month(u.day) >= Month(Today)}

(* The attempts that may still insert a row: of the requests in flight, and  *)
(* of all that can still get there.                                          *)
Attempts == Requests \X (1..MaxAttempts)
Chances  == {c \in Attempts : pc[c[1]] = "inFlight" /\ c[2] >= attempt[c[1]]}
Open     == {c \in Attempts : /\ pc[c[1]] \in {"new", "known", "inFlight"}
                              /\ c[2] >= attempt[c[1]]}

LoosestSoFar ==
  /\ Loosest(daily) <= loosestDaily /\ Loosest(monthly) <= loosestMonthly
  /\ \A r \in Requests : /\ Loosest(seen[r].daily) <= loosestDaily
                         /\ Loosest(seen[r].monthly) <= loosestMonthly

PeakSoFar   == Cardinality(InFlight) <= peak
RowsAreFew  == Cardinality(usage) + Cardinality(Open) <= AllRows

(* What the rows counted now and those still to come add up to. *)
Overrun(rows, limit) ==
  Cardinality(rows) + Cardinality(Chances) <= (limit - 1) + MaxAttempts * peak

QuotaInv ==
  /\ LoosestSoFar /\ PeakSoFar /\ RowsAreFew
  /\ Overrun(TodaysRows, loosestDaily) /\ Overrun(MonthsRows, loosestMonthly)

LEMMA AllRowsType == AllRows \in Nat /\ AllRows >= 1 /\ MaxAttempts \in Nat /\ MaxAttempts >= 1
<1>1. Cardinality(Requests) \in Nat /\ Cardinality(Requests) # 0
  BY BoundsAssumption, FS_CardinalityType, FS_EmptySet
<1>2. MaxAttempts \in Nat \ {0}
  BY LimitsAssumption
<1>3. Cardinality(Requests) * MaxAttempts >= 1
  BY <1>1, <1>2
<1>4. QED  BY <1>1, <1>2, <1>3 DEF AllRows

LEMMA NatProduct ==
  ASSUME NEW a \in Nat, NEW b \in Nat
  PROVE  a * b \in Nat
OBVIOUS

(* There is a pair for every attempt of every request.                       *)
LEMMA AttemptsCounted ==
  IsFiniteSet(Attempts) /\ Cardinality(Attempts) = AllRows
<1>1. IsFiniteSet(1..MaxAttempts) /\ Cardinality(1..MaxAttempts) = MaxAttempts
  BY AllRowsType, FS_Interval
<1>2. QED  BY <1>1, BoundsAssumption, FS_Product DEF Attempts, AllRows

(* Everything that is counted is finite.                                     *)
LEMMA RowsFinite ==
  ASSUME TypeOK, NEW rows \in SUBSET usage
  PROVE  IsFiniteSet(rows) /\ Cardinality(rows) \in Nat
<1>1. IsFiniteSet(RowIds) /\ IsFiniteSet(Days)
  <2>1. Day(MaxTime) \in Int
    BY TimeAssumption DEF Day
  <2>2. QED  BY <2>1, AllRowsType, FS_Interval DEF RowIds, Days
<1>2. IsFiniteSet(RowIds \X Days)
  BY <1>1, FS_Product
<1>3. [u \in rows |-> <<u.id, u.day>>] \in Injection(rows, RowIds \X Days)
  <2> DEFINE f == [u \in rows |-> <<u.id, u.day>>]
  <2>1. \A u \in rows : u \in [id : RowIds, day : Days]
    BY DEF TypeOK
  <2>2. f \in [rows -> RowIds \X Days]
    BY <2>1
  <2>3. ASSUME NEW u \in rows, NEW v \in rows, f[u] = f[v]
        PROVE  u = v
    <3>1. u.id = v.id /\ u.day = v.day
      BY <2>3
    <3>2. QED  BY <2>1, <3>1
  <2>4. QED  BY <2>2, <2>3 DEF Injection, IsInjective
<1>4. IsFiniteSet(rows)
  BY <1>2, <1>3, FS_Injection
<1>5. QED  BY <1>4, FS_CardinalityType

LEMMA ChancesFinite ==
  /\ IsFiniteSet(Chances) /\ Cardinality(Chances) \in Nat
  /\ IsFiniteSet(Open) /\ Cardinality(Open) \in Nat /\ Cardinality(Open) <= AllRows
<1>1. Chances \in SUBSET Attempts /\ Open \in SUBSET Attempts
  BY DEF Chances, Open
<1>2. IsFiniteSet(Chances) /\ IsFiniteSet(Open) /\ Cardinality(Open) <= AllRows
  BY <1>1, AttemptsCounted, FS_Subset
<1>3. QED  BY <1>2, FS_CardinalityType

(* The same about the sets after a step.                                     *)
LEMMA ChancesFiniteNext ==
  /\ IsFiniteSet(Chances') /\ Cardinality(Chances') \in Nat
  /\ IsFiniteSet(Open') /\ Cardinality(Open') \in Nat
<1>1. Chances' \in SUBSET Attempts /\ Open' \in SUBSET Attempts
  BY DEF Chances, Open, Attempts
<1>2. IsFiniteSet(Chances') /\ IsFiniteSet(Open')
  BY <1>1, AttemptsCounted, FS_Subset
<1>3. QED  BY <1>2, FS_CardinalityType

(* Later is not an earlier day, nor a day of an earlier month.               *)
LEMMA DivMono ==
  ASSUME NEW a \in Nat, NEW b \in Nat, a <= b, NEW D \in Nat \ {0}
  PROVE  a \div D \in Nat /\ b \div D \in Nat /\ a \div D <= b \div D
OBVIOUS

(* A set of rows that no longer counts more, with no new chances.            *)
LEMMA OverrunShrinks ==
  ASSUME TypeOK, NEW rows \in SUBSET usage, NEW rows2 \in SUBSET rows,
         NEW chances2 \in SUBSET Chances, NEW limit \in Nat, NEW limit2 \in Nat,
         limit2 >= limit, Overrun(rows, limit)
  PROVE  Cardinality(rows2) + Cardinality(chances2) <= (limit2 - 1) + MaxAttempts * peak
<1>1. /\ Cardinality(rows2) <= Cardinality(rows) /\ Cardinality(rows) \in Nat
      /\ Cardinality(rows2) \in Nat
  BY RowsFinite, FS_Subset
<1>2. /\ Cardinality(chances2) <= Cardinality(Chances) /\ Cardinality(Chances) \in Nat
      /\ Cardinality(chances2) \in Nat
  BY ChancesFinite, FS_Subset, FS_CardinalityType
<1>3. MaxAttempts * peak \in Nat
  BY AllRowsType DEF TypeOK
<1>4. QED  BY <1>1, <1>2, <1>3 DEF Overrun

(* A row is inserted in place of a chance.                                   *)
LEMMA OverrunMoves ==
  ASSUME TypeOK, NEW rows \in SUBSET usage, NEW u, NEW rows2 \in SUBSET (rows \cup {u}),
         NEW c \in Chances, NEW chances2 \in SUBSET (Chances \ {c}),
         NEW limit \in Nat, Overrun(rows, limit)
  PROVE  Cardinality(rows2) + Cardinality(chances2) <= (limit - 1) + MaxAttempts * peak
<1>1. Cardinality(rows) \in Nat /\ IsFiniteSet(rows)
  BY RowsFinite
<1>2. IsFiniteSet(rows \cup {u}) /\ Cardinality(rows \cup {u}) <= Cardinality(rows) + 1
  BY <1>1, FS_AddElement
<1>3. Cardinality(rows2) <= Cardinality(rows) + 1 /\ Cardinality(rows2) \in Nat
  <2>1. /\ Cardinality(rows2) <= Cardinality(rows \cup {u}) /\ IsFiniteSet(rows2)
    BY <1>2, FS_Subset
  <2>2. Cardinality(rows2) \in Nat /\ Cardinality(rows \cup {u}) \in Nat
    BY <1>2, <2>1, FS_CardinalityType
  <2>3. QED  BY <1>1, <1>2, <2>1, <2>2
<1>4. /\ IsFiniteSet(Chances \ {c}) /\ Cardinality(Chances) \in Nat
      /\ Cardinality(Chances \ {c}) = Cardinality(Chances) - 1
  BY ChancesFinite, FS_RemoveElement
<1>5. Cardinality(chances2) <= Cardinality(Chances) - 1 /\ Cardinality(chances2) \in Nat
  <2>1. Cardinality(chances2) <= Cardinality(Chances \ {c}) /\ IsFiniteSet(chances2)
    BY <1>4, FS_Subset
  <2>2. QED  BY <1>4, <2>1, FS_CardinalityType
<1>6. MaxAttempts * peak \in Nat
  BY AllRowsType DEF TypeOK
<1>7. QED  BY <1>1, <1>3, <1>4, <1>5, <1>6 DEF Overrun
LEMMA LoosestKept ==
  ASSUME LoosestSoFar, UNCHANGED keyVars, UNCHANGED seen
  PROVE  LoosestSoFar'
BY DEF LoosestSoFar, keyVars, Loosest

LEMMA InFlightFinite ==
  ASSUME NEW S \in SUBSET Requests
  PROVE  IsFiniteSet(S) /\ Cardinality(S) \in Nat
BY BoundsAssumption, FS_Subset, FS_CardinalityType

LEMMA RowsCounted ==
  TodaysRows \in SUBSET usage /\ MonthsRows \in SUBSET usage
BY DEF TodaysRows, MonthsRows

(* A step that adds no row, no chance and no request in flight.              *)
LEMMA QuietStep ==
  ASSUME TypeOK, TypeOK', QuotaInv, LoosestSoFar', peak' = peak, usage' \subseteq usage,
         TodaysRows' \subseteq TodaysRows, MonthsRows' \subseteq MonthsRows,
         Chances' \subseteq Chances, Open' \subseteq Open, InFlight' \subseteq InFlight,
         loosestDaily' >= loosestDaily, loosestMonthly' >= loosestMonthly
  PROVE  QuotaInv'
<1>1. PeakSoFar'
  <2>1. InFlight \in SUBSET Requests /\ InFlight' \in SUBSET Requests
    BY DEF InFlight
  <2>2. Cardinality(InFlight') <= Cardinality(InFlight)
    BY <2>1, InFlightFinite, FS_Subset
  <2>3. Cardinality(InFlight') \in Nat /\ Cardinality(InFlight) \in Nat /\ peak \in Nat
    BY <2>1, InFlightFinite DEF TypeOK
  <2>4. QED  BY <2>2, <2>3 DEF PeakSoFar, QuotaInv
<1>2. RowsAreFew'
  <2>1. Cardinality(usage') <= Cardinality(usage) /\ Cardinality(usage) \in Nat
    BY RowsFinite, FS_Subset
  <2>2. Cardinality(usage') \in Nat
    BY RowsFinite
  <2>3. /\ Cardinality(Open') <= Cardinality(Open)
        /\ Cardinality(Open') \in Nat /\ Cardinality(Open) \in Nat
    BY ChancesFinite, ChancesFiniteNext, FS_Subset
  <2>4. QED  BY <2>1, <2>2, <2>3, AllRowsType DEF RowsAreFew, QuotaInv, AllRows
<1>3. Overrun(TodaysRows, loosestDaily)'
  <2>1. loosestDaily \in Nat /\ loosestDaily' \in Nat
    BY DEF TypeOK
  <2>2. Cardinality(TodaysRows') + Cardinality(Chances')
          <= (loosestDaily' - 1) + MaxAttempts * peak
    BY <2>1, OverrunShrinks, RowsCounted DEF QuotaInv
  <2>3. QED  BY <2>2 DEF Overrun
<1>4. Overrun(MonthsRows, loosestMonthly)'
  <2>1. loosestMonthly \in Nat /\ loosestMonthly' \in Nat
    BY DEF TypeOK
  <2>2. Cardinality(MonthsRows') + Cardinality(Chances')
          <= (loosestMonthly' - 1) + MaxAttempts * peak
    BY <2>1, OverrunShrinks, RowsCounted DEF QuotaInv
  <2>3. QED  BY <2>2 DEF Overrun
<1>5. QED  BY <1>1, <1>2, <1>3, <1>4 DEF QuotaInv

(* An attempt that ends, however it ends, gives up its chance.               *)
LEMMA ChanceGone ==
  ASSUME TypeOK, NEW r \in Requests, pc[r] = "inFlight", NextAttempt(r) \/ Answer(r)
  PROVE  /\ <<r, attempt[r]>> \in Chances /\ <<r, attempt[r]>> \in Open
         /\ Chances' \subseteq Chances \ {<<r, attempt[r]>>}
         /\ Open' \subseteq Open \ {<<r, attempt[r]>>}
         /\ InFlight' \subseteq InFlight
<1>1. /\ attempt \in [Requests -> 1..MaxAttempts] /\ MaxAttempts \in Nat
      /\ pc \in [Requests -> {"new", "known", "inFlight", "answered", "refused"}]
  BY AllRowsType DEF TypeOK
<1>2. <<r, attempt[r]>> \in Chances /\ <<r, attempt[r]>> \in Open
  BY <1>1 DEF Chances, Open, Attempts
<1>3. CASE pc' = [pc EXCEPT ![r] = "answered"] /\ attempt' = attempt
  <2>1. \A q \in Requests : q # r => pc'[q] = pc[q]
    BY <1>1, <1>3
  <2>2. pc'[r] = "answered"
    BY <1>1, <1>3
  <2>3. ASSUME NEW c \in Attempts, c \in Chances'
        PROVE  c \in Chances \ {<<r, attempt[r]>>}
    BY <1>3, <2>1, <2>2, <2>3 DEF Chances, Attempts
  <2>4. ASSUME NEW c \in Attempts, c \in Open'
        PROVE  c \in Open \ {<<r, attempt[r]>>}
    BY <1>3, <2>1, <2>2, <2>4 DEF Open, Attempts
  <2>5. Chances' \subseteq Attempts /\ Open' \subseteq Attempts
    BY DEF Chances, Open, Attempts
  <2>6. InFlight' \subseteq InFlight
    BY <2>1, <2>2 DEF InFlight
  <2>7. QED  BY <1>2, <2>3, <2>4, <2>5, <2>6
<1>4. CASE attempt' = [attempt EXCEPT ![r] = @ + 1] /\ pc' = pc
  <2>1. \A q \in Requests : attempt'[q] >= attempt[q]
    BY <1>1, <1>4
  <2>2. attempt'[r] > attempt[r]
    BY <1>1, <1>4
  <2>3. \A q \in Requests : attempt'[q] \in Nat /\ attempt[q] \in Nat
    BY <1>1, <1>4
  <2>4. ASSUME NEW c \in Attempts
        PROVE  /\ c \in Chances' => c \in Chances \ {<<r, attempt[r]>>}
               /\ c \in Open' => c \in Open \ {<<r, attempt[r]>>}
    <3>1. c[1] \in Requests /\ c[2] \in Nat /\ c = <<c[1], c[2]>>
      BY DEF Attempts
    <3>2. c[2] >= attempt'[c[1]] => c[2] >= attempt[c[1]] /\ c # <<r, attempt[r]>>
      BY <2>1, <2>2, <2>3, <3>1
    <3>3. QED  BY <1>4, <3>2 DEF Chances, Open
  <2>5. Chances' \subseteq Attempts /\ Open' \subseteq Attempts
    BY DEF Chances, Open, Attempts
  <2>6. InFlight' \subseteq InFlight
    BY <1>4 DEF InFlight
  <2>7. QED  BY <1>2, <2>4, <2>5, <2>6
<1>5. QED  BY <1>3, <1>4 DEF NextAttempt, Answer

(* A row comes in place of the chance.                                       *)
LEMMA RowComes ==
  ASSUME TypeOK, TypeOK', QuotaInv, NEW r \in Requests, pc[r] = "inFlight",
         NextAttempt(r) \/ Answer(r), InsertRow, AfterCheck
  PROVE  QuotaInv'
<1> DEFINE c == <<r, attempt[r]>>
<1>1. /\ c \in Chances /\ c \in Open /\ InFlight' \subseteq InFlight
      /\ Chances' \in SUBSET (Chances \ {c}) /\ Open' \in SUBSET (Open \ {c})
  BY ChanceGone
<1> HIDE DEF c
<1>2. PICK u : usage' = usage \cup {u}
  BY DEF InsertRow
<1>3. /\ now' = now /\ peak' = peak /\ UNCHANGED keyVars /\ UNCHANGED seen
      /\ loosestDaily' = loosestDaily /\ loosestMonthly' = loosestMonthly
  BY DEF AfterCheck, keyVars
<1>4. LoosestSoFar'
  BY <1>3, LoosestKept DEF QuotaInv
<1>5. PeakSoFar'
  <2>1. InFlight \in SUBSET Requests /\ InFlight' \in SUBSET Requests
    BY DEF InFlight
  <2>2. Cardinality(InFlight') <= Cardinality(InFlight)
    BY <1>1, <2>1, InFlightFinite, FS_Subset
  <2>3. Cardinality(InFlight') \in Nat /\ Cardinality(InFlight) \in Nat /\ peak \in Nat
    BY <2>1, InFlightFinite DEF TypeOK
  <2>4. QED  BY <1>3, <2>2, <2>3 DEF PeakSoFar, QuotaInv
<1>6. RowsAreFew'
  <2>1. IsFiniteSet(usage) /\ Cardinality(usage) \in Nat
    <3>1. usage \in SUBSET usage
      OBVIOUS
    <3>2. QED  BY <3>1, RowsFinite
  <2>2. /\ Cardinality(usage') <= Cardinality(usage) + 1
        /\ Cardinality(usage') \in Nat
    <3>1. IsFiniteSet(usage') /\ Cardinality(usage') = IF u \in usage THEN Cardinality(usage)
                                                      ELSE Cardinality(usage) + 1
      BY <1>2, <2>1, FS_AddElement
    <3>2. QED  BY <2>1, <3>1
  <2>3. IsFiniteSet(Open \ {c}) /\ Cardinality(Open \ {c}) = Cardinality(Open) - 1
    BY <1>1, ChancesFinite, FS_RemoveElement
  <2>4. /\ Cardinality(Open') <= Cardinality(Open) - 1
        /\ Cardinality(Open') \in Nat /\ Cardinality(Open) \in Nat
    BY <1>1, <2>3, ChancesFinite, ChancesFiniteNext, FS_Subset
  <2>5. QED  BY <2>1, <2>2, <2>4, AllRowsType DEF RowsAreFew, QuotaInv, AllRows
<1>7. Overrun(TodaysRows, loosestDaily)'
  <2>1. TodaysRows' \in SUBSET (TodaysRows \cup {u})
    BY <1>2, <1>3 DEF TodaysRows, Today
  <2>2. Cardinality(TodaysRows') + Cardinality(Chances')
          <= (loosestDaily - 1) + MaxAttempts * peak
    BY <1>1, <2>1, OverrunMoves, RowsCounted DEF QuotaInv, TypeOK
  <2>3. QED  BY <1>3, <2>2 DEF Overrun
<1>8. Overrun(MonthsRows, loosestMonthly)'
  <2>1. MonthsRows' \in SUBSET (MonthsRows \cup {u})
    BY <1>2, <1>3 DEF MonthsRows, Today
  <2>2. Cardinality(MonthsRows') + Cardinality(Chances')
          <= (loosestMonthly - 1) + MaxAttempts * peak
    BY <1>1, <2>1, OverrunMoves, RowsCounted DEF QuotaInv, TypeOK
  <2>3. QED  BY <1>3, <2>2 DEF Overrun
<1>9. QED  BY <1>4, <1>5, <1>6, <1>7, <1>8 DEF QuotaInv
(* A request is admitted: the highest number of requests in flight accounts  *)
(* for the rows it may bring, as its quota was not used up yet.              *)
LEMMA AdmissionCounts ==
  ASSUME TypeOK, TypeOK', QuotaInv, NEW r \in Requests, Check(r), Admit(r),
         ~QuotaReached(seen[r])
  PROVE  QuotaInv'
<1>1. /\ pc[r] = "known" /\ pc' = [pc EXCEPT ![r] = "inFlight"]
      /\ now' = now /\ usage' = usage /\ attempt' = attempt
      /\ UNCHANGED keyVars /\ UNCHANGED seen
      /\ loosestDaily' = loosestDaily /\ loosestMonthly' = loosestMonthly
      /\ peak' = IF Cardinality(InFlight) + 1 > peak THEN Cardinality(InFlight) + 1
                 ELSE peak
      /\ attempt[r] \in 1..MaxAttempts
      /\ pc \in [Requests -> {"new", "known", "inFlight", "answered", "refused"}]
  BY DEF Check, Admit, keyVars, TypeOK
<1>2. /\ peak \in Nat /\ peak' \in Nat /\ loosestDaily \in Nat /\ loosestMonthly \in Nat
      /\ daily \in Quotas /\ Quotas \subseteq Nat
      /\ seen \in [Requests -> [daily : Quotas, monthly : Quotas]]
  BY LimitsAssumption DEF TypeOK
<1>3. InFlight' = InFlight \cup {r} /\ r \notin InFlight
  BY <1>1 DEF InFlight
<1>4. IsFiniteSet(InFlight) /\ Cardinality(InFlight) \in Nat
  <2>1. InFlight \in SUBSET Requests
    BY DEF InFlight
  <2>2. QED  BY <2>1, InFlightFinite
<1>5. IsFiniteSet(InFlight') /\ Cardinality(InFlight') = Cardinality(InFlight) + 1
  BY <1>3, <1>4, FS_AddElement
<1>6. PeakSoFar'
  BY <1>1, <1>2, <1>4, <1>5 DEF PeakSoFar
<1>7. LoosestSoFar'
  BY <1>1, LoosestKept DEF QuotaInv
<1>8. RowsAreFew'
  <2>1. Open' = Open
    BY <1>1 DEF Open, Attempts
  <2>2. QED  BY <1>1, <2>1 DEF RowsAreFew, QuotaInv
<1>9. Cardinality(Chances') \in Nat /\ Cardinality(Chances') <= MaxAttempts * peak'
  <2>1. IsFiniteSet(1..MaxAttempts) /\ Cardinality(1..MaxAttempts) = MaxAttempts
    BY AllRowsType, FS_Interval
  <2>2. /\ IsFiniteSet(InFlight' \X (1..MaxAttempts))
        /\ Cardinality(InFlight' \X (1..MaxAttempts)) = Cardinality(InFlight') * MaxAttempts
    BY <1>5, <2>1, FS_Product
  <2>3. Chances' \in SUBSET (InFlight' \X (1..MaxAttempts))
    BY DEF Chances, Attempts, InFlight
  <2>4. Cardinality(Chances') <= Cardinality(InFlight') * MaxAttempts
    BY <2>2, <2>3, FS_Subset
  <2>5. Cardinality(InFlight') * MaxAttempts <= MaxAttempts * peak'
    <3>1. Cardinality(InFlight') \in Nat /\ Cardinality(InFlight') <= peak'
      BY <1>4, <1>5, <1>6 DEF PeakSoFar
    <3>2. QED  BY <1>2, <3>1, AllRowsType
  <2>6. Cardinality(InFlight') * MaxAttempts \in Nat /\ MaxAttempts * peak' \in Nat
    <3>1. Cardinality(InFlight') \in Nat
      BY <1>4, <1>5
    <3>2. QED  BY <1>2, <3>1, AllRowsType, NatProduct
  <2>7. QED  BY <2>4, <2>5, <2>6, ChancesFiniteNext
<1>10. Cardinality(usage) <= AllRows - 1 /\ Cardinality(usage) \in Nat
  <2>1. <<r, attempt[r]>> \in Open
    BY <1>1 DEF Open, Attempts
  <2>2. Cardinality(Open) # 0
    BY <2>1, ChancesFinite, FS_EmptySet
  <2>3. usage \in SUBSET usage
    OBVIOUS
  <2>4. QED
    BY <2>2, <2>3, ChancesFinite, RowsFinite, AllRowsType DEF RowsAreFew, QuotaInv
<1>11. ASSUME NEW rows \in SUBSET usage, NEW quota \in Nat, NEW limit \in Nat,
              Loosest(quota) <= limit, ~(quota # 0 /\ Cardinality(rows) >= quota)
       PROVE  Cardinality(rows) <= limit - 1 /\ Cardinality(rows) \in Nat
  <2>1. Cardinality(rows) \in Nat
    BY <1>11, RowsFinite
  <2>2. CASE quota = 0
    <3>1. Cardinality(rows) <= Cardinality(usage)
      <4>1. IsFiniteSet(usage)
        <5>1. usage \in SUBSET usage
          OBVIOUS
        <5>2. QED  BY <5>1, RowsFinite
      <4>2. QED  BY <4>1, <1>11, FS_Subset
    <3>2. AllRows <= limit
      BY <1>11, <2>2 DEF Loosest
    <3>3. QED  BY <1>10, <1>11, <2>1, <3>1, <3>2, AllRowsType
  <2>3. CASE quota # 0
    BY <1>11, <2>1, <2>3 DEF Loosest
  <2>4. QED  BY <2>2, <2>3
<1>12. MaxAttempts * peak' \in Nat
  BY <1>2, AllRowsType, NatProduct
<1>13. Overrun(TodaysRows, loosestDaily)'
  <2>1. TodaysRows' = TodaysRows
    BY <1>1 DEF TodaysRows, Today
  <2>2. Cardinality(TodaysRows) <= loosestDaily - 1 /\ Cardinality(TodaysRows) \in Nat
    <3>1. ~(seen[r].daily # 0 /\ Cardinality(TodaysRows) >= seen[r].daily)
      BY DEF QuotaReached, RowsToday, TodaysRows
    <3>2. seen[r].daily \in Nat /\ Loosest(seen[r].daily) <= loosestDaily
      BY <1>2 DEF QuotaInv, LoosestSoFar
    <3>3. QED  BY <1>2, <1>11, <3>1, <3>2, RowsCounted
  <2>3. QED  BY <1>1, <1>2, <1>9, <1>12, <2>1, <2>2 DEF Overrun
<1>14. Overrun(MonthsRows, loosestMonthly)'
  <2>1. MonthsRows' = MonthsRows
    BY <1>1 DEF MonthsRows, Today
  <2>2. Cardinality(MonthsRows) <= loosestMonthly - 1 /\ Cardinality(MonthsRows) \in Nat
    <3>1. ~(seen[r].monthly # 0 /\ Cardinality(MonthsRows) >= seen[r].monthly)
      BY DEF QuotaReached, RowsThisMonth, MonthsRows
    <3>2. seen[r].monthly \in Nat /\ Loosest(seen[r].monthly) <= loosestMonthly
      BY <1>2 DEF QuotaInv, LoosestSoFar
    <3>3. QED  BY <1>2, <1>11, <3>1, <3>2, RowsCounted
  <2>3. QED  BY <1>1, <1>2, <1>9, <1>12, <2>1, <2>2 DEF Overrun
<1>15. QED  BY <1>6, <1>7, <1>8, <1>13, <1>14 DEF QuotaInv

(* Steps that leave requests, rows and clock alone, and do not lower limits. *)
LEMMA CountsKept ==
  ASSUME UNCHANGED <<now, usage>>
  PROVE  TodaysRows' = TodaysRows /\ MonthsRows' = MonthsRows
BY DEF TodaysRows, MonthsRows, Today

LEMMA QuotaInit ==
  ASSUME Init, TypeOK
  PROVE  QuotaInv
<1>1. InFlight = {} /\ Chances = {} /\ TodaysRows = {} /\ MonthsRows = {} /\ usage = {}
  BY DEF Init, InFlight, Chances, TodaysRows, MonthsRows, Attempts
<1>2. Cardinality({}) = 0
  BY FS_EmptySet
<1>3. PeakSoFar /\ RowsAreFew
  BY <1>1, <1>2, ChancesFinite DEF PeakSoFar, RowsAreFew, Init
<1>4. /\ Loosest(daily) \in Nat /\ Loosest(monthly) \in Nat
      /\ Loosest(daily) >= 1 /\ Loosest(monthly) >= 1
  BY AllRowsType, LimitsAssumption DEF Loosest, TypeOK
<1>5. LoosestSoFar
  BY <1>4 DEF Init, LoosestSoFar
<1>6. Overrun(TodaysRows, loosestDaily) /\ Overrun(MonthsRows, loosestMonthly)
  <2>1. MaxAttempts * 0 = 0
    BY AllRowsType
  <2>2. QED  BY <1>1, <1>2, <1>4, <2>1 DEF Init, Overrun
<1>7. QED  BY <1>3, <1>5, <1>6 DEF QuotaInv

LEMMA QuotaStep ==
  ASSUME IInv, IInv', QuotaInv, [Next]_vars
  PROVE  QuotaInv'
<1>1. /\ TypeOK /\ TypeOK' /\ now \in Nat
      /\ pc \in [Requests -> {"new", "known", "inFlight", "answered", "refused"}]
      /\ loosestDaily \in Nat /\ loosestMonthly \in Nat
  <2>1. TypeOK /\ TypeOK'
    BY DEF IInv
  <2>2. now \in Nat
    BY <2>1, TimeAssumption DEF TypeOK, Times
  <2>3. QED  BY <2>1, <2>2 DEF TypeOK
<1>2. ASSUME NEW r \in Requests, Authenticate(r)
      PROVE  QuotaInv'
  <2>1. /\ pc[r] = "new" /\ pc' = [pc EXCEPT ![r] = "known"] /\ attempt' = attempt
        /\ UNCHANGED <<now, usage, peak>> /\ UNCHANGED keyVars
        /\ seen' = [seen EXCEPT ![r] = [daily |-> daily, monthly |-> monthly]]
    BY <1>2 DEF Authenticate
  <2>2. Chances' \subseteq Chances /\ Open' \subseteq Open /\ InFlight' \subseteq InFlight
    BY <1>1, <2>1 DEF Chances, Open, Attempts, InFlight
  <2>3. LoosestSoFar'
    <3>1. \A q \in Requests : seen'[q] = IF q = r THEN [daily |-> daily, monthly |-> monthly]
                                          ELSE seen[q]
      BY <1>1, <2>1 DEF TypeOK
    <3>2. QED  BY <2>1, <3>1 DEF QuotaInv, LoosestSoFar, keyVars, Loosest
  <2>4. loosestDaily' = loosestDaily /\ loosestMonthly' = loosestMonthly
    BY <2>1 DEF keyVars
  <2>5. QED  BY <1>1, <2>1, <2>2, <2>3, <2>4, CountsKept, QuietStep
<1>3. ASSUME NEW r \in Requests, Check(r)
      PROVE  QuotaInv'
  <2>1. CASE ~Exhausted(seen[r]) /\ Admit(r)
    BY <1>1, <1>3, <2>1, AdmissionCounts DEF Exhausted
  <2>2. CASE Refuse(r)
    <3>1. /\ pc' = [pc EXCEPT ![r] = "refused"] /\ UNCHANGED <<now, usage, peak, attempt>>
          /\ UNCHANGED keyVars /\ UNCHANGED seen
      BY <1>3, <2>2 DEF Check, Refuse
    <3>2. Chances' \subseteq Chances /\ Open' \subseteq Open /\ InFlight' \subseteq InFlight
      BY <1>1, <3>1 DEF Chances, Open, Attempts, InFlight
    <3>3. loosestDaily' = loosestDaily /\ loosestMonthly' = loosestMonthly
      BY <3>1 DEF keyVars
    <3>4. LoosestSoFar'
      BY <3>1, LoosestKept DEF QuotaInv
    <3>5. QED  BY <1>1, <3>1, <3>2, <3>3, <3>4, CountsKept, QuietStep
  <2>3. QED  BY <1>3, <2>1, <2>2 DEF Check
<1>4. ASSUME NEW r \in Requests, StreamCounted(r) \/ PlainCounted(r)
      PROVE  QuotaInv'
  <2>1. /\ pc[r] = "inFlight" /\ (NextAttempt(r) \/ Answer(r)) /\ InsertRow /\ AfterCheck
    BY <1>4 DEF StreamCounted, PlainCounted
  <2>2. QED  BY <1>1, <2>1, RowComes
<1>5. ASSUME NEW r \in Requests, Fails(r) \/ AttemptFails(r)
      PROVE  QuotaInv'
  <2>1. /\ pc[r] = "inFlight" /\ (NextAttempt(r) \/ Answer(r))
        /\ UNCHANGED usage /\ AfterCheck
    BY <1>5 DEF Fails, AttemptFails
  <2>2. Chances' \subseteq Chances /\ Open' \subseteq Open /\ InFlight' \subseteq InFlight
    BY <1>1, <2>1, ChanceGone
  <2>3. /\ UNCHANGED <<now, peak>> /\ UNCHANGED keyVars /\ UNCHANGED seen
        /\ loosestDaily' = loosestDaily /\ loosestMonthly' = loosestMonthly
    BY <2>1 DEF AfterCheck, keyVars
  <2>4. LoosestSoFar'
    BY <2>3, LoosestKept DEF QuotaInv
  <2>5. QED  BY <1>1, <2>1, <2>2, <2>3, <2>4, CountsKept, QuietStep
<1>6. ASSUME Tick \/ ResetStatistics
      PROVE  QuotaInv'
  <2>1. /\ UNCHANGED <<pc, attempt, peak>> /\ UNCHANGED keyVars /\ UNCHANGED seen
        /\ loosestDaily' = loosestDaily /\ loosestMonthly' = loosestMonthly
        /\ usage' \subseteq usage /\ now' \in Nat /\ now <= now'
    BY <1>1, <1>6 DEF Tick, ResetStatistics, keyVars
  <2>2. Chances' = Chances /\ Open' = Open /\ InFlight' = InFlight
    BY <2>1 DEF Chances, Open, Attempts, InFlight
  <2>3. Today \in Nat /\ Today' \in Nat /\ Today <= Today'
    BY <1>1, <2>1, DivMono, TimeAssumption DEF Today, Day
  <2>4. Month(Today) \in Nat /\ Month(Today') \in Nat /\ Month(Today) <= Month(Today')
    BY <2>3, DivMono, TimeAssumption DEF Month
  <2>5. ASSUME NEW u \in usage
        PROVE  u.day \in Nat /\ Month(u.day) \in Nat
    <3>1. u.day \in Days
      BY <1>1 DEF TypeOK
    <3>2. u.day \in Nat
      BY <3>1 DEF Days
    <3>3. QED  BY <3>2, DivMono, TimeAssumption DEF Month
  <2>6. TodaysRows' \subseteq TodaysRows
    BY <2>1, <2>3, <2>5 DEF TodaysRows
  <2>7. MonthsRows' \subseteq MonthsRows
    <3>1. ASSUME NEW u \in usage, Month(u.day) >= Month(Today')
          PROVE  Month(u.day) >= Month(Today)
      BY <2>4, <2>5, <3>1
    <3>2. MonthsRows' \subseteq {u \in usage : Month(u.day) >= Month(Today')}
      BY <2>1 DEF MonthsRows, Month
    <3>3. QED  BY <3>1, <3>2 DEF MonthsRows
  <2>8. LoosestSoFar'
    BY <2>1, LoosestKept DEF QuotaInv
  <2>9. QED  BY <1>1, <2>1, <2>2, <2>6, <2>7, <2>8, QuietStep
<1>7. ASSUME NEW d \in Quotas, NEW m \in Quotas, Update(d, m)
      PROVE  QuotaInv'
  <2>1. /\ UNCHANGED <<now, usage, seen, pc, attempt, peak>>
        /\ daily' = d /\ monthly' = m
        /\ loosestDaily' = Higher(Loosest(d), loosestDaily)
        /\ loosestMonthly' = Higher(Loosest(m), loosestMonthly)
    BY <1>7 DEF Update
  <2>2. \A q \in Quotas : Loosest(q) \in Nat
    BY LoosestType
  <2>3. /\ loosestDaily' >= loosestDaily /\ loosestDaily' >= Loosest(d)
        /\ loosestMonthly' >= loosestMonthly /\ loosestMonthly' >= Loosest(m)
        /\ loosestDaily' \in Nat /\ loosestMonthly' \in Nat
    BY <1>1, <2>1, <2>2 DEF Higher
  <2>4. LoosestSoFar'
    <3>1. \A q \in Requests : /\ Loosest(seen[q].daily) \in Nat
                              /\ Loosest(seen[q].monthly) \in Nat
      BY <1>1, <2>2 DEF TypeOK
    <3>2. \A q \in Requests : /\ Loosest(seen[q].daily) <= loosestDaily'
                              /\ Loosest(seen[q].monthly) <= loosestMonthly'
      BY <1>1, <2>3, <3>1 DEF QuotaInv, LoosestSoFar
    <3>3. QED  BY <2>1, <2>3, <3>2 DEF LoosestSoFar, Loosest
  <2>5. Chances' = Chances /\ Open' = Open /\ InFlight' = InFlight
    BY <2>1 DEF Chances, Open, Attempts, InFlight
  <2>6. QED  BY <1>1, <2>1, <2>3, <2>4, <2>5, CountsKept, QuietStep
<1>8. ASSUME Restart
      PROVE  QuotaInv'
  <2>1. /\ UNCHANGED <<now, usage, peak, attempt>> /\ UNCHANGED keyVars /\ UNCHANGED seen
        /\ loosestDaily' = loosestDaily /\ loosestMonthly' = loosestMonthly
    BY <1>8 DEF Restart, keyVars
  <2>2. \A q \in Requests : /\ pc'[q] # "inFlight"
                            /\ pc'[q] \in {"new", "known"} => pc[q] = "new"
    BY <1>1, <1>8 DEF Restart
  <2>3. Chances' \subseteq Chances /\ Open' \subseteq Open /\ InFlight' \subseteq InFlight
    <3>1. \A q \in Requests : pc'[q] \in {"new", "known", "inFlight"}
                                => pc[q] \in {"new", "known", "inFlight"}
      BY <2>2
    <3>2. InFlight' = {} /\ Chances' = {}
      <4>1. \A c \in Attempts : c[1] \in Requests
        BY DEF Attempts
      <4>2. QED  BY <2>2, <4>1 DEF InFlight, Chances, Attempts
    <3>3. Open' \subseteq Open
      BY <2>1, <3>1 DEF Open, Attempts
    <3>4. QED  BY <3>2, <3>3
  <2>4. LoosestSoFar'
    BY <2>1, LoosestKept DEF QuotaInv
  <2>5. QED  BY <1>1, <2>1, <2>3, <2>4, CountsKept, QuietStep
<1>9. CASE UNCHANGED vars
  <2>1. /\ UNCHANGED <<now, usage, peak, attempt, pc>> /\ UNCHANGED keyVars
        /\ UNCHANGED seen
        /\ loosestDaily' = loosestDaily /\ loosestMonthly' = loosestMonthly
    BY <1>9 DEF vars, keyVars
  <2>2. Chances' = Chances /\ Open' = Open /\ InFlight' = InFlight
    BY <2>1 DEF Chances, Open, Attempts, InFlight
  <2>3. LoosestSoFar'
    BY <2>1, LoosestKept DEF QuotaInv
  <2>4. QED  BY <1>1, <2>1, <2>2, <2>3, CountsKept, QuietStep
<1>10. QED
  BY <1>2, <1>3, <1>4, <1>5, <1>6, <1>7, <1>8, <1>9 DEF Next

(* chat.py counts the quota from rows that come long after the check: it can *)
(* be overrun, but never by more than a row for each attempt of the most     *)
(* requests that were in flight at a time.                                   *)
THEOREM QuotaOverrunBounded == Spec => []QuotaOverrun
<1>1. Init => QuotaInv
  BY QuotaInit, InitEstablishes DEF IInv
<1>2. IInv /\ IInv' /\ QuotaInv /\ [Next]_vars => QuotaInv'
  BY QuotaStep
<1>3. IInv /\ QuotaInv => QuotaOverrun
  <2>1. SUFFICES ASSUME IInv, QuotaInv
                 PROVE  QuotaOverrun
    OBVIOUS
  <2>2. /\ Cardinality(TodaysRows) \in Nat /\ Cardinality(MonthsRows) \in Nat
        /\ Cardinality(Chances) \in Nat
    <3>1. TypeOK
      BY <2>1 DEF IInv
    <3>2. QED  BY <3>1, RowsFinite, RowsCounted, ChancesFinite
  <2>3. MaxAttempts * peak \in Nat /\ loosestDaily \in Nat /\ loosestMonthly \in Nat
    <3>1. peak \in Nat /\ loosestDaily \in Nat /\ loosestMonthly \in Nat
      BY <2>1 DEF IInv, TypeOK
    <3>2. QED  BY <3>1, AllRowsType, NatProduct
  <2>4. RowsToday = Cardinality(TodaysRows) /\ RowsThisMonth = Cardinality(MonthsRows)
    BY DEF RowsToday, RowsThisMonth, TodaysRows, MonthsRows
  <2>5. QED  BY <2>1, <2>2, <2>3, <2>4 DEF QuotaInv, Overrun, QuotaOverrun
<1>4. QED  BY <1>1, <1>2, <1>3, Inductive, PTL DEF Spec
===============================================================================
