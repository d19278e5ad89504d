---------------------------- MODULE AdmissionLedger ----------------------------
(***************************************************************************)
(* What the rate limiter promises for one API key, with nothing of how it  *)
(* is done: the verdict on a request depends on which requests this server *)
(* admitted and when, and on whether a quota of the request is used up.    *)
(* Requests that were refused leave no trace, and neither does anything    *)
(* that the server before a restart admitted.                              *)
(*                                                                         *)
(* There is no deque, nothing is popped and no counter is kept: admissions *)
(* are counted anew for every verdict.  KeyLimits keeps a deque of times   *)
(* and a counter for each day instead, and the refinement says that its    *)
(* verdicts are the same, in both directions.                              *)
(***************************************************************************)
EXTENDS Integers, FiniteSets

CONSTANTS Requests,
          PerMinute,   \* admissions within a window
          PerDay,      \* admissions on a day, 0: no limit
          Window, DayLength,
          Never        \* no time

VARIABLES clock,
          admitted,    \* admitted[r]: when r was admitted, or Never
          verdict,     \* verdict[r]: "open", "refused" or "over"
          spent        \* spent[r]: a quota that applies to r is used up

ledgerVars == <<clock, admitted, verdict, spent>>

Since(t)    == Cardinality({r \in Requests : admitted[r] # Never /\ admitted[r] >= t})
DayBegin    == (clock \div DayLength) * DayLength

Room(r) ==
  /\ Since(clock - Window) < PerMinute
  /\ PerDay = 0 \/ Since(DayBegin) < PerDay
  /\ ~spent[r]

LedgerInit ==
  /\ clock = 0
  /\ admitted = [r \in Requests |-> Never]
  /\ verdict = [r \in Requests |-> "open"]
  /\ spent \in [Requests -> BOOLEAN]

Accept(r) ==
  /\ verdict[r] = "open" /\ Room(r)
  /\ verdict' = [verdict EXCEPT ![r] = "over"]
  /\ admitted' = [admitted EXCEPT ![r] = clock]
  /\ UNCHANGED <<clock, spent>>

TurnAway(r) ==
  /\ verdict[r] = "open" /\ ~Room(r)
  /\ verdict' = [verdict EXCEPT ![r] = "refused"]
  /\ UNCHANGED <<clock, admitted, spent>>

(* time passes, quotas are changed or used up *)
Elapse ==
  /\ clock' \in Nat /\ clock' >= clock
  /\ spent' \in [Requests -> BOOLEAN]
  /\ UNCHANGED <<admitted, verdict>>

(* a restart; the verdict on some open requests will not come *)
Forget ==
  /\ admitted' = [r \in Requests |-> Never]
  /\ verdict' \in [Requests -> {"open", "refused", "over"}]
  /\ \A r \in Requests : verdict'[r] = verdict[r]
                           \/ (verdict[r] = "open" /\ verdict'[r] = "over")
  /\ UNCHANGED <<clock, spent>>

LedgerNext ==
  \/ \E r \in Requests : Accept(r) \/ TurnAway(r)
  \/ Elapse \/ Forget

LedgerSpec == LedgerInit /\ [][LedgerNext]_ledgerVars
===============================================================================
