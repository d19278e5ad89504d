---------------------------- MODULE ChatSlots_proofs ---------------------------
(***************************************************************************)
(* Proofs about ChatSlots, for any number of requests, account entries,    *)
(* attempts and administrator operations.                                  *)
(*                                                                         *)
(* The argument: every step of the program does one of three things to the *)
(* slots (takes one for a request that holds none, gives back the one a    *)
(* request holds, leaves them alone).  That a release always finds a slot  *)
(* to give back is NoHoldAndWait, which follows the handlers' control; that*)
(* the counter then counts the holders is SlotConservation; and with both, *)
(* each of the three is a step of SlotLedger.                              *)
(***************************************************************************)
EXTENDS ChatSlots, FiniteSetTheorems, TLAPS

(* What a step of a handler can do to the slots. *)
Takes(r)   == held[r] = None /\ AcquireSlot(r) /\ UNCHANGED <<limit, inPool>>
GivesBack(r) == held[r] # None /\ ReleaseSlot(r) /\ UNCHANGED limit

(* The inductive invariant. *)
IInv == TypeOK /\ NoHoldAndWait /\ SlotConservation

-------------------------------------------------------------------------------
(* Facts about the operators the model is built from *)

(* The entries of the pool are objects that were created, and None is none   *)
(* of them: entries a request can hold are always told apart from "none".    *)
LEMMA EntriesFacts ==
  ASSUME TypeOK
  PROVE  /\ born \in Nat
         /\ 1..born \subseteq Entries
         /\ inPool \subseteq Entries
         /\ None \notin Entries
BY EntriesAssumption DEF TypeOK, Entries

(* The holders of an entry are finitely many: their number is a natural.     *)
LEMMA HoldersFinite ==
  ASSUME NEW e
  PROVE  /\ IsFiniteSet(HoldersOf(e))
         /\ Cardinality(HoldersOf(e)) \in Nat
<1>1. HoldersOf(e) \in SUBSET Requests
  BY DEF HoldersOf
<1>2. IsFiniteSet(HoldersOf(e))
  BY <1>1, RequestsAssumption, FS_Subset
<1>3. QED  BY <1>2, FS_CardinalityType

(* mark_error, mark_success and lock_account keep the flags Boolean.         *)
LEMMA MarksType ==
  ASSUME TypeOK, NEW id
  PROVE  /\ MarkError(id) => cooling' \in [Entries -> BOOLEAN]
         /\ MarkSuccess(id) => cooling' \in [Entries -> BOOLEAN]
         /\ LockAccount(id) => locked' \in [Entries -> BOOLEAN]
BY DEF TypeOK, MarkError, MarkSuccess, LockAccount, Mark

(* acquire hands out an entry of the pool that is below its limit.           *)
LEMMA AcquireTakesFree ==
  ASSUME TypeOK, NEW r \in Requests, AcquireSlot(r)
  PROVE  \E e \in inPool : /\ active[e] < limit[e]
                           /\ active' = [active EXCEPT ![e] = @ + 1]
                           /\ held' = [held EXCEPT ![r] = e]
BY DEF AcquireSlot, Candidates, HasCapacity

(* acquire keeps the types of what it writes.                                *)
LEMMA AcquireType ==
  ASSUME TypeOK, NEW r \in Requests, AcquireSlot(r)
  PROVE  /\ rr' \in Nat
         /\ active' \in [Entries -> Nat]
         /\ held' \in [Requests -> (1..born) \cup {None}]
         /\ held'[r] # None
<1>1. PICK e \in inPool : /\ active' = [active EXCEPT ![e] = @ + 1]
                          /\ held' = [held EXCEPT ![r] = e]
  BY AcquireTakesFree
<1>2. e \in 1..born /\ e \in Entries /\ e # None
  BY EntriesFacts DEF TypeOK
<1>3. IsFiniteSet(Candidates)
  <2>1. Candidates \in SUBSET (1..MaxEntries)
    BY EntriesFacts DEF Candidates, Entries
  <2>2. IsFiniteSet(1..MaxEntries)
    BY FS_Interval, EntriesAssumption
  <2>3. QED  BY <2>1, <2>2, FS_Subset
<1>4. PICK x \in Candidates : rr' = Rank(x, Candidates)
  BY DEF AcquireSlot
<1>5. rr' \in Nat
  <2>1. {y \in Candidates : y < x} \in SUBSET Candidates
    OBVIOUS
  <2>2. IsFiniteSet({y \in Candidates : y < x})
    BY <2>1, <1>3, FS_Subset
  <2>3. QED  BY <2>2, <1>4, FS_CardinalityType DEF Rank
<1>6. QED  BY <1>1, <1>2, <1>5 DEF TypeOK

(* release keeps the types of what it writes.                                *)
LEMMA ReleaseType ==
  ASSUME TypeOK, NEW r \in Requests, held[r] # None, ReleaseSlot(r)
  PROVE  /\ active' \in [Entries -> Nat]
         /\ held' \in [Requests -> (1..born) \cup {None}]
         /\ held'[r] = None
<1>1. held[r] \in Entries /\ active[held[r]] \in Nat
  BY EntriesFacts DEF TypeOK
<1>2. active' \in [Entries -> Nat]
  BY <1>1 DEF TypeOK, ReleaseSlot
<1>3. held' \in [Requests -> (1..born) \cup {None}] /\ held'[r] = None
  BY DEF TypeOK, ReleaseSlot
<1>4. QED  BY <1>2, <1>3

(* The next attempt, or the answer after the last one, keeps the types, and  *)
(* stays within cfg.api.retry_max + 1 attempts.                              *)
LEMMA NextAttemptType ==
  ASSUME TypeOK, NEW r \in Requests, NextAttempt(r)
  PROVE  /\ attempt' \in [Requests -> 1..MaxAttempts]
         /\ late' \in [Requests -> BOOLEAN]
         /\ running' \in Requests \cup {None}
         /\ \/ pc' = [pc EXCEPT ![r] = "waiting"]
            \/ pc' = [pc EXCEPT ![r] = "answered"]
<1>1. attempt[r] \in 1..MaxAttempts
  BY DEF TypeOK
<1>2. CASE /\ attempt[r] < MaxAttempts
           /\ attempt' = [attempt EXCEPT ![r] = @ + 1]
           /\ late' = [late EXCEPT ![r] = FALSE]
           /\ GoOn(r, "waiting")
  <2>1. attempt[r] + 1 \in 1..MaxAttempts
    BY <1>1, <1>2, BoundsAssumption
  <2>2. attempt' \in [Requests -> 1..MaxAttempts]
    BY <1>2, <2>1 DEF TypeOK
  <2>3. QED  BY <1>2, <2>2 DEF TypeOK, GoOn
<1>3. CASE /\ attempt[r] = MaxAttempts
           /\ SameAttempt
           /\ Suspend(r, "answered")
  BY <1>3 DEF TypeOK, SameAttempt, Suspend
<1>4. QED  BY <1>2, <1>3 DEF NextAttempt

-------------------------------------------------------------------------------
(* What the steps do to the slots *)

(* A step of a handler takes a slot for a request that holds none, gives     *)
(* back one that it holds, or leaves the slots alone; its limits are those   *)
(* of the administrator.                                                     *)
LEMMA LoopStepSlots ==
  ASSUME TypeOK, NoHoldAndWait, NEW r \in Requests, LoopStep(r)
  PROVE  \/ Takes(r)
         \/ GivesBack(r)
         \/ KeepSlots /\ UNCHANGED limit
<1> USE DEF NoHoldAndWait, Waiting, Working, poolVars
<1>1. CASE Acquire(r)
  BY <1>1 DEF Acquire, Takes
<1>2. CASE NothingFree(r)            BY <1>2 DEF NothingFree
<1>3. CASE CountActive(r)            BY <1>3 DEF CountActive
<1>4. CASE LoginFailed(r)            BY <1>4 DEF LoginFailed, GivesBack
<1>5. CASE DispatchStream(r)         BY <1>5 DEF DispatchStream
<1>6. CASE DispatchStreamDbError(r)  BY <1>6 DEF DispatchStreamDbError
<1>7. CASE GeneratorStarts(r)        BY <1>7 DEF GeneratorStarts
<1>8. CASE ClientGoneBeforeStart(r)  BY <1>8 DEF ClientGoneBeforeStart
<1>9. CASE ClientGoneAtYield(r)      BY <1>9 DEF ClientGoneAtYield
<1>10. CASE StreamFinally(r)         BY <1>10 DEF StreamFinally, GivesBack
<1>11. CASE StreamRemoved(r)         BY <1>11 DEF StreamRemoved
<1>12. CASE DispatchPlain(r)         BY <1>12 DEF DispatchPlain
<1>13. CASE PlainSucceeds(r)         BY <1>13 DEF PlainSucceeds, GivesBack
<1>14. CASE PlainRemoved(r)          BY <1>14 DEF PlainRemoved, GivesBack
<1>15. CASE PlainFails(r)            BY <1>15 DEF PlainFails, GivesBack
<1>16. QED
  BY <1>1, <1>2, <1>3, <1>4, <1>5, <1>6, <1>7, <1>8, <1>9, <1>10, <1>11,
     <1>12, <1>13, <1>14, <1>15 DEF LoopStep

(* Logins, deadlines, cooldowns and administrators take and give no slot.    *)
LEMMA OtherStepsKeepSlots ==
  /\ \A r \in Requests :
       LoginThread(r) \/ DeadlinePasses(r) => KeepSlots /\ UNCHANGED limit
  /\ Environment => KeepSlots
<1>1. ASSUME NEW r \in Requests, LoginThread(r) \/ DeadlinePasses(r)
      PROVE  KeepSlots /\ UNCHANGED limit
  BY <1>1 DEF LoginThread, LoginSucceeds, LoginFails, DeadlinePasses, poolVars
<1>2. ASSUME Environment
      PROVE  KeepSlots
  BY <1>2 DEF Environment, BackgroundLogin, CooldownEnds, DeleteAccount,
              Settings, Toggle, AddAccount, AdminStep
<1>3. QED  BY <1>1, <1>2

-------------------------------------------------------------------------------
(* The counter counts the holders *)

(* A step that leaves the slots alone leaves the count right.                *)
LEMMA KeepingConserves ==
  ASSUME SlotConservation, KeepSlots
  PROVE  SlotConservation'
BY DEF SlotConservation, KeepSlots, HoldersOf

(* Taking a slot adds one holder to one entry, and one to its counter.       *)
LEMMA TakingConserves ==
  ASSUME TypeOK, SlotConservation, NEW r \in Requests, Takes(r)
  PROVE  SlotConservation'
<1>1. PICK e \in inPool : /\ active' = [active EXCEPT ![e] = @ + 1]
                          /\ held' = [held EXCEPT ![r] = e]
  BY AcquireTakesFree DEF Takes
<1>2. e \in Entries
  BY EntriesFacts
<1>3. SUFFICES ASSUME NEW x \in Entries
               PROVE  active'[x] = Cardinality(HoldersOf(x)')
  BY DEF SlotConservation
<1>4. active[x] = Cardinality(HoldersOf(x))
  BY DEF SlotConservation
<1>5. CASE x = e
  <2>1. HoldersOf(x)' = HoldersOf(x) \cup {r} /\ r \notin HoldersOf(x)
    BY <1>1, <1>2, <1>5, EntriesFacts DEF HoldersOf, Takes, TypeOK
  <2>2. Cardinality(HoldersOf(x)') = Cardinality(HoldersOf(x)) + 1
    BY <2>1, HoldersFinite, FS_AddElement
  <2>3. active'[x] = active[x] + 1
    BY <1>1, <1>2, <1>5 DEF TypeOK
  <2>4. QED  BY <1>4, <2>2, <2>3
<1>6. CASE x # e
  <2>1. HoldersOf(x)' = HoldersOf(x)
    BY <1>1, <1>6, EntriesFacts DEF HoldersOf, Takes, TypeOK
  <2>2. active'[x] = active[x]
    BY <1>1, <1>6 DEF TypeOK
  <2>3. QED  BY <1>4, <2>1, <2>2
<1>7. QED  BY <1>5, <1>6

(* Giving a slot back takes one holder off one entry and one off its         *)
(* counter, which is above zero: the guard of release never bites.           *)
LEMMA GivingBackConserves ==
  ASSUME TypeOK, SlotConservation, NEW r \in Requests, GivesBack(r)
  PROVE  SlotConservation'
<1> DEFINE e == held[r]
<1>1. e \in Entries /\ held' = [held EXCEPT ![r] = None]
  BY EntriesFacts DEF GivesBack, ReleaseSlot, TypeOK
<1>2. r \in HoldersOf(e) /\ active[e] = Cardinality(HoldersOf(e))
  BY <1>1 DEF HoldersOf, SlotConservation
<1>3. active[e] > 0
  BY <1>2, HoldersFinite, FS_EmptySet
<1>4. active' = [active EXCEPT ![e] = @ - 1]
  BY <1>1, <1>3 DEF GivesBack, ReleaseSlot, TypeOK
<1>5. SUFFICES ASSUME NEW x \in Entries
               PROVE  active'[x] = Cardinality(HoldersOf(x)')
  BY DEF SlotConservation
<1>6. CASE x = e
  <2>1. HoldersOf(x)' = HoldersOf(x) \ {r}
    BY <1>1, <1>6, EntriesFacts DEF HoldersOf, TypeOK
  <2>2. Cardinality(HoldersOf(x)') = Cardinality(HoldersOf(x)) - 1
    BY <1>2, <1>6, <2>1, HoldersFinite, FS_RemoveElement
  <2>3. active'[x] = active[x] - 1
    BY <1>4, <1>6 DEF TypeOK
  <2>4. QED  BY <1>2, <1>6, <2>2, <2>3
<1>7. CASE x # e
  <2>1. HoldersOf(x)' = HoldersOf(x)
    BY <1>1, <1>7, EntriesFacts DEF HoldersOf, TypeOK
  <2>2. active'[x] = active[x]
    BY <1>4, <1>7 DEF TypeOK
  <2>3. QED  BY <2>1, <2>2 DEF SlotConservation
<1>8. QED  BY <1>6, <1>7

-------------------------------------------------------------------------------
(* Types *)

(* A step of a handler keeps every variable in its type.                     *)
LEMMA LoopStepType ==
  ASSUME TypeOK, NoHoldAndWait, NEW r \in Requests, LoopStep(r)
  PROVE  TypeOK'
<1> USE DEF poolVars, KeepSlots, SameAttempt, Suspend, GoOn, PcValues, Waiting,
            Working
<1>1. CASE Acquire(r)
  BY <1>1, AcquireType DEF Acquire, TypeOK
<1>2. CASE NothingFree(r)            BY <1>2 DEF NothingFree, TypeOK
<1>3. CASE CountActive(r)            BY <1>3 DEF CountActive, TypeOK
<1>4. CASE LoginFailed(r)
  <2>1. held[r] # None
    BY <1>4 DEF LoginFailed, NoHoldAndWait
  <2>2. QED
    BY <1>4, <2>1, ReleaseType, NextAttemptType DEF LoginFailed, TypeOK
<1>5. CASE DispatchStream(r)         BY <1>5 DEF DispatchStream, TypeOK
<1>6. CASE DispatchStreamDbError(r)  BY <1>6 DEF DispatchStreamDbError, TypeOK
<1>7. CASE GeneratorStarts(r)        BY <1>7 DEF GeneratorStarts, TypeOK
<1>8. CASE ClientGoneBeforeStart(r)  BY <1>8 DEF ClientGoneBeforeStart, TypeOK
<1>9. CASE ClientGoneAtYield(r)     BY <1>9 DEF ClientGoneAtYield, TypeOK
<1>10. CASE StreamFinally(r)
  <2>1. held[r] # None
    BY <1>10 DEF StreamFinally, NoHoldAndWait
  <2>2. QED  BY <1>10, <2>1, ReleaseType DEF StreamFinally, TypeOK
<1>11. CASE StreamRemoved(r)         BY <1>11 DEF StreamRemoved, TypeOK
<1>12. CASE DispatchPlain(r)         BY <1>12 DEF DispatchPlain, TypeOK
<1>13. CASE PlainSucceeds(r)
  <2>1. held[r] # None
    BY <1>13 DEF PlainSucceeds, NoHoldAndWait
  <2>2. cooling' \in [Entries -> BOOLEAN]
    BY <1>13, MarksType DEF PlainSucceeds
  <2>3. QED  BY <1>13, <2>1, <2>2, ReleaseType DEF PlainSucceeds, TypeOK
<1>14. CASE PlainRemoved(r)
  <2>1. held[r] # None
    BY <1>14 DEF PlainRemoved, NoHoldAndWait
  <2>2. QED  BY <1>14, <2>1, ReleaseType DEF PlainRemoved, TypeOK
<1>15. CASE PlainFails(r)
  <2>1. held[r] # None
    BY <1>15 DEF PlainFails, NoHoldAndWait
  <2>2. cooling' \in [Entries -> BOOLEAN]
    BY <1>15, MarksType DEF PlainFails
  <2>3. QED
    BY <1>15, <2>1, <2>2, ReleaseType, NextAttemptType DEF PlainFails, TypeOK
<1>16. QED
  BY <1>1, <1>2, <1>3, <1>4, <1>5, <1>6, <1>7, <1>8, <1>9, <1>10, <1>11,
     <1>12, <1>13, <1>14, <1>15 DEF LoopStep

(* So do the logins and the deadlines of a request.                          *)
LEMMA ThreadStepType ==
  ASSUME TypeOK, NEW r \in Requests, LoginThread(r) \/ DeadlinePasses(r)
  PROVE  TypeOK'
<1> USE DEF poolVars, KeepSlots, SameAttempt, PcValues, Waiting, Working
<1>1. CASE LoginSucceeds(r)
  <2>1. cooling' \in [Entries -> BOOLEAN]
    BY <1>1, MarksType DEF LoginSucceeds, TypeOK
  <2>2. QED  BY <1>1, <2>1 DEF LoginSucceeds, TypeOK
<1>2. CASE LoginFails(r)
  <2>1. cooling' \in [Entries -> BOOLEAN] /\ locked' \in [Entries -> BOOLEAN]
    BY <1>2, MarksType DEF LoginFails, TypeOK
  <2>2. QED  BY <1>2, <2>1 DEF LoginFails, TypeOK
<1>3. CASE DeadlinePasses(r)
  BY <1>3 DEF DeadlinePasses, TypeOK
<1>4. QED  BY <1>1, <1>2, <1>3 DEF LoginThread

(* So do the warm-up, the cooldowns and the administrator.                   *)
LEMMA EnvironmentType ==
  ASSUME TypeOK, Environment
  PROVE  TypeOK'
<1> USE DEF poolVars, KeepSlots, SameAttempt
<1>1. ASSUME outside < MaxOutside, outside' = outside + 1
      PROVE  outside' \in 0..MaxOutside
  BY <1>1, BoundsAssumption DEF TypeOK
<1>2. ASSUME NEW e \in Entries, BackgroundLogin(e)
      PROVE  TypeOK'
  <2>1. cooling' \in [Entries -> BOOLEAN] /\ locked' \in [Entries -> BOOLEAN]
    BY <1>2, MarksType DEF BackgroundLogin, TypeOK
  <2>2. QED  BY <1>1, <1>2, <2>1 DEF BackgroundLogin, TypeOK
<1>3. ASSUME NEW e \in Entries, CooldownEnds(e)
      PROVE  TypeOK'
  BY <1>3 DEF CooldownEnds, TypeOK
<1>4. ASSUME NEW e \in Entries, DeleteAccount(e)
      PROVE  TypeOK'
  BY <1>1, <1>4 DEF DeleteAccount, AdminStep, ReloadLocked, TypeOK
<1>5. ASSUME NEW e \in Entries, NEW n \in Limits, Settings(e, n)
      PROVE  TypeOK'
  BY <1>1, <1>5 DEF Settings, AdminStep, TypeOK
<1>6. ASSUME Toggle
      PROVE  TypeOK'
  BY <1>1, <1>6 DEF Toggle, AdminStep, ReloadLocked, TypeOK
<1>7. ASSUME NEW id \in Ids, NEW n \in Limits, AddAccount(id, n)
      PROVE  TypeOK'
  <2>1. /\ born' \in 0..MaxEntries
        /\ inPool' \subseteq 1..born'
        /\ 1..born \subseteq 1..born'
    BY <1>7, EntriesAssumption DEF AddAccount, TypeOK
  <2>2. acct' \in [Entries -> Nat] /\ limit' \in [Entries -> Limits]
    BY <1>7, IdsAssumption DEF AddAccount, TypeOK
  <2>3. held' \in [Requests -> (1..born') \cup {None}]
    BY <1>7, <2>1 DEF AddAccount, AdminStep, TypeOK
  <2>4. QED
    BY <1>1, <1>7, <2>1, <2>2, <2>3
       DEF AddAccount, AdminStep, ReloadLocked, TypeOK
<1>8. QED
  BY <1>2, <1>3, <1>4, <1>5, <1>6, <1>7 DEF Environment

-------------------------------------------------------------------------------
(* Control: who waits holds nothing, who works holds a slot *)

(* A step of the handler of r leaves where the others are and what they hold *)
(* alone, and keeps r's own place and slot together.                         *)
LEMMA LoopStepControl ==
  ASSUME TypeOK, NoHoldAndWait, NEW r \in Requests, LoopStep(r)
  PROVE  /\ pc' = [pc EXCEPT ![r] = pc'[r]]
         /\ held' = [held EXCEPT ![r] = held'[r]]
         /\ pc'[r] \in Waiting => held'[r] = None
         /\ pc'[r] \in Working => held'[r] # None
<1> USE DEF KeepSlots, Suspend, GoOn, Waiting, Working
<1>1. CASE Acquire(r)
  <2>1. PICK e \in inPool : held' = [held EXCEPT ![r] = e]
    BY <1>1, AcquireTakesFree DEF Acquire
  <2>2. e # None
    BY EntriesFacts
  <2>3. QED  BY <1>1, <2>1, <2>2 DEF Acquire, TypeOK
<1>2. CASE NothingFree(r)
  BY <1>2 DEF NothingFree, NoHoldAndWait, TypeOK
<1>3. CASE CountActive(r)
  BY <1>3 DEF CountActive, NoHoldAndWait, TypeOK
<1>4. CASE LoginFailed(r)
  BY <1>4, NextAttemptType DEF LoginFailed, ReleaseSlot, TypeOK
<1>5. CASE DispatchStream(r)
  BY <1>5 DEF DispatchStream, NoHoldAndWait, TypeOK
<1>6. CASE DispatchStreamDbError(r)
  BY <1>6 DEF DispatchStreamDbError, NoHoldAndWait, TypeOK
<1>7. CASE GeneratorStarts(r)
  BY <1>7 DEF GeneratorStarts, NoHoldAndWait, TypeOK
<1>8. CASE ClientGoneBeforeStart(r)
  BY <1>8 DEF ClientGoneBeforeStart, NoHoldAndWait, TypeOK
<1>9. CASE ClientGoneAtYield(r)
  BY <1>9 DEF ClientGoneAtYield, NoHoldAndWait, TypeOK
<1>10. CASE StreamFinally(r)
  BY <1>10 DEF StreamFinally, ReleaseSlot, TypeOK
<1>11. CASE StreamRemoved(r)
  BY <1>11 DEF StreamRemoved, TypeOK
<1>12. CASE DispatchPlain(r)
  BY <1>12 DEF DispatchPlain, NoHoldAndWait, TypeOK
<1>13. CASE PlainSucceeds(r)
  BY <1>13 DEF PlainSucceeds, ReleaseSlot, NoHoldAndWait, TypeOK
<1>14. CASE PlainRemoved(r)
  BY <1>14 DEF PlainRemoved, ReleaseSlot, TypeOK
<1>15. CASE PlainFails(r)
  BY <1>15, NextAttemptType DEF PlainFails, ReleaseSlot, TypeOK
<1>16. QED
  BY <1>1, <1>2, <1>3, <1>4, <1>5, <1>6, <1>7, <1>8, <1>9, <1>10, <1>11,
     <1>12, <1>13, <1>14, <1>15 DEF LoopStep

(* Every step keeps waiting requests without a slot and working ones with    *)
(* one.                                                                      *)
LEMMA NextControl ==
  ASSUME TypeOK, NoHoldAndWait, Next
  PROVE  NoHoldAndWait'
<1>1. ASSUME NEW r \in Requests, LoopStep(r)
      PROVE  NoHoldAndWait'
  BY <1>1, LoopStepControl DEF NoHoldAndWait, TypeOK
<1>2. ASSUME NEW r \in Requests, LoginThread(r) \/ DeadlinePasses(r)
      PROVE  NoHoldAndWait'
  <2>1. /\ pc' = [pc EXCEPT ![r] = pc'[r]]
        /\ pc'[r] \in Waiting => pc[r] \in Waiting
        /\ pc'[r] \in Working => pc[r] \in Working
    BY <1>2 DEF LoginThread, LoginSucceeds, LoginFails, DeadlinePasses, TypeOK,
                Waiting, Working
  <2>2. held' = held
    BY <1>2, OtherStepsKeepSlots DEF KeepSlots
  <2>3. QED  BY <2>1, <2>2 DEF NoHoldAndWait, TypeOK
<1>3. ASSUME Environment
      PROVE  NoHoldAndWait'
  <2>1. pc' = pc
    BY <1>3 DEF Environment, BackgroundLogin, CooldownEnds, DeleteAccount,
                Settings, Toggle, AddAccount, AdminStep
  <2>2. held' = held
    BY <1>3, OtherStepsKeepSlots DEF KeepSlots
  <2>3. QED  BY <2>1, <2>2 DEF NoHoldAndWait
<1>4. QED  BY <1>1, <1>2, <1>3 DEF Next

-------------------------------------------------------------------------------
(* The inductive invariant *)

LEMMA InitIInv == Init => IInv
<1> SUFFICES ASSUME Init PROVE IInv
  OBVIOUS
<1>1. TypeOK
  BY EntriesAssumption, LimitsAssumption, BoundsAssumption
     DEF Init, TypeOK, Entries, PcValues, Waiting
<1>2. NoHoldAndWait
  BY DEF Init, NoHoldAndWait, Waiting, Working
<1>3. ASSUME NEW e \in Entries
      PROVE  active[e] = Cardinality(HoldersOf(e))
  <2>1. HoldersOf(e) = {}
    BY <1>1, EntriesFacts DEF Init, HoldersOf
  <2>2. QED  BY <2>1, FS_EmptySet DEF Init
<1>4. QED  BY <1>1, <1>2, <1>3 DEF IInv, SlotConservation

LEMMA StepIInv == IInv /\ [Next]_vars => IInv'
<1>1. ASSUME IInv, Next
      PROVE  IInv'
  <2> USE <1>1 DEF IInv
  <2>1. TypeOK'
    BY LoopStepType, ThreadStepType, EnvironmentType DEF Next
  <2>2. NoHoldAndWait'
    BY NextControl
  <2>3. SlotConservation'
    BY LoopStepSlots, OtherStepsKeepSlots, TakingConserves, GivingBackConserves,
       KeepingConserves DEF Next
  <2>4. QED  BY <2>1, <2>2, <2>3
<1>2. ASSUME IInv, UNCHANGED vars
      PROVE  IInv'
  BY <1>2 DEF IInv, TypeOK, NoHoldAndWait, SlotConservation, HoldersOf, vars
<1>3. QED  BY <1>1, <1>2

(* The inductive invariant holds in every reachable state.                   *)
THEOREM Inductive == Spec => []IInv
BY InitIInv, StepIInv, PTL DEF Spec

(* Every variable has its type, and no request makes more than               *)
(* cfg.api.retry_max + 1 attempts.                                           *)
THEOREM TypeCorrect == Spec => []TypeOK
<1>1. IInv => TypeOK
  BY DEF IInv
<1>2. QED  BY <1>1, Inductive, PTL

(* account_pool.py: active_requests counts the requests between acquire and  *)
(* release, through retries, reloads, deletions and cancellations.           *)
THEOREM CountersCountHolders == Spec => []SlotConservation
<1>1. IInv => SlotConservation
  BY DEF IInv
<1>2. QED  BY <1>1, Inductive, PTL

(* chat.py: no path leads back to _acquire_with_wait with a slot in hand, so *)
(* requests never wait for each other's slots in a circle.                   *)
THEOREM NeverHoldsAndWaits == Spec => []NoHoldAndWait
<1>1. IInv => NoHoldAndWait
  BY DEF IInv
<1>2. QED  BY <1>1, Inductive, PTL

-------------------------------------------------------------------------------
(* The refinement *)

(* Every step of the program is a step of the ledger or leaves it alone.     *)
LEMMA StepLedger ==
  ASSUME IInv, [Next]_vars
  PROVE  [Ledger!LedgerNext]_(Ledger!ledgerVars)
<1> USE DEF IInv, Ledger!ledgerVars
<1>1. limit' \in [Entries -> Nat \ {0}]
  BY StepIInv, LimitsAssumption DEF TypeOK
<1>2. ASSUME KeepSlots
      PROVE  [Ledger!LedgerNext]_(Ledger!ledgerVars)
  BY <1>1, <1>2 DEF KeepSlots, Ledger!LedgerNext, Ledger!Retune
<1>3. ASSUME NEW r \in Requests, Takes(r)
      PROVE  Ledger!LedgerNext
  <2>1. PICK e \in inPool : /\ active[e] < limit[e]
                            /\ held' = [held EXCEPT ![r] = e]
    BY <1>3, AcquireTakesFree DEF Takes
  <2>2. e \in Entries
    BY EntriesFacts
  <2>3. Ledger!Used(e) = active[e]
    <3>1. Ledger!Used(e) = Cardinality(HoldersOf(e))
      BY DEF Ledger!Used, HoldersOf, Ledger!Cardinality, Cardinality
    <3>2. QED  BY <2>2, <3>1 DEF SlotConservation
  <2>4. Ledger!Take(r, e)
    BY <1>3, <2>1, <2>3 DEF Takes, Ledger!Take
  <2>5. QED  BY <2>2, <2>4 DEF Ledger!LedgerNext
<1>4. ASSUME NEW r \in Requests, GivesBack(r)
      PROVE  Ledger!LedgerNext
  BY <1>4 DEF GivesBack, ReleaseSlot, Ledger!Give, Ledger!LedgerNext
<1>5. CASE Next
  BY <1>2, <1>3, <1>4, <1>5, LoopStepSlots, OtherStepsKeepSlots DEF Next
<1>6. CASE UNCHANGED vars
  BY <1>2, <1>6 DEF vars, KeepSlots
<1>7. QED  BY <1>5, <1>6

(* The account pool with its counters implements the ledger: a slot is       *)
(* handed out only while fewer requests than the limit in force hold one of  *)
(* that entry, and a holder stops holding only by giving its slot back.      *)
THEOREM PoolImplementsLedger == Spec => ImplementsLedger
<1>1. Init => Ledger!LedgerInit
  BY LimitsAssumption DEF Init, Ledger!LedgerInit
<1>2. IInv /\ [Next]_vars => [Ledger!LedgerNext]_(Ledger!ledgerVars)
  BY StepLedger
<1>3. QED
  BY <1>1, <1>2, Inductive, PTL DEF Spec, ImplementsLedger, Ledger!LedgerSpec
-------------------------------------------------------------------------------
(* Slots that are never given back *)

(* Who only removes the conversation of a finished stream has released, and  *)
(* only streams have generators.                                             *)
Leaving ==
  \A r \in Requests : /\ pc[r] = "streamRemoving" => held[r] = None
                      /\ pc[r] \in {"unstarted", "streaming", "abandoned"}
                           => kind[r] = "stream"

LEMMA LeavingLoopStep ==
  ASSUME IInv, Leaving, NEW r \in Requests, LoopStep(r)
  PROVE  /\ kind' = kind
         /\ pc'[r] = "streamRemoving" => held'[r] = None
         /\ pc'[r] \in {"unstarted", "streaming", "abandoned"} => kind[r] = "stream"
<1> USE DEF KeepSlots, Suspend, GoOn, SameAttempt
<1>1. pc \in [Requests -> PcValues] /\ held \in [Requests -> (1..born) \cup {None}]
  BY DEF IInv, TypeOK
<1>2. ReleaseSlot(r) => held'[r] = None
  BY <1>1 DEF ReleaseSlot
<1>3. NextAttempt(r) => pc'[r] \in {"waiting", "answered"}
  BY <1>1 DEF NextAttempt
<1>4. CASE Acquire(r)                BY <1>1, <1>4 DEF Acquire
<1>5. CASE NothingFree(r)            BY <1>1, <1>5 DEF NothingFree
<1>6. CASE CountActive(r)            BY <1>1, <1>6 DEF CountActive
<1>7. CASE LoginFailed(r)            BY <1>3, <1>7 DEF LoginFailed
<1>8. CASE DispatchStream(r)         BY <1>1, <1>8 DEF DispatchStream
<1>9. CASE DispatchStreamDbError(r)  BY <1>1, <1>9 DEF DispatchStreamDbError
<1>10. CASE GeneratorStarts(r)       BY <1>1, <1>10 DEF GeneratorStarts, Leaving
<1>11. CASE ClientGoneBeforeStart(r) BY <1>1, <1>11 DEF ClientGoneBeforeStart
<1>12. CASE ClientGoneAtYield(r)     BY <1>1, <1>12 DEF ClientGoneAtYield, Leaving
<1>13. CASE StreamFinally(r)         BY <1>1, <1>2, <1>13 DEF StreamFinally
<1>14. CASE StreamRemoved(r)         BY <1>1, <1>14 DEF StreamRemoved
<1>15. CASE DispatchPlain(r)         BY <1>1, <1>15 DEF DispatchPlain
<1>16. CASE PlainSucceeds(r)         BY <1>1, <1>16 DEF PlainSucceeds
<1>17. CASE PlainRemoved(r)          BY <1>1, <1>17 DEF PlainRemoved
<1>18. CASE PlainFails(r)            BY <1>1, <1>3, <1>18 DEF PlainFails
<1>19. QED
  BY <1>4, <1>5, <1>6, <1>7, <1>8, <1>9, <1>10, <1>11, <1>12, <1>13, <1>14,
     <1>15, <1>16, <1>17, <1>18 DEF LoopStep

(* What logins, deadlines and the administrator do to the handlers: no       *)
(* request is answered by them.                                              *)
LEMMA OthersAnswerNobody ==
  ASSUME IInv,
         \/ Environment \/ UNCHANGED vars
         \/ \E r \in Requests : LoginThread(r) \/ DeadlinePasses(r)
  PROVE  /\ held' = held /\ kind' = kind
         /\ \A q \in Requests :
              pc'[q] = pc[q] \/ pc'[q] \in {"loggedIn", "loginFailed"}
<1>1. pc \in [Requests -> PcValues]
  BY DEF IInv, TypeOK
<1>2. ASSUME NEW r \in Requests, LoginThread(r) \/ DeadlinePasses(r)
      PROVE  /\ held' = held /\ kind' = kind
             /\ \A q \in Requests :
                  pc'[q] = pc[q] \/ pc'[q] \in {"loggedIn", "loginFailed"}
  BY <1>1, <1>2 DEF LoginThread, LoginSucceeds, LoginFails, DeadlinePasses, KeepSlots
<1>3. ASSUME Environment
      PROVE  held' = held /\ kind' = kind /\ pc' = pc
  BY <1>3 DEF Environment, BackgroundLogin, CooldownEnds, DeleteAccount, Settings,
              Toggle, AddAccount, AdminStep, KeepSlots
<1>4. CASE UNCHANGED vars
  BY <1>4 DEF vars
<1>5. QED  BY <1>2, <1>3, <1>4

LEMMA LeavingStep ==
  ASSUME IInv, Leaving, [Next]_vars
  PROVE  Leaving'
<1>1. ASSUME NEW r \in Requests, LoopStep(r)
      PROVE  Leaving'
  <2>1. /\ pc' = [pc EXCEPT ![r] = pc'[r]] /\ held' = [held EXCEPT ![r] = held'[r]]
        /\ pc \in [Requests -> PcValues]
        /\ held \in [Requests -> (1..born) \cup {None}]
    BY <1>1, LoopStepControl DEF IInv, TypeOK
  <2>2. /\ kind' = kind
        /\ pc'[r] = "streamRemoving" => held'[r] = None
        /\ pc'[r] \in {"unstarted", "streaming", "abandoned"} => kind[r] = "stream"
    BY <1>1, LeavingLoopStep
  <2>3. \A q \in Requests : q # r => pc'[q] = pc[q] /\ held'[q] = held[q]
    BY <2>1
  <2>4. QED  BY <2>2, <2>3 DEF Leaving
<1>2. ASSUME \/ Environment \/ UNCHANGED vars
             \/ \E r \in Requests : LoginThread(r) \/ DeadlinePasses(r)
      PROVE  Leaving'
  BY <1>2, OthersAnswerNobody DEF Leaving
<1>3. QED  BY <1>1, <1>2 DEF Next

LEMMA AlwaysLeaving == Spec => []Leaving
<1>1. Init => Leaving
  BY DEF Init, Leaving
<1>2. IInv /\ Leaving /\ [Next]_vars => Leaving'
  BY LeavingStep
<1>3. QED  BY <1>1, <1>2, Inductive, PTL DEF Spec

(* A handler that ends with a slot in hand is that of a stream which was     *)
(* dispatched, or was about to be, and whose generator did not start.        *)
LEMMA LoopStepLeaks ==
  ASSUME IInv, Leaving, NEW r \in Requests, LoopStep(r),
         pc[r] # "answered", pc'[r] = "answered", held'[r] # None
  PROVE  kind[r] = "stream" /\ pc[r] \in {"loggedIn", "unstarted"}
<1> USE DEF KeepSlots, Suspend, GoOn, SameAttempt
<1>1. pc \in [Requests -> PcValues] /\ held \in [Requests -> (1..born) \cup {None}]
  BY DEF IInv, TypeOK
<1>2. /\ pc[r] \in Waiting => held[r] = None
      /\ ReleaseSlot(r) => held'[r] = None
  BY <1>1 DEF IInv, NoHoldAndWait, ReleaseSlot
<1>3. pc'[r] \in Waiting => held'[r] = None
  BY LoopStepControl DEF IInv
<1>4. CASE Acquire(r)                BY <1>1, <1>4 DEF Acquire
<1>5. CASE NothingFree(r)            BY <1>1, <1>5 DEF NothingFree
<1>6. CASE CountActive(r)            BY <1>2, <1>6 DEF CountActive, Waiting
<1>7. CASE LoginFailed(r)            BY <1>2, <1>7 DEF LoginFailed
<1>8. CASE DispatchStream(r)         BY <1>1, <1>8 DEF DispatchStream
<1>9. CASE DispatchStreamDbError(r)  BY <1>9 DEF DispatchStreamDbError
<1>10. CASE GeneratorStarts(r)       BY <1>1, <1>10 DEF GeneratorStarts
<1>11. CASE ClientGoneBeforeStart(r)
  BY <1>11 DEF ClientGoneBeforeStart, Leaving
<1>12. CASE ClientGoneAtYield(r)     BY <1>1, <1>12 DEF ClientGoneAtYield
<1>13. CASE StreamFinally(r)         BY <1>2, <1>13 DEF StreamFinally
<1>14. CASE StreamRemoved(r)
  BY <1>1, <1>14 DEF StreamRemoved, Leaving
<1>15. CASE DispatchPlain(r)         BY <1>1, <1>15 DEF DispatchPlain
<1>16. CASE PlainSucceeds(r)         BY <1>1, <1>2, <1>16 DEF PlainSucceeds
<1>17. CASE PlainRemoved(r)          BY <1>2, <1>17 DEF PlainRemoved
<1>18. CASE PlainFails(r)            BY <1>2, <1>18 DEF PlainFails
<1>19. QED
  BY <1>4, <1>5, <1>6, <1>7, <1>8, <1>9, <1>10, <1>11, <1>12, <1>13, <1>14,
     <1>15, <1>16, <1>17, <1>18 DEF LoopStep

(* chat.py:334, chat.py:446: the only requests that are answered with a slot *)
(* in hand are streams whose generator did not start.                        *)
THEOREM OnlyUnstartedLeak == Spec => LeaksOnlyUnstarted
<1> DEFINE Known ==
      \A r \in Requests :
        pc[r] # "answered" /\ pc'[r] = "answered" /\ held'[r] # None
          => kind[r] = "stream" /\ pc[r] \in {"loggedIn", "unstarted"}
<1>1. IInv /\ Leaving /\ [Next]_vars => [Known]_vars
  <2>1. SUFFICES ASSUME IInv, Leaving, Next, NEW r \in Requests,
                        pc[r] # "answered", pc'[r] = "answered", held'[r] # None
                 PROVE  kind[r] = "stream" /\ pc[r] \in {"loggedIn", "unstarted"}
    OBVIOUS
  <2>2. ASSUME NEW q \in Requests, LoopStep(q)
        PROVE  q = r
    <3>1. pc' = [pc EXCEPT ![q] = pc'[q]] /\ pc \in [Requests -> PcValues]
      BY <2>1, <2>2, LoopStepControl DEF IInv, TypeOK
    <3>2. QED  BY <2>1, <3>1
  <2>3. CASE LoopStep(r)
    BY <2>1, <2>3, LoopStepLeaks
  <2>4. ~(Environment \/ \E q \in Requests : LoginThread(q) \/ DeadlinePasses(q))
    BY <2>1, OthersAnswerNobody
  <2>5. QED  BY <2>1, <2>2, <2>3, <2>4 DEF Next
<1>2. [][Known]_vars => LeaksOnlyUnstarted
  BY PTL DEF LeaksOnlyUnstarted
<1>3. QED  BY <1>1, <1>2, Inductive, AlwaysLeaving, PTL DEF Spec
-------------------------------------------------------------------------------
(* The loop is never kept by a handler that cannot go on *)

(* The ranks of the n elements of a set of entries are 0 to n - 1.           *)
LEMMA RanksCovered ==
  ASSUME NEW S \in SUBSET Entries, NEW k \in 0..(Cardinality(S) - 1)
  PROVE  \E e \in S : Rank(e, S) = k
<1> DEFINE n == Cardinality(S)
           rank == [e \in S |-> Rank(e, S)]
           Below(e) == {x \in S : x < e}
<1>1. IsFiniteSet(S) /\ n \in Nat
  <2>1. IsFiniteSet(Entries)
    BY EntriesAssumption, FS_Interval DEF Entries
  <2>2. QED  BY <2>1, FS_Subset, FS_CardinalityType
<1>2. \A e \in S : e \in Nat
  BY DEF Entries
<1>3. ASSUME NEW e \in S
      PROVE  Rank(e, S) \in 0..(n - 1)
  <2>1. Below(e) \in SUBSET (S \ {e})
    BY <1>2
  <2>2. IsFiniteSet(S \ {e}) /\ Cardinality(S \ {e}) = n - 1
    BY <1>1, FS_RemoveElement
  <2>3. IsFiniteSet(Below(e)) /\ Cardinality(Below(e)) <= n - 1
    BY <2>1, <2>2, FS_Subset
  <2>4. Cardinality(Below(e)) \in Nat
    BY <2>3, FS_CardinalityType
  <2>5. QED  BY <1>1, <2>3, <2>4 DEF Rank
<1>4. ASSUME NEW d \in S, NEW e \in S, d < e
      PROVE  Rank(d, S) # Rank(e, S)
  <2>1. Below(d) \in SUBSET Below(e) /\ d \in Below(e) /\ d \notin Below(d)
    BY <1>2, <1>4
  <2>2. Below(e) \in SUBSET S
    OBVIOUS
  <2>3. IsFiniteSet(Below(e))
    BY <1>1, <2>2, FS_Subset
  <2>4. Cardinality(Below(e)) = Cardinality(Below(d)) => Below(e) = Below(d)
    BY <2>1, <2>3, FS_Subset
  <2>5. QED  BY <2>1, <2>4 DEF Rank
<1>5. rank \in Injection(S, 0..(n - 1))
  <2>1. rank \in [S -> 0..(n - 1)]
    BY <1>3
  <2>2. \A d, e \in S : d # e => d < e \/ e < d
    BY <1>2
  <2>3. \A d, e \in S : rank[d] = rank[e] => d = e
    BY <1>4, <2>2
  <2>4. QED  BY <2>1, <2>3 DEF Injection, IsInjective
<1>6. IsFiniteSet(0..(n - 1)) /\ Cardinality(0..(n - 1)) = n
  BY <1>1, FS_Interval
<1>7. rank \in Surjection(S, 0..(n - 1))
  BY <1>5, <1>6, FS_Injection
<1>8. PICK e \in S : rank[e] = k
  BY <1>7 DEF Surjection
<1>9. QED  BY <1>8

(* Round robin: whatever the counter is and however the set of free accounts *)
(* has changed since the last turn, acquire finds one if there is one.       *)
LEMMA AcquireFinds ==
  ASSUME TypeOK, Candidates # {}
  PROVE  \E e \in Candidates : Rank(e, Candidates) = (rr + 1) % Cardinality(Candidates)
<1>1. Candidates \in SUBSET Entries
  BY EntriesFacts DEF Candidates
<1>2. IsFiniteSet(Candidates)
  <2>1. IsFiniteSet(Entries)
    BY EntriesAssumption, FS_Interval DEF Entries
  <2>2. QED  BY <1>1, <2>1, FS_Subset
<1>3. Cardinality(Candidates) \in Nat /\ Cardinality(Candidates) # 0
  BY <1>2, FS_CardinalityType, FS_EmptySet
<1>4. (rr + 1) % Cardinality(Candidates) \in 0..(Cardinality(Candidates) - 1)
  BY <1>3 DEF TypeOK
<1>5. QED  BY <1>1, <1>4, RanksCovered

(* The next step of a handler that keeps the loop: it acquires, finds that   *)
(* nothing is free, counts, or talks to the upstream.                        *)
KeeperGoesOn ==
  \A r \in Requests : running = r =>
    \/ /\ pc[r] = "waiting"
       /\ \/ Candidates = {}
          \/ \E e \in Candidates :
               Rank(e, Candidates) = (rr + 1) % Cardinality(Candidates)
    \/ pc[r] \in {"counting", "upstream"}

Keeping ==
  \A r \in Requests : running = r => pc[r] \in {"waiting", "counting", "upstream"}

LEMMA KeepingLoopStep ==
  ASSUME IInv, Keeping, NEW r \in Requests, LoopStep(r)
  PROVE  Keeping'
<1>1. pc \in [Requests -> PcValues] /\ None \notin Requests
  BY RequestsAssumption DEF IInv, TypeOK
<1>2. ASSUME NEW at, Suspend(r, at)
      PROVE  Keeping'
  BY <1>1, <1>2 DEF Suspend, Keeping
<1>3. ASSUME NEW at \in {"waiting", "counting", "upstream"}, GoOn(r, at)
      PROVE  Keeping'
  BY <1>1, <1>3 DEF GoOn, Keeping
<1>4. NextAttempt(r) => Keeping'
  BY <1>2, <1>3 DEF NextAttempt
<1>5. QED
  BY <1>2, <1>3, <1>4
     DEF LoopStep, Acquire, NothingFree, CountActive, LoginFailed, DispatchStream,
         DispatchStreamDbError, GeneratorStarts, ClientGoneBeforeStart,
         ClientGoneAtYield, StreamFinally, StreamRemoved, DispatchPlain,
         PlainSucceeds, PlainRemoved, PlainFails

LEMMA KeepingStep ==
  ASSUME IInv, Keeping, [Next]_vars
  PROVE  Keeping'
<1>1. pc \in [Requests -> PcValues]
  BY DEF IInv, TypeOK
<1>2. ASSUME NEW r \in Requests, LoginThread(r) \/ DeadlinePasses(r)
      PROVE  Keeping'
  <2>1. running' = running
    BY <1>2 DEF LoginThread, LoginSucceeds, LoginFails, DeadlinePasses
  <2>2. \/ pc' = pc
        \/ pc[r] = "login" /\ \A q \in Requests : q # r => pc'[q] = pc[q]
    BY <1>1, <1>2 DEF LoginThread, LoginSucceeds, LoginFails, DeadlinePasses
  <2>3. QED  BY <2>1, <2>2 DEF Keeping
<1>3. ASSUME Environment \/ UNCHANGED vars
      PROVE  Keeping'
  <2>1. pc' = pc /\ running' = running
    BY <1>3 DEF Environment, BackgroundLogin, CooldownEnds, DeleteAccount, Settings,
                Toggle, AddAccount, AdminStep, vars
  <2>2. QED  BY <2>1 DEF Keeping
<1>4. QED  BY <1>2, <1>3, KeepingLoopStep DEF Next

(* A handler that keeps the event loop from one await to the next always has *)
(* a step to take: it does not wait for another one while all others wait    *)
(* for the loop.                                                             *)
THEOREM LoopIsNeverStuck == Spec => []KeeperGoesOn
<1>1. Init => Keeping
  BY RequestsAssumption DEF Init, Keeping
<1>2. IInv /\ Keeping /\ [Next]_vars => Keeping'
  BY KeepingStep
<1>3. IInv /\ Keeping => KeeperGoesOn
  BY AcquireFinds DEF IInv, Keeping, KeeperGoesOn
<1>4. QED  BY <1>1, <1>2, <1>3, Inductive, PTL DEF Spec
===============================================================================
