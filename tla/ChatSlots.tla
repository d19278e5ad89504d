------------------------------ MODULE ChatSlots -------------------------------
(***************************************************************************)
(* POST /v1/chat/completions (server/api/chat.py) on top of the account    *)
(* pool (server/account_pool.py): how a request takes a concurrency slot   *)
(* of an account, logs the account in, talks to the upstream, retries on   *)
(* another account, and gives the slot back.                               *)
(*                                                                         *)
(* Scheduling.  All handlers run on one asyncio event loop.  A handler     *)
(* runs without interruption from one await to the next; `running' names   *)
(* the request that is in the middle of such a segment (None: the loop is  *)
(* free to pick any ready one).  The non-stream path iterates the upstream *)
(* response synchronously, so it keeps the loop for the whole upstream     *)
(* call.  Logins run in worker threads and need no loop.                   *)
(*                                                                         *)
(* An account entry is a Python object: a request keeps the object it      *)
(* acquired even when a reload has dropped it from the pool.  Entries are  *)
(* numbered in the order they enter the pool's dict, so the dict order is  *)
(* the order of the numbers.  The calls mark_error, mark_success and       *)
(* lock_account take an account id, and hit whatever entry has it then.    *)
(*                                                                         *)
(* Abstracted: message contents; the accounts table, of which only what    *)
(* reload copies into the entries is left (a reload may give `locked' any  *)
(* value on the entries it visits); clocks (a cooldown ends, a deadline    *)
(* passes, at any time).                                                   *)
(***************************************************************************)
EXTENDS Integers, FiniteSets

CONSTANTS Requests,      \* the chat requests (each is served once)
          InitialEntries,\* entries loaded when the server starts
          MaxEntries,    \* bound: entry objects created in a behaviour
          Ids,           \* account ids
          Limits,        \* concurrency limits an administrator may set
          MaxAttempts,   \* cfg.api.retry_max + 1
          MaxOutside,    \* bound: background logins and administrator operations
          DbFaults,      \* TRUE: a usage or cooldown commit may raise
          None

ASSUME RequestsAssumption == IsFiniteSet(Requests) /\ None \notin Requests
ASSUME EntriesAssumption  == /\ MaxEntries \in Nat \ {0}
                             /\ InitialEntries \in 0..MaxEntries
                             /\ None \notin 1..MaxEntries
ASSUME IdsAssumption      == Ids \subseteq Nat /\ 1..InitialEntries \subseteq Ids
ASSUME LimitsAssumption   == Limits \subseteq Nat \ {0} /\ Limits # {}
ASSUME BoundsAssumption   == /\ MaxAttempts \in Nat \ {0}
                             /\ MaxOutside \in Nat
                             /\ DbFaults \in BOOLEAN

Entries == 1..MaxEntries

VARIABLES
  inPool,    \* AccountPool._entries: the entries that can be acquired
  born,      \* how many AccountEntry objects were created
  acct,      \* entry.account_id
  limit,     \* entry.concurrency_limit
  active,    \* entry.active_requests
  locked,    \* entry.locked
  cooling,   \* entry.cooldown_until lies in the future
  rr,        \* AccountPool._rr_counter
  running,   \* the request whose handler is inside a loop segment
  kind,      \* kind[r]: body.stream or not
  pc,        \* where the handler of r is
  held,      \* held[r]: the entry whose slot r acquired and has not released
  attempt,   \* attempt[r]: the number of the attempt, from 1
  late,      \* late[r]: the deadline of the current wait has passed
  outside    \* background logins and administrator operations so far

poolVars == <<inPool, born, acct, limit>>
vars == <<inPool, born, acct, limit, active, locked, cooling, rr, running,
          kind, pc, held, attempt, late, outside>>

(* Where a handler can be.  A request that is "waiting" is about to call    *)
(* pool.acquire, for the first time or after a sleep or a failed attempt.   *)
Waiting == {"waiting", "counting"}
Working == {"login", "loggedIn", "loginFailed", "unstarted", "streaming",
            "abandoned", "upstream", "plainRemoving"}
PcValues == Waiting \cup Working \cup {"streamRemoving", "answered"}

-------------------------------------------------------------------------------
(* AccountEntry and AccountPool *)

IsAvailable(e) == e \in inPool /\ ~locked[e] /\ ~cooling[e]
(* mutant: off by one *)
HasCapacity_OneMore(e) == active[e] <= limit[e]

HasCapacity(e) == active[e] < limit[e]
Candidates == {e \in inPool : IsAvailable(e) /\ HasCapacity(e)}
Rank(e, S) == Cardinality({x \in S : x < e})

(* self._entries[account_id], as a set of at most one entry *)
ByAccount(id) == {e \in inPool : acct[e] = id}
Mark(flag, id, value) ==
  [e \in Entries |-> IF e \in ByAccount(id) THEN value ELSE flag[e]]

MarkError(id)   == cooling' = Mark(cooling, id, TRUE)
MarkSuccess(id) == cooling' = Mark(cooling, id, FALSE)
LockAccount(id) == locked' = Mark(locked, id, TRUE)

AcquireSlot(r) ==
  \E e \in Candidates :
    /\ rr' = (rr + 1) % Cardinality(Candidates)
    /\ Rank(e, Candidates) = rr'
    /\ active' = [active EXCEPT ![e] = @ + 1]
    /\ held' = [held EXCEPT ![r] = e]

(* mutant: release finds the entry by its account id *)
ReleaseSlot_ById(r) ==
  /\ active' = [e \in Entries |->
                  IF e \in ByAccount(acct[held[r]]) /\ active[e] > 0
                  THEN active[e] - 1 ELSE active[e]]
  /\ held' = [held EXCEPT ![r] = None]

ReleaseSlot(r) ==
  /\ active' = [active EXCEPT ![held[r]] = IF @ > 0 THEN @ - 1 ELSE @]
  /\ held' = [held EXCEPT ![r] = None]

KeepSlots == UNCHANGED <<active, held>>

-------------------------------------------------------------------------------
(* Control of a handler *)

OnLoop(r) == running \in {None, r}

(* r stops at an await, and any ready handler may run *)
Suspend(r, at) == pc' = [pc EXCEPT ![r] = at] /\ running' = None

(* r goes on within its segment *)
GoOn(r, at) == pc' = [pc EXCEPT ![r] = at] /\ running' = r

SameAttempt == UNCHANGED <<attempt, late>>

(* mutant: one attempt too many *)
NextAttempt_OneMore(r) ==
  \/ /\ attempt[r] <= MaxAttempts
     /\ attempt' = [attempt EXCEPT ![r] = @ + 1]
     /\ late' = [late EXCEPT ![r] = FALSE]
     /\ GoOn(r, "waiting")
  \/ /\ attempt[r] > MaxAttempts
     /\ SameAttempt
     /\ Suspend(r, "answered")

(* `continue' of the attempt loop: acquire again, with a new deadline, or   *)
(* answer 502 after the last attempt                                        *)
NextAttempt(r) ==
  \/ /\ attempt[r] < MaxAttempts
     /\ attempt' = [attempt EXCEPT ![r] = @ + 1]
     /\ late' = [late EXCEPT ![r] = FALSE]
     /\ GoOn(r, "waiting")
  \/ /\ attempt[r] = MaxAttempts
     /\ SameAttempt
     /\ Suspend(r, "answered")

-------------------------------------------------------------------------------
(* _acquire_with_wait *)

Acquire(r) ==
  /\ pc[r] = "waiting" /\ OnLoop(r)
  /\ AcquireSlot(r)
  /\ Suspend(r, "login")
  /\ UNCHANGED <<poolVars, locked, cooling, kind, outside>> /\ SameAttempt

NothingFree(r) ==
  /\ pc[r] = "waiting" /\ OnLoop(r)
  /\ Candidates = {}
  /\ GoOn(r, "counting")
  /\ UNCHANGED <<poolVars, locked, cooling, rr, kind, outside>>
  /\ KeepSlots /\ SameAttempt

(* mutant: the deadline is not looked at *)
CountActive_NoDeadline(r) ==
  /\ pc[r] = "counting" /\ running = r
  /\ \/ /\ \A e \in inPool : ~IsAvailable(e)
        /\ Suspend(r, "answered")
     \/ /\ \E e \in inPool : IsAvailable(e)
        /\ Suspend(r, "waiting")
  /\ UNCHANGED <<poolVars, locked, cooling, rr, kind, outside>>
  /\ KeepSlots /\ SameAttempt

(* acquire and count_active lock the pool separately: a login thread may    *)
(* have changed an entry in between                                         *)
CountActive(r) ==
  /\ pc[r] = "counting" /\ running = r
  /\ \/ /\ \A e \in inPool : ~IsAvailable(e)
        /\ Suspend(r, "answered")
     \/ /\ \E e \in inPool : IsAvailable(e)
        /\ late[r]
        /\ Suspend(r, "answered")
     \/ /\ \E e \in inPool : IsAvailable(e)
        /\ ~late[r]
        /\ Suspend(r, "waiting")
  /\ UNCHANGED <<poolVars, locked, cooling, rr, kind, outside>>
  /\ KeepSlots /\ SameAttempt

DeadlinePasses(r) ==
  /\ pc[r] \in Waiting /\ ~late[r]
  /\ late' = [late EXCEPT ![r] = TRUE]
  /\ UNCHANGED <<poolVars, locked, cooling, rr, running, kind, pc, attempt,
                 outside>>
  /\ KeepSlots

-------------------------------------------------------------------------------
(* asyncio.to_thread(pool.try_get_or_login, entry.account_id).  The login   *)
(* itself is the subject of AccountLogin; here only what it does to the     *)
(* entries that acquire looks at.                                           *)

LoginSucceeds(r) ==
  /\ pc[r] = "login"
  /\ pc' = [pc EXCEPT ![r] = "loggedIn"]
  /\ \/ UNCHANGED cooling              \* a valid client was cached
     \/ MarkSuccess(acct[held[r]])     \* a fresh login
  /\ UNCHANGED <<poolVars, locked, rr, running, kind, outside>>
  /\ KeepSlots /\ SameAttempt

LoginFails(r) ==
  /\ pc[r] = "login"
  /\ pc' = [pc EXCEPT ![r] = "loginFailed"]
  /\ \/ UNCHANGED <<locked, cooling>>  \* no such account, or no password
     \/ MarkError(acct[held[r]]) /\ UNCHANGED locked
     \/ LockAccount(acct[held[r]]) /\ UNCHANGED cooling
  /\ UNCHANGED <<poolVars, rr, running, kind, outside>>
  /\ KeepSlots /\ SameAttempt

(* mutant: the failed attempt keeps its slot *)
LoginFailed_KeepsSlot(r) ==
  /\ pc[r] = "loginFailed" /\ OnLoop(r)
  /\ KeepSlots
  /\ NextAttempt(r)
  /\ UNCHANGED <<poolVars, locked, cooling, rr, kind, outside>>

LoginFailed(r) ==
  /\ pc[r] = "loginFailed" /\ OnLoop(r)
  /\ ReleaseSlot(r)
  /\ NextAttempt(r)
  /\ UNCHANGED <<poolVars, locked, cooling, rr, kind, outside>>

-------------------------------------------------------------------------------
(* body.stream: the slot passes to the generator of the response *)

DispatchStream(r) ==
  /\ pc[r] = "loggedIn" /\ kind[r] = "stream" /\ OnLoop(r)
  /\ Suspend(r, "unstarted")
  /\ UNCHANGED <<poolVars, locked, cooling, rr, kind, outside>>
  /\ KeepSlots /\ SameAttempt

(* _create_pending_usage raises outside of any try: 500 *)
DispatchStreamDbError(r) ==
  /\ DbFaults
  /\ pc[r] = "loggedIn" /\ kind[r] = "stream" /\ OnLoop(r)
  /\ Suspend(r, "answered")
  /\ UNCHANGED <<poolVars, locked, cooling, rr, kind, outside>>
  /\ KeepSlots /\ SameAttempt

GeneratorStarts(r) ==
  /\ pc[r] = "unstarted" /\ OnLoop(r)
  /\ Suspend(r, "streaming")
  /\ UNCHANGED <<poolVars, locked, cooling, rr, kind, outside>>
  /\ KeepSlots /\ SameAttempt

(* the response task is cancelled before it asks the generator for a chunk: *)
(* a generator that never ran has no finally to run                         *)
ClientGoneBeforeStart(r) ==
  /\ pc[r] = "unstarted" /\ OnLoop(r)
  /\ Suspend(r, "answered")
  /\ UNCHANGED <<poolVars, locked, cooling, rr, kind, outside>>
  /\ KeepSlots /\ SameAttempt

(* the response task is cancelled while the generator is suspended at a     *)
(* yield: its finally runs only when the interpreter finalises it           *)
ClientGoneAtYield(r) ==
  /\ pc[r] = "streaming" /\ OnLoop(r)
  /\ Suspend(r, "abandoned")
  /\ UNCHANGED <<poolVars, locked, cooling, rr, kind, outside>>
  /\ KeepSlots /\ SameAttempt

(* mutant: a finally that only deletes the conversation *)
StreamFinally_NoRelease(r) ==
  /\ pc[r] \in {"streaming", "abandoned"} /\ OnLoop(r)
  /\ KeepSlots
  /\ \/ Suspend(r, "answered")
     \/ pc[r] = "streaming" /\ Suspend(r, "streamRemoving")
  /\ UNCHANGED <<poolVars, locked, cooling, rr, kind, outside>> /\ SameAttempt

(* the finally of _stream_response: release, then delete the conversation   *)
(* when the stream completed and the account asks for it                    *)
StreamFinally(r) ==
  /\ pc[r] \in {"streaming", "abandoned"} /\ OnLoop(r)
  /\ ReleaseSlot(r)
  /\ \/ Suspend(r, "answered")
     \/ pc[r] = "streaming" /\ Suspend(r, "streamRemoving")
  /\ UNCHANGED <<poolVars, locked, cooling, rr, kind, outside>> /\ SameAttempt

StreamRemoved(r) ==
  /\ pc[r] = "streamRemoving" /\ OnLoop(r)
  /\ Suspend(r, "answered")
  /\ UNCHANGED <<poolVars, locked, cooling, rr, kind, outside>>
  /\ KeepSlots /\ SameAttempt

-------------------------------------------------------------------------------
(* not body.stream: the upstream response is iterated on the event loop *)

DispatchPlain(r) ==
  /\ pc[r] = "loggedIn" /\ kind[r] = "plain" /\ OnLoop(r)
  /\ GoOn(r, "upstream")
  /\ UNCHANGED <<poolVars, locked, cooling, rr, kind, outside>>
  /\ KeepSlots /\ SameAttempt

PlainSucceeds(r) ==
  /\ pc[r] = "upstream" /\ running = r
  /\ MarkSuccess(acct[held[r]])
  /\ \/ ReleaseSlot(r) /\ Suspend(r, "answered")
     \/ KeepSlots /\ Suspend(r, "plainRemoving")
  /\ UNCHANGED <<poolVars, locked, rr, kind, outside>> /\ SameAttempt

PlainRemoved(r) ==
  /\ pc[r] = "plainRemoving" /\ OnLoop(r)
  /\ ReleaseSlot(r)
  /\ Suspend(r, "answered")
  /\ UNCHANGED <<poolVars, locked, cooling, rr, kind, outside>> /\ SameAttempt

PlainFails(r) ==
  /\ pc[r] = "upstream" /\ running = r
  /\ MarkError(acct[held[r]])
  /\ ReleaseSlot(r)
  /\ \/ NextAttempt(r)
     \/ DbFaults /\ Suspend(r, "answered") /\ SameAttempt  \* mark_error raises
  /\ UNCHANGED <<poolVars, locked, rr, kind, outside>>

-------------------------------------------------------------------------------
(* Everything else that touches the pool *)

(* logins of the warm-up thread and of the administrator's refresh *)
BackgroundLogin(e) ==
  /\ outside < MaxOutside
  /\ outside' = outside + 1
  /\ e \in inPool
  /\ \/ (MarkSuccess(acct[e]) \/ MarkError(acct[e])) /\ UNCHANGED locked
     \/ LockAccount(acct[e]) /\ UNCHANGED cooling
  /\ UNCHANGED <<poolVars, rr, running, kind, pc>>
  /\ KeepSlots /\ SameAttempt

CooldownEnds(e) ==
  /\ e \in inPool /\ cooling[e]
  /\ cooling' = [cooling EXCEPT ![e] = FALSE]
  /\ UNCHANGED <<poolVars, locked, rr, running, kind, pc, outside>>
  /\ KeepSlots /\ SameAttempt

(* an administrator's handler runs on the loop, in one segment *)
AdminStep ==
  /\ running = None
  /\ outside < MaxOutside
  /\ outside' = outside + 1
  /\ UNCHANGED <<cooling, rr, running, kind, pc>>
  /\ KeepSlots /\ SameAttempt

(* reload: every entry of the new pool takes `locked' from its status *)
ReloadLocked ==
  /\ locked' \in [Entries -> BOOLEAN]
  /\ \A e \in Entries \ inPool' : locked'[e] = locked[e]

Settings(e, n) ==
  /\ AdminStep
  /\ e \in inPool
  /\ limit' = [limit EXCEPT ![e] = n]
  /\ UNCHANGED <<inPool, born, acct, locked>>

Toggle ==
  /\ AdminStep
  /\ UNCHANGED poolVars
  /\ ReloadLocked

DeleteAccount(e) ==
  /\ AdminStep
  /\ e \in inPool
  /\ inPool' = inPool \ {e}
  /\ ReloadLocked
  /\ UNCHANGED <<born, acct, limit>>

(* SQLite gives a new row the largest id in use plus one *)
AddAccount(id, n) ==
  /\ AdminStep
  /\ born < MaxEntries
  /\ \A e \in inPool : acct[e] < id
  /\ id = 1 \/ \E e \in inPool : acct[e] = id - 1
  /\ born' = born + 1
  /\ inPool' = inPool \cup {born'}
  /\ acct' = [acct EXCEPT ![born'] = id]
  /\ limit' = [limit EXCEPT ![born'] = n]
  /\ ReloadLocked

-------------------------------------------------------------------------------
Init ==
  /\ inPool = 1..InitialEntries
  /\ born = InitialEntries
  /\ acct = [e \in Entries |-> e]
  /\ limit \in [Entries -> Limits]
  /\ active = [e \in Entries |-> 0]
  /\ locked = [e \in Entries |-> FALSE]
  /\ cooling = [e \in Entries |-> FALSE]
  /\ rr = 0
  /\ running = None
  /\ kind \in [Requests -> {"stream", "plain"}]
  /\ pc = [r \in Requests |-> "waiting"]
  /\ held = [r \in Requests |-> None]
  /\ attempt = [r \in Requests |-> 1]
  /\ late = [r \in Requests |-> FALSE]
  /\ outside = 0

(* what the handler of r does on the event loop *)
LoopStep(r) ==
  \/ Acquire(r) \/ NothingFree(r) \/ CountActive(r) \/ LoginFailed(r)
  \/ DispatchStream(r) \/ DispatchStreamDbError(r)
  \/ GeneratorStarts(r) \/ ClientGoneBeforeStart(r) \/ ClientGoneAtYield(r)
  \/ StreamFinally(r) \/ StreamRemoved(r)
  \/ DispatchPlain(r) \/ PlainSucceeds(r) \/ PlainRemoved(r) \/ PlainFails(r)

LoginThread(r) == LoginSucceeds(r) \/ LoginFails(r)

Environment ==
  \/ \E e \in Entries : BackgroundLogin(e) \/ CooldownEnds(e) \/ DeleteAccount(e)
  \/ \E e \in Entries, n \in Limits : Settings(e, n)
  \/ Toggle
  \/ \E id \in Ids, n \in Limits : AddAccount(id, n)

Next ==
  \/ \E r \in Requests : LoopStep(r) \/ LoginThread(r) \/ DeadlinePasses(r)
  \/ Environment

Spec == Init /\ [][Next]_vars

-------------------------------------------------------------------------------
(* Fairness.  The loop's ready queue is first in, first out, so a handler   *)
(* that is ready again and again does run: strong fairness.  Logins end     *)
(* (every network call either answers or raises) and deadlines pass.        *)
Fairness ==
  /\ \A r \in Requests : SF_vars(LoopStep(r))
  /\ \A r \in Requests : WF_vars(LoginThread(r))
  /\ \A r \in Requests : WF_vars(DeadlinePasses(r))

FairSpec == Spec /\ Fairness

-------------------------------------------------------------------------------
(* Properties *)

(* Every variable has its type; entries that were never created are neither *)
(* in the pool nor held.                                                    *)
TypeOK ==
  /\ born \in 0..MaxEntries
  /\ inPool \subseteq 1..born
  /\ acct \in [Entries -> Nat]
  /\ limit \in [Entries -> Limits]
  /\ active \in [Entries -> Nat]
  /\ locked \in [Entries -> BOOLEAN]
  /\ cooling \in [Entries -> BOOLEAN]
  /\ rr \in Nat
  /\ running \in Requests \cup {None}
  /\ kind \in [Requests -> {"stream", "plain"}]
  /\ pc \in [Requests -> PcValues]
  /\ held \in [Requests -> (1..born) \cup {None}]
  /\ attempt \in [Requests -> 1..MaxAttempts]
  /\ late \in [Requests -> BOOLEAN]
  /\ outside \in 0..MaxOutside

HoldersOf(e) == {r \in Requests : held[r] = e}

(* active_requests is exactly the number of requests that acquired the entry *)
(* and have not released it, whatever admins, logins and reloads do in       *)
(* between: no release is lost, doubled or made on another entry, although   *)
(* release is only guarded against going below zero (account_pool.release).  *)
SlotConservation == \A e \in Entries : active[e] = Cardinality(HoldersOf(e))

(* A request never waits for a slot while it holds one: every path back to   *)
(* _acquire_with_wait has released first, so requests cannot wait for each   *)
(* other; and whoever works on an account does hold a slot of it.            *)
NoHoldAndWait ==
  \A r \in Requests : /\ pc[r] \in Waiting => held[r] = None
                      /\ pc[r] \in Working => held[r] # None

(* The pool with its counters behaves as a ledger that counts the holders:   *)
(* in particular no slot is handed out beyond the limit in force.            *)
Ledger == INSTANCE SlotLedger
            WITH Holders <- Requests, Slots <- Entries, None <- None,
                 taken <- held, bound <- limit
ImplementsLedger == Ledger!LedgerSpec

(* Every request is answered: a saturated pool delays it until its deadline  *)
(* at most, although waiting is polling and not first come first served.     *)
EveryRequestAnswered == \A r \in Requests : <>(pc[r] = "answered")

(* Whoever got as far as running on the slot (the generator has started, or  *)
(* the non-stream call has) or failed to log in gives the slot back.         *)
RunningWorkReturnsSlot ==
  \A r \in Requests :
    pc[r] \in {"loginFailed", "streaming", "upstream"} ~> held[r] = None

(* An answered request holds no slot: "release the slot whether the request  *)
(* ends normally, by cancellation or by an exception" (chat.py:334) and "the *)
(* slot passes to the generator, whose finally releases it" (chat.py:446).   *)
AnsweredHoldsNoSlot ==
  \A r \in Requests : pc[r] = "answered" => held[r] = None

(* There is no other leak: whoever is answered with a slot in hand is a      *)
(* stream whose generator had not started.  Every other way out of the       *)
(* handler (retries used up, errors, abandoned streams, a client that goes   *)
(* while the conversation is removed) has released.                          *)
LeaksOnlyUnstarted ==
  [][\A r \in Requests :
       pc[r] # "answered" /\ pc'[r] = "answered" /\ held'[r] # None
         => kind[r] = "stream" /\ pc[r] \in {"loggedIn", "unstarted"}]_vars
===============================================================================
