# A verification project for the account-pool chat gateway

The repository is an OpenAI-compatible gateway: it serves
`POST /v1/chat/completions` from a pool of upstream accounts, with a web
interface for the administrator and SQLite behind it. This directory holds TLA+
models of the parts whose correctness depends on the order of steps, the TLC
configurations that check them on small instances, and proofs, checked by
TLAPS, of what holds for every value of the parameters.

All source paths below are relative to `src/`.

## 1. Inventory

### The server

| Component | State | Operations | Hard because |
|---|---|---|---|
| Account pool, slots (`server/account_pool.py`) | `_entries`, per entry `active_requests`, `concurrency_limit`, `locked`, `cooldown_until`; `_rr_counter` | `acquire`, `release`, `count_active`, `mark_error`, `mark_success`, `lock_account`, `reload`, `update_account_settings` | called from the event loop and from login threads; `release` is only guarded against going below zero; entries are replaced under running requests |
| Account pool, logins (same file, `server/session_store.py`, `server/app.py`) | per entry `client`, `password`, `_login_lock`; rows of `accounts` | `do_login`, `get_client`, `try_get_or_login`, `warmup_all`, `set_password`, `reload`, start | an account exists as row, as entry and in the locals of a thread; the three change in separate steps |
| Chat handler (`server/api/chat.py`) | the locals of each request | `chat_completions`, `_acquire_with_wait`, the retry loop, stream and non-stream dispatch | polling with deadlines, retries, hand-over of the slot to a generator |
| Stream generator and its usage row (same file) | locals of `_stream_response`, the `tracker` dict, one `usage` row | the generator, its `finally`, `_finish_usage`, the background task `_finish_stream_usage` | cancellation at any await, at a send, or before the start; two writers of one row |
| Usage of non-stream requests (same file) | `usage` rows | `_record_usage` | the row comes at the end of the request; an error after it retries the request |
| Usage table (`server/api/chat.py`, `server/web/routes.py`, `server/models.py`) | the tables `usage` and `api_keys` | insert, later updates by id, resets of statistics, addition, toggling and deletion of keys | a stream remembers only the id of its row; rows are deleted and ids are used again |
| Rate limiter and quotas (`server/ratelimit.py`) | minute window and day buckets per key, in memory; quotas and `usage` rows in the database | `check`, `get_stats` | the key was read in another thread; quotas count rows that are written later; a restart forgets the buckets |
| Upstream client (`ctyun_api.py`) | `sk`, `yl_auth`, `expires_at`, a lock of its own | `login`, `refresh`, the signed request with renewal on 401 and 403 | threads share the object and read the fields without a lock; renewals run next to the pool's logins, under another lock |
| Start (`server/app.py`, `server/config.py`, `server/crypto.py`, `server/db.py`) | the secret file, the schema, the administrators' rows; settings | `load_config`, `get_session_secret`, `create_all`, `_bootstrap_...` | the process may die between any two writes; the next start may have other settings |
| Authentication (`server/auth.py`) | the administrator's cookie, key hashes | `require_api_key`, `make_admin_token`, `verify_admin_token` | tokens and keys are checked against what another process or an administrator wrote |
| Admin interface (`server/web/routes.py`) | the tables, login throttling | accounts, API keys, usage pages | every account handler is commit, then reload |
| Models and health endpoints, launcher (`server/api/models.py`, `server/api/health.py`, `run.py`) | none | read-only | – |

A vendored program, ToolForge (`vendor/toolforge`), runs as a process of its own
and sends its requests to the gateway (`toolforge.config.yaml`). The gateway's
code does not call it.

### How they interact

One asyncio event loop runs all handlers. A handler is not interrupted between
two awaits. Worker threads (`asyncio.to_thread`, the warm-up thread, Starlette's
thread pool) run logins and database writes. The chat handler calls
`pool.acquire` on the loop, logs the account in on a thread, and either iterates
the upstream on the loop (non-stream) or hands entry and slot to a generator
that the response task drives. The response's background task runs after it.
Administrator handlers change rows, then call `pool.reload`. Logins write rows
and entries from their thread. The pool lock is held only inside single calls.

### What makes each component correct

* slots: the counter counts the requests that hold a slot; no slot beyond the
  limit; every slot taken is given back; nobody holds a slot while waiting;
* chat handler: every request is answered, within the configured attempts;
* stream: one release; one truthful, final usage row; the upstream conversation
  is deleted only when the client got everything;
* logins: serial per entry, and none repeats what another one just did; the
  client of an entry is the entry's account; disabled accounts stay disabled until enabled by hand;
  passwords survive reloads;
* rate limiter: the minute window and the day limit hold for what one server
  admits; nobody is refused without reason; a quota is exceeded by no more than
  what was in flight;
* usage table: one row for a request, written by nobody else; the totals are
  the requests; nothing stays open but by a crash;
* upstream client: a rejected token is replaced, once, by a newer one, and the
  fields of a session belong together;
* start: passwords and logins outlive the process, the schema is complete, and
  no start gives the administrator it is configured for a default password, or
  serves with one.

## 2. Modules

| Module | Models | Checked by | Proofs |
|---|---|---|---|
| `SlotLedger` | what the pool promises: slots of bounded pools, counted from their holders | through `ChatSlots` | – |
| `ChatSlots` | chat handler on top of the pool's slots | `slots_safety`, `slots_liveness`, `slots_leak` | `ChatSlots_proofs` |
| `StreamUsage` | one stream: generator, response task, finish task, background task, client | `stream_cancel` | `StreamUsage_proofs` |
| `AccountLogin` | logins, warm-up, administrator operations, restart | `login_adds`, `login_churn` | `AccountLogin_proofs` |
| `AdmissionLedger` | what the limiter promises: a verdict counts all earlier admissions, and nothing else | through `KeyLimits` | – |
| `KeyLimits` | the limits of one API key: `RateLimiter.check`, and when its requests add usage rows | `limits_window` | `KeyLimits_proofs` |
| `SessionStore` | what clients promise: a session is exchanged as a whole, the old one ends first | through `ClientToken` | – |
| `ClientToken` | the session of one account as its threads use and renew it | `token_renewal`, `token_chat` | `ClientToken_proofs` |
| `UsageRows` | the usage table between requests and administrators | `rows_reset`, `rows_foreign` | `UsageRows_proofs` |
| `ServerStart` | starts, crashes and changes of the settings | `startup` | `ServerStart_proofs` |
| `MC...` | instances for TLC, with the symmetry sets | | |

How they fit together: `ChatSlots` has every attempt's login as one step;
`AccountLogin` has that login in full, with the client as an opaque object;
`ClientToken` has that object's fields, and of `do_login` only lock, check and
installation. `StreamUsage` has one stream with every cancellation; `UsageRows`
has many streams, of which only the reads and writes of the table remain.
`KeyLimits` reads the same rows for the quotas. `ServerStart` is what comes
before and between the lives of the others.

In each module an operator whose comment starts with `mutant:` is a plausible
bug in the definition that follows it. It is not used by the specification.
Each one makes the property it belongs to fail.

### ChatSlots

One `pc` per request says where its handler is; `running` is the handler inside
a loop segment, so that what the code does between two awaits is not
interrupted by other handlers, while login threads (`LoginSucceeds`,
`LoginFails`, `BackgroundLogin`) may run at any time. `Acquire`, `NothingFree`
and `CountActive` are one turn of `_acquire_with_wait`: `acquire` and
`count_active` take the pool lock separately, so a login may come in between.
`LoginFailed` and `PlainFails` are the `continue` of the retry loop.
`DispatchStream` hands the slot over; `StreamFinally` is the generator's
`finally`. `ClientGoneBeforeStart` and `ClientGoneAtYield` are the two ways a
disconnection avoids the generator's own exception handling. A non-stream
request keeps the loop from `DispatchPlain` to `PlainSucceeds` or `PlainFails`,
because the code iterates the upstream synchronously. Entries are objects, ids
are names of objects: `held` is an object, while `mark_error` and its like take
an id (`Mark`). `AddAccount` reuses the largest free id as SQLite does.

`SlotLedger` has no counter. `ChatSlots` implements it with `taken` as `held`
and `bound` as `limit` (`ImplementsLedger`).

### StreamUsage

One stream is enough: streams share only the pool (in `ChatSlots`) and write
disjoint rows. `gen` is where the generator is: an await, a yield, or done.
A `Cancel...` action is the arrival of the cancellation in each kind of place;
`Finalise` is the interpreter closing a generator that was left at a yield.
`EnterFinally` is the beginning of the `finally`. `FinishWrites` (in the
shielded task) writes without reading; `BackgroundReads` and
`BackgroundWrites` are the read and the commit of the background task.

### AccountLogin

A step is what a thread does under the pool lock, in one transaction or in one
upstream call. `Begin` to `Leave` are `do_login`; `LockMemory` and `LockRow`
are the two halves of `lock_account`; `Commit` and `Install` are
`set_account_login_success` and the assignment of the client. `Toggle`,
`Delete` and `Add` are the commits of the administrator's handlers, `Reload` and
`SetPassword` what follows them. `Restart` builds the pool from the table.
A client may also renew itself: a request that was given it clears its session
(`Expire`, which is the clock too) and logs in again (`Renew`) under the
client's own lock, whoever is in `do_login` for the same account. `session`
remembers what brought the session a client has, a `do_login` or such a
renewal. `NoRepeatedLogin` is about the former: the second look at the cache
keeps one `do_login` from repeating another, and no more than that.

### KeyLimits

One key, as keys share nothing. `Authenticate` is `require_api_key`, which reads
the quotas in a worker thread; `Check` is one call of `RateLimiter.check`, which
awaits nothing: pops (`PopExpired`), the three tests, and either `Refuse` or
`Admit`. The minute deque is the part of `stamps` from `head` on, so the popped
stamps remain for the properties. `StreamCounted` and `PlainCounted` insert the
usage row, at the start of a stream and at the end of a non-stream answer;
`Fails` and `AttemptFails` are the ways that insert none. `ResetStatistics`
deletes rows (those of the key, or of the key on one account); a key that is
deleted and whose id goes to a new one keeps rows and buckets, so it is an
`Update`. `Restart` empties the buckets, not the table. Time is discrete, and a
time difference of `Window` is the 60 seconds of the code.

`AdmissionLedger` has no deque and no counter. It remembers when it admitted
each request and counts anew for every verdict. `KeyLimits` implements it
(`ImplementsLedger`) with `admittedAt` as `admitted`: popping the deque, taking
its length, and the counter per date string give the same verdicts, in both
directions. Nobody is admitted beyond a limit, and nobody is turned away for
admissions that are too old, of another day, or refused themselves.

### ClientToken

Threads begin either with a chat (`Chats`) or with a control request such as
`clear_conversations` (`Controls`); a chat thread may remove its conversation
afterwards (`RemoveConversation`), which makes it a control request with the
same client. `GetClient` to `Install` are `try_get_or_login` under the entry's
lock; `CheckLoggedIn`, `Sign` and `Header` are the three separate reads of
`_request`; `Denied` to `Store` are the renewal, under the client's lock, with
one step per field that `refresh` clears and `login` sets. Tokens are the
numbers of logins. `Revoke` and `Age` are the upstream and the clock. The
two locks are independent, as in the code (the comment at `ctyun_api.py:144`
says so): a thread may install a new client in the entry while another renews
the old one, which its thread keeps.

A renewal can be repeated: `old_auth` is read after the response came back
(`ctyun_api.py:330`), so when another thread renews before that, the comparison
sees no change and logs in again, against the comment at line 332. What does
hold is that the second renewal does not undo the first (`TokensNewer`, an
action property with a theorem and no run of its own).

`SessionStore` has no threads and no order of fields: a client has a session or
none, a renewal ends the old one (`Ends`), logs in (`LogsInAgain`) and gives the
client that login (`Renews`); a new client object comes with its session
(`Opens`). `ClientToken` implements it (`ImplementsStore`) with a client whose
lock is taken as one without a session, and what the thread in `refresh` got from
`login` as `renewal`. The six assignments of a renewal disappear between the
taking of the lock and its return; an empty client after a failed login is an
`Ends` without more.

### UsageRows

The columns that matter are the key, the account and whether the status is
`started`. `Insert` gives the id as SQLite does (the largest plus one). A
stream's two writers each have a read and a write (`FinishReads`,
`FinishWrites`, `BackgroundReads`, `BackgroundWrites`), because the session
reads the row in one statement and updates it by id in another; in between a
reset may delete the row and another request take the id. `StreamEnds` chooses
who will write: both in order, both at once, or the background task alone.
`ResetKey` and `ResetAccount` delete rows; `DeleteKey` leaves them, as foreign
keys are not enforced. The history variables `orphaned` and `counted`, and
`owner` and `by` in a row, are read by properties only.

### ServerStart

`phase` is how far the lifespan function is. `Start` is `load_config`;
`CreateTables` and `Migrate` are `create_all`, where each `ALTER TABLE` is
committed on its own (the SQLite driver opens no transaction for DDL);
`ReadSecret`, `GenerateSecret` and `SaveSecret` are `get_session_secret`, where
opening the file for writing empties it before the text is there; then the
cipher, the pool with its passwords and the administrator. A serving process
adds and deletes accounts and logs administrators in; it may end at any time
(`Crash`) and is started again, as `docker-compose.yml` asks (`restart:
unless-stopped`). `Configure` is the operator's change of the settings, read at
the next start. Administrators have names: a start looks at the row of the
configured one (`user`) and at no other, while `LogIn` takes any row. `Init`
covers a first start and a database of an earlier version with whatever
administrators it had (`OldAdmins`); `oldAdmin` remembers them for the
properties.

Left out: a change of `data_dir`, which takes the secret file elsewhere (for the
properties it is as if the file was deleted), and the `except: return` of
`_migrate` (`server/db.py:67`). If the inspection of the table raises there, no
column is added, and where one is missing the first SELECT of the pool
(`server/account_pool.py:300`) ends the start, so `SchemaComplete` is not
concerned.

## 3. Runs

| Run | Question | Bounds | Result |
|---|---|---|---|
| `slots_safety` | Are the counters exact, does nobody hold and wait, is the ledger implemented, and who is answered with a slot in hand? | 2 requests, 1 account at the start and 2 entry objects, limits 1 and 2, 2 attempts, 3 background logins or administrator operations, database faults | holds |
| `slots_liveness` | Is every request answered, and does running work return its slot? | as above, limit 1, one outside operation | holds |
| `slots_leak` | Does an answered request hold no slot? | 1 entry, no faults | violated |
| `stream_cancel` | One release, truthful row, settled row, deletion only when complete, output lost only at a send | none needed: the state space is finite | holds |
| `login_adds` | Serial logins, none repeated, passwords, own client | 2 threads, 2 names, 2 ids, 2 objects, 2 operations (toggle, add), 1 restart; expiries and renewals without bound | holds |
| `login_churn` | How does a client get into another account's entry when ids are reused, and does every login end? | 1 id, 2 names, 2 objects, 2 threads, 2 operations (delete, add) | holds |
| `limits_window` | Are the verdicts those of the ledger, does the minute window hold, is the overrun of the quotas bounded? | 3 requests (1 stream), limits of 2 a minute and 2 a day, quotas 0 or 1, 2 attempts, window 1, day 3, month 2 days, time 0 to 3, 1 update or reset, 1 restart, database faults | holds |
| `token_renewal` | Do renewals keep sessions whole, replace rejected tokens, implement the store, and does every request end? | 1 chat thread (then a control thread), 1 control thread, 2 client objects, 4 logins | holds |
| `token_chat` | Is a rejected token replaced after every request? | 1 thread, 1 login | violated |
| `rows_reset` | Are the totals exact, does no row stay open, and who writes foreign rows? | 2 streams, 1 plain request, 2 keys, 2 accounts, 3 row ids, 3 operations, 1 crash | holds |
| `rows_foreign` | Does only its request write a row? | as above | violated |
| `startup` | Do passwords and logins survive, is the schema complete, is the default password refused, does the server come up? | 2 accounts, 2 administrator names with 6 kinds of old rows, 1 secret in the settings, 3 generated secrets, 2 crashes, 2 changes of the settings | holds |

Why the bounds are enough to be interesting. Two requests and a limit of 1
collide on a slot; a limit of 2 lets them share it; two attempts contain a
retry and the last attempt; two entry objects contain a deletion during a
request and a new account under the same id, and two accounts at once for the
round robin; three outside operations contain delete, add, and a login. Two
login threads contain one that waits for the other. In `limits_window` three
requests contain one beyond the limit of 2; day 3 against window 1 lets the day
be full while the minute is free, and time 3 is on the second day of the month,
so daily and monthly quotas differ. That a month ends does not happen within
these bounds. In `token_renewal` two threads contain the renewal that
meets another one at every step, and four logins contain a login for each
client, a renewal and a second one. In `rows_reset` three requests contain two
streams of which one loses its row and the other takes the id, and a third
that counts; three operations contain an addition, a deletion and a reset. In
`startup` two crashes contain one that leaves an empty secret file and one in
the migration; two changes contain a setting that goes and comes back, and a
name that does; the old rows are none, one of each kind, and two that differ (by
the symmetry of the two names only one of them needs each row, as the settings
begin with either name); as every generated secret but the first needs a crash before it was saved, three
are never used up. Deadlock is not checked:
every model stops when all requests are answered and the bounded operations
are used up. The bounds on attempts come from the code; `MaxOutside`,
`MaxEntries`, `MaxObjects`, `MaxAdminOps`, `MaxRestarts`, `MaxTime`,
`MaxClients`, `MaxTokens`, `MaxKey`, `MaxRow`, `MaxCrashes`, `MaxGenerated` and
`MaxChanges` only keep the state space finite.

### Fairness

`slots_liveness` assumes strong fairness of what the handler of each request
does on the loop: the loop's ready queue is first in, first out, so a handler
that is ready again and again runs, although other handlers may disable it for
a while by keeping the loop. It assumes weak fairness of logins and of
deadlines. That a login ends is an assumption on the upstream: the three
calls of a login have no timeout (`ctyun_api.py:171`), so a peer that keeps the
connection open in silence would hold a thread, the login lock and a slot. A
signed request has a timeout of 60 seconds. Nothing is assumed about the
administrator, the background logins, cooldowns or clients.
In particular strong fairness of `LoopStep` includes the end of an upstream
stream: a stream that has started ends, is abandoned or is cancelled.

`stream_cancel` assumes that worker threads and ready tasks run, that the
interpreter finalises abandoned generators, and that an upstream which keeps
sending lines stops at last (strong fairness of `UpstreamEnds`). Nothing makes
the client disconnect. `login_churn` assumes that threads run, network calls
end, and that a thread waiting for a login lock which is free again and again
gets it. `token_renewal` assumes the same of its threads and of both kinds of
locks (strong fairness of `EnterLogin` and `TakeRefreshLock`, weak fairness of
the other steps). `startup` assumes that the supervisor starts the server again
and that a start goes on (weak fairness of `StartStep`); nothing makes the
operator change the settings, and crashes are bounded.

## 4. Where code and documentation part

Three runs end in a counterexample:

* **A slot leaks when a stream is never started** (`slots_leak`). The slot
  passes to the generator at `server/api/chat.py:446`; if the client goes before
  the first chunk is asked for, the generator never runs and neither does its
  `finally`. The usage row is settled by the background task, which was written
  for this case (`chat.py:126`), but the slot is not. An exception in
  `_create_pending_usage` has the same effect. `LeaksOnlyUnstarted` shows that
  there is no other way to be answered with a slot in hand, and `slots_liveness`
  that every slot of work that really started is given back.
* **A chat never renews its session** (`token_chat`). `_request` logs in again
  on 401 and 403 ("自动在 401/403 时重登一次", `ctyun_api.py:288`), but not for a
  streamed request, and every chat is one. The pool hands the rejected token out
  until it expires by the clock or a control request renews it; a non-stream
  chat whose answer is a 401 even counts as a success.
  `ControlRenews` shows that control requests do renew. The comment at
  `ctyun_api.py:325` also promises renewal on a code 401 in the body, which no
  line looks at.
* **A stream ends in the row of another request** (`rows_foreign`). A reset of
  the statistics (`server/web/routes.py:462`) deletes the rows of open streams
  too; the next row gets the id, and the old stream's end overwrites it.
  `OnlyOrphansIntrude` shows that nothing but a reset leads there, and
  `PagesCount` that the number of requests is right all the same: what is wrong
  are status and tokens.

Eight more statements are false of the code by counterexamples of a few steps, which
are easy to follow by hand and have no run. The first four are defined in
`AccountLogin` and the next two in `ServerStart`, each under a heading of its own:

* `WarmupOnlyActive`: the warm-up logs in disabled accounts
  (`account_pool.py:286`; the docstring says active ones, line 284), and a success
  makes the row active.
* `OnlyAdminEnables`: a login that was running when its account was disabled
  enables it (`session_store.py:102` sets `active` without looking;
  `config.py:47` has accounts enabled by hand).
* `DisabledIsLocked`: a reload between the two halves of `lock_account` copies
  the old status back, and a disabled account goes on being handed out
  (`account_pool.py:163`; `config.example.yaml:31`).
* `NoLoginOfValidClient`: while one thread is in `do_login`, a request that has
  the old client may renew it (`ctyun_api.py:331-335`), as the two locks are
  independent. The account is then logged in twice, although
  `account_pool.py:186` speaks of a second check against repeated logins.
  `NoRepeatedLogin` is what the check does achieve.
* `NoDefaultLogin`: a start refuses the default password ("禁止使用默认管理员密码",
  `app.py:41`) only for the configured name. With an old `admin`/`changeme` row
  and another `CTYUN_ADMIN_USERNAME` the server makes the new administrator and
  serves, and the old row can still log in (`routes.py:125` takes any name).
  `NoDefaultAdmin` says what is left: the configured name is safe, no start
  creates such a row, and what there is came with the database.
* `SingleUser`: the same start leaves two administrators, against "单用户"
  (`models.py:17`).
* `ClientIsOwn` without its condition: a client lands in another account's entry
  when an account is deleted during its login and its id is used again
  (`account_pool.py:224`). `login_adds` checks it where nothing is deleted, and
  `ForeignOnlyByReplacement` in `login_churn` shows that this is the only way.
* A stream with output is recorded as interrupted when the cancellation reaches
  the send of a chunk (`chat.py:304`) and not an await, although the comment at
  `chat.py:309` asks for `ok` whenever there was output. `OutputLostOnlyAtSend`
  shows that this is the only way.

Smaller observations, met while modelling: `README.md:42` of the repository
announces the login `admin` / `changeme`, with which the first start refuses to
serve (`app.py:40`); a commit of the stream's finish task that raises leaves
the usage row at `started` (`chat.py:355`; `UsageSettles` excepts it); the comment at
`account_pool.py:242` says that `reload` clears the passwords, which
`PasswordsKept` refutes; `CTYUN_DATA_DIR` overrides `CTYUN_DB_URL`; setting
`CTYUN_ADMIN_SECRET` when a generated secret was in use makes the stored passwords
unreadable until it is unset again (`PasswordsSurvive` compares equal settings);
an administrator's row without a hash takes whatever password the settings
have, the default one included (`app.py:49`); the warm-up thread starts before
`_bootstrap_admin` may refuse to serve; a new key that gets the id of a deleted
one inherits its rows and with them its used quota; `is_expired` reads
`expires_at` twice, so a renewal in between makes it raise.

## 5. Proofs

Every theorem is proved for all values of the constants that satisfy the named
assumptions of its module, which TLC evaluates in the runs.

`ChatSlots_proofs`. The inductive invariant is
`TypeOK /\ NoHoldAndWait /\ SlotConservation`. None of the last two is
inductive alone: that a release finds a slot follows from the control of the
handlers, and that the counter is above zero then follows from conservation.
`LoopStepSlots` and `OtherStepsKeepSlots` sort every step into taking, giving
back and leaving alone, and the lemmas on conservation and the refinement
(`StepLedger`) argue about these three only. Finite sets enter through the
library's facts on adding and removing one element.
That a leak is only possible before the start (`OnlyUnstartedLeak`) needs one
more invariant, `Leaving`: who has only the conversation left to remove has
released, and only streams have generators. `LoopIsNeverStuck` is the part of
liveness that is an invariant: `acquire` picks the account at position
`(rr + 1) % n` of the n free ones, and the ranks of a finite set cover
`0..n-1` (`RanksCovered`), so a handler that has the loop to itself always has
a step to take (`KeeperGoesOn`). Results: `TypeCorrect`,
`CountersCountHolders`, `NeverHoldsAndWaits`, `PoolImplementsLedger`,
`OnlyUnstartedLeak`, `LoopIsNeverStuck`.
Assumptions: finitely many requests, `None` is no request and no entry,
positive limits and attempts.

`AccountLogin_proofs`. `Owns` says that a thread past the lock owns the lock of
the entry object it read at the start; `LoginMutex` follows and does not depend on what a
reload does. `RowsAndEntries` says how rows and entries may differ between a
commit and its reload (only the row just added lacks an entry, it has the
largest id, and no two ids share an entry); `PasswordsKept` follows. `Stable`
holds as long as no account is deleted (`NoDeletion`, a premise of
`LoginsNotRepeated` and `ClientsAreOwn`): a call of `do_login` works on the entry
that its id still has, under the name the entry still has, so no client of
another account is installed and the second look at the cache looks where the
client of the thread before went. What a request renews in between is no
`do_login`, and the invariant says nothing about it. With deletions, `Identities` says what is left:
an entry has the name of its row, and a call has the name of the entry it read,
for as long as that object lives. Of all steps only an installation in an entry
that replaced the locked one can then make a client foreign
(`ForeignClientsByReplacement`). `NoLockIsLeft` is the other half of `Owns`: a
lock that is taken has an owner who is still at work. Results: `TypeCorrect`,
`OneLoginPerEntry`, `ReloadKeepsPasswords`, `NoLockIsLeft`,
`ForeignClientsByReplacement`, `LoginsNotRepeated`, `ClientsAreOwn`. The
assumption that
there are at least as many entry objects as ids only says that the bound leaves
room for a restart.

`StreamUsage_proofs`. `Settled` fixes the evidence for the status from the
`finally` on; `InOrder` says that while the client is there the row is written
before the response ends. `RowKeepsAWriter` is the part of `UsageSettles`
that needs no fairness: while the row says `started`, the response task or the
background task is still to come, unless a commit raised. Results: `TypeCorrect`,
`GivesBackOnce`, `OkIsBacked`, `NoDisturbance`, `RemovesOnlyComplete`,
`OutputIsKept`, `RowKeepsAWriter`. The model has no growing parameter; the
theorems record the argument.

`KeyLimits_proofs`. `MinuteWindow` is not inductive: `PoppedAreOld` says that
what was popped is older than the window, so that a request admitted while fewer
than `PerMinute` stamps remain comes more than a window after the stamp
`PerMinute` places before it. `DayCounted` says that the counter of a day is the
number of requests admitted on it, which needs `Unchecked` (nobody is admitted
twice); `DayLimit` follows with `DayBounded`. The refinement of the ledger needs
the other direction too (`Booked`): the stamps are in the order of time, and
since any moment there are as many stamps as admissions. What is left in the
deque after popping is then exactly the last window (`MinuteCount`), and the
counter of the day what was admitted since midnight (`DayCount`), so that the
limiter and the ledger agree on every request (`SameVerdict`).
`QuotaOverrun` speaks of rows and of the past; what is inductive (`QuotaInv`)
counts the rows and the attempts that may still add one (`Chances`) together: an
insert moves one from the second to the first, an admission adds as many chances
as a request has attempts and needs a quota that is not used up, and without a
quota the attempts still open bound all rows (`RowsAreFew`).
Results: `TypeCorrect`, `NoBurst`, `DayLimitHolds`, `LimiterImplementsLedger`,
`QuotaOverrunBounded`.
Assumptions: natural numbers, a day is not empty, and the clock
does not go back.

`ClientToken_proofs`. `FieldInv` says that only the holder of a client's lock is
inside a renewal of it (`RenewersHold`), and which fields are cleared or set at
each of its steps (`Phases`); `SessionsAreWhole` follows. `Unstored` says that
nobody has seen the token of a login that was not stored yet, so that a store
never goes back (`TokensGetNewer`, an action property) and a rejected token
does not come back. `Knows` says what a thread can know of its rejected token at
every step between the answer and the retry: either its client does not have it
any more, or the token it will compare (`old_auth`) is that token, and the
comparison under the lock decides (`RejectedTokensAreReplaced`). The refinement
of `SessionStore` (`ClientsImplementStore`) goes step by step (`StepStore`).
Steps outside the renewals change nothing that the store sees
(`QuietStutters`). `TakeRefreshLock` is the end of the old session, since the
client was whole before (`SessionWhole`); what follows is hidden by the lock,
and when the last `Store` gives it back, `Phases` says that the other two fields
are of the login the thread keeps. That this login is not 0 is one more invariant
(`FreshLogin`). `EntryLockHeld` says which thread has the entry's lock; with
`RenewersHold` it follows that nobody waits for a lock of either kind with one
in hand (`LocksAreNotNested`), and that the pool's logins are serial
(`OnePoolLogin`).

`UsageRows_proofs`. `OwnRow`: the row under the id of a running stream is its
own, or it lost it to a reset; `IntrudersWereReset` follows. `Settling`: as long
as a row is open, the background task of its stream is still to come and will
see it, or a crash took it; `StartedMeansRunning` follows. `Ledger`: the rows are
the counted insertions, one row each, kept by inserts (a new id) and by resets
(the same filter on both sides); that equal cardinality follows is a lemma on
bijections of finite sets, and `TotalsAreExact` its result.

`ServerStart_proofs`. `Backed`: what was sealed under a setting was sealed with
that setting or, if the setting was empty, with what the file holds. `InUse`: the
secret of a process is the setting or, without one, the secret of the file.
Both stay true because the secret is written before the first thing is sealed
with it and a file with a secret is never overwritten; both survival theorems
follow. `Migrated` goes along the phases of a start and gives
`ServesWholeSchema`. `AdminGood` is about every name: a start writes a default or
empty password only over a row without a hash, which came with the database, and
does not get past a default one under the configured name. Names it is not
configured for keep what they had; `DefaultAdminRefused` follows.
Results: `TypeCorrect`, `PasswordsOutliveProcesses`, `SessionsOutliveProcesses`,
`ServesWholeSchema`, `DefaultAdminRefused`.

Only model-checked: the liveness properties
(`EveryRequestAnswered`, `RunningWorkReturnsSlot`, `UsageSettles`,
`EveryLoginEnds`, `EveryRequestEnds`, `GoodSettingsServe`), because the prover
does not handle fairness and `ENABLED`. Proved are the invariants they rest on,
which say that nobody waits for something that will not come: `LoopIsNeverStuck`,
`RowKeepsAWriter`, `NoLockIsLeft` and `LocksAreNotNested`.

## 6. Not modelled, and the plan

* Pure functions: hashing, encryption, signing, parsing of tokens and of
  upstream lines, the OpenAI format.
* Read-only endpoints, and the command line (which insists on one worker
  process, the premise of every model here).
* The administrator's login throttle (`routes.py:62`), the CSRF check and
  logout (which deletes the cookie and nothing else).
* `from_session`, `query_models`, `openai_chat` and `ensure_client`: no handler
  calls them. The table of cached sessions is written and never read.
* ToolForge, a vendored program with a process of its own.

Left for later: the login throttle as a window next to the minute window; a
common abstraction of the two modules that write usage rows (`StreamUsage` and
`UsageRows`).
