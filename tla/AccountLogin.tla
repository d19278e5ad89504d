----------------------------- MODULE AccountLogin -----------------------------
(***************************************************************************)
(* Logging accounts in (server/account_pool.py: do_login and what it       *)
(* calls, lock_account, reload, set_password, warmup_all) while the        *)
(* administrator adds, toggles and deletes accounts (server/web/routes.py) *)
(* and the server restarts (server/app.py).                                *)
(*                                                                         *)
(* The same account exists three times: as a row of the accounts table, as *)
(* an AccountEntry object in the pool's dict, and, while a login runs, in  *)
(* the local variables of a worker thread.  A step is what a thread does   *)
(* under the pool lock, in one database transaction, or in one upstream    *)
(* call; between two steps any other thread may run.  The administrator's  *)
(* handlers run on the event loop one after the other, and their commit    *)
(* and the reload that follows are two steps.                              *)
(*                                                                         *)
(* Abstracted: cooldowns and error counts, which do_login does not read;   *)
(* the cached_sessions table, which nothing reads back; clocks (the session *)
(* of a client expires at any time); what a client does by itself: a       *)
(* request that was given it may renew its session at any time, under a    *)
(* lock of the client's own (ClientToken has this in full).                *)
(***************************************************************************)
EXTENDS Naturals, FiniteSets

CONSTANTS MaxId,        \* bound: the largest account id
          Names,        \* upstream account names
          MaxObjects,   \* bound: AccountEntry objects created in a behaviour
          Threads,      \* bound: worker threads logging in at a time
          AdminKinds,   \* which of "toggle", "add", "delete" may happen
          MaxAdminOps,  \* bound: administrator operations
          MaxRestarts,  \* bound: restarts of the server
          AutoDisable,  \* cfg.api.auto_disable_on_iam_40050
          None

ASSUME BoundsAssumption == /\ MaxId \in Nat \ {0}
                           /\ MaxObjects \in Nat /\ MaxId <= MaxObjects
                           /\ MaxAdminOps \in Nat
                           /\ MaxRestarts \in Nat
                           /\ AutoDisable \in BOOLEAN
                           /\ AdminKinds \subseteq {"toggle", "add", "delete"}
ASSUME NoneAssumption   == /\ None \notin 1..MaxObjects
                           /\ None \notin Names
                           /\ None \notin Threads

Ids     == 1..MaxId
Objects == 1..MaxObjects
Causes  == {"none", "chat", "refresh", "warmup"}

VARIABLES
  row,       \* row[id]: the name in the accounts row, or None: no such row
  disabled,  \* disabled[id]: status = "disabled"
  entryOf,   \* AccountPool._entries: the object, or None
  created,   \* how many objects were created
  name,      \* entry.account_name
  password,  \* entry.password is set
  locked,    \* entry.locked
  client,    \* entry.client: the name it logged in as, or None
  session,   \* what brought the session entry.client has now; "none" if it
             \* has none that is valid: expired, or cleared for a renewal
  loginLock, \* entry._login_lock: the thread that holds it, or None
  pc,        \* where thread t is in do_login
  target,    \* its argument account_id
  mine,      \* the entry it read at the start, whose _login_lock it uses
  login,     \* the account_name it read at the start
  cause,     \* who called do_login
  asleep,    \* the warm-up thread is in its initial sleep
  warmups,   \* ids the warm-up thread still has to visit
  admin,     \* what the administrator's handler still has to do
  adminOps, restarts

rowVars    == <<row, disabled>>
objectVars == <<entryOf, created, name, password, locked, client, session>>
threadVars == <<pc, target, mine, login, cause>>
warmupVars == <<asleep, warmups>>
adminVars  == <<admin, adminOps, restarts>>
vars == <<row, disabled, entryOf, created, name, password, locked, client,
          session, loginLock, pc, target, mine, login, cause, asleep, warmups,
          admin, adminOps, restarts>>

Critical == {"recheck", "network", "commit", "install", "lockMemory",
             "lockRow", "leave"}
PcValues == Critical \cup {"idle", "lock"}

Exists(id) == row[id] # None
Usable(id) == entryOf[id] # None /\ password[entryOf[id]]

(* get_client *)
ValidClient(id) ==
  Usable(id) /\ client[entryOf[id]] # None /\ session[entryOf[id]] # "none"

Move(t, from, to) == pc[t] = from /\ pc' = [pc EXCEPT ![t] = to]
SameCall == UNCHANGED <<target, mine, login, cause>>

-------------------------------------------------------------------------------
(* do_login in thread t *)

(* reads the entry under the pool lock; without a password it raises at once *)
Begin(t, id, why) ==
  /\ Usable(id)
  /\ Move(t, "idle", "lock")
  /\ target' = [target EXCEPT ![t] = id]
  /\ mine' = [mine EXCEPT ![t] = entryOf[id]]
  /\ login' = [login EXCEPT ![t] = name[entryOf[id]]]
  /\ cause' = [cause EXCEPT ![t] = why]
  /\ UNCHANGED <<rowVars, objectVars, loginLock, adminVars>>

(* try_get_or_login for the account of a slot: acquire gave an entry that   *)
(* was not locked, and get_client found nothing                             *)
BeginChat(t, id) ==
  /\ Begin(t, id, "chat")
  /\ ~locked[entryOf[id]] /\ ~ValidClient(id)
  /\ UNCHANGED warmupVars

(* the administrator's refresh button, and the login after an add *)
BeginRefresh(t, id) ==
  /\ Begin(t, id, "refresh")
  /\ UNCHANGED warmupVars

(* mutant: the warm-up lists the entries instead of their ids *)
WarmupWakes_Entries ==
  /\ asleep
  /\ asleep' = FALSE
  /\ warmups' = {entryOf[id] : id \in Ids}
  /\ UNCHANGED <<rowVars, objectVars, loginLock, threadVars, adminVars>>

(* warmup_all sleeps, lists the ids in the pool, and visits one by one *)
WarmupWakes ==
  /\ asleep
  /\ asleep' = FALSE
  /\ warmups' = {id \in Ids : entryOf[id] # None}
  /\ UNCHANGED <<rowVars, objectVars, loginLock, threadVars, adminVars>>

WarmupFree == \A t \in Threads : cause[t] = "warmup" => pc[t] = "idle"
NextWarmup(id) == id \in warmups /\ \A i \in warmups : id <= i

BeginWarmup(t, id) ==
  /\ WarmupFree /\ NextWarmup(id)
  /\ Begin(t, id, "warmup")
  /\ warmups' = warmups \ {id}
  /\ UNCHANGED asleep

SkipWarmup(id) ==
  /\ WarmupFree /\ NextWarmup(id) /\ ~Usable(id)
  /\ warmups' = warmups \ {id}
  /\ UNCHANGED <<asleep, rowVars, objectVars, loginLock, threadVars, adminVars>>

(* mutant: no login lock *)
TakeLoginLock_Unlocked(t) ==
  /\ Move(t, "lock", "recheck")
  /\ SameCall
  /\ UNCHANGED <<rowVars, objectVars, loginLock, warmupVars, adminVars>>

TakeLoginLock(t) ==
  /\ Move(t, "lock", "recheck")
  /\ loginLock[mine[t]] = None
  /\ loginLock' = [loginLock EXCEPT ![mine[t]] = t]
  /\ SameCall
  /\ UNCHANGED <<rowVars, objectVars, warmupVars, adminVars>>

(* mutant: no second look at the cache *)
Recheck_Skipped(t) ==
  /\ Move(t, "recheck", "network")
  /\ SameCall
  /\ UNCHANGED <<rowVars, objectVars, loginLock, warmupVars, adminVars>>

(* the second look at the cache, by id *)
Recheck(t) ==
  /\ \/ Move(t, "recheck", "leave") /\ ValidClient(target[t])
     \/ Move(t, "recheck", "network") /\ ~ValidClient(target[t])
  /\ SameCall
  /\ UNCHANGED <<rowVars, objectVars, loginLock, warmupVars, adminVars>>

NetworkSucceeds(t) ==
  /\ Move(t, "network", "commit")
  /\ SameCall
  /\ UNCHANGED <<rowVars, objectVars, loginLock, warmupVars, adminVars>>

(* IAM 40050 disables the account if so configured, anything else is a      *)
(* mark_error                                                               *)
NetworkFails(t) ==
  /\ \/ AutoDisable /\ Move(t, "network", "lockMemory")
     \/ Move(t, "network", "leave")
  /\ SameCall
  /\ UNCHANGED <<rowVars, objectVars, loginLock, warmupVars, adminVars>>

(* lock_account: first the entry, then the row *)
LockMemory(t) ==
  /\ Move(t, "lockMemory", "lockRow")
  /\ locked' = IF entryOf[target[t]] = None THEN locked
               ELSE [locked EXCEPT ![entryOf[target[t]]] = TRUE]
  /\ SameCall
  /\ UNCHANGED <<rowVars, entryOf, created, name, password, client, session,
                 loginLock, warmupVars, adminVars>>

LockRow(t) ==
  /\ Move(t, "lockRow", "leave")
  /\ disabled' = [disabled EXCEPT ![target[t]] = Exists(target[t])]
  /\ SameCall
  /\ UNCHANGED <<row, objectVars, loginLock, warmupVars, adminVars>>

(* set_account_login_success makes the row active *)
Commit(t) ==
  /\ Move(t, "commit", "install")
  /\ disabled' = [disabled EXCEPT ![target[t]] = FALSE]
  /\ SameCall
  /\ UNCHANGED <<row, objectVars, loginLock, warmupVars, adminVars>>

(* mutant: the new client goes to the entry created last *)
Install_Latest(t) ==
  /\ Move(t, "install", "leave")
  /\ client' = [client EXCEPT ![created] = login[t]]
  /\ session' = [session EXCEPT ![created] = "login"]
  /\ SameCall
  /\ UNCHANGED <<rowVars, entryOf, created, name, password, locked, loginLock,
                 warmupVars, adminVars>>

(* the new client goes to whatever entry has the id now *)
Install(t) ==
  /\ Move(t, "install", "leave")
  /\ IF entryOf[target[t]] = None THEN UNCHANGED <<client, session>>
     ELSE /\ client' = [client EXCEPT ![entryOf[target[t]]] = login[t]]
          /\ session' = [session EXCEPT ![entryOf[target[t]]] = "login"]
  /\ SameCall
  /\ UNCHANGED <<rowVars, entryOf, created, name, password, locked, loginLock,
                 warmupVars, adminVars>>

(* mutant: an exception leaves without the lock being released *)
Leave_KeepsLock(t) ==
  /\ Move(t, "leave", "idle")
  /\ loginLock' = IF client[mine[t]] = None THEN loginLock
                  ELSE [loginLock EXCEPT ![mine[t]] = None]
  /\ target' = [target EXCEPT ![t] = None]
  /\ mine' = [mine EXCEPT ![t] = None]
  /\ login' = [login EXCEPT ![t] = None]
  /\ cause' = [cause EXCEPT ![t] = "none"]
  /\ UNCHANGED <<rowVars, objectVars, warmupVars, adminVars>>

Leave(t) ==
  /\ Move(t, "leave", "idle")
  /\ loginLock' = [loginLock EXCEPT ![mine[t]] = None]
  /\ target' = [target EXCEPT ![t] = None]
  /\ mine' = [mine EXCEPT ![t] = None]
  /\ login' = [login EXCEPT ![t] = None]
  /\ cause' = [cause EXCEPT ![t] = "none"]
  /\ UNCHANGED <<rowVars, objectVars, warmupVars, adminVars>>

(* is_expired, or the first half of a renewal, which clears the fields *)
Expire(o) ==
  /\ session[o] # "none"
  /\ session' = [session EXCEPT ![o] = "none"]
  /\ UNCHANGED <<rowVars, entryOf, created, name, password, locked, client,
                 loginLock, threadVars, warmupVars, adminVars>>

(* the second half: a request that was given the client logs it in again,   *)
(* whoever is in do_login for the same account meanwhile                    *)
Renew(o) ==
  /\ client[o] # None /\ session[o] = "none"
  /\ session' = [session EXCEPT ![o] = "renewed"]
  /\ UNCHANGED <<rowVars, entryOf, created, name, password, locked, client,
                 loginLock, threadVars, warmupVars, adminVars>>

-------------------------------------------------------------------------------
(* The administrator's handlers *)

AdminBegins(op) ==
  /\ op \in AdminKinds
  /\ admin = "idle" /\ adminOps < MaxAdminOps
  /\ adminOps' = adminOps + 1
  /\ UNCHANGED <<objectVars, loginLock, threadVars, warmupVars, restarts>>

Toggle(id) ==
  /\ AdminBegins("toggle")
  /\ Exists(id)
  /\ disabled' = [disabled EXCEPT ![id] = ~@]
  /\ admin' = "reload"
  /\ UNCHANGED row

Delete(id) ==
  /\ AdminBegins("delete")
  /\ Exists(id)
  /\ row' = [row EXCEPT ![id] = None]
  /\ disabled' = [disabled EXCEPT ![id] = FALSE]
  /\ admin' = "reload"

(* names are unique; the id is the largest in use plus one *)
Add(n, id) ==
  /\ AdminBegins("add")
  /\ \A i \in Ids : row[i] # n
  /\ \A i \in Ids : Exists(i) => i < id
  /\ id = 1 \/ (id - 1 \in Ids /\ Exists(id - 1))
  /\ row' = [row EXCEPT ![id] = n]
  /\ disabled' = [disabled EXCEPT ![id] = FALSE]
  /\ admin' = "reloadAdded"

(* reload: drop the entries without a row, create entries for new rows (at  *)
(* most one row is new), and take name and status from every row            *)
NewIds == {id \in Ids : Exists(id) /\ entryOf[id] = None}

(* mutant: every reload starts from empty passwords *)
Reload_DropsPasswords ==
  /\ admin \in {"reload", "reloadAdded"}
  /\ created' = created + Cardinality(NewIds)
  /\ created' <= MaxObjects
  /\ entryOf' = [id \in Ids |-> IF ~Exists(id) THEN None
                                ELSE IF id \in NewIds THEN created'
                                ELSE entryOf[id]]
  /\ password' = [o \in Objects |-> FALSE]
  /\ admin' = IF admin = "reloadAdded" THEN "setPassword" ELSE "idle"
  /\ UNCHANGED <<rowVars, name, locked, client, session, loginLock, threadVars,
                 warmupVars, adminOps, restarts>>

(* mutant: the entry of a deleted account stays until its id is used again *)
Reload_KeepsEntries ==
  /\ admin \in {"reload", "reloadAdded"}
  /\ Cardinality(NewIds) + created <= MaxObjects
  /\ created' = created + Cardinality(NewIds)
  /\ entryOf' = [id \in Ids |-> IF id \in NewIds THEN created' ELSE entryOf[id]]
  /\ name' = [o \in Objects |->
                IF \E id \in Ids : Exists(id) /\ entryOf'[id] = o
                THEN row[CHOOSE id \in Ids : entryOf'[id] = o] ELSE name[o]]
  /\ admin' = IF admin = "reloadAdded" THEN "setPassword" ELSE "idle"
  /\ UNCHANGED <<rowVars, password, locked, client, session, loginLock, threadVars,
                 warmupVars, adminOps, restarts>>

Reload ==
  /\ admin \in {"reload", "reloadAdded"}
  /\ Cardinality(NewIds) + created <= MaxObjects
  /\ created' = created + Cardinality(NewIds)
  /\ entryOf' = [id \in Ids |-> IF ~Exists(id) THEN None
                                ELSE IF id \in NewIds THEN created'
                                ELSE entryOf[id]]
  /\ name' = [o \in Objects |->
                IF \E id \in Ids : entryOf'[id] = o
                THEN row[CHOOSE id \in Ids : entryOf'[id] = o] ELSE name[o]]
  /\ locked' = [o \in Objects |->
                IF \E id \in Ids : entryOf'[id] = o
                THEN disabled[CHOOSE id \in Ids : entryOf'[id] = o]
                ELSE locked[o]]
  /\ admin' = IF admin = "reloadAdded" THEN "setPassword" ELSE "idle"
  /\ UNCHANGED <<rowVars, password, client, session, loginLock, threadVars,
                 warmupVars, adminOps, restarts>>

(* set_password for the account just added, which has the largest id *)
SetPassword ==
  /\ admin = "setPassword"
  /\ \E id \in Ids :
       /\ Exists(id) /\ \A i \in Ids : Exists(i) => i <= id
       /\ password' = [password EXCEPT ![entryOf[id]] = TRUE]
  /\ admin' = "idle"
  /\ UNCHANGED <<rowVars, entryOf, created, name, locked, client, session,
                 loginLock, threadVars, warmupVars, adminOps, restarts>>

-------------------------------------------------------------------------------
(* What the server makes of the accounts table when it starts: one entry    *)
(* per row with its password decrypted, no client, and a warm-up of every   *)
(* entry.                                                                   *)
Rank(id) == Cardinality({i \in Ids : Exists(i) /\ i <= id})

LoadedEntry(id) == IF Exists(id) THEN Rank(id) ELSE None

IdOf(o) == CHOOSE id \in Ids : LoadedEntry(id) = o
Loaded  == {o \in Objects : \E id \in Ids : LoadedEntry(id) = o}

Restart ==
  /\ restarts < MaxRestarts
  /\ restarts' = restarts + 1
  /\ entryOf' = [id \in Ids |-> LoadedEntry(id)]
  /\ created' = Cardinality({id \in Ids : Exists(id)})
  /\ name' = [o \in Objects |-> IF o \in Loaded THEN row[IdOf(o)] ELSE None]
  /\ password' = [o \in Objects |-> o \in Loaded]
  /\ locked' = [o \in Objects |-> o \in Loaded /\ disabled[IdOf(o)]]
  /\ client' = [o \in Objects |-> None]
  /\ session' = [o \in Objects |-> "none"]
  /\ loginLock' = [o \in Objects |-> None]
  /\ pc' = [t \in Threads |-> "idle"]
  /\ target' = [t \in Threads |-> None]
  /\ mine' = [t \in Threads |-> None]
  /\ login' = [t \in Threads |-> None]
  /\ cause' = [t \in Threads |-> "none"]
  /\ asleep' = TRUE
  /\ warmups' = {}
  /\ admin' = "idle"
  /\ UNCHANGED <<rowVars, adminOps>>

(* the server has just started, on a table with an account under id 1 *)
Init ==
  /\ \E n \in Names : row = [id \in Ids |-> IF id = 1 THEN n ELSE None]
  /\ disabled = [id \in Ids |-> FALSE]
  /\ entryOf = [id \in Ids |-> LoadedEntry(id)]
  /\ created = 1
  /\ name = [o \in Objects |-> IF o \in Loaded THEN row[IdOf(o)] ELSE None]
  /\ password = [o \in Objects |-> o \in Loaded]
  /\ locked = [o \in Objects |-> FALSE]
  /\ client = [o \in Objects |-> None]
  /\ session = [o \in Objects |-> "none"]
  /\ loginLock = [o \in Objects |-> None]
  /\ pc = [t \in Threads |-> "idle"]
  /\ target = [t \in Threads |-> None]
  /\ mine = [t \in Threads |-> None]
  /\ login = [t \in Threads |-> None]
  /\ cause = [t \in Threads |-> "none"]
  /\ asleep = TRUE
  /\ warmups = {}
  /\ admin = "idle"
  /\ adminOps = 0
  /\ restarts = 0

Locked(t) ==
  \/ Recheck(t) \/ NetworkSucceeds(t) \/ NetworkFails(t)
  \/ LockMemory(t) \/ LockRow(t) \/ Commit(t) \/ Install(t) \/ Leave(t)

Next ==
  \/ \E t \in Threads, id \in Ids :
       BeginChat(t, id) \/ BeginRefresh(t, id) \/ BeginWarmup(t, id)
  \/ \E t \in Threads : TakeLoginLock(t) \/ Locked(t)
  \/ \E id \in Ids : SkipWarmup(id) \/ Toggle(id) \/ Delete(id)
  \/ \E n \in Names, id \in Ids : Add(n, id)
  \/ \E o \in Objects : Expire(o) \/ Renew(o)
  \/ WarmupWakes \/ Reload \/ SetPassword \/ Restart

Spec == Init /\ [][Next]_vars

(* Threads run, network calls end, and a thread that waits for a login lock *)
(* gets it if the lock is free again and again.                             *)
Fairness == \A t \in Threads : WF_vars(Locked(t)) /\ SF_vars(TakeLoginLock(t))
FairSpec == Spec /\ Fairness

-------------------------------------------------------------------------------
(* Properties *)

(* Every variable has its type. *)
TypeOK ==
  /\ row \in [Ids -> Names \cup {None}]
  /\ disabled \in [Ids -> BOOLEAN]
  /\ created \in 0..MaxObjects
  /\ entryOf \in [Ids -> Objects \cup {None}]
  /\ name \in [Objects -> Names \cup {None}]
  /\ password \in [Objects -> BOOLEAN]
  /\ locked \in [Objects -> BOOLEAN]
  /\ client \in [Objects -> Names \cup {None}]
  /\ session \in [Objects -> {"none", "login", "renewed"}]
  /\ loginLock \in [Objects -> Threads \cup {None}]
  /\ pc \in [Threads -> PcValues]
  /\ target \in [Threads -> Ids \cup {None}]
  /\ mine \in [Threads -> Objects \cup {None}]
  /\ login \in [Threads -> Names \cup {None}]
  /\ cause \in [Threads -> Causes]
  /\ asleep \in BOOLEAN
  /\ warmups \subseteq Ids
  /\ admin \in {"idle", "reload", "reloadAdded", "setPassword"}
  /\ adminOps \in 0..MaxAdminOps
  /\ restarts \in 0..MaxRestarts

(* "One login lock per account: logins over the network are serial"         *)
(* (account_pool.py:46).  No two threads are past the lock of one entry,    *)
(* whatever reloads replace or drop in the meantime.  (A renewal logs the   *)
(* same account in under the lock of the client, not under this one.)       *)
LoginMutex ==
  \A t, u \in Threads :
    t # u /\ pc[t] \in Critical /\ pc[u] \in Critical => mine[t] # mine[u]

(* "A second check under the lock, against concurrent repeated logins"      *)
(* (account_pool.py:186): no thread logs an account in over the network     *)
(* while its entry has a session that another do_login brought; the thread  *)
(* that waited for the lock of that login finds it (196-199).  A session    *)
(* that a request renewed in the meantime (ctyun_api.py:276-281) is another *)
(* matter: its login is not under this lock, and the code repeats it.       *)
LoggedIn(id) == ValidClient(id) /\ session[entryOf[id]] = "login"

NoRepeatedLogin ==
  \A t \in Threads :
    pc[t] \in {"network", "commit", "install"} => ~LoggedIn(target[t])

(* A reload does not lose the decrypted passwords (account_pool.py:85): an  *)
(* entry in the pool can log in, but for the moment between the reload that *)
(* creates it and set_password.                                             *)
PasswordsKept ==
  \A id \in Ids : entryOf[id] # None /\ admin # "setPassword" => Usable(id)

(* An entry serves requests with a client of its own account, unless an     *)
(* account was deleted and its id taken by another one during a login.      *)
ClientIsOwn ==
  \A o \in Objects : client[o] \in {None, name[o]}

(* The session of another account gets into an entry in one way only: a     *)
(* login ends after its entry was dropped and its id given to a new one,    *)
(* because the entry for the client is looked up by id (account_pool.py:    *)
(* 222) and not the one whose lock the thread has.  No reload, restart or   *)
(* other login does it, and no entry changes its account under its client.  *)
Foreign(o) == client[o] \notin {None, name[o]}

ForeignOnlyByReplacement ==
  [][\A o \in Objects :
       ~Foreign(o) /\ Foreign(o)' =>
         \E t \in Threads : /\ pc[t] = "install" /\ pc'[t] = "leave"
                            /\ entryOf[target[t]] = o /\ mine[t] # o]_vars

(* Every call of do_login that got past its first check ends.               *)
EveryLoginEnds == \A t \in Threads : pc[t] = "lock" ~> pc[t] = "idle"

-------------------------------------------------------------------------------
(* Four statements that do not hold: each has a counterexample of a few     *)
(* steps (README, section 4).                                               *)

(* Nobody logs an account in while its entry has a valid client at all: a   *)
(* renewal under the client's lock may end during a do_login.               *)
NoLoginOfValidClient ==
  \A t \in Threads :
    pc[t] \in {"network", "commit", "install"} => ~ValidClient(target[t])

(* "Disable the account at once under risk control (it can be enabled by    *)
(* hand)" (config.py:47): a disabled row becomes active again only by the   *)
(* administrator's toggle, or ceases to be.                                 *)
OnlyAdminEnables ==
  [][\A id \in Ids : disabled[id] /\ ~disabled'[id] => adminOps' # adminOps]_vars

(* "Warm up all active accounts after the start" (account_pool.py:284): the *)
(* warm-up does not log in an account whose entry is locked.                *)
WarmupOnlyActive ==
  [][\A t \in Threads :
       pc[t] = "idle" /\ cause'[t] = "warmup" => ~locked[mine'[t]]]_vars

(* "IAM risk control disables the account automatically"                    *)
(* (config.example.yaml:31): once the row says disabled and nobody is in    *)
(* the middle of changing it, acquire does not hand the account out.        *)
Settled == admin = "idle" /\ \A t \in Threads : pc[t] \notin {"lockMemory", "lockRow"}

DisabledIsLocked ==
  Settled => \A id \in Ids : Exists(id) /\ disabled[id] => locked[entryOf[id]]
===============================================================================
