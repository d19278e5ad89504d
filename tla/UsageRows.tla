------------------------------ MODULE UsageRows -------------------------------
(***************************************************************************)
(* The usage table as its writers share it: chat requests insert a row and *)
(* write it again when they end (server/api/chat.py), while administrators *)
(* delete the rows of a key or an account, and add, toggle and delete keys *)
(* (server/web/routes.py).                                                 *)
(*                                                                         *)
(* A stream inserts its row when it starts and remembers only the id.  Its *)
(* finish task and its background task each read the row in one statement  *)
(* and update it in another, by id.  Their order and their reasons are in  *)
(* StreamUsage; here the row may be deleted, and its id taken by another   *)
(* request, between any two of these statements.                           *)
(*                                                                         *)
(* SQLite gives a new row the largest id in use plus one, and does not     *)
(* enforce ON DELETE SET NULL unless it is asked to.                       *)
(*                                                                         *)
(* Abstracted: the columns but key, account and whether the status is      *)
(* "started"; what a request does before its row (ChatSlots, KeyLimits),   *)
(* its accounts being those it happened to get; the second row of a retried *)
(* request (KeyLimits); database errors, which may leave a row open          *)
(* (StreamUsage); deletion of accounts, which does to account_id what       *)
(* deletion of a key does to api_key_id.                                   *)
(***************************************************************************)
EXTENDS Naturals, FiniteSets

CONSTANTS Requests,
          Streams,     \* those with body.stream
          Accounts,
          MaxKey,      \* bound: ids of API keys
          MaxRow,      \* bound: ids of usage rows
          MaxAdminOps, \* bound: what administrators do
          MaxCrashes,  \* bound: restarts of the server
          Nobody, NoRow

KeyIds == 1..MaxKey
RowIds == 1..MaxRow

ASSUME RowsAssumption ==
  /\ MaxKey \in Nat \ {0} /\ MaxRow \in Nat
  /\ MaxAdminOps \in Nat /\ MaxCrashes \in Nat
  /\ IsFiniteSet(Requests) /\ Streams \subseteq Requests
  /\ Nobody \notin Requests

Rows == [key : KeyIds, account : Accounts, started : BOOLEAN,
         owner : Requests,              \* history: who inserted the row
         by : Requests \cup {Nobody}]   \* history: who wrote it last
ASSUME NoRowAssumption == NoRow \notin Rows

VARIABLES
  keys,       \* keys[k]: "absent", "active" or "disabled"
  usage,      \* the table
  pc,         \* "new", "known", "streaming", "ending", "done", "lost"
  kid,        \* api_key.id
  usageId,    \* usage_id of a stream
  finish,     \* _finish_usage: "none", "todo", "read", "done"
  background, \* _finish_stream_usage: "none", "after", "todo", "read", "done"
  adminOps, crashes,
  orphaned,   \* history: requests whose row was deleted before their end
  counted     \* history: insertions whose key and account were not reset since

requestVars == <<pc, kid, usageId, finish, background>>
boundVars   == <<adminOps, crashes>>
vars == <<keys, usage, pc, kid, usageId, finish, background, adminOps, crashes,
          orphaned, counted>>

Exists(i) == usage[i] # NoRow
Running(r) == pc[r] \in {"streaming", "ending"}

(* mutant: the id is the number of rows plus one *)
NextRow_Count(i) == i = Cardinality({j \in RowIds : Exists(j)}) + 1

NextRow(i) ==
  /\ \A j \in RowIds : Exists(j) => j < i
  /\ i = 1 \/ (i - 1 \in RowIds /\ Exists(i - 1))

Insert(r, i, a, started, by) ==
  /\ NextRow(i)
  /\ usage' = [usage EXCEPT ![i] = [key |-> kid[r], account |-> a, started |-> started,
                                    owner |-> r, by |-> by]]
  /\ counted' = counted \cup {[request |-> r, key |-> kid[r], account |-> a]}

-------------------------------------------------------------------------------
(* Requests *)

(* require_api_key *)
Authenticate(r, k) ==
  /\ pc[r] = "new" /\ keys[k] = "active"
  /\ pc' = [pc EXCEPT ![r] = "known"]
  /\ kid' = [kid EXCEPT ![r] = k]
  /\ UNCHANGED <<keys, usage, usageId, finish, background, boundVars, orphaned, counted>>

(* no account, or every attempt failed: no row *)
Refused(r) ==
  /\ pc[r] = "known"
  /\ pc' = [pc EXCEPT ![r] = "done"]
  /\ UNCHANGED <<keys, usage, kid, usageId, finish, background, boundVars, orphaned,
                 counted>>

(* _record_usage at the end of a request without stream *)
PlainEnds(r, i, a) ==
  /\ pc[r] = "known" /\ r \notin Streams
  /\ Insert(r, i, a, FALSE, r)
  /\ pc' = [pc EXCEPT ![r] = "done"]
  /\ UNCHANGED <<keys, kid, usageId, finish, background, boundVars, orphaned>>

(* _create_pending_usage *)
StreamStarts(r, i, a) ==
  /\ pc[r] = "known" /\ r \in Streams
  /\ Insert(r, i, a, TRUE, Nobody)
  /\ usageId' = [usageId EXCEPT ![r] = i]
  /\ pc' = [pc EXCEPT ![r] = "streaming"]
  /\ UNCHANGED <<keys, kid, finish, background, boundVars, orphaned>>

(* sent to its end: the background task comes after the finish task;        *)
(* cancelled: both run; cancelled before the generator began: no finish     *)
StreamEnds(r) ==
  /\ pc[r] = "streaming"
  /\ pc' = [pc EXCEPT ![r] = "ending"]
  /\ \E f, b \in {"none", "after", "todo"} :
       /\ <<f, b>> \in {<<"todo", "after">>, <<"todo", "todo">>, <<"none", "todo">>}
       /\ finish' = [finish EXCEPT ![r] = f]
       /\ background' = [background EXCEPT ![r] = b]
  /\ UNCHANGED <<keys, usage, kid, usageId, boundVars, orphaned, counted>>

(* mutant: the request is over when its finish task is                      *)
Ended_FinishOnly(r, f, b) ==
  /\ finish' = [finish EXCEPT ![r] = f]
  /\ background' = [background EXCEPT ![r] = b]
  /\ pc' = IF f \in {"none", "done"} THEN [pc EXCEPT ![r] = "done"] ELSE pc
  /\ UNCHANGED <<keys, kid, usageId, boundVars, orphaned, counted>>

Ended(r, f, b) ==
  /\ finish' = [finish EXCEPT ![r] = f]
  /\ background' = [background EXCEPT ![r] = b]
  /\ pc' = IF f \in {"none", "done"} /\ b = "done" THEN [pc EXCEPT ![r] = "done"] ELSE pc
  /\ UNCHANGED <<keys, kid, usageId, boundVars, orphaned, counted>>

(* UPDATE usage ... WHERE id = usage_id *)
Update(r) ==
  usage' = [usage EXCEPT ![usageId[r]] = [@ EXCEPT !.started = FALSE, !.by = r]]

(* _finish_usage reads the row; without one it returns *)
FinishReads(r) ==
  /\ finish[r] = "todo"
  /\ IF Exists(usageId[r]) THEN Ended(r, "read", background[r])
     ELSE Ended(r, "done", IF background[r] = "after" THEN "todo" ELSE background[r])
  /\ UNCHANGED usage

(* mutant: the update goes to the row with the largest id                   *)
FinishWrites_Newest(r) ==
  LET i == CHOOSE j \in RowIds : Exists(j) /\ \A k \in RowIds : Exists(k) => k <= j IN
  /\ finish[r] = "read" /\ Exists(usageId[r])
  /\ usage' = [usage EXCEPT ![i] = [@ EXCEPT !.started = FALSE, !.by = r]]
  /\ Ended(r, "done", IF background[r] = "after" THEN "todo" ELSE background[r])

(* an update that finds no row raises, which ends the response task if it   *)
(* is still there: no background task then                                  *)
FinishWrites(r) ==
  /\ finish[r] = "read"
  /\ \/ /\ Exists(usageId[r])
        /\ Update(r)
        /\ Ended(r, "done", IF background[r] = "after" THEN "todo" ELSE background[r])
     \/ /\ ~Exists(usageId[r])
        /\ Ended(r, "done", IF background[r] = "after" THEN "done" ELSE background[r])
        /\ UNCHANGED usage

(* mutant: the background task leaves the row to the finish task            *)
BackgroundReads_Trusting(r) ==
  /\ background[r] = "todo"
  /\ Ended(r, finish[r], "done")
  /\ UNCHANGED usage

(* _finish_stream_usage *)
BackgroundReads(r) ==
  /\ background[r] = "todo"
  /\ IF Exists(usageId[r]) /\ usage[usageId[r]].started THEN Ended(r, finish[r], "read")
     ELSE Ended(r, finish[r], "done")
  /\ UNCHANGED usage

BackgroundWrites(r) ==
  /\ background[r] = "read"
  /\ IF Exists(usageId[r]) THEN Update(r) ELSE UNCHANGED usage
  /\ Ended(r, finish[r], "done")

-------------------------------------------------------------------------------
(* Administrators *)

Admin ==
  /\ adminOps < MaxAdminOps
  /\ adminOps' = adminOps + 1
  /\ UNCHANGED <<requestVars, crashes>>

AddKey(k) ==
  /\ Admin
  /\ \A j \in KeyIds : keys[j] # "absent" => j < k
  /\ k = 1 \/ (k - 1 \in KeyIds /\ keys[k - 1] # "absent")
  /\ keys' = [keys EXCEPT ![k] = "active"]
  /\ UNCHANGED <<usage, orphaned, counted>>

ToggleKey(k) ==
  /\ Admin
  /\ keys[k] # "absent"
  /\ keys' = [keys EXCEPT ![k] = IF @ = "active" THEN "disabled" ELSE "active"]
  /\ UNCHANGED <<usage, orphaned, counted>>

(* the rows keep the id of the key *)
DeleteKey(k) ==
  /\ Admin
  /\ keys[k] # "absent"
  /\ keys' = [keys EXCEPT ![k] = "absent"]
  /\ UNCHANGED <<usage, orphaned, counted>>

Delete(ids) ==
  /\ usage' = [i \in RowIds |-> IF i \in ids THEN NoRow ELSE usage[i]]
  /\ orphaned' = orphaned \cup {r \in Requests : Running(r)
                                  /\ \E i \in ids : usage[i].owner = r}

(* mutant: rows of streams that are still open are kept                     *)
ResetKey_Settled(k) ==
  /\ Admin
  /\ Delete({i \in RowIds : Exists(i) /\ usage[i].key = k /\ ~usage[i].started})
  /\ counted' = {c \in counted : c.key # k}
  /\ UNCHANGED keys

ResetKey(k) ==
  /\ Admin
  /\ Delete({i \in RowIds : Exists(i) /\ usage[i].key = k})
  /\ counted' = {c \in counted : c.key # k}
  /\ UNCHANGED keys

ResetAccount(a) ==
  /\ Admin
  /\ Delete({i \in RowIds : Exists(i) /\ usage[i].account = a})
  /\ counted' = {c \in counted : c.account # a}
  /\ UNCHANGED keys

(* the process is gone with its requests, the tables stay *)
Crash ==
  /\ crashes < MaxCrashes
  /\ crashes' = crashes + 1
  /\ pc' = [r \in Requests |-> IF pc[r] \in {"new", "done"} THEN pc[r] ELSE "lost"]
  /\ finish' = [r \in Requests |-> "none"]
  /\ background' = [r \in Requests |-> "none"]
  /\ UNCHANGED <<keys, usage, kid, usageId, adminOps, orphaned, counted>>

-------------------------------------------------------------------------------
(* usage_page: total requests of each key and of each account *)
KeyTotal(k)     == Cardinality({i \in RowIds : Exists(i) /\ usage[i].key = k})
AccountTotal(a) == Cardinality({i \in RowIds : Exists(i) /\ usage[i].account = a})

-------------------------------------------------------------------------------
Init ==
  /\ keys = [k \in KeyIds |-> IF k = 1 THEN "active" ELSE "absent"]
  /\ usage = [i \in RowIds |-> NoRow]
  /\ pc = [r \in Requests |-> "new"]
  /\ kid = [r \in Requests |-> 0] /\ usageId = kid
  /\ finish = [r \in Requests |-> "none"] /\ background = finish
  /\ adminOps = 0 /\ crashes = 0
  /\ orphaned = {} /\ counted = {}

Next ==
  \/ \E r \in Requests :
       \/ \E k \in KeyIds : Authenticate(r, k)
       \/ \E i \in RowIds, a \in Accounts : PlainEnds(r, i, a) \/ StreamStarts(r, i, a)
       \/ Refused(r) \/ StreamEnds(r) \/ FinishReads(r) \/ FinishWrites(r)
       \/ BackgroundReads(r) \/ BackgroundWrites(r)
  \/ \E k \in KeyIds : AddKey(k) \/ ToggleKey(k) \/ DeleteKey(k) \/ ResetKey(k)
  \/ \E a \in Accounts : ResetAccount(a)
  \/ Crash

Spec == Init /\ [][Next]_vars

-------------------------------------------------------------------------------
(* Properties *)

(* The values the tables and the requests take.                             *)
TypeOK ==
  /\ keys \in [KeyIds -> {"absent", "active", "disabled"}]
  /\ usage \in [RowIds -> Rows \cup {NoRow}]
  /\ pc \in [Requests -> {"new", "known", "streaming", "ending", "done", "lost"}]
  /\ kid \in [Requests -> 0..MaxKey]
  /\ usageId \in [Requests -> 0..MaxRow]
  /\ \A r \in Requests : /\ pc[r] = "known" => kid[r] \in KeyIds
                         /\ Running(r) => usageId[r] \in RowIds
  /\ finish \in [Requests -> {"none", "todo", "read", "done"}]
  /\ background \in [Requests -> {"none", "after", "todo", "read", "done"}]
  /\ \A r \in Requests : pc[r] # "ending" => /\ finish[r] \notin {"todo", "read"}
                                             /\ background[r] \notin {"todo", "read"}
  /\ adminOps \in 0..MaxAdminOps /\ crashes \in 0..MaxCrashes
  /\ orphaned \subseteq Requests
  /\ counted \subseteq [request : Requests, key : KeyIds, account : Accounts]

(* The totals of the usage page are exactly the requests that inserted a    *)
(* row and whose key and account were not reset since, whatever ids were    *)
(* reused: no insert overwrites a row, and a reset leaves no row of an open *)
(* stream behind.                                                           *)
PagesCount ==
  /\ \A k \in KeyIds : KeyTotal(k) = Cardinality({c \in counted : c.key = k})
  /\ \A a \in Accounts : AccountTotal(a) = Cardinality({c \in counted : c.account = a})

(* Without database errors a row says "started" only while its stream runs, *)
(* or because a crash ended it; resets and writers that lost their row never *)
(* leave one behind.                                                        *)
StartedIsRunning ==
  \A i \in RowIds : Exists(i) /\ usage[i].started
                     => Running(usage[i].owner) \/ pc[usage[i].owner] = "lost"

(* Who writes a row of another request lost its own row to a reset.         *)
OnlyOrphansIntrude ==
  \A i \in RowIds : Exists(i) /\ usage[i].by \notin {Nobody, usage[i].owner}
                     => usage[i].by \in orphaned

(* "Statistics of each request" (models.py, Usage): a row is written by the *)
(* request that inserted it.  The code does not keep it: after a reset the  *)
(* id goes to the next request while the old stream still holds it.         *)
RowsAreOwn ==
  \A i \in RowIds : Exists(i) => usage[i].by \in {Nobody, usage[i].owner}
===============================================================================
