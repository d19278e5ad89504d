----------------------------- MODULE ClientToken ------------------------------
(***************************************************************************)
(* The session of one upstream account (ctyun_api.py, CtyunClient): the    *)
(* token yl_auth, the signing key sk and the expiry that belong to it, as  *)
(* threads read and renew them without a common lock.                      *)
(*                                                                         *)
(* Two places log in.  AccountPool.do_login makes a new client object      *)
(* under the lock of the account's entry; CtyunClient.refresh changes the  *)
(* fields of an existing object under the lock of that object, while       *)
(* others read them.  A thread keeps the object it was given although the  *)
(* entry may have another one by then.                                     *)
(*                                                                         *)
(* A chat request is a stream request: _request never renews for it.  A    *)
(* control request (remove_conversation, clear_all_conversations) renews   *)
(* once and is then sent again.  After a chat its thread may remove the    *)
(* conversation with the same client.                                      *)
(*                                                                         *)
(* A login is known by its number: token n, key n and expiry n belong      *)
(* together, 0 is None.  The upstream is external: it accepts a request    *)
(* whose token is live and whose signature is by the key of that token,    *)
(* answers 401 or 403 to any other, and may revoke a token at any time.    *)
(* Abstracted: the cryptography and the three HTTP calls of a login (one   *)
(* step that fails or succeeds), tenant and user id, request contents, a   *)
(* login answer without a readable expiry; the reads of logged_in and      *)
(* is_expired are one step; of do_login what AccountLogin has in full.     *)
(***************************************************************************)
EXTENDS Naturals, FiniteSets

CONSTANTS Chats,       \* threads that begin with a chat request
          Controls,    \* threads that make a control request only
          MaxClients,  \* bound: client objects
          MaxTokens,   \* bound: successful logins
          Nobody

Threads == Chats \cup Controls
Clients == 1..MaxClients
Tokens  == 1..MaxTokens

ASSUME TokenAssumption ==
  /\ MaxClients \in Nat /\ MaxTokens \in Nat
  /\ Nobody \notin Threads

VARIABLES
  issued, live,       \* upstream: logins so far, tokens it accepts
  aged,               \* tokens that is_expired reports
  entryClient, made,  \* e.client (0: None), client objects so far
  entryLock,          \* e._login_lock
  auth, sk, exp,      \* the fields of the client objects
  refreshLock,        \* _login_lock of the client objects
  pc,
  stage,              \* "chat" or "control": the request being made
  mine,               \* the client object
  try,                \* tries of the request, the second one after a renewal
  signed, sent,       \* the key and the token of the request
  rejected,           \* the token of the request that was answered 401 first
  old,                \* old_auth
  fresh,              \* the login of a refresh, before it is stored
  result              \* "none", "ok", "denied", "raised"

upstreamVars == <<issued, live, aged>>
poolVars     == <<entryClient, made, entryLock>>
clientVars   == <<auth, sk, exp, refreshLock>>
requestVars  == <<stage, mine, try, signed, sent, rejected, old, fresh, result>>
vars == <<issued, live, aged, entryClient, made, entryLock, auth, sk, exp, refreshLock,
          pc, stage, mine, try, signed, sent, rejected, old, fresh, result>>

Renewing == {"clearAuth", "clearSk", "clearExp", "login", "setAuth", "setSk", "setExp"}
PcValues == Renewing \cup {"new", "lock", "poolLogin", "install", "ready", "sign",
                           "header", "sent", "denied", "refresh", "done"}

Move(t, from, to) == pc[t] = from /\ pc' = [pc EXCEPT ![t] = to]
End(t, from, res) == Move(t, from, "done") /\ result' = [result EXCEPT ![t] = res]

-------------------------------------------------------------------------------
(* AccountPool.try_get_or_login *)

LoggedIn(c) == auth[c] # 0 /\ sk[c] # 0
IsExpired(c) == exp[c] = 0 \/ exp[c] \in aged
ValidClient == entryClient # 0 /\ LoggedIn(entryClient) /\ ~IsExpired(entryClient)

UseEntryClient(t) ==
  /\ ValidClient
  /\ mine' = [mine EXCEPT ![t] = entryClient]
  /\ UNCHANGED entryLock

GetClient(t) ==
  /\ \/ UseEntryClient(t) /\ Move(t, "new", "ready")
     \/ ~ValidClient /\ Move(t, "new", "lock") /\ UNCHANGED <<mine, entryLock>>
  /\ UNCHANGED <<upstreamVars, entryClient, made, clientVars, stage, try, signed, sent,
                 rejected, old, fresh, result>>

(* do_login: the entry's lock and the second look at its client *)
EnterLogin(t) ==
  /\ entryLock = Nobody
  /\ \/ UseEntryClient(t) /\ Move(t, "lock", "ready")
     \/ ~ValidClient /\ Move(t, "lock", "poolLogin") /\ entryLock' = t /\ UNCHANGED mine
  /\ UNCHANGED <<upstreamVars, entryClient, made, clientVars, stage, try, signed, sent,
                 rejected, old, fresh, result>>

IssueToken ==
  /\ issued < MaxTokens
  /\ issued' = issued + 1
  /\ live' = live \cup {issued'}
  /\ UNCHANGED aged

(* a new client object, which nobody else knows yet, logs in *)
LoginReturns(t) ==
  /\ Move(t, "poolLogin", "install")
  /\ IssueToken
  /\ made < MaxClients
  /\ made' = made + 1
  /\ mine' = [mine EXCEPT ![t] = made']
  /\ auth' = [auth EXCEPT ![made'] = issued']
  /\ sk' = [sk EXCEPT ![made'] = issued']
  /\ exp' = [exp EXCEPT ![made'] = issued']
  /\ UNCHANGED <<entryClient, entryLock, refreshLock, stage, try, signed, sent, rejected,
                 old, fresh, result>>

(* mutant: the lock is kept when the login raises *)
LoginFails_KeepsLock(t) ==
  /\ \E from \in {"poolLogin", "install"} : End(t, from, "raised")
  /\ UNCHANGED <<upstreamVars, poolVars, clientVars, stage, mine, try, signed, sent,
                 rejected, old, fresh>>

(* ... or its commit raises, and nobody gets the client *)
LoginFails(t) ==
  /\ \E from \in {"poolLogin", "install"} : End(t, from, "raised")
  /\ entryLock' = Nobody
  /\ UNCHANGED <<upstreamVars, entryClient, made, clientVars, stage, mine, try, signed,
                 sent, rejected, old, fresh>>

Install(t) ==
  /\ Move(t, "install", "ready")
  /\ entryClient' = mine[t]
  /\ entryLock' = Nobody
  /\ UNCHANGED <<upstreamVars, made, clientVars, requestVars>>

-------------------------------------------------------------------------------
(* CtyunClient._request *)

Request(t) == UNCHANGED <<upstreamVars, poolVars, clientVars, stage, mine, old, fresh>>

(* the locals of a request that is over *)
Forget(t) == signed' = [signed EXCEPT ![t] = 0] /\ sent' = [sent EXCEPT ![t] = 0]

(* an exception of the retry is swallowed: the first answer is returned *)
Outcome(t) == IF try[t] = 1 THEN "raised" ELSE "denied"

CheckLoggedIn(t) ==
  /\ \/ End(t, "ready", Outcome(t)) /\ auth[mine[t]] = 0
     \/ Move(t, "ready", "sign") /\ auth[mine[t]] # 0 /\ UNCHANGED result
  /\ Request(t) /\ UNCHANGED <<try, signed, sent, rejected>>

Sign(t) ==
  /\ Move(t, "sign", "header")
  /\ signed' = [signed EXCEPT ![t] = sk[mine[t]]]
  /\ Request(t) /\ UNCHANGED <<try, sent, rejected, result>>

(* yl_auth is read again: it may be None or of another login by now *)
Header(t) ==
  /\ Move(t, "header", "sent")
  /\ sent' = [sent EXCEPT ![t] = auth[mine[t]]]
  /\ Request(t) /\ UNCHANGED <<try, signed, rejected, result>>

Accepted(t) == sent[t] \in live /\ signed[t] = sent[t]

NetworkError(t) ==
  /\ End(t, "sent", Outcome(t))
  /\ Forget(t)
  /\ Request(t) /\ UNCHANGED <<try, rejected>>

Answered(t) ==
  /\ Accepted(t)
  /\ End(t, "sent", "ok")
  /\ Forget(t)
  /\ Request(t) /\ UNCHANGED <<try, rejected>>

(* mutant: the second try renews again (_retry_on_expired is not passed on) *)
Denied_RenewsAgain(t) ==
  /\ ~Accepted(t)
  /\ rejected' = [rejected EXCEPT ![t] = sent[t]]
  /\ \/ stage[t] = "control" /\ Move(t, "sent", "denied") /\ UNCHANGED result
     \/ stage[t] = "chat" /\ End(t, "sent", "denied")
  /\ Forget(t)
  /\ Request(t) /\ UNCHANGED try

(* 401 or 403; a renewal follows only for the first try of a control request *)
Denied(t) ==
  /\ ~Accepted(t)
  /\ rejected' = IF try[t] = 1 THEN [rejected EXCEPT ![t] = sent[t]] ELSE rejected
  /\ \/ stage[t] = "control" /\ try[t] = 1 /\ Move(t, "sent", "denied") /\ UNCHANGED result
     \/ (stage[t] = "chat" \/ try[t] = 2) /\ End(t, "sent", "denied")
  /\ Forget(t)
  /\ Request(t) /\ UNCHANGED try

ReadOldAuth(t) ==
  /\ Move(t, "denied", "refresh")
  /\ old' = [old EXCEPT ![t] = auth[mine[t]]]
  /\ UNCHANGED <<upstreamVars, poolVars, clientVars, stage, mine, try, signed, sent,
                 rejected, fresh, result>>

Retry(t) == try' = [try EXCEPT ![t] = @ + 1]

(* mutant: the two cases of the comparison are exchanged *)
TakeRefreshLock_Inverted(t) ==
  LET c == mine[t] IN
  /\ pc[t] = "refresh" /\ refreshLock[c] = Nobody
  /\ \/ auth[c] # old[t] /\ Move(t, "refresh", "clearAuth")
        /\ refreshLock' = [refreshLock EXCEPT ![c] = t] /\ UNCHANGED try
     \/ auth[c] = old[t] /\ Move(t, "refresh", "ready") /\ Retry(t)
        /\ UNCHANGED refreshLock
  /\ old' = [old EXCEPT ![t] = 0]
  /\ UNCHANGED <<upstreamVars, poolVars, auth, sk, exp, stage, mine, signed, sent,
                 rejected, fresh, result>>

(* mutant: the renewal takes no lock *)
TakeRefreshLock_Unlocked(t) ==
  LET c == mine[t] IN
  /\ pc[t] = "refresh"
  /\ \/ auth[c] = old[t] /\ Move(t, "refresh", "clearAuth") /\ UNCHANGED try
     \/ auth[c] # old[t] /\ Move(t, "refresh", "ready") /\ Retry(t)
  /\ old' = [old EXCEPT ![t] = 0]
  /\ UNCHANGED <<upstreamVars, poolVars, clientVars, stage, mine, signed, sent,
                 rejected, fresh, result>>

(* under the client's lock: another thread may have renewed the token *)
TakeRefreshLock(t) ==
  LET c == mine[t] IN
  /\ pc[t] = "refresh" /\ refreshLock[c] = Nobody
  /\ \/ auth[c] = old[t] /\ Move(t, "refresh", "clearAuth")
        /\ refreshLock' = [refreshLock EXCEPT ![c] = t] /\ UNCHANGED try
     \/ auth[c] # old[t] /\ Move(t, "refresh", "ready") /\ Retry(t)
        /\ UNCHANGED refreshLock
  /\ old' = [old EXCEPT ![t] = 0]
  /\ UNCHANGED <<upstreamVars, poolVars, auth, sk, exp, stage, mine, signed, sent,
                 rejected, fresh, result>>

-------------------------------------------------------------------------------
(* refresh: three fields are cleared, a login, and three fields are set *)

(* mutant: the signing key and the expiry are not cleared *)
Clear_TokenOnly(t) ==
  /\ Move(t, "clearAuth", "login") /\ auth' = [auth EXCEPT ![mine[t]] = 0]
  /\ UNCHANGED <<upstreamVars, poolVars, sk, exp, refreshLock, requestVars>>

Clear(t) ==
  LET c == mine[t] IN
  /\ \/ Move(t, "clearAuth", "clearSk") /\ auth' = [auth EXCEPT ![c] = 0]
        /\ UNCHANGED <<sk, exp>>
     \/ Move(t, "clearSk", "clearExp") /\ sk' = [sk EXCEPT ![c] = 0]
        /\ UNCHANGED <<auth, exp>>
     \/ Move(t, "clearExp", "login") /\ exp' = [exp EXCEPT ![c] = 0]
        /\ UNCHANGED <<auth, sk>>
  /\ UNCHANGED <<upstreamVars, poolVars, refreshLock, requestVars>>

(* the exception is swallowed: the client is left without a session *)
RefreshFails(t) ==
  /\ End(t, "login", "denied")
  /\ refreshLock' = [refreshLock EXCEPT ![mine[t]] = Nobody]
  /\ UNCHANGED <<upstreamVars, poolVars, auth, sk, exp, stage, mine, try, signed, sent,
                 rejected, old, fresh>>

RefreshLogsIn(t) ==
  /\ Move(t, "login", "setAuth")
  /\ IssueToken
  /\ fresh' = [fresh EXCEPT ![t] = issued']
  /\ UNCHANGED <<poolVars, clientVars, stage, mine, try, signed, sent, rejected, old, result>>

Store(t) ==
  LET c == mine[t] IN
  /\ \/ Move(t, "setAuth", "setSk") /\ auth' = [auth EXCEPT ![c] = fresh[t]]
        /\ UNCHANGED <<sk, exp, refreshLock, try, fresh>>
     \/ Move(t, "setSk", "setExp") /\ sk' = [sk EXCEPT ![c] = fresh[t]]
        /\ UNCHANGED <<auth, exp, refreshLock, try, fresh>>
     \/ Move(t, "setExp", "ready") /\ exp' = [exp EXCEPT ![c] = fresh[t]]
        /\ refreshLock' = [refreshLock EXCEPT ![c] = Nobody]
        /\ fresh' = [fresh EXCEPT ![t] = 0] /\ Retry(t) /\ UNCHANGED <<auth, sk>>
  /\ UNCHANGED <<upstreamVars, poolVars, stage, mine, signed, sent, rejected, old, result>>

(* the chat handler removes the conversation with the client it has *)
RemoveConversation(t) ==
  /\ stage[t] = "chat" /\ result[t] = "ok"
  /\ Move(t, "done", "ready")
  /\ stage' = [stage EXCEPT ![t] = "control"]
  /\ result' = [result EXCEPT ![t] = "none"]
  /\ UNCHANGED <<upstreamVars, poolVars, clientVars, mine, try, signed, sent, rejected,
                 old, fresh>>

-------------------------------------------------------------------------------
Revoke(n) ==
  /\ n \in live
  /\ live' = live \ {n}
  /\ UNCHANGED <<issued, aged, poolVars, clientVars, pc, requestVars>>

Age(n) ==
  /\ n \in 1..issued \ aged
  /\ aged' = aged \cup {n}
  /\ UNCHANGED <<issued, live, poolVars, clientVars, pc, requestVars>>

Init ==
  /\ issued = 0 /\ live = {} /\ aged = {}
  /\ entryClient = 0 /\ made = 0 /\ entryLock = Nobody
  /\ auth = [c \in Clients |-> 0] /\ sk = auth /\ exp = auth
  /\ refreshLock = [c \in Clients |-> Nobody]
  /\ pc = [t \in Threads |-> "new"]
  /\ stage = [t \in Threads |-> IF t \in Chats THEN "chat" ELSE "control"]
  /\ try = [t \in Threads |-> 1]
  /\ mine = [t \in Threads |-> 0] /\ signed = mine /\ sent = mine
  /\ rejected = mine /\ old = mine /\ fresh = mine
  /\ result = [t \in Threads |-> "none"]

Step(t) ==
  \/ GetClient(t) \/ LoginReturns(t) \/ LoginFails(t) \/ Install(t)
  \/ CheckLoggedIn(t) \/ Sign(t) \/ Header(t)
  \/ NetworkError(t) \/ Answered(t) \/ Denied(t) \/ ReadOldAuth(t)
  \/ Clear(t) \/ RefreshFails(t) \/ RefreshLogsIn(t) \/ Store(t)

Next ==
  \/ \E t \in Threads : Step(t) \/ EnterLogin(t) \/ TakeRefreshLock(t)
                        \/ RemoveConversation(t)
  \/ \E n \in Tokens : Revoke(n) \/ Age(n)

Spec == Init /\ [][Next]_vars

(* Threads run, and a thread gets a lock that is free again and again.  An   *)
(* upstream call ends: a signed request at its timeout (ctyun_api.py:325),   *)
(* the calls of a login, which have none, by assumption.                     *)
Fairness ==
  \A t \in Threads : WF_vars(Step(t)) /\ SF_vars(EnterLogin(t)) /\ SF_vars(TakeRefreshLock(t))
FairSpec == Spec /\ Fairness

-------------------------------------------------------------------------------
(* Properties *)

(* Every variable has its type. *)
TypeOK ==
  /\ issued \in 0..MaxTokens /\ live \subseteq 1..issued /\ aged \subseteq 1..issued
  /\ made \in 0..MaxClients /\ entryClient \in 0..made
  /\ entryLock \in Threads \cup {Nobody}
  /\ auth \in [Clients -> 0..issued] /\ sk \in [Clients -> 0..issued]
  /\ exp \in [Clients -> 0..issued]
  /\ refreshLock \in [Clients -> Threads \cup {Nobody}]
  /\ pc \in [Threads -> PcValues]
  /\ stage \in [Threads -> {"chat", "control"}]
  /\ mine \in [Threads -> 0..made]
  /\ try \in [Threads -> {1, 2}]
  /\ signed \in [Threads -> 0..issued] /\ sent \in [Threads -> 0..issued]
  /\ rejected \in [Threads -> 0..issued] /\ old \in [Threads -> 0..issued]
  /\ fresh \in [Threads -> 0..issued]
  /\ result \in [Threads -> {"none", "ok", "denied", "raised"}]

(* The fields of a client that nobody renews come from one login, or all of *)
(* them are empty after a login that failed (ctyun_api.py:276-281): reads   *)
(* are torn only while a renewal is under way.                              *)
SessionWhole ==
  \A c \in Clients : refreshLock[c] = Nobody => auth[c] = sk[c] /\ auth[c] = exp[c]

(* Two requests that were rejected with the same token may both renew it,   *)
(* but no renewal forgets one that was made meanwhile: the token of a       *)
(* client changes only to a newer one or, by a renewal, to None.            *)
TokensNewer ==
  [][\A c \in Clients : auth'[c] \in {0, auth[c]} \/ auth'[c] > auth[c]]_vars

(* The sessions behave as if they were exchanged in one step, one renewal   *)
(* at a time for each client, although threads read and write the fields    *)
(* one by one and two kinds of locks guard the logins.  A renewal that      *)
(* comes second does not bring back an older session, and no login ends up  *)
(* in two clients.  A client whose lock is taken counts as one without a    *)
(* session.                                                                 *)
Unlocked(field) == [c \in Clients |-> IF refreshLock[c] = Nobody THEN field[c] ELSE 0]

UnderRenewal(c) ==
  \E t \in Threads : refreshLock[c] = t /\ pc[t] \in {"setAuth", "setSk", "setExp"}

RenewalOf(c) == IF UnderRenewal(c) THEN fresh[refreshLock[c]] ELSE 0

Sessions == INSTANCE SessionStore
              WITH renewal <- [c \in Clients |-> RenewalOf(c)],
                   token <- Unlocked(auth), key <- Unlocked(sk),
                   expiry <- Unlocked(exp)
ImplementsStore == Sessions!StoreSpec

(* "Logs in again once on 401/403" (ctyun_api.py:288): when a request that  *)
(* was rejected is over, its client does not have the rejected token any    *)
(* more, whoever renewed it and whether or not that worked.                 *)
Over(t) == pc[t] = "done" /\ result[t] = "denied"

RejectedTokenGone(t) ==
  rejected[t] # 0 /\ (Over(t) \/ try[t] = 2) => auth[mine[t]] # rejected[t]

ControlRenews == \A t \in Threads : stage[t] = "control" => RejectedTokenGone(t)

(* The same of every request, chat requests included.  It does not hold.    *)
EveryRequestRenews == \A t \in Threads : RejectedTokenGone(t)

(* Every request ends, although it may wait for two kinds of locks, and a   *)
(* login may fail under either of them (account_pool.py:195 and              *)
(* ctyun_api.py:331).                                                       *)
EveryRequestEnds == \A t \in Threads : pc[t] # "done" ~> pc[t] = "done"
===============================================================================
