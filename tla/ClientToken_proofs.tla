-------------------------- MODULE ClientToken_proofs --------------------------
(***************************************************************************)
(* Proofs about ClientToken, for any number of threads, client objects and *)
(* logins.                                                                 *)
(*                                                                         *)
(* Readers take no lock, so what they rely on is (1) that only the holder  *)
(* of a client's lock touches its fields, in an order that passes through  *)
(* None (Phases), and (2) that the token of a login is nowhere until it is *)
(* stored (Unstored).  From (1) follows that a session is whole whenever   *)
(* the lock is free, from (2) that a rejected token never comes back once  *)
(* it was replaced (Replaced).                                             *)
(*                                                                         *)
(* That the sessions implement SessionStore comes from (1) as well: the    *)
(* steps of a renewal change only the client whose lock is taken, which    *)
(* the store sees without a session, and the lock is given back when its   *)
(* fields are all None or all of the login that the thread keeps.          *)
(***************************************************************************)
EXTENDS ClientToken, TLAPS

Busy == Renewing \cup {"install", "ready", "sign", "header", "sent", "denied", "refresh"}

HasClient ==
  \A t \in Threads : pc[t] \in Busy \/ result[t] = "ok" \/ rejected[t] # 0
    => mine[t] # 0

(* Renewals belong to the first try of a request. *)
FirstTry ==
  \A t \in Threads :
    pc[t] \in Renewing \cup {"new", "lock", "poolLogin", "install", "denied", "refresh"}
      => try[t] = 1

(* Client objects that do not exist yet. *)
Unborn ==
  \A c \in Clients : c > made
    => auth[c] = 0 /\ sk[c] = 0 /\ exp[c] = 0 /\ refreshLock[c] = Nobody

RenewersHold ==
  /\ \A t \in Threads : pc[t] \in Renewing => refreshLock[mine[t]] = t
  /\ \A c \in Clients : refreshLock[c] # Nobody
       => pc[refreshLock[c]] \in Renewing /\ mine[refreshLock[c]] = c

(* Where the holder of the lock is tells what the fields are. *)
Phases ==
  \A t \in Threads : LET c == mine[t] IN
    /\ pc[t] \in {"clearSk", "clearExp", "login", "setAuth"} => auth[c] = 0
    /\ pc[t] \in {"clearExp", "login", "setAuth"} => sk[c] = 0
    /\ pc[t] \in {"login", "setAuth"} => exp[c] = 0
    /\ pc[t] \in {"setSk", "setExp"} => auth[c] = fresh[t]
    /\ pc[t] = "setExp" => sk[c] = fresh[t]

FieldInv == TypeOK /\ HasClient /\ FirstTry /\ Unborn /\ RenewersHold /\ Phases /\ SessionWhole

-------------------------------------------------------------------------------
LEMMA InitFieldInv == Init => FieldInv
<1> SUFFICES ASSUME Init PROVE FieldInv
  OBVIOUS
<1>1. TypeOK
  <2>1. /\ mine \in [Threads -> {0}] /\ auth \in [Clients -> {0}]
        /\ \A t \in Threads : pc[t] = "new" /\ rejected[t] = 0 /\ result[t] = "none"
    BY DEF Init
  <2>2. 0 \in 0..MaxTokens /\ 0 \in 0..MaxClients
    BY TokenAssumption
  <2>3. QED
    BY <2>1, <2>2 DEF Init, TypeOK, PcValues
<1>2. HasClient /\ FirstTry /\ Unborn /\ RenewersHold /\ Phases /\ SessionWhole
  BY DEF Init, HasClient, FirstTry, Unborn, RenewersHold, Phases, SessionWhole, Busy,
         Renewing
<1>3. QED
  BY <1>1, <1>2 DEF FieldInv

(* A login makes the ranges of tokens larger. *)
LEMMA IssueWidens ==
  ASSUME TypeOK, IssueToken
  PROVE  /\ issued' = issued + 1 /\ issued' \in 0..MaxTokens
         /\ issued \in Nat /\ live' \subseteq 1..issued' /\ aged' \subseteq 1..issued'
         /\ \A S : [S -> 0..issued] \subseteq [S -> 0..issued']
         /\ issued' \in 0..issued' /\ issued' \notin 0..issued /\ 0 \in 0..issued'
<1>1. /\ issued' = issued + 1 /\ issued \in Nat /\ issued < MaxTokens
      /\ live' = live \cup {issued'} /\ aged' = aged
      /\ live \subseteq 1..issued /\ aged \subseteq 1..issued
  BY TokenAssumption DEF IssueToken, TypeOK
<1>2. issued' \in 0..MaxTokens
  BY <1>1, TokenAssumption
<1>3. 0..issued \subseteq 0..issued' /\ 1..issued \subseteq 1..issued'
  BY <1>1
<1>4. live' \subseteq 1..issued' /\ aged' \subseteq 1..issued'
  BY <1>1, <1>3
<1>5. QED
  BY <1>1, <1>2, <1>3, <1>4

LEMMA MineIsClient ==
  ASSUME TypeOK, HasClient
  PROVE  /\ \A t \in Threads : mine[t] # 0 => mine[t] \in Clients
         /\ \A t \in Threads : pc[t] \in Busy => mine[t] \in Clients
<1>1. \A t \in Threads : mine[t] \in 0..made
  BY DEF TypeOK
<1>2. made \in 0..MaxClients
  BY DEF TypeOK
<1>3. QED
  BY <1>1, <1>2, TokenAssumption DEF HasClient, Clients

LEMMA StepTypes ==
  TypeOK /\ HasClient /\ FirstTry /\ [Next]_vars => TypeOK' /\ HasClient' /\ FirstTry'
<1> SUFFICES ASSUME TypeOK, HasClient, FirstTry, [Next]_vars
             PROVE  TypeOK' /\ HasClient' /\ FirstTry'
  OBVIOUS
<1> USE DEF upstreamVars, poolVars, clientVars, requestVars, Move, End
<1>0. /\ \A t \in Threads : pc[t] \in Busy => mine[t] \in Clients
      /\ 0 \in 0..issued
  <2>1. issued \in Nat
    BY TokenAssumption DEF TypeOK
  <2>2. QED
    BY <2>1, MineIsClient
<1>1. ASSUME NEW t \in Threads, GetClient(t)
      PROVE  TypeOK' /\ HasClient' /\ FirstTry'
  <2>1. TypeOK'
    BY <1>0, <1>1, TokenAssumption
       DEF GetClient, UseEntryClient, ValidClient, TypeOK, PcValues, Busy, Renewing, FirstTry
  <2>2. HasClient' /\ FirstTry'
    BY <1>1 DEF GetClient, UseEntryClient, ValidClient, TypeOK, HasClient, Busy, Renewing, FirstTry
  <2>3. QED  BY <2>1, <2>2
<1>2. ASSUME NEW t \in Threads, EnterLogin(t)
      PROVE  TypeOK' /\ HasClient' /\ FirstTry'
  <2>1. TypeOK'
    BY <1>0, <1>2, TokenAssumption
       DEF EnterLogin, UseEntryClient, ValidClient, TypeOK, PcValues, Busy, Renewing, FirstTry
  <2>2. HasClient' /\ FirstTry'
    BY <1>2 DEF EnterLogin, UseEntryClient, ValidClient, TypeOK, HasClient, Busy, Renewing, FirstTry
  <2>3. QED  BY <2>1, <2>2
<1>3. ASSUME NEW t \in Threads, LoginFails(t)
      PROVE  TypeOK' /\ HasClient' /\ FirstTry'
  <2>1. TypeOK'
    BY <1>0, <1>3, TokenAssumption
       DEF LoginFails, TypeOK, PcValues, Busy, Renewing, FirstTry
  <2>2. HasClient' /\ FirstTry'
    BY <1>3 DEF LoginFails, TypeOK, HasClient, Busy, Renewing, FirstTry
  <2>3. QED  BY <2>1, <2>2
<1>4. ASSUME NEW t \in Threads, Install(t)
      PROVE  TypeOK' /\ HasClient' /\ FirstTry'
  <2>1. TypeOK'
    BY <1>0, <1>4, TokenAssumption
       DEF Install, TypeOK, PcValues, Busy, Renewing, FirstTry
  <2>2. HasClient' /\ FirstTry'
    BY <1>4 DEF Install, TypeOK, HasClient, Busy, Renewing, FirstTry
  <2>3. QED  BY <2>1, <2>2
<1>5. ASSUME NEW t \in Threads, CheckLoggedIn(t)
      PROVE  TypeOK' /\ HasClient' /\ FirstTry'
  <2>1. TypeOK'
    BY <1>0, <1>5, TokenAssumption
       DEF CheckLoggedIn, Request, Outcome, TypeOK, PcValues, Busy, Renewing, FirstTry
  <2>2. HasClient' /\ FirstTry'
    BY <1>5 DEF CheckLoggedIn, Request, Outcome, TypeOK, HasClient, Busy, Renewing, FirstTry
  <2>3. QED  BY <2>1, <2>2
<1>6. ASSUME NEW t \in Threads, Sign(t)
      PROVE  TypeOK' /\ HasClient' /\ FirstTry'
  <2>1. TypeOK'
    BY <1>0, <1>6, TokenAssumption
       DEF Sign, Request, TypeOK, PcValues, Busy, Renewing, FirstTry
  <2>2. HasClient' /\ FirstTry'
    BY <1>6 DEF Sign, Request, TypeOK, HasClient, Busy, Renewing, FirstTry
  <2>3. QED  BY <2>1, <2>2
<1>7. ASSUME NEW t \in Threads, Header(t)
      PROVE  TypeOK' /\ HasClient' /\ FirstTry'
  <2>1. TypeOK'
    BY <1>0, <1>7, TokenAssumption
       DEF Header, Request, TypeOK, PcValues, Busy, Renewing, FirstTry
  <2>2. HasClient' /\ FirstTry'
    BY <1>7 DEF Header, Request, TypeOK, HasClient, Busy, Renewing, FirstTry
  <2>3. QED  BY <2>1, <2>2
<1>8. ASSUME NEW t \in Threads, NetworkError(t)
      PROVE  TypeOK' /\ HasClient' /\ FirstTry'
  <2>1. TypeOK'
    BY <1>0, <1>8, TokenAssumption
       DEF NetworkError, Request, Outcome, Forget, TypeOK, PcValues, Busy, Renewing, FirstTry
  <2>2. HasClient' /\ FirstTry'
    BY <1>8 DEF NetworkError, Request, Outcome, Forget, TypeOK, HasClient, Busy, Renewing, FirstTry
  <2>3. QED  BY <2>1, <2>2
<1>9. ASSUME NEW t \in Threads, Answered(t)
      PROVE  TypeOK' /\ HasClient' /\ FirstTry'
  <2>1. TypeOK'
    BY <1>0, <1>9, TokenAssumption
       DEF Answered, Request, Forget, TypeOK, PcValues, Busy, Renewing, FirstTry
  <2>2. HasClient' /\ FirstTry'
    BY <1>9 DEF Answered, Request, Forget, TypeOK, HasClient, Busy, Renewing, FirstTry
  <2>3. QED  BY <2>1, <2>2
<1>10. ASSUME NEW t \in Threads, Denied(t)
      PROVE  TypeOK' /\ HasClient' /\ FirstTry'
  <2>1. TypeOK'
    BY <1>0, <1>10, TokenAssumption
       DEF Denied, Request, Forget, TypeOK, PcValues, Busy, Renewing, FirstTry
  <2>2. HasClient' /\ FirstTry'
    BY <1>10 DEF Denied, Request, Forget, TypeOK, HasClient, Busy, Renewing, FirstTry
  <2>3. QED  BY <2>1, <2>2
<1>11. ASSUME NEW t \in Threads, ReadOldAuth(t)
      PROVE  TypeOK' /\ HasClient' /\ FirstTry'
  <2>1. TypeOK'
    BY <1>0, <1>11, TokenAssumption
       DEF ReadOldAuth, TypeOK, PcValues, Busy, Renewing, FirstTry
  <2>2. HasClient' /\ FirstTry'
    BY <1>11 DEF ReadOldAuth, TypeOK, HasClient, Busy, Renewing, FirstTry
  <2>3. QED  BY <2>1, <2>2
<1>12. ASSUME NEW t \in Threads, TakeRefreshLock(t)
      PROVE  TypeOK' /\ HasClient' /\ FirstTry'
  <2>1. TypeOK'
    BY <1>0, <1>12, TokenAssumption
       DEF TakeRefreshLock, Retry, TypeOK, PcValues, Busy, Renewing, FirstTry
  <2>2. HasClient' /\ FirstTry'
    BY <1>12 DEF TakeRefreshLock, Retry, TypeOK, HasClient, Busy, Renewing, FirstTry
  <2>3. QED  BY <2>1, <2>2
<1>13. ASSUME NEW t \in Threads, Clear(t)
      PROVE  TypeOK' /\ HasClient' /\ FirstTry'
  <2>1. TypeOK'
    BY <1>0, <1>13, TokenAssumption
       DEF Clear, TypeOK, PcValues, Busy, Renewing, FirstTry
  <2>2. HasClient' /\ FirstTry'
    BY <1>13 DEF Clear, TypeOK, HasClient, Busy, Renewing, FirstTry
  <2>3. QED  BY <2>1, <2>2
<1>14. ASSUME NEW t \in Threads, RefreshFails(t)
      PROVE  TypeOK' /\ HasClient' /\ FirstTry'
  <2>1. TypeOK'
    BY <1>0, <1>14, TokenAssumption
       DEF RefreshFails, TypeOK, PcValues, Busy, Renewing, FirstTry
  <2>2. HasClient' /\ FirstTry'
    BY <1>14 DEF RefreshFails, TypeOK, HasClient, Busy, Renewing, FirstTry
  <2>3. QED  BY <2>1, <2>2
<1>15. ASSUME NEW t \in Threads, Store(t)
      PROVE  TypeOK' /\ HasClient' /\ FirstTry'
  <2>1. TypeOK'
    BY <1>0, <1>15, TokenAssumption
       DEF Store, Retry, TypeOK, PcValues, Busy, Renewing, FirstTry
  <2>2. HasClient' /\ FirstTry'
    BY <1>15 DEF Store, Retry, TypeOK, HasClient, Busy, Renewing, FirstTry
  <2>3. QED  BY <2>1, <2>2
<1>16. ASSUME NEW t \in Threads, RemoveConversation(t)
      PROVE  TypeOK' /\ HasClient' /\ FirstTry'
  <2>1. TypeOK'
    BY <1>0, <1>16, TokenAssumption
       DEF RemoveConversation, TypeOK, PcValues, Busy, Renewing, FirstTry
  <2>2. HasClient' /\ FirstTry'
    BY <1>16 DEF RemoveConversation, TypeOK, HasClient, Busy, Renewing, FirstTry
  <2>3. QED  BY <2>1, <2>2
<1>17. ASSUME NEW t \in Threads, LoginReturns(t)
      PROVE  TypeOK' /\ HasClient' /\ FirstTry'
  <2>1. /\ issued' = issued + 1 /\ issued' \in 0..MaxTokens
        /\ live' \subseteq 1..issued' /\ aged' \subseteq 1..issued'
        /\ \A S : [S -> 0..issued] \subseteq [S -> 0..issued']
        /\ issued' \in 0..issued'
    BY <1>17, IssueWidens DEF LoginReturns
  <2>2. /\ made' \in 0..MaxClients /\ entryClient' \in 0..made'
        /\ mine' \in [Threads -> 0..made'] /\ made' # 0 /\ mine'[t] = made'
        /\ \A u \in Threads : u # t => mine'[u] = mine[u]
    <3>1. /\ made \in Nat /\ made' = made + 1 /\ entryClient' = entryClient
          /\ made < MaxClients /\ entryClient \in 0..made
          /\ mine \in [Threads -> 0..made] /\ mine' = [mine EXCEPT ![t] = made']
      BY <1>17, TokenAssumption DEF LoginReturns, TypeOK
    <3>2. 0..made \subseteq 0..made' /\ made' \in 0..made' /\ made' # 0
          /\ made' \in 0..MaxClients
      BY <3>1, TokenAssumption
    <3>3. QED  BY <3>1, <3>2
  <2>3. /\ auth' \in [Clients -> 0..issued'] /\ sk' \in [Clients -> 0..issued']
        /\ exp' \in [Clients -> 0..issued']
    <3>1. /\ auth \in [Clients -> 0..issued'] /\ sk \in [Clients -> 0..issued']
          /\ exp \in [Clients -> 0..issued']
      BY <2>1 DEF TypeOK
    <3>2. QED  BY <3>1, <2>1, <1>17 DEF LoginReturns
  <2>4. /\ signed' \in [Threads -> 0..issued'] /\ sent' \in [Threads -> 0..issued']
        /\ rejected' \in [Threads -> 0..issued'] /\ old' \in [Threads -> 0..issued']
        /\ fresh' \in [Threads -> 0..issued']
    BY <2>1, <1>17 DEF LoginReturns, TypeOK
  <2>5. TypeOK'
    BY <2>1, <2>2, <2>3, <2>4, <1>17 DEF LoginReturns, TypeOK, PcValues
  <2>6. HasClient' /\ FirstTry'
    BY <1>17, <2>2 DEF LoginReturns, TypeOK, HasClient, Busy, Renewing, FirstTry
  <2>7. QED  BY <2>5, <2>6
<1>18. ASSUME NEW t \in Threads, RefreshLogsIn(t)
      PROVE  TypeOK' /\ HasClient' /\ FirstTry'
  <2>1. /\ issued' \in 0..MaxTokens
        /\ live' \subseteq 1..issued' /\ aged' \subseteq 1..issued'
        /\ \A S : [S -> 0..issued] \subseteq [S -> 0..issued']
        /\ issued' \in 0..issued'
    BY <1>18, IssueWidens DEF RefreshLogsIn
  <2>2. /\ auth' \in [Clients -> 0..issued'] /\ sk' \in [Clients -> 0..issued']
        /\ exp' \in [Clients -> 0..issued']
        /\ signed' \in [Threads -> 0..issued'] /\ sent' \in [Threads -> 0..issued']
        /\ rejected' \in [Threads -> 0..issued'] /\ old' \in [Threads -> 0..issued']
    BY <2>1, <1>18 DEF RefreshLogsIn, TypeOK
  <2>3. fresh' \in [Threads -> 0..issued']
    <3>1. fresh \in [Threads -> 0..issued']
      BY <2>1 DEF TypeOK
    <3>2. QED  BY <3>1, <2>1, <1>18 DEF RefreshLogsIn
  <2>4. TypeOK'
    BY <2>1, <2>2, <2>3, <1>18 DEF RefreshLogsIn, TypeOK, PcValues, Renewing
  <2>5. HasClient' /\ FirstTry'
    BY <1>18 DEF RefreshLogsIn, TypeOK, HasClient, Busy, Renewing, FirstTry
  <2>6. QED  BY <2>4, <2>5
<1>19. ASSUME NEW k \in Tokens, Revoke(k) \/ Age(k)
      PROVE  TypeOK' /\ HasClient' /\ FirstTry'
  <2>1. TypeOK'
    BY <1>19 DEF Revoke, Age, TypeOK
  <2>2. QED
    BY <1>19, <2>1 DEF Revoke, Age, HasClient, FirstTry
<1>20. CASE UNCHANGED vars
  <2>1. TypeOK'
    BY <1>20 DEF vars, TypeOK
  <2>2. QED
    BY <1>20, <2>1 DEF vars, HasClient, FirstTry
<1>21. QED
  BY <1>1, <1>2, <1>3, <1>4, <1>5, <1>6, <1>7,
     <1>8, <1>9, <1>10, <1>11, <1>12, <1>13, <1>14,
     <1>15, <1>16, <1>17, <1>18, <1>19, <1>20
  DEF Next, Step

(* Quiet steps leave the client objects and whoever renews one alone. *)
Quiet ==
  /\ UNCHANGED <<made, clientVars>>
  /\ \A u \in Threads :
       \/ pc'[u] = pc[u] /\ mine'[u] = mine[u] /\ fresh'[u] = fresh[u]
       \/ pc[u] \notin Renewing /\ pc'[u] \notin Renewing
       \/ pc[u] = "login" /\ pc'[u] = "setAuth" /\ mine'[u] = mine[u]

FieldsKept == Unborn' /\ RenewersHold' /\ Phases' /\ SessionWhole'

LEMMA QuietKeeps == FieldInv /\ Quiet => FieldsKept
<1> SUFFICES ASSUME FieldInv, Quiet PROVE FieldsKept
  OBVIOUS
<1>0. /\ auth' = auth /\ sk' = sk /\ exp' = exp /\ refreshLock' = refreshLock /\ made' = made
      /\ refreshLock \in [Clients -> Threads \cup {Nobody}]
  BY DEF Quiet, clientVars, FieldInv, TypeOK
<1>1. Unborn' /\ SessionWhole'
  BY <1>0 DEF FieldInv, Unborn, SessionWhole
<1>2. RenewersHold'
  BY <1>0 DEF FieldInv, RenewersHold, Quiet, Renewing
<1>3. Phases'
  BY <1>0 DEF FieldInv, Phases, Quiet, Renewing
<1>4. QED  BY <1>1, <1>2, <1>3 DEF FieldsKept

LEMMA QuietSteps ==
  ASSUME FieldInv, NEW t \in Threads,
         \/ GetClient(t) \/ EnterLogin(t) \/ LoginFails(t) \/ Install(t)
         \/ CheckLoggedIn(t) \/ Sign(t) \/ Header(t) \/ NetworkError(t)
         \/ Answered(t) \/ Denied(t) \/ ReadOldAuth(t) \/ RefreshLogsIn(t)
         \/ RemoveConversation(t)
  PROVE  Quiet
<1>0. /\ pc \in [Threads -> PcValues] /\ mine \in [Threads -> 0..made]
      /\ fresh \in [Threads -> 0..issued]
  BY DEF FieldInv, TypeOK
<1> USE <1>0 DEF Quiet, upstreamVars, poolVars, clientVars, requestVars, Move, End, Request,
                 Forget, Renewing
<1>1. CASE GetClient(t)
  BY <1>1 DEF GetClient, UseEntryClient
<1>2. CASE EnterLogin(t)
  BY <1>2 DEF EnterLogin, UseEntryClient
<1>3. CASE LoginFails(t)
  BY <1>3 DEF LoginFails
<1>4. CASE Install(t)
  BY <1>4 DEF Install
<1>5. CASE CheckLoggedIn(t)
  BY <1>5 DEF CheckLoggedIn
<1>6. CASE Sign(t)
  BY <1>6 DEF Sign
<1>7. CASE Header(t)
  BY <1>7 DEF Header
<1>8. CASE NetworkError(t)
  BY <1>8 DEF NetworkError
<1>9. CASE Answered(t)
  BY <1>9 DEF Answered
<1>10. CASE Denied(t)
  BY <1>10 DEF Denied
<1>11. CASE ReadOldAuth(t)
  BY <1>11 DEF ReadOldAuth
<1>12. CASE RefreshLogsIn(t)
  BY <1>12 DEF RefreshLogsIn
<1>13. CASE RemoveConversation(t)
  BY <1>13 DEF RemoveConversation
<1>14. QED
  BY <1>1, <1>2, <1>3, <1>4, <1>5, <1>6, <1>7,
     <1>8, <1>9, <1>10, <1>11, <1>12, <1>13

(* The new object is nobody else's. *)
LEMMA LoginReturnsKeeps ==
  ASSUME FieldInv, NEW t \in Threads, LoginReturns(t)
  PROVE  FieldsKept
<1> DEFINE n == made'
<1>1. /\ made \in Nat /\ n = made + 1 /\ n \in Clients /\ n > made
      /\ \A u \in Threads : mine[u] \in 0..made
  BY TokenAssumption DEF LoginReturns, FieldInv, TypeOK, Clients
<1>2. /\ auth' = [auth EXCEPT ![n] = issued'] /\ sk' = [sk EXCEPT ![n] = issued']
      /\ exp' = [exp EXCEPT ![n] = issued'] /\ refreshLock' = refreshLock
      /\ pc[t] = "poolLogin" /\ pc' = [pc EXCEPT ![t] = "install"] /\ fresh' = fresh
      /\ mine' = [mine EXCEPT ![t] = n]
  BY DEF LoginReturns, Move
<1>3. /\ auth \in [Clients -> 0..issued] /\ sk \in [Clients -> 0..issued]
      /\ exp \in [Clients -> 0..issued] /\ pc \in [Threads -> PcValues]
      /\ mine \in [Threads -> 0..made] /\ refreshLock \in [Clients -> Threads \cup {Nobody}]
  BY DEF FieldInv, TypeOK
<1>4. refreshLock[n] = Nobody
  BY <1>1 DEF FieldInv, Unborn
<1>5. \A u \in Threads : mine[u] # n
  BY <1>1
<1> HIDE DEF n
<1>6. Unborn'
  <2>1. made' = n
    BY DEF n
  <2>2. \A c \in Clients : c > n => c > made /\ c # n
    BY <1>1 DEF Clients
  <2>3. QED  BY <2>1, <2>2, <1>2, <1>3 DEF FieldInv, Unborn
<1>7. RenewersHold'
  BY <1>2, <1>3, <1>4 DEF FieldInv, RenewersHold, Renewing
<1>8. Phases'
  BY <1>2, <1>3, <1>5 DEF FieldInv, Phases
<1>9. SessionWhole'
  BY <1>2, <1>3 DEF FieldInv, SessionWhole
<1>10. QED  BY <1>6, <1>7, <1>8, <1>9 DEF FieldsKept

LEMMA TakeRefreshLockKeeps ==
  ASSUME FieldInv, NEW t \in Threads, TakeRefreshLock(t)
  PROVE  FieldsKept
<1> DEFINE c == mine[t]
<1>1. /\ pc[t] = "refresh" /\ refreshLock[c] = Nobody
      /\ UNCHANGED <<made, auth, sk, exp, mine, fresh>>
      /\ pc \in [Threads -> PcValues] /\ refreshLock \in [Clients -> Threads \cup {Nobody}]
  BY DEF TakeRefreshLock, FieldInv, TypeOK, poolVars
<1>2. c \in Clients
  <2>1. pc[t] \in Busy
    BY <1>1 DEF Busy
  <2>2. QED  BY <2>1, MineIsClient DEF FieldInv
<1>3. CASE pc' = [pc EXCEPT ![t] = "ready"] /\ refreshLock' = refreshLock
  <2>1. Quiet
    BY <1>1, <1>3 DEF Quiet, clientVars, Renewing
  <2>2. QED  BY <2>1, QuietKeeps
<1>4. CASE pc' = [pc EXCEPT ![t] = "clearAuth"]
           /\ refreshLock' = [refreshLock EXCEPT ![c] = t]
  <2>1. Unborn'
    <3>1. mine[t] \in 0..made /\ made \in Nat
      BY TokenAssumption DEF FieldInv, TypeOK
    <3>2. \A d \in Clients : d > made => d # c
      BY <3>1 DEF Clients
    <3>3. QED  BY <1>1, <1>4, <3>2 DEF FieldInv, Unborn
  <2>2. RenewersHold'
    BY <1>1, <1>2, <1>4, TokenAssumption DEF FieldInv, RenewersHold, Renewing
  <2>3. Phases'
    BY <1>1, <1>4 DEF FieldInv, Phases
  <2>4. SessionWhole'
    BY <1>1, <1>2, <1>4, TokenAssumption DEF FieldInv, SessionWhole
  <2>5. QED  BY <2>1, <2>2, <2>3, <2>4 DEF FieldsKept
<1>5. QED
  BY <1>3, <1>4 DEF TakeRefreshLock, Move

(* What the holder of the lock of a client does to it does not concern the *)
(* holders of the locks of others.                                         *)
LEMMA HolderFacts ==
  ASSUME FieldInv, NEW t \in Threads, pc[t] \in Renewing
  PROVE  /\ mine[t] \in Clients /\ mine[t] \in 1..made
         /\ refreshLock[mine[t]] = t
         /\ \A u \in Threads : u # t /\ pc[u] \in Renewing => mine[u] # mine[t]
<1>1. mine[t] \in Clients /\ mine[t] # 0
  <2>1. pc[t] \in Busy
    BY DEF Busy
  <2>2. QED  BY <2>1, MineIsClient, TokenAssumption DEF FieldInv, HasClient
<1>2. mine[t] \in 1..made
  <2>1. mine[t] \in 0..made /\ made \in Nat
    BY TokenAssumption DEF FieldInv, TypeOK
  <2>2. QED  BY <1>1, <2>1
<1>3. QED
  BY <1>1, <1>2 DEF FieldInv, RenewersHold

LEMMA ClearKeeps ==
  ASSUME FieldInv, NEW t \in Threads, Clear(t)
  PROVE  FieldsKept
<1> DEFINE c == mine[t]
<1>1. /\ pc[t] \in Renewing /\ UNCHANGED <<made, refreshLock, mine, fresh>>
      /\ \A d \in Clients : d # c
           => auth'[d] = auth[d] /\ sk'[d] = sk[d] /\ exp'[d] = exp[d]
  BY DEF Clear, Move, Renewing, FieldInv, TypeOK, poolVars, requestVars
<1>2. /\ c \in Clients /\ c \in 1..made /\ refreshLock[c] = t
      /\ \A u \in Threads : u # t /\ pc[u] \in Renewing => mine[u] # c
  BY <1>1, HolderFacts
<1>3. /\ pc'[t] \in Renewing
      /\ \A u \in Threads : u # t => pc'[u] = pc[u]
  BY DEF Clear, Move, Renewing, FieldInv, TypeOK, PcValues
<1>4. /\ \A u \in Threads : pc[u] \in Busy => mine[u] \in Clients
      /\ Renewing \subseteq Busy
  BY MineIsClient DEF FieldInv, Busy
<1>5. \A d \in Clients : d > made => d # c
  <2>1. made \in Nat
    BY TokenAssumption DEF FieldInv, TypeOK
  <2>2. QED  BY <1>2, <2>1 DEF Clients
<1>6. Unborn'
  BY <1>1, <1>5 DEF FieldInv, Unborn
<1>7. RenewersHold'
  <2>1. refreshLock \in [Clients -> Threads \cup {Nobody}]
    BY DEF FieldInv, TypeOK
  <2>2. \A u \in Threads : pc'[u] \in Renewing => pc[u] \in Renewing
    BY <1>1, <1>3
  <2>3. \A u \in Threads : pc[u] \in Renewing => pc'[u] \in Renewing
    BY <1>1, <1>3
  <2>4. QED
    BY <1>1, <2>1, <2>2, <2>3 DEF FieldInv, RenewersHold
<1>8. Phases'
  <2>1. ASSUME NEW u \in Threads, u # t, pc[u] \in Renewing
        PROVE  /\ mine[u] \in Clients /\ mine[u] # c
    BY <2>1, <1>2, <1>4
  <2>2. ASSUME NEW u \in Threads, u # t
        PROVE  LET d == mine[u] IN
               /\ pc'[u] \in {"clearSk", "clearExp", "login", "setAuth"} => auth'[d] = 0
               /\ pc'[u] \in {"clearExp", "login", "setAuth"} => sk'[d] = 0
               /\ pc'[u] \in {"login", "setAuth"} => exp'[d] = 0
               /\ pc'[u] \in {"setSk", "setExp"} => auth'[d] = fresh[u]
               /\ pc'[u] = "setExp" => sk'[d] = fresh[u]
    <3>1. CASE pc[u] \notin Renewing
      BY <2>2, <3>1, <1>3 DEF Renewing
    <3>2. CASE pc[u] \in Renewing
      BY <2>1, <2>2, <3>2, <1>1, <1>3 DEF FieldInv, Phases
    <3>3. QED  BY <3>1, <3>2
  <2>3. /\ pc'[t] \in {"clearSk", "clearExp", "login"} => auth'[c] = 0
        /\ pc'[t] \in {"clearExp", "login"} => sk'[c] = 0
        /\ pc'[t] = "login" => exp'[c] = 0
        /\ pc'[t] \in {"clearSk", "clearExp", "login"}
    BY <1>2 DEF Clear, Move, FieldInv, TypeOK, Phases
  <2>4. QED  BY <1>1, <2>2, <2>3 DEF Phases
<1>9. SessionWhole'
  BY <1>1, <1>2, TokenAssumption DEF FieldInv, SessionWhole
<1>10. QED  BY <1>6, <1>7, <1>8, <1>9 DEF FieldsKept

LEMMA RefreshFailsKeeps ==
  ASSUME FieldInv, NEW t \in Threads, RefreshFails(t)
  PROVE  FieldsKept
<1> DEFINE c == mine[t]
<1>1. /\ pc[t] = "login" /\ UNCHANGED <<made, auth, sk, exp, mine, fresh>>
      /\ pc' = [pc EXCEPT ![t] = "done"]
      /\ refreshLock' = [refreshLock EXCEPT ![c] = Nobody]
      /\ pc \in [Threads -> PcValues] /\ refreshLock \in [Clients -> Threads \cup {Nobody}]
  BY DEF RefreshFails, End, Move, FieldInv, TypeOK, poolVars
<1>2. /\ c \in Clients /\ refreshLock[c] = t
      /\ \A u \in Threads : u # t /\ pc[u] \in Renewing => mine[u] # c
  BY <1>1, HolderFacts DEF Renewing
<1>3. Unborn'
  BY <1>1 DEF FieldInv, Unborn
<1>4. RenewersHold'
  <2>1. \A u \in Threads : pc[u] \in Renewing => mine[u] \in Clients
    BY HolderFacts
  <2>2. \A d \in Clients : refreshLock[d] = t => d = c
    BY <1>1, <1>2, TokenAssumption DEF FieldInv, RenewersHold
  <2>3. QED
    BY <1>1, <1>2, <2>1, <2>2 DEF FieldInv, RenewersHold, Renewing
<1>5. Phases'
  BY <1>1 DEF FieldInv, Phases
<1>6. SessionWhole'
  <2>1. auth[c] = 0 /\ sk[c] = 0 /\ exp[c] = 0
    BY <1>1 DEF FieldInv, Phases
  <2>2. QED
    BY <1>1, <1>2, <2>1 DEF FieldInv, SessionWhole
<1>7. QED  BY <1>3, <1>4, <1>5, <1>6 DEF FieldsKept

LEMMA StoreKeeps ==
  ASSUME FieldInv, NEW t \in Threads, Store(t)
  PROVE  FieldsKept
<1> DEFINE c == mine[t]
<1>0. /\ pc \in [Threads -> PcValues] /\ refreshLock \in [Clients -> Threads \cup {Nobody}]
      /\ auth \in [Clients -> 0..issued] /\ sk \in [Clients -> 0..issued]
      /\ exp \in [Clients -> 0..issued] /\ fresh \in [Threads -> 0..issued]
  BY DEF FieldInv, TypeOK
<1>1. /\ pc[t] \in Renewing /\ UNCHANGED <<made, mine>>
      /\ \A d \in Clients : d # c
           => auth'[d] = auth[d] /\ sk'[d] = sk[d] /\ exp'[d] = exp[d]
              /\ refreshLock'[d] = refreshLock[d]
      /\ \A u \in Threads : u # t => pc'[u] = pc[u] /\ fresh'[u] = fresh[u]
  BY <1>0 DEF Store, Move, Renewing, poolVars
<1>2. /\ c \in Clients /\ c \in 1..made /\ refreshLock[c] = t
      /\ \A u \in Threads : u # t /\ pc[u] \in Renewing => mine[u] # c
  BY <1>1, HolderFacts
<1>3. \A u \in Threads : pc[u] \in Renewing => mine[u] \in Clients
  BY HolderFacts
<1>4. \/ /\ pc[t] = "setAuth" /\ pc'[t] = "setSk" /\ refreshLock'[c] = t
         /\ auth'[c] = fresh'[t]
      \/ /\ pc[t] = "setSk" /\ pc'[t] = "setExp" /\ refreshLock'[c] = t
         /\ auth'[c] = auth[c] /\ sk'[c] = fresh'[t] /\ fresh'[t] = fresh[t]
      \/ /\ pc[t] = "setExp" /\ pc'[t] = "ready" /\ refreshLock'[c] = Nobody
         /\ auth'[c] = auth[c] /\ sk'[c] = sk[c] /\ exp'[c] = fresh[t]
  BY <1>0, <1>2 DEF Store, Move
<1>5. Unborn'
  <2>1. made \in Nat
    BY TokenAssumption DEF FieldInv, TypeOK
  <2>2. \A d \in Clients : d > made => d # c
    BY <1>2, <2>1 DEF Clients
  <2>3. QED  BY <1>1, <2>2 DEF FieldInv, Unborn
<1>6. RenewersHold'
  <2>1. \A d \in Clients : refreshLock[d] = t => d = c
    BY <1>2, TokenAssumption DEF FieldInv, RenewersHold
  <2>2. \A u \in Threads : pc'[u] \in Renewing => refreshLock'[mine'[u]] = u
    <3>1. ASSUME NEW u \in Threads, u # t, pc'[u] \in Renewing
          PROVE  refreshLock'[mine'[u]] = u
      BY <3>1, <1>1, <1>2, <1>3 DEF FieldInv, RenewersHold
    <3>2. pc'[t] \in Renewing => refreshLock'[mine'[t]] = t
      BY <1>1, <1>4 DEF Renewing
    <3>3. QED  BY <3>1, <3>2
  <2>3. \A d \in Clients : refreshLock'[d] # Nobody
          => pc'[refreshLock'[d]] \in Renewing /\ mine'[refreshLock'[d]] = d
    <3>1. ASSUME NEW d \in Clients, d # c, refreshLock'[d] # Nobody
          PROVE  pc'[refreshLock'[d]] \in Renewing /\ mine'[refreshLock'[d]] = d
      <4>1. refreshLock'[d] = refreshLock[d] /\ refreshLock[d] \in Threads
        BY <3>1, <1>0, <1>1
      <4>2. refreshLock[d] # t
        BY <3>1, <2>1
      <4>3. QED  BY <3>1, <4>1, <4>2, <1>1 DEF FieldInv, RenewersHold
    <3>2. refreshLock'[c] # Nobody
          => pc'[refreshLock'[c]] \in Renewing /\ mine'[refreshLock'[c]] = c
      BY <1>1, <1>4 DEF Renewing
    <3>3. QED  BY <3>1, <3>2
  <2>4. QED  BY <2>2, <2>3 DEF RenewersHold
<1>7. Phases'
  <2>1. ASSUME NEW u \in Threads, u # t
        PROVE  LET d == mine[u] IN
               /\ pc'[u] \in {"clearSk", "clearExp", "login", "setAuth"} => auth'[d] = 0
               /\ pc'[u] \in {"clearExp", "login", "setAuth"} => sk'[d] = 0
               /\ pc'[u] \in {"login", "setAuth"} => exp'[d] = 0
               /\ pc'[u] \in {"setSk", "setExp"} => auth'[d] = fresh'[u]
               /\ pc'[u] = "setExp" => sk'[d] = fresh'[u]
    <3>1. CASE pc[u] \notin Renewing
      BY <2>1, <3>1, <1>1 DEF Renewing
    <3>2. CASE pc[u] \in Renewing
      BY <2>1, <3>2, <1>1, <1>2, <1>3 DEF FieldInv, Phases
    <3>3. QED  BY <3>1, <3>2
  <2>2. /\ pc'[t] \in {"setSk", "setExp", "ready"}
        /\ pc'[t] \in {"setSk", "setExp"} => auth'[c] = fresh'[t]
        /\ pc'[t] = "setExp" => sk'[c] = fresh'[t]
    BY <1>4 DEF FieldInv, Phases
  <2>3. QED  BY <1>1, <2>1, <2>2 DEF Phases
<1>8. SessionWhole'
  <2>1. ASSUME NEW d \in Clients, d # c, refreshLock'[d] = Nobody
        PROVE  auth'[d] = sk'[d] /\ auth'[d] = exp'[d]
    BY <2>1, <1>1 DEF FieldInv, SessionWhole
  <2>2. refreshLock'[c] = Nobody => auth'[c] = sk'[c] /\ auth'[c] = exp'[c]
    BY <1>4, TokenAssumption DEF FieldInv, Phases
  <2>3. QED  BY <2>1, <2>2 DEF SessionWhole
<1>9. QED  BY <1>5, <1>6, <1>7, <1>8 DEF FieldsKept

LEMMA StepFields == FieldInv /\ [Next]_vars => FieldInv'
<1> SUFFICES ASSUME FieldInv, [Next]_vars PROVE FieldInv'
  OBVIOUS
<1>1. TypeOK' /\ HasClient' /\ FirstTry'
  BY StepTypes DEF FieldInv
<1>2. FieldsKept
  <2>1. CASE UNCHANGED vars
    <3>1. Quiet
      BY <2>1 DEF Quiet, vars, clientVars
    <3>2. QED  BY <3>1, QuietKeeps
  <2>2. CASE \E n \in Tokens : Revoke(n) \/ Age(n)
    <3>1. Quiet
      BY <2>2 DEF Quiet, Revoke, Age, poolVars, clientVars, requestVars
    <3>2. QED  BY <3>1, QuietKeeps
  <2>3. ASSUME NEW t \in Threads,
               Step(t) \/ EnterLogin(t) \/ TakeRefreshLock(t) \/ RemoveConversation(t)
        PROVE  FieldsKept
    <3>1. CASE LoginReturns(t) \/ TakeRefreshLock(t) \/ Clear(t) \/ RefreshFails(t)
               \/ Store(t)
      BY <3>1, LoginReturnsKeeps, TakeRefreshLockKeeps, ClearKeeps, RefreshFailsKeeps,
         StoreKeeps
    <3>2. CASE ~(LoginReturns(t) \/ TakeRefreshLock(t) \/ Clear(t) \/ RefreshFails(t)
                 \/ Store(t))
      <4>1. Quiet
        BY <2>3, <3>2, QuietSteps DEF Step
      <4>2. QED  BY <4>1, QuietKeeps
    <3>3. QED  BY <3>1, <3>2
  <2>4. QED  BY <2>1, <2>2, <2>3 DEF Next
<1>3. QED  BY <1>1, <1>2 DEF FieldInv, FieldsKept

-------------------------------------------------------------------------------
(* Until it is stored, nobody has seen the token of a login. *)
Unseen(n) ==
  /\ n # 0 /\ \A c \in Clients : auth[c] # n
  /\ \A u \in Threads : sent[u] # n /\ rejected[u] # n

Unstored ==
  \A t \in Threads : pc[t] = "setAuth"
    => /\ Unseen(fresh[t])
       /\ \A u \in Threads : u # t /\ pc[u] = "setAuth" => fresh[u] # fresh[t]

(* What a thread knows of the token its request was rejected with. *)
Replaced(t) == auth[mine[t]] # rejected[t]

Knows(t) ==
  rejected[t] # 0
    => /\ pc[t] = "refresh" => old[t] = rejected[t] \/ Replaced(t)
       /\ stage[t] = "control"
            /\ (try[t] = 2 \/ pc[t] \in Renewing \ {"clearAuth"} \/ Over(t)) => Replaced(t)
       /\ stage[t] = "chat" => Over(t)

IInv == FieldInv /\ Unstored /\ \A t \in Threads : Knows(t)

(* Tokens that are sent come from clients, those that are rejected were     *)
(* sent: a step that does not log in shows no new token to anybody.         *)
ShowsNothing ==
  /\ \A u \in Threads : pc'[u] = "setAuth" => pc[u] = "setAuth" /\ fresh'[u] = fresh[u]
  /\ \A c \in Clients : auth'[c] = 0 \/ auth'[c] = auth[c]
  /\ \A u \in Threads : \/ sent'[u] = 0 \/ sent'[u] = sent[u]
                        \/ \E c \in Clients : sent'[u] = auth[c]
  /\ \A u \in Threads : rejected'[u] = rejected[u] \/ rejected'[u] = sent[u]

LEMMA ShowsNothingKeeps == Unstored /\ ShowsNothing => Unstored'
<1> SUFFICES ASSUME Unstored, ShowsNothing, NEW t \in Threads, pc'[t] = "setAuth"
             PROVE  /\ Unseen(fresh[t])'
                    /\ \A u \in Threads : u # t /\ pc'[u] = "setAuth"
                         => fresh'[u] # fresh'[t]
  BY DEF Unstored
<1>1. /\ pc[t] = "setAuth" /\ fresh'[t] = fresh[t] /\ Unseen(fresh[t])
      /\ \A u \in Threads : u # t /\ pc[u] = "setAuth" => fresh[u] # fresh[t]
  BY DEF ShowsNothing, Unstored
<1>2. Unseen(fresh[t])'
  BY <1>1 DEF ShowsNothing, Unseen
<1>3. QED
  BY <1>1, <1>2 DEF ShowsNothing

LEMMA ShowNothing ==
  ASSUME FieldInv, NEW t \in Threads,
         \/ GetClient(t) \/ EnterLogin(t) \/ LoginFails(t) \/ Install(t)
         \/ CheckLoggedIn(t) \/ Sign(t) \/ Header(t) \/ NetworkError(t)
         \/ Answered(t) \/ Denied(t) \/ ReadOldAuth(t) \/ TakeRefreshLock(t)
         \/ Clear(t) \/ RefreshFails(t) \/ RemoveConversation(t)
  PROVE  ShowsNothing
<1>0. /\ pc \in [Threads -> PcValues] /\ fresh \in [Threads -> 0..issued]
      /\ sent \in [Threads -> 0..issued] /\ rejected \in [Threads -> 0..issued]
      /\ auth \in [Clients -> 0..issued]
      /\ \A u \in Threads : pc[u] \in Busy => mine[u] \in Clients
  BY MineIsClient DEF FieldInv, TypeOK
<1> USE <1>0 DEF ShowsNothing, upstreamVars, poolVars, clientVars, requestVars, Move, End,
                 Request, Forget
<1>1. CASE GetClient(t)
  BY <1>1 DEF GetClient, UseEntryClient
<1>2. CASE EnterLogin(t)
  BY <1>2 DEF EnterLogin, UseEntryClient
<1>3. CASE LoginFails(t)
  BY <1>3 DEF LoginFails
<1>4. CASE Install(t)
  BY <1>4 DEF Install
<1>5. CASE CheckLoggedIn(t)
  BY <1>5 DEF CheckLoggedIn
<1>6. CASE Sign(t)
  BY <1>6 DEF Sign
<1>7. CASE Header(t)
  BY <1>7 DEF Header, Busy
<1>8. CASE NetworkError(t)
  BY <1>8 DEF NetworkError
<1>9. CASE Answered(t)
  BY <1>9 DEF Answered
<1>10. CASE Denied(t)
  BY <1>10 DEF Denied
<1>11. CASE ReadOldAuth(t)
  BY <1>11 DEF ReadOldAuth
<1>12. CASE TakeRefreshLock(t)
  BY <1>12 DEF TakeRefreshLock
<1>13. CASE Clear(t)
  BY <1>13 DEF Clear
<1>14. CASE RefreshFails(t)
  BY <1>14 DEF RefreshFails
<1>15. CASE RemoveConversation(t)
  BY <1>15 DEF RemoveConversation
<1>16. QED
  BY <1>1, <1>2, <1>3, <1>4, <1>5, <1>6, <1>7, <1>8,
     <1>9, <1>10, <1>11, <1>12, <1>13, <1>14, <1>15

(* A login takes a number that nothing has yet. *)
LEMMA LoginReturnsUnstored ==
  ASSUME FieldInv, Unstored, NEW t \in Threads, LoginReturns(t)
  PROVE  Unstored'
<1>1. /\ issued' \notin 0..issued
      /\ \A u \in Threads : fresh[u] \in 0..issued
  BY IssueWidens DEF LoginReturns, FieldInv, TypeOK
<1>2. /\ \A u \in Threads : pc'[u] = "setAuth" => pc[u] = "setAuth"
      /\ UNCHANGED <<sent, rejected, fresh>>
      /\ \A c \in Clients : auth'[c] = auth[c] \/ auth'[c] = issued'
  BY DEF LoginReturns, Move, FieldInv, TypeOK
<1>3. QED
  BY <1>1, <1>2 DEF Unstored, Unseen

LEMMA RefreshLogsInUnstored ==
  ASSUME FieldInv, Unstored, NEW t \in Threads, RefreshLogsIn(t)
  PROVE  Unstored'
<1>1. /\ issued' \notin 0..issued /\ 0 \in 0..issued
      /\ \A u \in Threads : fresh[u] \in 0..issued /\ sent[u] \in 0..issued
                          /\ rejected[u] \in 0..issued
      /\ \A c \in Clients : auth[c] \in 0..issued
  <2>1. issued \in Nat
    BY IssueWidens DEF RefreshLogsIn, FieldInv
  <2>2. QED
    BY <2>1, IssueWidens DEF RefreshLogsIn, FieldInv, TypeOK
<1>2. /\ \A u \in Threads : u # t => pc'[u] = pc[u] /\ fresh'[u] = fresh[u]
      /\ UNCHANGED <<sent, rejected, auth>> /\ fresh'[t] = issued'
  BY DEF RefreshLogsIn, Move, FieldInv, TypeOK, clientVars
<1>3. Unseen(fresh[t])'
  BY <1>1, <1>2 DEF Unseen
<1>4. ASSUME NEW u \in Threads, u # t, pc'[u] = "setAuth"
      PROVE  /\ Unseen(fresh[u])' /\ fresh'[u] # fresh'[t]
             /\ \A v \in Threads : v # u /\ v # t /\ pc'[v] = "setAuth"
                  => fresh'[v] # fresh'[u]
  BY <1>1, <1>2, <1>4 DEF Unstored, Unseen
<1>5. QED
  BY <1>2, <1>3, <1>4 DEF Unstored, Unseen

LEMMA StoreUnstored ==
  ASSUME FieldInv, Unstored, NEW t \in Threads, Store(t)
  PROVE  Unstored'
<1>1. /\ \A u \in Threads : pc'[u] = "setAuth"
           => u # t /\ pc[u] = "setAuth" /\ fresh'[u] = fresh[u]
      /\ UNCHANGED <<sent, rejected>>
  BY DEF Store, Move, FieldInv, TypeOK
<1>2. \A c \in Clients : \/ auth'[c] = auth[c]
                         \/ pc[t] = "setAuth" /\ auth'[c] = fresh[t]
  BY DEF Store, Move, FieldInv, TypeOK
<1>3. QED
  BY <1>1, <1>2 DEF Unstored, Unseen

LEMMA StepUnstored == FieldInv /\ Unstored /\ [Next]_vars => Unstored'
<1> SUFFICES ASSUME FieldInv, Unstored, [Next]_vars PROVE Unstored'
  OBVIOUS
<1>1. CASE UNCHANGED vars
  BY <1>1 DEF vars, Unstored, Unseen
<1>2. CASE \E n \in Tokens : Revoke(n) \/ Age(n)
  BY <1>2 DEF Revoke, Age, poolVars, clientVars, requestVars, Unstored, Unseen
<1>3. ASSUME NEW t \in Threads,
             Step(t) \/ EnterLogin(t) \/ TakeRefreshLock(t) \/ RemoveConversation(t)
      PROVE  Unstored'
  <2>1. CASE LoginReturns(t) \/ RefreshLogsIn(t) \/ Store(t)
    BY <2>1, LoginReturnsUnstored, RefreshLogsInUnstored, StoreUnstored
  <2>2. CASE ~(LoginReturns(t) \/ RefreshLogsIn(t) \/ Store(t))
    <3>1. ShowsNothing
      BY <1>3, <2>2, ShowNothing DEF Step
    <3>2. QED  BY <3>1, ShowsNothingKeeps
  <2>3. QED  BY <2>1, <2>2
<1>4. QED  BY <1>1, <1>2, <1>3 DEF Next

-------------------------------------------------------------------------------
(* The token of a client changes to None, to one that nobody has seen, or   *)
(* the client is new.                                                       *)
LEMMA TokenChanges ==
  ASSUME FieldInv, [Next]_vars, NEW c \in Clients
  PROVE  \/ auth'[c] = auth[c] \/ auth'[c] = 0
         \/ c = made + 1 /\ auth[c] = 0 /\ auth'[c] = issued + 1
         \/ \E t \in Threads : pc[t] = "setAuth" /\ auth[c] = 0 /\ auth'[c] = fresh[t]
<1> DEFINE Goal ==
      \/ auth'[c] = auth[c] \/ auth'[c] = 0
      \/ c = made + 1 /\ auth[c] = 0 /\ auth'[c] = issued + 1
      \/ \E t \in Threads : pc[t] = "setAuth" /\ auth[c] = 0 /\ auth'[c] = fresh[t]
<1>0. auth \in [Clients -> 0..issued]
  BY DEF FieldInv, TypeOK
<1>1. CASE UNCHANGED auth
  BY <1>1
<1>2. ASSUME NEW t \in Threads, LoginReturns(t) PROVE Goal
  <2>1. /\ auth' = [auth EXCEPT ![made'] = issued'] /\ made' = made + 1
        /\ issued' = issued + 1
    BY <1>2 DEF LoginReturns, IssueToken
  <2>2. c = made + 1 => auth[c] = 0
    <3>1. made \in Nat
      BY TokenAssumption DEF FieldInv, TypeOK
    <3>2. QED  BY <3>1 DEF FieldInv, Unborn
  <2>3. QED  BY <2>1, <2>2, <1>0
<1>3. ASSUME NEW t \in Threads, Clear(t) PROVE Goal
  BY <1>3, <1>0 DEF Clear
<1>4. ASSUME NEW t \in Threads, Store(t) PROVE Goal
  <2>1. \/ auth' = auth
        \/ pc[t] = "setAuth" /\ auth' = [auth EXCEPT ![mine[t]] = fresh[t]]
    BY <1>4 DEF Store, Move
  <2>2. pc[t] = "setAuth" => auth[mine[t]] = 0
    BY DEF FieldInv, Phases
  <2>3. QED  BY <2>1, <2>2, <1>0
<1>5. ASSUME NEW t \in Threads,
             \/ GetClient(t) \/ EnterLogin(t) \/ LoginFails(t) \/ Install(t)
             \/ CheckLoggedIn(t) \/ Sign(t) \/ Header(t) \/ NetworkError(t)
             \/ Answered(t) \/ Denied(t) \/ ReadOldAuth(t) \/ RefreshLogsIn(t)
             \/ RemoveConversation(t)
      PROVE  Goal
  <2>1. UNCHANGED auth
    BY <1>5, QuietSteps DEF Quiet, clientVars
  <2>2. QED  BY <2>1
<1>6. ASSUME NEW t \in Threads, TakeRefreshLock(t) \/ RefreshFails(t) PROVE Goal
  BY <1>6 DEF TakeRefreshLock, RefreshFails
<1>7. CASE \E n \in Tokens : Revoke(n) \/ Age(n)
  BY <1>7 DEF Revoke, Age, clientVars
<1>8. CASE UNCHANGED vars
  BY <1>8 DEF vars
<1> HIDE DEF Goal
<1>9. Goal
  BY <1>2, <1>3, <1>4, <1>5, <1>6, <1>7, <1>8 DEF Next, Step, Goal
<1>10. QED  BY <1>9 DEF Goal

(* A token that was replaced does not come back. *)
LEMMA ReplacedForGood ==
  ASSUME FieldInv, Unstored, [Next]_vars, NEW t \in Threads, rejected[t] # 0, Replaced(t)
  PROVE  auth'[mine[t]] # rejected[t]
<1>1. mine[t] \in Clients /\ rejected[t] \in 0..issued /\ issued \in Nat
      /\ mine[t] \in 0..made /\ made \in Nat
  BY MineIsClient, TokenAssumption DEF FieldInv, HasClient, TypeOK
<1>2. \A u \in Threads : pc[u] = "setAuth" => fresh[u] # rejected[t]
  BY DEF Unstored, Unseen
<1>3. QED
  BY <1>1, <1>2, TokenChanges DEF Replaced

(* Steps after which a thread claims no more than before. *)
ClaimsNoMore(t) ==
  /\ mine'[t] = mine[t] /\ rejected'[t] = rejected[t] /\ stage'[t] = stage[t]
  /\ pc'[t] = "refresh" => pc[t] = "refresh" /\ old'[t] = old[t]
  /\ try'[t] = 2 \/ pc'[t] \in Renewing \ {"clearAuth"} \/ Over(t)'
       => try[t] = 2 \/ pc[t] \in Renewing \ {"clearAuth"} \/ Over(t)
  /\ Over(t) => Over(t)'
  /\ pc[t] = "done" => pc'[t] = "done"

LEMMA ClaimsNoMoreKeeps ==
  ASSUME FieldInv, Unstored, [Next]_vars, NEW t \in Threads, Knows(t), ClaimsNoMore(t)
  PROVE  Knows(t)'
<1>1. CASE rejected[t] = 0
  BY <1>1 DEF Knows, ClaimsNoMore
<1>2. CASE rejected[t] # 0
  <2>1. Replaced(t) => Replaced(t)'
    <3>1. HAVE Replaced(t)
    <3>2. auth'[mine[t]] # rejected[t]
      BY <1>2, <3>1, ReplacedForGood
    <3>3. QED  BY <3>2 DEF Replaced, ClaimsNoMore
  <2>2. QED
    BY <1>2, <2>1 DEF Knows, ClaimsNoMore
<1>3. QED  BY <1>1, <1>2

(* What the other threads do, a thread does not notice. *)
LEMMA OthersKnow ==
  ASSUME FieldInv, Unstored, [Next]_vars, NEW t \in Threads,
         Step(t) \/ EnterLogin(t) \/ TakeRefreshLock(t) \/ RemoveConversation(t),
         NEW u \in Threads, u # t, Knows(u)
  PROVE  Knows(u)'
<1>1. /\ pc'[u] = pc[u] /\ stage'[u] = stage[u] /\ mine'[u] = mine[u] /\ try'[u] = try[u]
      /\ rejected'[u] = rejected[u] /\ old'[u] = old[u] /\ result'[u] = result[u]
  <2>0. /\ pc \in [Threads -> PcValues] /\ stage \in [Threads -> {"chat", "control"}]
        /\ mine \in [Threads -> 0..made] /\ try \in [Threads -> {1, 2}]
        /\ rejected \in [Threads -> 0..issued] /\ old \in [Threads -> 0..issued]
        /\ result \in [Threads -> {"none", "ok", "denied", "raised"}]
    BY DEF FieldInv, TypeOK
  <2> USE <2>0 DEF requestVars, Move, End, Request, Retry
  <2>1. CASE GetClient(t)
    BY <2>1 DEF GetClient, UseEntryClient
  <2>2. CASE LoginReturns(t)
    BY <2>2 DEF LoginReturns
  <2>3. CASE LoginFails(t)
    BY <2>3 DEF LoginFails
  <2>4. CASE Install(t)
    BY <2>4 DEF Install
  <2>5. CASE CheckLoggedIn(t)
    BY <2>5 DEF CheckLoggedIn
  <2>6. CASE Sign(t)
    BY <2>6 DEF Sign
  <2>7. CASE Header(t)
    BY <2>7 DEF Header
  <2>8. CASE NetworkError(t)
    BY <2>8 DEF NetworkError
  <2>9. CASE Answered(t)
    BY <2>9 DEF Answered
  <2>10. CASE Denied(t)
    BY <2>10 DEF Denied
  <2>11. CASE ReadOldAuth(t)
    BY <2>11 DEF ReadOldAuth
  <2>12. CASE Clear(t)
    BY <2>12 DEF Clear
  <2>13. CASE RefreshFails(t)
    BY <2>13 DEF RefreshFails
  <2>14. CASE RefreshLogsIn(t)
    BY <2>14 DEF RefreshLogsIn
  <2>15. CASE Store(t)
    BY <2>15 DEF Store
  <2>16. CASE EnterLogin(t)
    BY <2>16 DEF EnterLogin, UseEntryClient
  <2>17. CASE TakeRefreshLock(t)
    BY <2>17 DEF TakeRefreshLock
  <2>18. CASE RemoveConversation(t)
    BY <2>18 DEF RemoveConversation
  <2>19. QED
    BY <2>1, <2>2, <2>3, <2>4, <2>5, <2>6, <2>7, <2>8, <2>9,
       <2>10, <2>11, <2>12, <2>13, <2>14, <2>15, <2>16, <2>17, <2>18 DEF Step
<1>2. ClaimsNoMore(u)
  BY <1>1 DEF ClaimsNoMore, Over
<1>3. QED  BY <1>2, ClaimsNoMoreKeeps

LEMMA ActorKnows ==
  ASSUME FieldInv, Unstored, [Next]_vars, NEW t \in Threads, Knows(t),
         Step(t) \/ EnterLogin(t) \/ TakeRefreshLock(t) \/ RemoveConversation(t)
  PROVE  Knows(t)'
<1>0. /\ pc \in [Threads -> PcValues] /\ stage \in [Threads -> {"chat", "control"}]
      /\ mine \in [Threads -> 0..made] /\ try \in [Threads -> {1, 2}]
      /\ rejected \in [Threads -> 0..issued] /\ old \in [Threads -> 0..issued]
      /\ result \in [Threads -> {"none", "ok", "denied", "raised"}]
      /\ auth \in [Clients -> 0..issued]
      /\ pc[t] \in Busy => mine[t] \in Clients
  BY MineIsClient DEF FieldInv, TypeOK
<1>1. /\ pc[t] \in Renewing \cup {"new", "lock", "poolLogin", "install", "denied", "refresh"}
           => try[t] = 1
      /\ rejected[t] # 0 /\ pc[t] # "done" => stage[t] = "control"
  BY <1>0 DEF FieldInv, FirstTry, Knows, Over
<1> USE <1>0, <1>1 DEF requestVars, Move, End, Request, Retry, Over, Renewing
<1>2. CASE LoginFails(t)
  <2>1. ClaimsNoMore(t)
    BY <1>2 DEF LoginFails, ClaimsNoMore
  <2>2. QED  BY <2>1, ClaimsNoMoreKeeps
<1>3. CASE Install(t)
  <2>1. ClaimsNoMore(t)
    BY <1>3 DEF Install, ClaimsNoMore
  <2>2. QED  BY <2>1, ClaimsNoMoreKeeps
<1>4. CASE CheckLoggedIn(t)
  <2>1. ClaimsNoMore(t)
    BY <1>4 DEF CheckLoggedIn, ClaimsNoMore, Outcome
  <2>2. QED  BY <2>1, ClaimsNoMoreKeeps
<1>5. CASE Sign(t)
  <2>1. ClaimsNoMore(t)
    BY <1>5 DEF Sign, ClaimsNoMore
  <2>2. QED  BY <2>1, ClaimsNoMoreKeeps
<1>6. CASE Header(t)
  <2>1. ClaimsNoMore(t)
    BY <1>6 DEF Header, ClaimsNoMore
  <2>2. QED  BY <2>1, ClaimsNoMoreKeeps
<1>7. CASE NetworkError(t)
  <2>1. ClaimsNoMore(t)
    BY <1>7 DEF NetworkError, ClaimsNoMore, Outcome
  <2>2. QED  BY <2>1, ClaimsNoMoreKeeps
<1>8. CASE Answered(t)
  <2>1. ClaimsNoMore(t)
    BY <1>8 DEF Answered, ClaimsNoMore
  <2>2. QED  BY <2>1, ClaimsNoMoreKeeps
<1>9. CASE RefreshFails(t)
  <2>1. ClaimsNoMore(t)
    BY <1>9 DEF RefreshFails, ClaimsNoMore
  <2>2. QED  BY <2>1, ClaimsNoMoreKeeps
<1>10. CASE RefreshLogsIn(t)
  <2>1. ClaimsNoMore(t)
    BY <1>10 DEF RefreshLogsIn, ClaimsNoMore
  <2>2. QED  BY <2>1, ClaimsNoMoreKeeps
<1>11. CASE Store(t)
  <2>1. ClaimsNoMore(t)
    BY <1>11 DEF Store, ClaimsNoMore
  <2>2. QED  BY <2>1, ClaimsNoMoreKeeps
<1>12. CASE GetClient(t)
  BY <1>12 DEF GetClient, Knows, UseEntryClient
<1>13. CASE EnterLogin(t)
  BY <1>13 DEF EnterLogin, Knows, UseEntryClient
<1>14. CASE LoginReturns(t)
  BY <1>14 DEF LoginReturns, Knows
<1>15. CASE Denied(t)
  BY <1>15 DEF Denied, Knows, Replaced, clientVars
<1>16. CASE ReadOldAuth(t)
  BY <1>16 DEF ReadOldAuth, Knows, Replaced, clientVars
<1>17. CASE TakeRefreshLock(t)
  BY <1>17 DEF TakeRefreshLock, Knows, Replaced
<1>18. CASE RemoveConversation(t)
  BY <1>18 DEF RemoveConversation, Knows
<1>19. CASE Clear(t)
  <2>1. CASE pc[t] = "clearAuth"
    <3>1. auth'[mine[t]] = 0 /\ mine' = mine
      BY <1>19, <2>1 DEF Clear, Busy
    <3>2. QED
      BY <1>19, <2>1, <3>1 DEF Clear, Knows, Replaced
  <2>2. CASE pc[t] # "clearAuth"
    <3>1. ClaimsNoMore(t)
      BY <1>19, <2>2 DEF Clear, ClaimsNoMore
    <3>2. QED  BY <3>1, ClaimsNoMoreKeeps
  <2>3. QED  BY <2>1, <2>2
<1>20. QED
  BY <1>2, <1>3, <1>4, <1>5, <1>6, <1>7, <1>8, <1>9, <1>10,
     <1>11, <1>12, <1>13, <1>14, <1>15, <1>16, <1>17, <1>18, <1>19 DEF Step

LEMMA StepIInv == IInv /\ [Next]_vars => IInv'
<1> SUFFICES ASSUME IInv, [Next]_vars PROVE IInv'
  OBVIOUS
<1>0. FieldInv /\ Unstored /\ \A t \in Threads : Knows(t)
  BY DEF IInv
<1>1. FieldInv' /\ Unstored'
  BY <1>0, StepFields, StepUnstored
<1>2. ASSUME NEW u \in Threads PROVE Knows(u)'
  <2>1. CASE UNCHANGED vars \/ \E n \in Tokens : Revoke(n) \/ Age(n)
    <3>1. ClaimsNoMore(u)
      BY <2>1 DEF ClaimsNoMore, Over, vars, Revoke, Age, requestVars
    <3>2. QED  BY <1>0, <3>1, ClaimsNoMoreKeeps
  <2>2. ASSUME NEW t \in Threads,
               Step(t) \/ EnterLogin(t) \/ TakeRefreshLock(t) \/ RemoveConversation(t)
        PROVE  Knows(u)'
    <3>1. CASE u = t
      BY <1>0, <2>2, <3>1, ActorKnows
    <3>2. CASE u # t
      BY <1>0, <2>2, <3>2, OthersKnow
    <3>3. QED  BY <3>1, <3>2
  <2>3. QED  BY <2>1, <2>2 DEF Next
<1>3. QED  BY <1>1, <1>2 DEF IInv

LEMMA Invariance == Spec => []IInv
<1>1. Init => IInv
  <2>1. Init => Unstored /\ \A t \in Threads : Knows(t)
    BY DEF Init, Unstored, Knows
  <2>2. QED  BY <2>1, InitFieldInv DEF IInv
<1>2. QED  BY <1>1, StepIInv, PTL DEF Spec

-------------------------------------------------------------------------------
(* Every variable has its type. *)
THEOREM TypeCorrect == Spec => []TypeOK
<1>1. IInv => TypeOK
  BY DEF IInv, FieldInv
<1>2. QED  BY <1>1, Invariance, PTL

(* The fields of a client (ctyun_api.py:246-254) come from one login         *)
(* whenever nobody renews it, after a renewal that failed as well.           *)
THEOREM SessionsAreWhole == Spec => []SessionWhole
<1>1. IInv => SessionWhole
  BY DEF IInv, FieldInv
<1>2. QED  BY <1>1, Invariance, PTL

(* A control request that was answered 401 leaves its client without the     *)
(* rejected token (ctyun_api.py:324-340).                                    *)
THEOREM RejectedTokensAreReplaced == Spec => []ControlRenews
<1>1. IInv => ControlRenews
  BY DEF IInv, Knows, Replaced, ControlRenews, RejectedTokenGone
<1>2. QED  BY <1>1, Invariance, PTL

(* The token of a client changes only to a newer one or to None.  A client   *)
(* whose token is changed to another one had none, so the older logins that  *)
(* are still to be stored do not matter.                                     *)
THEOREM TokensGetNewer == Spec => TokensNewer
<1>1. ASSUME IInv, [Next]_vars, NEW c \in Clients
      PROVE  auth'[c] \in {0, auth[c]} \/ auth'[c] > auth[c]
  <2>0. FieldInv /\ Unstored
    BY <1>1 DEF IInv
  <2>1. /\ issued \in Nat /\ auth[c] \in 0..issued
        /\ \A t \in Threads : fresh[t] \in 0..issued
    BY <2>0, TokenAssumption DEF FieldInv, TypeOK
  <2>2. \A t \in Threads : pc[t] = "setAuth" => fresh[t] # 0
    BY <2>0 DEF Unstored, Unseen
  <2>3. \/ auth'[c] = auth[c] \/ auth'[c] = 0
        \/ auth[c] = 0 /\ auth'[c] = issued + 1
        \/ \E t \in Threads : pc[t] = "setAuth" /\ auth[c] = 0 /\ auth'[c] = fresh[t]
    BY <1>1, <2>0, TokenChanges
  <2>4. QED
    BY <2>1, <2>2, <2>3
<1>2. IInv /\ [Next]_vars
        => [\A c \in Clients : auth'[c] \in {0, auth[c]} \/ auth'[c] > auth[c]]_vars
  BY <1>1
<1>3. QED  BY <1>2, Invariance, PTL DEF Spec, TokensNewer
-------------------------------------------------------------------------------
(* The two kinds of locks *)

PoolLogin == {"poolLogin", "install"}

(* The entry's lock belongs to the thread that is in do_login past its       *)
(* second look at the client, and to nobody when there is none.              *)
EntryLockHeld ==
  /\ \A t \in Threads : pc[t] \in PoolLogin => entryLock = t
  /\ entryLock # Nobody => pc[entryLock] \in PoolLogin

(* Who waits for a lock holds none, neither the entry's nor a client's.      *)
NobodyHoldsAndWaits ==
  \A t \in Threads :
    pc[t] \in {"lock", "refresh"} =>
      entryLock # t /\ \A c \in Clients : refreshLock[c] # t

(* "Logins of one entry are serial" (account_pool.py:46): no two threads     *)
(* make a client for the entry at a time.                                    *)
PoolLoginsSerial ==
  \A t, u \in Threads : pc[t] \in PoolLogin /\ pc[u] \in PoolLogin => t = u

LEMMA StepEntryLock == FieldInv /\ EntryLockHeld /\ [Next]_vars => EntryLockHeld'
<1> SUFFICES ASSUME FieldInv, EntryLockHeld, [Next]_vars
             PROVE  EntryLockHeld'
  OBVIOUS
<1> USE DEF EntryLockHeld, PoolLogin, FieldInv, TypeOK, upstreamVars, poolVars,
            clientVars, requestVars, Move, End
<1>1. ASSUME NEW t \in Threads, EnterLogin(t)
      PROVE  EntryLockHeld'
  BY <1>1, TokenAssumption DEF EnterLogin, UseEntryClient
<1>2. ASSUME NEW t \in Threads, LoginReturns(t)
      PROVE  EntryLockHeld'
  BY <1>2 DEF LoginReturns
<1>3. ASSUME NEW t \in Threads, LoginFails(t) \/ Install(t)
      PROVE  EntryLockHeld'
  BY <1>3, TokenAssumption DEF LoginFails, Install
<1>4. ASSUME NEW t \in Threads,
             \/ GetClient(t) \/ CheckLoggedIn(t) \/ Sign(t) \/ Header(t)
             \/ NetworkError(t) \/ Answered(t) \/ Denied(t) \/ ReadOldAuth(t)
             \/ TakeRefreshLock(t) \/ RemoveConversation(t)
      PROVE  EntryLockHeld'
  BY <1>4 DEF GetClient, UseEntryClient, CheckLoggedIn, Sign, Header, NetworkError,
              Answered, Denied, ReadOldAuth, TakeRefreshLock, RemoveConversation,
              Request
<1>5. ASSUME NEW t \in Threads,
             Clear(t) \/ RefreshFails(t) \/ RefreshLogsIn(t) \/ Store(t)
      PROVE  EntryLockHeld'
  BY <1>5 DEF Clear, RefreshFails, RefreshLogsIn, Store
<1>6. CASE \/ \E n \in Tokens : Revoke(n) \/ Age(n)
           \/ UNCHANGED vars
  BY <1>6 DEF Revoke, Age, vars
<1>7. QED
  BY <1>1, <1>2, <1>3, <1>4, <1>5, <1>6 DEF Next, Step

LEMMA AlwaysEntryLock == Spec => []EntryLockHeld
<1>1. Init => EntryLockHeld
  BY DEF Init, EntryLockHeld, PoolLogin
<1>2. IInv => FieldInv
  BY DEF IInv
<1>3. QED
  BY <1>1, <1>2, StepEntryLock, Invariance, PTL DEF Spec

(* account_pool.py:193 with ctyun_api.py:327-341: although the logins of the *)
(* pool and the renewals of the clients have locks of different kinds, no    *)
(* circle of threads can wait for each other, as nobody asks for a lock      *)
(* with another one in hand.                                                 *)
THEOREM LocksAreNotNested == Spec => []NobodyHoldsAndWaits
<1>1. FieldInv /\ EntryLockHeld => NobodyHoldsAndWaits
  <2> SUFFICES ASSUME FieldInv, EntryLockHeld,
                      NEW t \in Threads, pc[t] \in {"lock", "refresh"}
               PROVE  entryLock # t /\ \A c \in Clients : refreshLock[c] # t
    BY DEF NobodyHoldsAndWaits
  <2>1. t # Nobody /\ pc[t] \notin PoolLogin /\ pc[t] \notin Renewing
    BY TokenAssumption DEF PoolLogin, Renewing
  <2>2. QED
    BY <2>1 DEF EntryLockHeld, FieldInv, RenewersHold
<1>2. IInv => FieldInv
  BY DEF IInv
<1>3. QED
  BY <1>1, <1>2, Invariance, AlwaysEntryLock, PTL

(* account_pool.py:46, 193: one login at a time for an entry, here with the  *)
(* failures of the login and of its commit, which give the lock back.        *)
THEOREM OnePoolLogin == Spec => []PoolLoginsSerial
<1>1. EntryLockHeld => PoolLoginsSerial
  BY DEF EntryLockHeld, PoolLoginsSerial
<1>2. QED
  BY <1>1, AlwaysEntryLock, PTL
-------------------------------------------------------------------------------
(* The sessions implement the store *)

(* The holder of a lock is in a renewal of that client, so a client whose    *)
(* holder does not move has the renewal it had.                              *)
LEMMA RenewalKept ==
  ASSUME FieldInv, NEW d \in Clients, refreshLock'[d] = refreshLock[d],
         \A u \in Threads : refreshLock[d] = u =>
           /\ pc'[u] \in {"setAuth", "setSk", "setExp"}
                <=> pc[u] \in {"setAuth", "setSk", "setExp"}
           /\ fresh'[u] = fresh[u]
  PROVE  RenewalOf(d)' = RenewalOf(d)
<1>1. UnderRenewal(d)' <=> UnderRenewal(d)
  BY DEF UnderRenewal
<1>2. UnderRenewal(d) => fresh'[refreshLock[d]] = fresh[refreshLock[d]]
  BY DEF UnderRenewal
<1>3. QED  BY <1>1, <1>2 DEF RenewalOf

(* What a step does to one client is what the store sees of it.              *)
LEMMA OneClient ==
  ASSUME NEW c \in Clients, NEW n,
         \A d \in Clients : d # c =>
           /\ auth'[d] = auth[d] /\ sk'[d] = sk[d] /\ exp'[d] = exp[d]
           /\ refreshLock'[d] = refreshLock[d],
         IF refreshLock'[c] = Nobody
           THEN auth'[c] = n /\ sk'[c] = n /\ exp'[c] = n
           ELSE n = 0
  PROVE  Sessions!Gets(c, n)
BY DEF Sessions!Gets, Unlocked

LEMMA OneRenewal ==
  ASSUME NEW c \in Clients, NEW n, RenewalOf(c)' = n,
         \A d \in Clients : d # c => RenewalOf(d)' = RenewalOf(d)
  PROVE  [d \in Clients |-> RenewalOf(d)]'
           = [[d \in Clients |-> RenewalOf(d)] EXCEPT ![c] = n]
OBVIOUS

(* A client whose lock is free is in no renewal, one whose holder has logged *)
(* in gets the login of the holder.                                          *)
LEMMA RenewalNext ==
  ASSUME NEW c \in Clients
  PROVE  /\ refreshLock'[c] = Nobody => RenewalOf(c)' = 0
         /\ \A t \in Threads :
              /\ refreshLock'[c] = t /\ pc'[t] \in {"setAuth", "setSk", "setExp"}
              => RenewalOf(c)' = fresh'[t]
<1>1. ASSUME refreshLock'[c] = Nobody PROVE RenewalOf(c)' = 0
  <2>1. ~UnderRenewal(c)'
    BY <1>1, TokenAssumption DEF UnderRenewal
  <2>2. QED  BY <2>1 DEF RenewalOf
<1>2. ASSUME NEW t \in Threads, refreshLock'[c] = t,
             pc'[t] \in {"setAuth", "setSk", "setExp"}
      PROVE  RenewalOf(c)' = fresh'[t]
  <2>1. UnderRenewal(c)'
    BY <1>2 DEF UnderRenewal
  <2>2. QED  BY <1>2, <2>1 DEF RenewalOf
<1>3. QED  BY <1>1, <1>2

LEMMA SameSessions ==
  ASSUME \A d \in Clients :
           /\ refreshLock'[d] = refreshLock[d]
           /\ refreshLock[d] = Nobody =>
                auth'[d] = auth[d] /\ sk'[d] = sk[d] /\ exp'[d] = exp[d]
  PROVE  UNCHANGED Sessions!session
BY DEF Sessions!session, Unlocked

(* A client that nobody renews has its fields, the one under renewal none.   *)
LEMMA FreeClient ==
  ASSUME FieldInv, NEW c \in Clients, refreshLock[c] = Nobody
  PROVE  /\ Sessions!Has(c, auth[c]) /\ RenewalOf(c) = 0
<1>1. Sessions!Has(c, auth[c])
  BY DEF Sessions!Has, Unlocked, FieldInv, SessionWhole
<1>2. ~UnderRenewal(c)
  BY TokenAssumption DEF UnderRenewal
<1>3. QED  BY <1>1, <1>2 DEF RenewalOf

LEMMA TakenClient ==
  ASSUME FieldInv, NEW t \in Threads, pc[t] \in Renewing
  PROVE  /\ mine[t] \in Clients /\ refreshLock[mine[t]] = t
         /\ Sessions!Has(mine[t], 0)
         /\ RenewalOf(mine[t]) = IF pc[t] \in {"setAuth", "setSk", "setExp"}
                                   THEN fresh[t] ELSE 0
         /\ \A d \in Clients : refreshLock[d] = t => d = mine[t]
<1>1. mine[t] \in Clients /\ refreshLock[mine[t]] = t /\ t # Nobody
  BY HolderFacts, TokenAssumption
<1>2. Sessions!Has(mine[t], 0)
  BY <1>1 DEF Sessions!Has, Unlocked
<1>3. RenewalOf(mine[t]) = IF pc[t] \in {"setAuth", "setSk", "setExp"}
                             THEN fresh[t] ELSE 0
  BY <1>1 DEF RenewalOf, UnderRenewal
<1>4. \A d \in Clients : refreshLock[d] = t => d = mine[t]
  BY <1>1 DEF FieldInv, RenewersHold
<1>5. QED  BY <1>1, <1>2, <1>3, <1>4

(* Steps outside the renewals change nothing that the store sees.            *)
LEMMA QuietStutters ==
  ASSUME FieldInv, Quiet, issued' = issued,
         \A u \in Threads : ~(pc[u] = "login" /\ pc'[u] = "setAuth")
  PROVE  UNCHANGED Sessions!storeVars
<1>1. UNCHANGED Sessions!session
  BY SameSessions DEF Quiet, clientVars
<1>2. ASSUME NEW d \in Clients
      PROVE  RenewalOf(d)' = RenewalOf(d)
  <2>1. refreshLock'[d] = refreshLock[d]
    BY DEF Quiet, clientVars
  <2>2. ASSUME NEW u \in Threads, refreshLock[d] = u
        PROVE  pc'[u] = pc[u] /\ fresh'[u] = fresh[u]
    <3>1. pc[u] \in Renewing
      BY <2>2, TokenAssumption DEF FieldInv, RenewersHold
    <3>2. QED  BY <3>1 DEF Quiet
  <2>3. QED  BY <2>1, <2>2, RenewalKept
<1>3. QED
  BY <1>1, <1>2 DEF Sessions!storeVars, Sessions!session

LEMMA LoginReturnsOpens ==
  ASSUME FieldInv, NEW t \in Threads, LoginReturns(t)
  PROVE  \E c \in Clients : Sessions!Opens(c)
<1> DEFINE n == made'
<1>1. /\ n = made + 1 /\ n \in Clients /\ n > made
  BY TokenAssumption DEF LoginReturns, FieldInv, TypeOK, Clients
<1>2. /\ auth' = [auth EXCEPT ![n] = issued'] /\ sk' = [sk EXCEPT ![n] = issued']
      /\ exp' = [exp EXCEPT ![n] = issued'] /\ refreshLock' = refreshLock
      /\ pc[t] = "poolLogin" /\ pc' = [pc EXCEPT ![t] = "install"] /\ fresh' = fresh
      /\ issued' = issued + 1
  BY DEF LoginReturns, Move, IssueToken
<1> HIDE DEF n
<1>3. auth[n] = 0 /\ refreshLock[n] = Nobody
  BY <1>1 DEF FieldInv, Unborn
<1>4. Sessions!Has(n, 0) /\ RenewalOf(n) = 0
  BY <1>1, <1>3, FreeClient
<1>5. /\ auth \in [Clients -> 0..issued] /\ sk \in [Clients -> 0..issued]
      /\ exp \in [Clients -> 0..issued] /\ pc \in [Threads -> PcValues]
  BY DEF FieldInv, TypeOK
<1>6. Sessions!Gets(n, issued')
  BY <1>1, <1>2, <1>3, <1>5, OneClient
<1>7. \A d \in Clients : RenewalOf(d)' = RenewalOf(d)
  BY <1>2, <1>5, RenewalKept
<1>8. QED
  BY <1>1, <1>2, <1>4, <1>6, <1>7 DEF Sessions!Opens

LEMMA TakeRefreshLockEnds ==
  ASSUME FieldInv, NEW t \in Threads, TakeRefreshLock(t)
  PROVE  (\E c \in Clients : Sessions!Ends(c)) \/ UNCHANGED Sessions!storeVars
<1> DEFINE c == mine[t]
<1>1. /\ pc[t] = "refresh" /\ refreshLock[c] = Nobody
      /\ UNCHANGED <<issued, made, auth, sk, exp, mine, fresh>>
      /\ pc \in [Threads -> PcValues] /\ refreshLock \in [Clients -> Threads \cup {Nobody}]
  BY DEF TakeRefreshLock, FieldInv, TypeOK, poolVars, upstreamVars
<1>2. c \in Clients
  <2>1. pc[t] \in Busy
    BY <1>1 DEF Busy
  <2>2. QED  BY <2>1, MineIsClient DEF FieldInv
<1>3. CASE pc' = [pc EXCEPT ![t] = "ready"] /\ refreshLock' = refreshLock
  <2>1. Quiet
    BY <1>1, <1>3 DEF Quiet, clientVars, Renewing
  <2>2. QED  BY <1>1, <1>3, <2>1, QuietStutters
<1>4. CASE pc' = [pc EXCEPT ![t] = "clearAuth"]
           /\ refreshLock' = [refreshLock EXCEPT ![c] = t]
  <2>1. Sessions!Gets(c, 0)
    BY <1>1, <1>2, <1>4, TokenAssumption, OneClient
  <2>2. RenewalOf(c) = 0
    BY <1>1, <1>2, FreeClient
  <2>3. \A d \in Clients : refreshLock[d] # t
    BY <1>1, TokenAssumption DEF FieldInv, RenewersHold, Renewing
  <2>4. \A d \in Clients : d # c => RenewalOf(d)' = RenewalOf(d)
    BY <1>1, <1>4, <2>3, RenewalKept
  <2>5. RenewalOf(c)' = 0
    BY <1>1, <1>2, <1>4 DEF RenewalOf, UnderRenewal
  <2>6. QED
    BY <1>1, <1>2, <2>1, <2>2, <2>4, <2>5 DEF Sessions!Ends
<1>5. QED
  BY <1>3, <1>4 DEF TakeRefreshLock, Move

(* Clearing the fields one by one is not seen: the lock is taken.            *)
LEMMA ClearStutters ==
  ASSUME FieldInv, NEW t \in Threads, Clear(t)
  PROVE  UNCHANGED Sessions!storeVars
<1> DEFINE c == mine[t]
<1>1. /\ pc[t] \in Renewing /\ pc'[t] \in {"clearSk", "clearExp", "login"}
      /\ pc[t] \in {"clearAuth", "clearSk", "clearExp"}
      /\ UNCHANGED <<issued, refreshLock, fresh>>
      /\ \A u \in Threads : u # t => pc'[u] = pc[u]
      /\ \A d \in Clients : d # c
           => auth'[d] = auth[d] /\ sk'[d] = sk[d] /\ exp'[d] = exp[d]
  BY DEF Clear, Move, Renewing, FieldInv, TypeOK, poolVars, requestVars, upstreamVars
<1>2. refreshLock[c] # Nobody
  BY <1>1, TakenClient, TokenAssumption
<1>3. UNCHANGED Sessions!session
  BY <1>1, <1>2, SameSessions
<1>4. \A d \in Clients : RenewalOf(d)' = RenewalOf(d)
  BY <1>1, RenewalKept
<1>5. QED
  BY <1>1, <1>3, <1>4 DEF Sessions!storeVars, Sessions!session

(* A renewal that fails gives back a client without a session.               *)
LEMMA RefreshFailsStutters ==
  ASSUME FieldInv, NEW t \in Threads, RefreshFails(t)
  PROVE  UNCHANGED Sessions!storeVars
<1>c. PICK c \in Clients : c = mine[t]
  BY TakenClient DEF RefreshFails, Renewing, Move, End
<1> USE <1>c
<1>1. /\ pc[t] = "login" /\ UNCHANGED <<issued, auth, sk, exp, fresh>>
      /\ pc' = [pc EXCEPT ![t] = "done"]
      /\ refreshLock' = [refreshLock EXCEPT ![c] = Nobody]
      /\ pc \in [Threads -> PcValues] /\ refreshLock \in [Clients -> Threads \cup {Nobody}]
  BY DEF RefreshFails, End, Move, FieldInv, TypeOK, poolVars, upstreamVars
<1>2. /\ c \in Clients /\ refreshLock[c] = t /\ t # Nobody
      /\ RenewalOf(c) = 0 /\ \A d \in Clients : refreshLock[d] = t => d = c
  BY <1>1, TakenClient, TokenAssumption DEF Renewing
<1>3. auth[c] = 0 /\ sk[c] = 0 /\ exp[c] = 0
  BY <1>1 DEF FieldInv, Phases
<1>4. UNCHANGED Sessions!session
  BY <1>1, <1>2, <1>3 DEF Sessions!session, Unlocked
<1>5. \A d \in Clients : d # c => RenewalOf(d)' = RenewalOf(d)
  BY <1>1, <1>2, RenewalKept
<1>6. RenewalOf(c)' = 0
  <2>1. refreshLock'[c] = Nobody
    BY <1>1, <1>2
  <2>2. QED  BY <1>2, <2>1, RenewalNext
<1>7. \A d \in Clients : RenewalOf(d)' = RenewalOf(d)
  BY <1>2, <1>5, <1>6
<1>8. QED
  BY <1>1, <1>4, <1>7 DEF Sessions!storeVars, Sessions!session

LEMMA RefreshLogsInAgain ==
  ASSUME FieldInv, NEW t \in Threads, RefreshLogsIn(t)
  PROVE  \E c \in Clients : Sessions!LogsInAgain(c)
<1>c. PICK c \in Clients : c = mine[t]
  BY TakenClient DEF RefreshLogsIn, Renewing, Move, End
<1> USE <1>c
<1>1. /\ pc[t] = "login" /\ pc' = [pc EXCEPT ![t] = "setAuth"]
      /\ issued' = issued + 1 /\ fresh' = [fresh EXCEPT ![t] = issued']
      /\ UNCHANGED <<auth, sk, exp, refreshLock>>
      /\ pc \in [Threads -> PcValues] /\ fresh \in [Threads -> 0..issued]
  BY DEF RefreshLogsIn, Move, IssueToken, FieldInv, TypeOK, clientVars
<1>2. /\ c \in Clients /\ refreshLock[c] = t
      /\ Sessions!Has(c, 0) /\ RenewalOf(c) = 0
      /\ \A d \in Clients : refreshLock[d] = t => d = c
  BY <1>1, TakenClient DEF Renewing
<1>3. UNCHANGED Sessions!session
  BY <1>1, SameSessions
<1>4. \A d \in Clients : d # c => RenewalOf(d)' = RenewalOf(d)
  BY <1>1, <1>2, RenewalKept
<1>5. RenewalOf(c)' = issued'
  <2>1. refreshLock'[c] = t /\ pc'[t] = "setAuth" /\ fresh'[t] = issued'
    BY <1>1, <1>2
  <2>2. QED  BY <1>2, <2>1, RenewalNext
<1>6. [d \in Clients |-> RenewalOf(d)]'
        = [[d \in Clients |-> RenewalOf(d)] EXCEPT ![c] = issued']
  BY <1>2, <1>4, <1>5, OneRenewal
<1>7. Sessions!LogsInAgain(c)
  BY <1>1, <1>2, <1>3, <1>6 DEF Sessions!LogsInAgain
<1>8. QED  BY <1>2, <1>7

(* A login that a renewal keeps has a number.                                *)
FreshLogin ==
  \A t \in Threads : pc[t] \in {"setAuth", "setSk", "setExp"} => fresh[t] # 0

LEMMA StepFreshLogin == FieldInv /\ FreshLogin /\ [Next]_vars => FreshLogin'
<1> SUFFICES ASSUME FieldInv, FreshLogin, [Next]_vars
             PROVE  FreshLogin'
  OBVIOUS
<1>0. /\ pc \in [Threads -> PcValues] /\ fresh \in [Threads -> 0..issued]
      /\ issued \in Nat
  BY TokenAssumption DEF FieldInv, TypeOK
<1> USE <1>0 DEF FreshLogin, upstreamVars, poolVars, clientVars, requestVars, Move, End
<1>1. ASSUME NEW t \in Threads, RefreshLogsIn(t)
      PROVE  FreshLogin'
  BY <1>1 DEF RefreshLogsIn, IssueToken
<1>2. ASSUME NEW t \in Threads, Store(t)
      PROVE  FreshLogin'
  BY <1>2 DEF Store
<1>3. ASSUME NEW t \in Threads,
             \/ GetClient(t) \/ EnterLogin(t) \/ LoginReturns(t) \/ LoginFails(t)
             \/ Install(t) \/ TakeRefreshLock(t) \/ Clear(t) \/ RefreshFails(t)
             \/ RemoveConversation(t)
      PROVE  FreshLogin'
  BY <1>3 DEF GetClient, UseEntryClient, EnterLogin, LoginReturns, LoginFails, Install,
              TakeRefreshLock, Clear, RefreshFails, RemoveConversation
<1>4. ASSUME NEW t \in Threads,
             \/ CheckLoggedIn(t) \/ Sign(t) \/ Header(t) \/ NetworkError(t)
             \/ Answered(t) \/ Denied(t) \/ ReadOldAuth(t)
      PROVE  FreshLogin'
  BY <1>4 DEF CheckLoggedIn, Sign, Header, NetworkError, Answered, Denied, ReadOldAuth,
              Request
<1>5. CASE \/ \E n \in Tokens : Revoke(n) \/ Age(n)
           \/ UNCHANGED vars
  BY <1>5 DEF Revoke, Age, vars
<1>6. QED
  BY <1>1, <1>2, <1>3, <1>4, <1>5 DEF Next, Step

LEMMA AlwaysFreshLogin == Spec => []FreshLogin
<1>1. Init => FreshLogin
  BY DEF Init, FreshLogin
<1>2. IInv => FieldInv
  BY DEF IInv
<1>3. QED
  BY <1>1, <1>2, StepFreshLogin, Invariance, PTL DEF Spec

(* The last of the three assignments, with the lock, is the exchange.        *)
LEMMA StoreRenews ==
  ASSUME FieldInv, FreshLogin, NEW t \in Threads, Store(t)
  PROVE  (\E c \in Clients : Sessions!Renews(c)) \/ UNCHANGED Sessions!storeVars
<1>c. PICK c \in Clients : c = mine[t]
  BY TakenClient DEF Store, Renewing, Move, End
<1> USE <1>c
<1>0. /\ pc \in [Threads -> PcValues] /\ refreshLock \in [Clients -> Threads \cup {Nobody}]
      /\ auth \in [Clients -> 0..issued] /\ sk \in [Clients -> 0..issued]
      /\ exp \in [Clients -> 0..issued] /\ fresh \in [Threads -> 0..issued]
  BY DEF FieldInv, TypeOK
<1>1. /\ pc[t] \in {"setAuth", "setSk", "setExp"} /\ issued' = issued
      /\ \A d \in Clients : d # c
           => auth'[d] = auth[d] /\ sk'[d] = sk[d] /\ exp'[d] = exp[d]
              /\ refreshLock'[d] = refreshLock[d]
      /\ \A u \in Threads : u # t => pc'[u] = pc[u] /\ fresh'[u] = fresh[u]
  BY <1>0 DEF Store, Move, upstreamVars
<1>2. /\ c \in Clients /\ refreshLock[c] = t /\ t # Nobody
      /\ Sessions!Has(c, 0) /\ RenewalOf(c) = fresh[t]
      /\ \A d \in Clients : refreshLock[d] = t => d = c
  BY <1>1, TakenClient, TokenAssumption DEF Renewing
<1>3. CASE pc[t] # "setExp"
  <2>1. /\ pc'[t] \in {"setSk", "setExp"}
        /\ UNCHANGED <<refreshLock, fresh>>
    BY <1>0, <1>3 DEF Store, Move
  <2>2. UNCHANGED Sessions!session
    BY <1>1, <1>2, <2>1, SameSessions
  <2>3. \A d \in Clients : RenewalOf(d)' = RenewalOf(d)
    BY <1>1, <2>1, RenewalKept
  <2>4. QED
    BY <1>1, <2>2, <2>3 DEF Sessions!storeVars, Sessions!session
<1>4. CASE pc[t] = "setExp"
  <2>1. /\ refreshLock' = [refreshLock EXCEPT ![c] = Nobody]
        /\ auth' = auth /\ sk' = sk /\ exp' = [exp EXCEPT ![c] = fresh[t]]
    BY <1>4 DEF Store, Move
  <2>2. auth[c] = fresh[t] /\ sk[c] = fresh[t]
    BY <1>4 DEF FieldInv, Phases
  <2>3. Sessions!Gets(c, RenewalOf(c))
    BY <1>0, <1>1, <1>2, <2>1, <2>2, OneClient
  <2>4. \A d \in Clients : d # c => RenewalOf(d)' = RenewalOf(d)
    BY <1>1, <1>2, RenewalKept
  <2>5. RenewalOf(c)' = 0
    <3>1. refreshLock'[c] = Nobody
      BY <1>0, <1>2, <2>1
    <3>2. QED  BY <1>2, <3>1, RenewalNext
  <2>6. RenewalOf(c) # 0
    BY <1>2, <1>4 DEF FreshLogin
  <2>7. [d \in Clients |-> RenewalOf(d)]'
          = [[d \in Clients |-> RenewalOf(d)] EXCEPT ![c] = 0]
    BY <1>2, <2>4, <2>5, OneRenewal
  <2>8. Sessions!Renews(c)
    BY <1>1, <1>2, <2>3, <2>6, <2>7 DEF Sessions!Renews
  <2>9. QED  BY <1>2, <2>8
<1>5. QED  BY <1>3, <1>4

LEMMA StepStore ==
  FieldInv /\ FreshLogin /\ [Next]_vars => [Sessions!StoreNext]_(Sessions!storeVars)
<1> SUFFICES ASSUME FieldInv, FreshLogin, [Next]_vars
             PROVE  Sessions!StoreNext \/ UNCHANGED Sessions!storeVars
  OBVIOUS
<1> USE DEF Sessions!StoreNext
<1>1. ASSUME NEW t \in Threads,
             \/ GetClient(t) \/ EnterLogin(t) \/ LoginFails(t) \/ Install(t)
             \/ CheckLoggedIn(t) \/ Sign(t) \/ Header(t) \/ NetworkError(t)
             \/ Answered(t) \/ Denied(t) \/ ReadOldAuth(t) \/ RemoveConversation(t)
      PROVE  UNCHANGED Sessions!storeVars
  <2>1. Quiet
    BY <1>1, QuietSteps
  <2>2. issued' = issued
    BY <1>1 DEF GetClient, EnterLogin, LoginFails, Install, CheckLoggedIn, Sign, Header,
                NetworkError, Answered, Denied, ReadOldAuth, RemoveConversation, Request,
                upstreamVars
  <2>3. \A u \in Threads : ~(pc[u] = "login" /\ pc'[u] = "setAuth")
    BY <1>1 DEF GetClient, EnterLogin, LoginFails, Install, CheckLoggedIn, Sign, Header,
                NetworkError, Answered, Denied, ReadOldAuth, RemoveConversation, Move, End,
                FieldInv, TypeOK
  <2>4. QED  BY <2>1, <2>2, <2>3, QuietStutters
<1>2. CASE \/ \E n \in Tokens : Revoke(n) \/ Age(n)
           \/ UNCHANGED vars
  <2>1. UNCHANGED <<issued, made, auth, sk, exp, refreshLock, pc, mine, fresh>>
    BY <1>2 DEF Revoke, Age, poolVars, clientVars, requestVars, vars
  <2>2. Quiet
    BY <2>1 DEF Quiet, clientVars
  <2>3. QED  BY <2>1, <2>2, QuietStutters
<1>3. QED
  BY <1>1, <1>2, LoginReturnsOpens, TakeRefreshLockEnds, ClearStutters,
     RefreshFailsStutters, RefreshLogsInAgain, StoreRenews DEF Next, Step

(* ctyun_api.py:276-286, 327-341, 205-254: although a renewal writes three   *)
(* fields one after the other twice, and requests read them in between, the  *)
(* clients whose lock is free have sessions that are exchanged whole, one    *)
(* renewal at a time, each by a login that came after the old session had    *)
(* ended.                                                                    *)
THEOREM ClientsImplementStore == Spec => ImplementsStore
<1>1. Init => Sessions!StoreInit
  BY TokenAssumption
     DEF Init, Sessions!StoreInit, Sessions!NoSession, Unlocked, RenewalOf, UnderRenewal
<1>2. IInv => FieldInv
  BY DEF IInv
<1>3. QED
  BY <1>1, <1>2, StepStore, Invariance, AlwaysFreshLogin, PTL
     DEF Spec, ImplementsStore, Sessions!StoreSpec
===============================================================================
