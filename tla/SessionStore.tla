----------------------------- MODULE SessionStore ------------------------------
(***************************************************************************)
(* What the clients of an upstream account promise about their sessions: a *)
(* session (a token with its signing key and expiry) is exchanged as a     *)
(* whole, and a renewal ends the old session before it asks for the new    *)
(* one.  So the sessions of a client get newer, the result of a login goes *)
(* to one client and goes there once, and a client has one renewal at a    *)
(* time.                                                                   *)
(*                                                                         *)
(* Nothing is said of locks, threads, or the order in which fields are     *)
(* written: a client under renewal has no session.  Logins are numbered,   *)
(* 0 is no session.                                                        *)
(***************************************************************************)
EXTENDS Naturals

CONSTANT Clients

VARIABLES issued,             \* logins so far
          renewal,            \* the login that will be the next session
          token, key, expiry  \* of which login

session == <<token, key, expiry>>
storeVars == <<issued, renewal, token, key, expiry>>

Has(c, n) == token[c] = n /\ key[c] = n /\ expiry[c] = n

Gets(c, n) == /\ token' = [token EXCEPT ![c] = n]
              /\ key' = [key EXCEPT ![c] = n]
              /\ expiry' = [expiry EXCEPT ![c] = n]

NoSession == [c \in Clients |-> 0]

StoreInit == /\ issued = 0
             /\ renewal = NoSession
             /\ token = NoSession /\ key = NoSession /\ expiry = NoSession

(* a client object logs in before anybody knows it *)
Opens(c) == /\ Has(c, 0) /\ renewal[c] = 0
            /\ issued' = issued + 1
            /\ Gets(c, issued')
            /\ UNCHANGED renewal

Ends(c) == /\ renewal[c] = 0
           /\ Gets(c, 0)
           /\ UNCHANGED <<issued, renewal>>

LogsInAgain(c) == /\ Has(c, 0) /\ renewal[c] = 0
                  /\ issued' = issued + 1
                  /\ renewal' = [renewal EXCEPT ![c] = issued']
                  /\ UNCHANGED session

Renews(c) == /\ Has(c, 0) /\ renewal[c] # 0
             /\ Gets(c, renewal[c])
             /\ renewal' = [renewal EXCEPT ![c] = 0]
             /\ UNCHANGED issued

StoreNext == \E c \in Clients :
               Opens(c) \/ Ends(c) \/ LogsInAgain(c) \/ Renews(c)

StoreSpec == StoreInit /\ [][StoreNext]_storeVars
===============================================================================
