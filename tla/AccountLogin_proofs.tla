-------------------------- MODULE AccountLogin_proofs --------------------------
(***************************************************************************)
(* Proofs about AccountLogin, for any number of threads, accounts, names,  *)
(* administrator operations and restarts, whatever operations the          *)
(* administrator uses and however configured; only the last two theorems   *)
(* suppose that no account is deleted.                                     *)
(*                                                                         *)
(* Mutual exclusion rests on what a thread remembers: it keeps the entry   *)
(* it read at the start (mine), and a reload never touches the lock of an  *)
(* entry, so past the lock the thread is the owner of that entry's lock    *)
(* (Owns) even when the id has another entry by then.                      *)
(*                                                                         *)
(* That reloads keep the passwords rests on how rows and entries can       *)
(* differ between a commit and its reload: only the row just added lacks   *)
(* an entry, and it has the largest id (RowsAndEntries).                   *)
(***************************************************************************)
EXTENDS AccountLogin, FiniteSetTheorems, TLAPS

Busy == PcValues \ {"idle"}

Owns ==
  \A t \in Threads :
    /\ pc[t] \in Busy => mine[t] \in Objects /\ target[t] \in Ids
    /\ pc[t] \in Critical => loginLock[mine[t]] = t

(* id has the largest id in use *)
Largest(id) == \A i \in Ids : Exists(i) => i <= id

RowsAndEntries ==
  /\ \A id \in Ids : entryOf[id] # None => entryOf[id] <= created
  /\ \A i, j \in Ids : i # j /\ entryOf[i] # None => entryOf[i] # entryOf[j]
  /\ admin # "reload" => \A id \in Ids : entryOf[id] # None => Exists(id)
  /\ \A id \in Ids :
       Exists(id) /\ entryOf[id] = None => admin = "reloadAdded" /\ Largest(id)
  /\ \A id \in Ids :
       entryOf[id] # None =>
         password[entryOf[id]] \/ (admin = "setPassword" /\ Largest(id))

IInv == TypeOK /\ Owns /\ RowsAndEntries

-------------------------------------------------------------------------------
(* Facts about the numbers of rows and entries *)

LEMMA Constants ==
  /\ MaxId \in Nat /\ MaxObjects \in Nat /\ MaxId <= MaxObjects
  /\ Ids \subseteq Nat /\ Objects \subseteq Nat
  /\ None \notin Objects /\ None \notin Names /\ None \notin Threads
  /\ 1 \in Ids
BY BoundsAssumption, NoneAssumption DEF Ids, Objects

(* A set of ids is finite and has at most MaxId elements.                    *)
LEMMA IdSets ==
  ASSUME NEW S \in SUBSET Ids
  PROVE  /\ IsFiniteSet(S)
         /\ Cardinality(S) \in Nat
         /\ Cardinality(S) <= MaxId
<1>1. IsFiniteSet(Ids) /\ Cardinality(Ids) = MaxId
  BY FS_Interval, Constants DEF Ids
<1>2. IsFiniteSet(S) /\ Cardinality(S) <= MaxId
  BY <1>1, FS_Subset
<1>3. QED  BY <1>2, FS_CardinalityType

(* A started server numbers its entries in the order of their ids: every     *)
(* row has an entry, and no two rows have the same.                          *)
LEMMA LoadedEntries ==
  /\ \A id \in Ids :
       Exists(id) => Rank(id) \in Objects /\ Rank(id) <= Cardinality({i \in Ids : Exists(i)})
  /\ \A i, j \in Ids : Exists(i) /\ Exists(j) /\ i # j => Rank(i) # Rank(j)
<1> DEFINE Upto(id) == {i \in Ids : Exists(i) /\ i <= id}
<1>1. ASSUME NEW id \in Ids, Exists(id)
      PROVE  Rank(id) \in Objects /\ Rank(id) <= Cardinality({i \in Ids : Exists(i)})
  <2>1. Cardinality(Upto(id)) \in Nat /\ Cardinality(Upto(id)) <= MaxId
    BY IdSets
  <2>2. Cardinality(Upto(id)) # 0
    <3>1. id \in Upto(id)
      BY <1>1, Constants
    <3>2. QED  BY <3>1, IdSets, FS_EmptySet
  <2>3. Cardinality(Upto(id)) <= Cardinality({i \in Ids : Exists(i)})
    <3>1. Upto(id) \in SUBSET {i \in Ids : Exists(i)}
      OBVIOUS
    <3>2. IsFiniteSet({i \in Ids : Exists(i)})
      BY IdSets
    <3>3. QED  BY <3>1, <3>2, FS_Subset
  <2>4. QED  BY <2>1, <2>2, <2>3, Constants DEF Rank, Objects
<1>2. ASSUME NEW i \in Ids, NEW j \in Ids, Exists(i), Exists(j), i < j
      PROVE  Rank(i) # Rank(j)
  <2>1. Upto(i) \in SUBSET Upto(j)
    <3>1. ASSUME NEW x \in Ids, x <= i
          PROVE  x <= j
      BY <1>2, <3>1, Constants
    <3>2. QED  BY <3>1
  <2>2. j \in Upto(j) /\ j \notin Upto(i)
    BY <1>2, Constants
  <2>3. IsFiniteSet(Upto(j))
    BY IdSets
  <2>4. Cardinality(Upto(i)) # Cardinality(Upto(j))
    BY <2>1, <2>2, <2>3, FS_Subset
  <2>5. QED  BY <2>4 DEF Rank
<1>3. QED  BY <1>1, <1>2, Constants

-------------------------------------------------------------------------------
(* Types and the ownership of login locks *)

(* A step of do_login keeps the types and the ownership of the login locks.  *)
LEMMA ThreadStep ==
  ASSUME TypeOK, Owns, NEW t \in Threads, TakeLoginLock(t) \/ Locked(t)
  PROVE  TypeOK' /\ Owns'
<1> USE DEF Move, SameCall, rowVars, objectVars, warmupVars, adminVars, Busy,
            PcValues, Critical
<1>1. CASE TakeLoginLock(t)
  <2>1. mine[t] \in Objects
    BY <1>1 DEF TakeLoginLock, Owns
  <2>2. TypeOK'
    BY <1>1, <2>1 DEF TakeLoginLock, TypeOK
  <2>3. ASSUME NEW u \in Threads, u # t, pc[u] \in Critical
        PROVE  mine[u] # mine[t]
    BY <1>1, <2>3, Constants DEF TakeLoginLock, Owns
  <2>4. Owns'
    BY <1>1, <2>1, <2>3 DEF TakeLoginLock, TypeOK, Owns
  <2>5. QED  BY <2>2, <2>4
<1>2. CASE Leave(t)
  <2>1. mine[t] \in Objects /\ loginLock[mine[t]] = t
    BY <1>2 DEF Leave, Owns
  <2>2. TypeOK'
    BY <1>2, <2>1 DEF Leave, TypeOK, Causes
  <2>3. ASSUME NEW u \in Threads, u # t, pc[u] \in Critical
        PROVE  mine[u] # mine[t]
    BY <2>1, <2>3 DEF Owns
  <2>4. Owns'
    BY <1>2, <2>1, <2>3 DEF Leave, TypeOK, Owns
  <2>5. QED  BY <2>2, <2>4
<1>3. ASSUME \/ Recheck(t) \/ NetworkSucceeds(t) \/ NetworkFails(t)
             \/ LockMemory(t) \/ LockRow(t) \/ Commit(t) \/ Install(t)
      PROVE  TypeOK' /\ Owns'
  <2>1. /\ pc[t] \in Critical
        /\ \E to \in Critical : pc' = [pc EXCEPT ![t] = to]
        /\ UNCHANGED <<row, entryOf, created, name, password, loginLock, target,
                       mine, login, cause, asleep, warmups, admin, adminOps,
                       restarts>>
    BY <1>3 DEF Recheck, NetworkSucceeds, NetworkFails, LockMemory, LockRow,
                Commit, Install
  <2>2. mine[t] \in Objects /\ target[t] \in Ids
    BY <2>1 DEF Owns
  <2>3. disabled' \in [Ids -> BOOLEAN]
    BY <1>3, <2>2 DEF Recheck, NetworkSucceeds, NetworkFails, LockMemory,
                      LockRow, Commit, Install, TypeOK, Exists
  <2>4. locked' \in [Objects -> BOOLEAN]
    BY <1>3, <2>2 DEF Recheck, NetworkSucceeds, NetworkFails, LockMemory,
                      LockRow, Commit, Install, TypeOK
  <2>5. /\ client' \in [Objects -> Names \cup {None}]
        /\ session' \in [Objects -> {"none", "login", "renewed"}]
    BY <1>3, <2>2 DEF Recheck, NetworkSucceeds, NetworkFails, LockMemory,
                      LockRow, Commit, Install, TypeOK
  <2>6. TypeOK'
    BY <2>1, <2>3, <2>4, <2>5 DEF TypeOK
  <2>7. Owns'
    BY <2>1 DEF TypeOK, Owns
  <2>8. QED  BY <2>6, <2>7
<1>4. QED  BY <1>1, <1>2, <1>3 DEF Locked

(* So does the start of a call, whoever makes it.                            *)
LEMMA BeginStep ==
  ASSUME TypeOK, Owns, NEW t \in Threads, NEW id \in Ids,
         BeginChat(t, id) \/ BeginRefresh(t, id) \/ BeginWarmup(t, id)
  PROVE  TypeOK' /\ Owns'
<1>1. PICK why \in Causes : Begin(t, id, why)
  BY DEF BeginChat, BeginRefresh, BeginWarmup, Causes
<1>2. asleep' = asleep /\ warmups' \subseteq warmups
  BY DEF BeginChat, BeginRefresh, BeginWarmup, warmupVars
<1>3. entryOf[id] \in Objects /\ name[entryOf[id]] \in Names \cup {None}
  BY <1>1 DEF Begin, Usable, TypeOK
<1>4. TypeOK'
  BY <1>1, <1>2, <1>3
     DEF Begin, Move, rowVars, objectVars, adminVars, TypeOK, PcValues
<1>5. Owns'
  BY <1>1, <1>3
     DEF Begin, Move, objectVars, TypeOK, Owns, Busy, PcValues, Critical
<1>6. QED  BY <1>4, <1>5

(* What the administrator, the warm-up thread and the clock do keeps the     *)
(* types, and touches no login lock.                                         *)
LEMMA OtherStep ==
  ASSUME TypeOK, Owns,
         \/ \E id \in Ids : SkipWarmup(id) \/ Toggle(id) \/ Delete(id)
         \/ \E n \in Names, id \in Ids : Add(n, id)
         \/ \E o \in Objects : Expire(o) \/ Renew(o)
         \/ WarmupWakes \/ Reload \/ SetPassword
  PROVE  TypeOK' /\ Owns'
<1> USE DEF rowVars, objectVars, threadVars, warmupVars, adminVars, AdminBegins
<1>1. Owns'
  <2>1. UNCHANGED <<loginLock, threadVars>>
    BY DEF SkipWarmup, Toggle, Delete, Add, Expire, Renew, WarmupWakes,
           Reload, SetPassword
  <2>2. QED  BY <2>1 DEF Owns
<1>2. TypeOK'
  <2>1. CASE \E id \in Ids : SkipWarmup(id)
    BY <2>1 DEF SkipWarmup, TypeOK
  <2>2. ASSUME NEW id \in Ids, Toggle(id)
        PROVE  TypeOK'
    BY <2>2, BoundsAssumption DEF Toggle, TypeOK
  <2>3. ASSUME NEW id \in Ids, Delete(id)
        PROVE  TypeOK'
    BY <2>3, BoundsAssumption DEF Delete, TypeOK
  <2>4. ASSUME NEW n \in Names, NEW id \in Ids, Add(n, id)
        PROVE  TypeOK'
    BY <2>4, BoundsAssumption DEF Add, TypeOK
  <2>5. CASE \E o \in Objects : Expire(o) \/ Renew(o)
    BY <2>5 DEF Expire, Renew, TypeOK
  <2>6. CASE WarmupWakes
    BY <2>6 DEF WarmupWakes, TypeOK
  <2>7. CASE Reload
    <3>1. Cardinality(NewIds) \in Nat
      BY IdSets DEF NewIds
    <3>2. created' \in 0..MaxObjects
      BY <2>7, <3>1, Constants DEF Reload, TypeOK
    <3>3. NewIds # {} => created' \in Objects
      <4>1. NewIds # {} => Cardinality(NewIds) # 0
        BY IdSets, FS_EmptySet DEF NewIds
      <4>2. QED  BY <2>7, <3>1, <4>1, Constants DEF Reload, TypeOK, Objects
    <3>4. entryOf' \in [Ids -> Objects \cup {None}]
      BY <2>7, <3>3 DEF Reload, TypeOK
    <3>5. ASSUME NEW o, \E id \in Ids : entryOf'[id] = o
          PROVE  (CHOOSE id \in Ids : entryOf'[id] = o) \in Ids
      BY <3>5
    <3>6. name' \in [Objects -> Names \cup {None}]
      BY <2>7, <3>5 DEF Reload, TypeOK
    <3>7. locked' \in [Objects -> BOOLEAN]
      BY <2>7, <3>5 DEF Reload, TypeOK
    <3>8. QED
      BY <2>7, <3>2, <3>4, <3>6, <3>7 DEF Reload, TypeOK
  <2>8. CASE SetPassword
    BY <2>8 DEF SetPassword, TypeOK
  <2>9. QED
    BY <2>1, <2>2, <2>3, <2>4, <2>5, <2>6, <2>7, <2>8
<1>3. QED  BY <1>1, <1>2

(* A restart starts from the rows, with no thread in a login.                *)
LEMMA RestartStep ==
  ASSUME TypeOK, Restart
  PROVE  TypeOK' /\ Owns'
<1>1. \A id \in Ids : LoadedEntry(id) \in Objects \cup {None}
  BY LoadedEntries DEF LoadedEntry
<1>2. ASSUME NEW o \in Loaded
      PROVE  IdOf(o) \in Ids
  BY DEF Loaded, IdOf
<1>3. created' \in 0..MaxObjects
  BY IdSets, Constants DEF Restart
<1>4. name' \in [Objects -> Names \cup {None}]
  BY <1>2 DEF Restart, TypeOK
<1>5. locked' \in [Objects -> BOOLEAN]
  BY <1>2 DEF Restart, TypeOK
<1>6. TypeOK'
  BY <1>1, <1>3, <1>4, <1>5, BoundsAssumption
     DEF Restart, TypeOK, rowVars, PcValues, Causes
<1>7. Owns'
  BY DEF Restart, Owns, Busy, Critical
<1>8. QED  BY <1>6, <1>7

-------------------------------------------------------------------------------
(* Rows, entries and passwords *)

(* Only the administrator's handlers and a restart change them.              *)
LEMMA OtherStepsKeepEntries ==
  ASSUME \/ \E t \in Threads, id \in Ids :
              BeginChat(t, id) \/ BeginRefresh(t, id) \/ BeginWarmup(t, id)
         \/ \E t \in Threads : TakeLoginLock(t) \/ Locked(t)
         \/ \E id \in Ids : SkipWarmup(id)
         \/ \E o \in Objects : Expire(o) \/ Renew(o)
         \/ WarmupWakes
         \/ UNCHANGED vars
  PROVE  UNCHANGED <<row, entryOf, created, password, admin>>
BY DEF BeginChat, BeginRefresh, BeginWarmup, Begin, TakeLoginLock, Locked,
       Recheck, NetworkSucceeds, NetworkFails, LockMemory, LockRow, Commit,
       Install, Leave, SkipWarmup, Expire, Renew, WarmupWakes, rowVars,
       objectVars, adminVars, vars

LEMMA KeepingEntries ==
  ASSUME RowsAndEntries, UNCHANGED <<row, entryOf, created, password, admin>>
  PROVE  RowsAndEntries'
BY DEF RowsAndEntries, Exists, Largest

(* An operation commits only when no other is under way; the row it adds has *)
(* the largest id.                                                           *)
LEMMA CommitStep ==
  ASSUME TypeOK, RowsAndEntries,
         \/ \E id \in Ids : Toggle(id) \/ Delete(id)
         \/ \E n \in Names, id \in Ids : Add(n, id)
  PROVE  RowsAndEntries'
<1> USE DEF AdminBegins, objectVars
<1>1. ASSUME NEW id \in Ids, Toggle(id)
      PROVE  RowsAndEntries'
  BY <1>1 DEF Toggle, RowsAndEntries, Exists, Largest
<1>2. ASSUME NEW id \in Ids, Delete(id)
      PROVE  RowsAndEntries'
  BY <1>2 DEF Delete, RowsAndEntries, Exists, Largest, TypeOK
<1>3. ASSUME NEW n \in Names, NEW id \in Ids, Add(n, id)
      PROVE  RowsAndEntries'
  <2>1. /\ admin = "idle" /\ admin' = "reloadAdded"
        /\ UNCHANGED <<entryOf, created, password>>
        /\ row' = [row EXCEPT ![id] = n] /\ n # None
        /\ \A i \in Ids : Exists(i) => i < id
    BY <1>3, Constants DEF Add
  <2>2. \A i \in Ids : Exists(i)' <=> (Exists(i) \/ i = id)
    BY <2>1 DEF Exists, TypeOK
  <2>3. Largest(id)'
    BY <2>1, <2>2, Constants DEF Largest
  <2>4. QED
    BY <2>1, <2>2, <2>3 DEF RowsAndEntries
<1>4. QED  BY <1>1, <1>2, <1>3

(* A reload creates an entry for the row just added and for no other, so     *)
(* every other entry keeps its password.                                     *)
LEMMA ReloadStep ==
  ASSUME TypeOK, RowsAndEntries, Reload
  PROVE  RowsAndEntries'
<1>1. UNCHANGED <<row, password>> /\ \A id \in Ids : Exists(id)' <=> Exists(id)
  BY DEF Reload, rowVars, Exists
<1>2. ASSUME NEW id \in NewIds
      PROVE  id \in Ids /\ Exists(id) /\ entryOf[id] = None
             /\ admin = "reloadAdded" /\ Largest(id)
  BY DEF NewIds, RowsAndEntries
<1>3. ASSUME NEW i \in NewIds, NEW j \in NewIds
      PROVE  i = j
  <2>1. i <= j /\ j <= i
    BY <1>2, <1>3 DEF Largest
  <2>2. i \in Nat /\ j \in Nat
    BY <1>2, <1>3, Constants
  <2>3. QED  BY <2>1, <2>2
<1>4. Cardinality(NewIds) \in Nat /\ created \in Nat
  BY IdSets DEF NewIds, TypeOK
<1>5. NewIds # {} => created' > created
  <2>1. NewIds # {} => Cardinality(NewIds) # 0
    BY IdSets, FS_EmptySet DEF NewIds
  <2>2. QED  BY <1>4, <2>1 DEF Reload
<1>6. created' \in Nat /\ created' >= created
  BY <1>4 DEF Reload
<1>7. ASSUME NEW id \in Ids
      PROVE  entryOf'[id] = IF ~Exists(id) THEN None
                            ELSE IF id \in NewIds THEN created'
                            ELSE entryOf[id]
  BY DEF Reload
<1>8. \A id \in Ids : Exists(id) => id \in NewIds \/ entryOf[id] # None
  BY DEF NewIds
<1>9. \A id \in Ids : entryOf[id] # None => entryOf[id] \in Nat
  BY Constants DEF TypeOK
<1>10. NewIds # {} => created' # None
  <2>1. NewIds # {} => created' \in Objects
    BY <1>4, <1>5, Constants DEF Reload, Objects
  <2>2. QED  BY <2>1, Constants
<1>11. \A id \in Ids : entryOf'[id] # None <=> Exists(id)
  BY <1>7, <1>8, <1>10
<1>12. \A id \in Ids : entryOf'[id] # None => entryOf'[id] <= created'
  BY <1>6, <1>7, <1>9 DEF RowsAndEntries, TypeOK
<1>13. ASSUME NEW i \in Ids, NEW j \in Ids, i # j, entryOf'[i] # None
       PROVE  entryOf'[i] # entryOf'[j]
  <2>1. CASE i \in NewIds
    <3>1. entryOf'[i] = created' /\ j \notin NewIds
      BY <1>2, <1>3, <1>7, <1>13, <2>1
    <3>2. entryOf'[j] = None \/ (entryOf[j] # None /\ entryOf'[j] <= created)
      BY <1>7, <3>1 DEF RowsAndEntries
    <3>3. QED
      BY <1>4, <1>5, <1>6, <1>7, <1>9, <1>13, <2>1, <3>1, <3>2
  <2>2. CASE j \in NewIds
    <3>1. entryOf'[j] = created' /\ i \notin NewIds
      BY <1>2, <1>3, <1>7, <1>13, <2>2
    <3>2. entryOf'[i] = entryOf[i] /\ entryOf[i] <= created
      BY <1>7, <1>13, <3>1 DEF RowsAndEntries
    <3>3. QED
      BY <1>4, <1>5, <1>6, <1>9, <1>13, <2>2, <3>1, <3>2
  <2>3. CASE i \notin NewIds /\ j \notin NewIds
    BY <1>7, <1>13, <2>3 DEF RowsAndEntries
  <2>4. QED  BY <2>1, <2>2, <2>3
<1>14. ASSUME NEW id \in Ids, entryOf'[id] # None
       PROVE  password'[entryOf'[id]] \/ (admin' = "setPassword" /\ Largest(id)')
  <2>1. CASE id \in NewIds
    <3>1. admin' = "setPassword"
      BY <1>2, <2>1 DEF Reload
    <3>2. QED  BY <1>1, <1>2, <2>1, <3>1 DEF Largest
  <2>2. CASE id \notin NewIds
    <3>1. entryOf'[id] = entryOf[id] /\ entryOf[id] # None
      BY <1>7, <1>14, <2>2
    <3>2. admin # "setPassword"
      BY DEF Reload
    <3>3. QED  BY <1>1, <3>1, <3>2 DEF RowsAndEntries
  <2>3. QED  BY <2>1, <2>2
<1>15. QED
  BY <1>1, <1>11, <1>12, <1>13, <1>14 DEF RowsAndEntries

(* set_password completes the entry of the row just added.                   *)
LEMMA SetPasswordStep ==
  ASSUME TypeOK, RowsAndEntries, SetPassword
  PROVE  RowsAndEntries'
<1>1. PICK id \in Ids : /\ Exists(id) /\ Largest(id)
                        /\ password' = [password EXCEPT ![entryOf[id]] = TRUE]
  BY DEF SetPassword, Largest
<1>2. /\ admin = "setPassword" /\ admin' = "idle"
      /\ UNCHANGED <<row, entryOf, created>>
  BY DEF SetPassword, rowVars
<1>3. ASSUME NEW i \in Ids, entryOf[i] # None
      PROVE  password'[entryOf[i]]
  <2>1. entryOf[i] \in Objects
    BY <1>3 DEF TypeOK
  <2>2. CASE entryOf[i] = entryOf[id]
    BY <1>1, <2>1, <2>2 DEF TypeOK
  <2>3. CASE entryOf[i] # entryOf[id]
    <3>1. i <= id /\ i # id
      BY <1>1, <1>2, <1>3, <2>3 DEF RowsAndEntries, Largest
    <3>2. ~Largest(i)
      BY <1>1, <3>1, Constants DEF Largest
    <3>3. password[entryOf[i]]
      BY <1>3, <3>2 DEF RowsAndEntries
    <3>4. QED  BY <1>1, <2>1, <2>3, <3>3 DEF TypeOK
  <2>4. QED  BY <2>2, <2>3
<1>4. QED
  BY <1>2, <1>3 DEF RowsAndEntries, Exists, Largest

(* A restarted server decrypts the password of every row.                    *)
LEMMA RestartEntries ==
  ASSUME TypeOK, Restart
  PROVE  RowsAndEntries'
<1>1. /\ entryOf' = [id \in Ids |-> LoadedEntry(id)]
      /\ created' = Cardinality({id \in Ids : Exists(id)})
      /\ password' = [o \in Objects |-> o \in Loaded]
      /\ row' = row /\ admin' = "idle"
  BY DEF Restart, rowVars
<1>2. ASSUME NEW id \in Ids
      PROVE  LoadedEntry(id) # None <=> Exists(id)
  BY LoadedEntries, Constants DEF LoadedEntry
<1>3. ASSUME NEW id \in Ids, Exists(id)
      PROVE  LoadedEntry(id) \in Loaded /\ LoadedEntry(id) <= created'
  BY <1>1, <1>3, LoadedEntries DEF LoadedEntry, Loaded
<1>4. ASSUME NEW id \in Ids, LoadedEntry(id) # None
      PROVE  password'[LoadedEntry(id)]
  BY <1>1, <1>2, <1>3, <1>4 DEF Loaded
<1>5. ASSUME NEW i \in Ids, NEW j \in Ids, i # j, LoadedEntry(i) # None
      PROVE  LoadedEntry(i) # LoadedEntry(j)
  <2>1. CASE Exists(j)
    BY <1>2, <1>5, <2>1, LoadedEntries DEF LoadedEntry
  <2>2. CASE ~Exists(j)
    BY <1>2, <1>5, <2>2
  <2>3. QED  BY <2>1, <2>2
<1>6. QED
  BY <1>1, <1>2, <1>3, <1>4, <1>5 DEF RowsAndEntries, Exists

-------------------------------------------------------------------------------
(* The inductive invariant *)

LEMMA InitIInv == Init => IInv
<1> SUFFICES ASSUME Init PROVE IInv
  OBVIOUS
<1>1. PICK n \in Names : row = [id \in Ids |-> IF id = 1 THEN n ELSE None]
  BY DEF Init
<1>2. \A id \in Ids : Exists(id) <=> id = 1
  BY <1>1, Constants DEF Exists
<1>3. Rank(1) = 1
  <2>1. {i \in Ids : Exists(i) /\ i <= 1} = {} \cup {1}
    <3>1. \A i \in Ids : Exists(i) /\ i <= 1 <=> i = 1
      BY <1>2
    <3>2. QED  BY <3>1, Constants
  <2>2. Cardinality({} \cup {1}) = 1
    BY FS_EmptySet, FS_AddElement
  <2>3. QED  BY <2>1, <2>2 DEF Rank
<1>4. /\ 1 \in Objects /\ 1 # None
      /\ \A id \in Ids : LoadedEntry(id) = IF id = 1 THEN 1 ELSE None
  BY <1>2, <1>3, LoadedEntries, Constants DEF LoadedEntry
<1>5. Loaded = {1}
  BY <1>4, Constants DEF Loaded
<1>6. \A o \in Loaded : IdOf(o) \in Ids
  BY DEF Loaded, IdOf
<1>7. TypeOK
  <2>1. row \in [Ids -> Names \cup {None}]
    BY <1>1
  <2>2. name \in [Objects -> Names \cup {None}]
    BY <1>6, <2>1 DEF Init
  <2>3. entryOf \in [Ids -> Objects \cup {None}]
    BY <1>4 DEF Init
  <2>4. created \in 0..MaxObjects
    BY <1>4 DEF Init, Objects
  <2>5. QED
    BY <2>1, <2>2, <2>3, <2>4, BoundsAssumption DEF Init, TypeOK, PcValues, Causes
<1>8. Owns
  BY DEF Init, Owns, Busy, Critical
<1>9. RowsAndEntries
  <2>1. /\ \A id \in Ids : entryOf[id] = IF id = 1 THEN 1 ELSE None
        /\ created = 1 /\ password[1]
    BY <1>4, <1>5 DEF Init
  <2>2. QED  BY <1>2, <1>4, <2>1 DEF RowsAndEntries
<1>10. QED  BY <1>7, <1>8, <1>9 DEF IInv

LEMMA StepIInv == IInv /\ [Next]_vars => IInv'
<1> SUFFICES ASSUME IInv, [Next]_vars
             PROVE  IInv'
  OBVIOUS
<1> USE DEF IInv
<1>1. TypeOK' /\ Owns'
  <2>1. CASE Next
    BY <2>1, BeginStep, ThreadStep, OtherStep, RestartStep DEF Next
  <2>2. CASE UNCHANGED vars
    BY <2>2 DEF vars, TypeOK, Owns
  <2>3. QED  BY <2>1, <2>2
<1>2. RowsAndEntries'
  BY OtherStepsKeepEntries, KeepingEntries, CommitStep, ReloadStep,
     SetPasswordStep, RestartEntries DEF Next
<1>3. QED  BY <1>1, <1>2

(* Types, ownership of the login locks, and the relation of rows, entries    *)
(* and passwords hold in every reachable state.                              *)
THEOREM Inductive == Spec => []IInv
BY InitIInv, StepIInv, PTL DEF Spec

(* Every variable has its type.                                              *)
THEOREM TypeCorrect == Spec => []TypeOK
<1>1. IInv => TypeOK
  BY DEF IInv
<1>2. QED  BY <1>1, Inductive, PTL

(* account_pool.py:46, 193: the logins of one entry are serial, although the *)
(* thread never looks again at which entry its id has.                       *)
THEOREM OneLoginPerEntry == Spec => []LoginMutex
<1>1. IInv => LoginMutex
  <2> SUFFICES ASSUME IInv,
                      NEW t \in Threads, NEW u \in Threads, t # u,
                      pc[t] \in Critical, pc[u] \in Critical
               PROVE  mine[t] # mine[u]
    BY DEF LoginMutex
  <2>1. loginLock[mine[t]] = t /\ loginLock[mine[u]] = u
    BY DEF IInv, Owns
  <2>2. QED  BY <2>1
<1>2. QED  BY <1>1, Inductive, PTL

(* A login lock that is taken belongs to a thread that is between its "with" *)
(* and the end of it, in a call that locked this entry.                      *)
LocksAreInUse ==
  \A o \in Objects :
    loginLock[o] # None => /\ pc[loginLock[o]] \in Critical
                           /\ mine[loginLock[o]] = o

(* account_pool.py:193-216: no exception, disabled account, deletion or      *)
(* reload leaves a lock behind for which another login would wait for ever.  *)
THEOREM NoLockIsLeft == Spec => []LocksAreInUse
<1>1. Init => LocksAreInUse
  BY DEF Init, LocksAreInUse
<1>2. IInv /\ LocksAreInUse /\ [Next]_vars => LocksAreInUse'
  <2> SUFFICES ASSUME IInv, LocksAreInUse, [Next]_vars
               PROVE  LocksAreInUse'
    OBVIOUS
  <2> USE DEF Move, SameCall, rowVars, objectVars, threadVars, warmupVars,
              adminVars, AdminBegins
  <2>1. ASSUME NEW t \in Threads, TakeLoginLock(t)
        PROVE  LocksAreInUse'
    BY <2>1 DEF TakeLoginLock, LocksAreInUse, IInv, Owns, TypeOK, Busy, PcValues,
                Critical
  <2>2. ASSUME NEW t \in Threads, Leave(t)
        PROVE  LocksAreInUse'
    BY <2>2 DEF Leave, LocksAreInUse, IInv, Owns, TypeOK, Busy, PcValues, Critical
  <2>3. ASSUME NEW t \in Threads,
               \/ Recheck(t) \/ NetworkSucceeds(t) \/ NetworkFails(t)
               \/ LockMemory(t) \/ LockRow(t) \/ Commit(t) \/ Install(t)
        PROVE  LocksAreInUse'
    BY <2>3 DEF Recheck, NetworkSucceeds, NetworkFails, LockMemory, LockRow,
                Commit, Install, LocksAreInUse, IInv, TypeOK, Critical
  <2>4. ASSUME NEW t \in Threads, NEW id \in Ids,
               BeginChat(t, id) \/ BeginRefresh(t, id) \/ BeginWarmup(t, id)
        PROVE  LocksAreInUse'
    BY <2>4 DEF BeginChat, BeginRefresh, BeginWarmup, Begin, LocksAreInUse, IInv,
                TypeOK, Critical
  <2>5. CASE UNCHANGED <<loginLock, pc, mine>>
    BY <2>5 DEF LocksAreInUse
  <2>6. CASE Restart
    BY <2>6 DEF Restart, LocksAreInUse
  <2>7. QED
    BY <2>1, <2>2, <2>3, <2>4, <2>5, <2>6
       DEF Next, Locked, SkipWarmup, Toggle, Delete, Add, Expire, Renew,
           WarmupWakes, Reload, SetPassword, vars
<1>3. QED  BY <1>1, <1>2, Inductive, PTL DEF Spec

(* account_pool.py:85-118: no sequence of additions, deletions, toggles,     *)
(* reloads and restarts leaves an entry in the pool without its password,    *)
(* but for the moment before the set_password of an addition.                *)
THEOREM ReloadKeepsPasswords == Spec => []PasswordsKept
<1>1. IInv => PasswordsKept
  BY DEF IInv, RowsAndEntries, PasswordsKept, Usable
<1>2. QED  BY <1>1, Inductive, PTL

-------------------------------------------------------------------------------
(* Whose client an entry has, when accounts may be deleted: an object keeps  *)
(* its account for life, and a call of do_login keeps the object and the     *)
(* name it read at the start.                                                *)
NamesMatchRows ==
  \A id \in Ids : entryOf[id] # None /\ Exists(id) => name[entryOf[id]] = row[id]

NoClientYet == \A o \in Objects : o > created => client[o] = None

CallsKeepNames ==
  \A t \in Threads :
    pc[t] \in Busy => mine[t] <= created /\ login[t] = name[mine[t]]

Identities == NamesMatchRows /\ NoClientYet /\ CallsKeepNames

(* A started server finds the row of every entry it created.                 *)
LEMMA LoadedNames ==
  ASSUME NEW id \in Ids, Exists(id)
  PROVE  /\ Rank(id) \in Objects /\ LoadedEntry(id) = Rank(id)
         /\ Rank(id) \in Loaded /\ IdOf(Rank(id)) = id
<1>1. Rank(id) \in Objects /\ LoadedEntry(id) = Rank(id)
  BY LoadedEntries DEF LoadedEntry
<1>2. Rank(id) \in Loaded
  BY <1>1 DEF Loaded
<1>3. \A i \in Ids : LoadedEntry(i) = Rank(id) => i = id
  BY <1>1, LoadedEntries, Constants DEF LoadedEntry
<1>4. QED  BY <1>1, <1>2, <1>3 DEF IdOf

(* A reload gives every entry of the pool the name of its row, which is the  *)
(* one it has unless it is new.                                              *)
LEMMA ReloadKeepsNames ==
  ASSUME IInv, NamesMatchRows, Reload
  PROVE  /\ NamesMatchRows'
         /\ \A o \in Objects : o <= created => name'[o] = name[o]
<1>1. row' = row
  BY DEF Reload, rowVars
<1>2. RowsAndEntries'
  BY ReloadStep DEF IInv
<1>3. Cardinality(NewIds) \in Nat /\ created \in Nat
  BY IdSets DEF NewIds, IInv, TypeOK
<1>4. NewIds # {} => created' > created
  <2>1. NewIds # {} => Cardinality(NewIds) # 0
    BY IdSets, FS_EmptySet DEF NewIds
  <2>2. QED  BY <1>3, <2>1 DEF Reload
<1>5. \A id \in Ids : entryOf'[id] = IF ~Exists(id) THEN None
                                     ELSE IF id \in NewIds THEN created'
                                     ELSE entryOf[id]
  BY DEF Reload
<1>6. TypeOK'
  BY OtherStep DEF IInv
<1>7. ASSUME NEW id \in Ids, entryOf'[id] # None
      PROVE  Exists(id) /\ name'[entryOf'[id]] = row[id]
  <2>1. entryOf'[id] \in Objects
    BY <1>6, <1>7 DEF TypeOK
  <2>2. \A i \in Ids : entryOf'[i] = entryOf'[id] => i = id
    BY <1>2, <1>7 DEF RowsAndEntries
  <2>3. (CHOOSE i \in Ids : entryOf'[i] = entryOf'[id]) = id
    BY <2>2
  <2>4. name'[entryOf'[id]] = row[CHOOSE i \in Ids : entryOf'[i] = entryOf'[id]]
    BY <2>1 DEF Reload
  <2>5. QED  BY <1>5, <1>7, <2>3, <2>4
<1>8. ASSUME NEW o \in Objects, o <= created
      PROVE  name'[o] = name[o]
  <2>1. CASE \E id \in Ids : entryOf'[id] = o
    <3>1. PICK id \in Ids : entryOf'[id] = o
      BY <2>1
    <3>2. Exists(id) /\ name'[o] = row[id]
      BY <1>7, <3>1, Constants
    <3>3. id \notin NewIds
      <4>1. ASSUME id \in NewIds
            PROVE  FALSE
        <5>1. o = created' /\ created' > created
          BY <1>4, <1>5, <3>1, <3>2, <4>1
        <5>2. o \in Nat /\ created' \in Nat
          BY <5>1, Constants
        <5>3. QED  BY <1>3, <1>8, <5>1, <5>2
      <4>2. QED  BY <4>1
    <3>4. entryOf[id] = o /\ o # None
      BY <1>5, <3>1, <3>2, <3>3, Constants
    <3>5. QED
      BY <3>2, <3>4 DEF NamesMatchRows
  <2>2. CASE ~\E id \in Ids : entryOf'[id] = o
    BY <2>2 DEF Reload
  <2>3. QED  BY <2>1, <2>2
<1>9. NamesMatchRows'
  BY <1>1, <1>7 DEF NamesMatchRows, Exists
<1>10. QED  BY <1>8, <1>9

(* An object gets a client by a login that ends, and loses it by a restart;  *)
(* only a reload gives an object a name.                                     *)
LEMMA IdentitiesBegin ==
  ASSUME IInv, Identities, NEW t \in Threads, NEW id \in Ids,
         BeginChat(t, id) \/ BeginRefresh(t, id) \/ BeginWarmup(t, id)
  PROVE  Identities'
<1>1. PICK why \in Causes : Begin(t, id, why)
  BY DEF BeginChat, BeginRefresh, BeginWarmup, Causes
<1>2. /\ UNCHANGED <<row, entryOf, created, name, client>>
      /\ pc' = [pc EXCEPT ![t] = "lock"]
      /\ mine' = [mine EXCEPT ![t] = entryOf[id]]
      /\ login' = [login EXCEPT ![t] = name[entryOf[id]]]
      /\ entryOf[id] # None
  BY <1>1 DEF Begin, Move, Usable, rowVars, objectVars
<1>3. entryOf[id] <= created
  BY <1>2 DEF IInv, RowsAndEntries
<1>4. CallsKeepNames'
  BY <1>2, <1>3 DEF CallsKeepNames, Identities, IInv, TypeOK
<1>5. QED
  BY <1>2, <1>4 DEF Identities, NamesMatchRows, NoClientYet, Exists

LEMMA IdentitiesThread ==
  ASSUME IInv, Identities, NEW t \in Threads, TakeLoginLock(t) \/ Locked(t)
  PROVE  Identities'
<1> USE DEF Move, SameCall, rowVars, objectVars, warmupVars, adminVars
<1>1. UNCHANGED <<row, entryOf, created, name>>
  BY DEF TakeLoginLock, Locked, Recheck, NetworkSucceeds, NetworkFails,
         LockMemory, LockRow, Commit, Install, Leave
<1>2. NamesMatchRows'
  BY <1>1 DEF Identities, NamesMatchRows, Exists
<1>3. ASSUME NEW u \in Threads, pc'[u] \in Busy
      PROVE  pc[u] \in Busy /\ mine'[u] = mine[u] /\ login'[u] = login[u]
  BY <1>3 DEF TakeLoginLock, Locked, Recheck, NetworkSucceeds, NetworkFails,
         LockMemory, LockRow, Commit, Install, Leave, IInv, TypeOK, Busy,
         PcValues, Critical
<1>4. CallsKeepNames'
  BY <1>1, <1>3 DEF Identities, CallsKeepNames
<1>5. NoClientYet'
  <2>1. CASE Install(t)
    <3>1. target[t] \in Ids
      BY <2>1 DEF Install, IInv, Owns, Busy, PcValues, Critical
    <3>2. CASE entryOf[target[t]] = None
      BY <1>1, <2>1, <3>2 DEF Install, Identities, NoClientYet
    <3>3. CASE entryOf[target[t]] # None
      <4>1. client' = [client EXCEPT ![entryOf[target[t]]] = login[t]]
        BY <2>1, <3>3 DEF Install
      <4>2. entryOf[target[t]] <= created /\ entryOf[target[t]] \in Objects
        BY <3>1, <3>3 DEF IInv, RowsAndEntries, TypeOK
      <4>3. \A o \in Objects : o > created => o # entryOf[target[t]]
        BY <4>2, Constants DEF IInv, TypeOK
      <4>4. QED
        BY <1>1, <4>1, <4>3 DEF Identities, NoClientYet, IInv, TypeOK
    <3>4. QED  BY <3>2, <3>3
  <2>2. CASE ~Install(t)
    <3>1. client' = client
      BY <2>2 DEF TakeLoginLock, Locked, Recheck, NetworkSucceeds, NetworkFails,
                  LockMemory, LockRow, Commit, Leave
    <3>2. QED  BY <1>1, <3>1 DEF Identities, NoClientYet
  <2>3. QED  BY <2>1, <2>2
<1>6. QED  BY <1>2, <1>4, <1>5 DEF Identities

LEMMA IdentitiesOther ==
  ASSUME IInv, Identities,
         \/ \E id \in Ids : SkipWarmup(id) \/ Toggle(id) \/ Delete(id)
         \/ \E n \in Names, id \in Ids : Add(n, id)
         \/ \E o \in Objects : Expire(o) \/ Renew(o)
         \/ WarmupWakes \/ SetPassword \/ UNCHANGED vars
  PROVE  Identities'
<1> USE DEF rowVars, objectVars, threadVars, warmupVars, adminVars, AdminBegins
<1>1. UNCHANGED <<entryOf, created, name, client, pc, mine, login>>
  BY DEF SkipWarmup, Toggle, Delete, Add, Expire, Renew, WarmupWakes,
         SetPassword, vars
<1>2. NoClientYet' /\ CallsKeepNames'
  BY <1>1 DEF Identities, NoClientYet, CallsKeepNames
<1>3. ASSUME NEW id \in Ids, entryOf[id] # None, Exists(id)'
      PROVE  Exists(id) /\ row'[id] = row[id]
  <2>1. ASSUME NEW n \in Names, NEW i \in Ids, Add(n, i)
        PROVE  Exists(id) /\ row'[id] = row[id]
    <3>1. /\ row' = [row EXCEPT ![i] = n] /\ admin = "idle"
          /\ \A j \in Ids : Exists(j) => j < i
      BY <2>1 DEF Add
    <3>2. Exists(id)
      BY <1>3, <3>1 DEF IInv, RowsAndEntries
    <3>3. id # i
      BY <3>1, <3>2, Constants
    <3>4. QED  BY <3>1, <3>2, <3>3 DEF IInv, TypeOK
  <2>2. ASSUME NEW i \in Ids, Delete(i)
        PROVE  Exists(id) /\ row'[id] = row[id]
    BY <1>3, <2>2 DEF Delete, Exists, IInv, TypeOK
  <2>3. CASE row' = row
    BY <1>3, <2>3 DEF Exists
  <2>4. QED
    BY <2>1, <2>2, <2>3
       DEF SkipWarmup, Toggle, Expire, Renew, WarmupWakes, SetPassword, vars
<1>4. NamesMatchRows'
  BY <1>1, <1>3 DEF Identities, NamesMatchRows
<1>5. QED  BY <1>2, <1>4 DEF Identities

LEMMA IdentitiesReload ==
  ASSUME IInv, Identities, Reload
  PROVE  Identities'
<1>1. /\ UNCHANGED <<client, pc, mine, login>>
      /\ created' = created + Cardinality(NewIds)
  BY DEF Reload, threadVars
<1>2. NamesMatchRows' /\ \A o \in Objects : o <= created => name'[o] = name[o]
  BY ReloadKeepsNames DEF Identities
<1>3. created \in Nat /\ created' \in Nat /\ created <= created'
  BY <1>1, IdSets DEF NewIds, IInv, TypeOK
<1>4. NoClientYet'
  BY <1>1, <1>3, Constants DEF Identities, NoClientYet
<1>5. ASSUME NEW t \in Threads, pc[t] \in Busy
      PROVE  mine[t] <= created' /\ login[t] = name'[mine[t]]
  <2>1. mine[t] \in Objects /\ mine[t] <= created /\ login[t] = name[mine[t]]
    BY <1>5 DEF Identities, CallsKeepNames, IInv, Owns
  <2>2. mine[t] \in Nat
    BY <2>1, Constants
  <2>3. mine[t] <= created'
    BY <1>3, <2>1, <2>2
  <2>4. name'[mine[t]] = name[mine[t]]
    BY <1>2, <2>1
  <2>5. QED  BY <2>1, <2>3, <2>4
<1>6. CallsKeepNames'
  BY <1>1, <1>5 DEF CallsKeepNames
<1>7. QED  BY <1>2, <1>4, <1>6 DEF Identities

LEMMA IdentitiesLoaded ==
  ASSUME entryOf = [id \in Ids |-> LoadedEntry(id)],
         name = [o \in Objects |-> IF o \in Loaded THEN row[IdOf(o)] ELSE None],
         client = [o \in Objects |-> None],
         pc = [t \in Threads |-> "idle"]
  PROVE  Identities
<1>1. NoClientYet /\ CallsKeepNames
  BY DEF NoClientYet, CallsKeepNames, Busy
<1>2. NamesMatchRows
  BY LoadedNames DEF NamesMatchRows
<1>3. QED  BY <1>1, <1>2 DEF Identities

LEMMA IdentitiesRestart ==
  ASSUME Restart
  PROVE  Identities'
<1>1. NoClientYet' /\ CallsKeepNames'
  BY DEF Restart, NoClientYet, CallsKeepNames, Busy
<1>2. ASSUME NEW id \in Ids, Exists(id)
      PROVE  name'[entryOf'[id]] = row[id]
  BY <1>2, LoadedNames DEF Restart
<1>3. NamesMatchRows'
  BY <1>2 DEF Restart, rowVars, NamesMatchRows, Exists
<1>4. QED  BY <1>1, <1>3 DEF Identities

LEMMA AlwaysIdentities == Spec => []Identities
<1>1. Init => Identities
  BY IdentitiesLoaded DEF Init
<1>2. IInv /\ Identities /\ [Next]_vars => Identities'
  <2> SUFFICES ASSUME IInv, Identities, [Next]_vars
               PROVE  Identities'
    OBVIOUS
  <2>1. QED
    BY IdentitiesBegin, IdentitiesThread, IdentitiesOther, IdentitiesReload,
       IdentitiesRestart DEF Next
<1>3. QED  BY <1>1, <1>2, Inductive, PTL DEF Spec

(* account_pool.py:222: an entry gets a client of another account only from  *)
(* a login that began with another entry under the same id; a login installs *)
(* the client of the object it locked in that object, or in the object that  *)
(* replaced it, and nothing renames an object that has a client.             *)
THEOREM ForeignClientsByReplacement == Spec => ForeignOnlyByReplacement
<1> DEFINE Known ==
      \A o \in Objects :
        ~Foreign(o) /\ Foreign(o)' =>
          \E t \in Threads : /\ pc[t] = "install" /\ pc'[t] = "leave"
                             /\ entryOf[target[t]] = o /\ mine[t] # o
<1>1. IInv /\ Identities /\ [Next]_vars => Known
  <2> SUFFICES ASSUME IInv, Identities, [Next]_vars,
                      NEW o \in Objects, ~Foreign(o), Foreign(o)'
               PROVE  \E t \in Threads : /\ pc[t] = "install" /\ pc'[t] = "leave"
                                         /\ entryOf[target[t]] = o /\ mine[t] # o
    OBVIOUS
  <2> USE DEF rowVars, objectVars, threadVars, warmupVars, adminVars,
              AdminBegins, Move, SameCall
  <2>1. ASSUME NEW t \in Threads, Install(t)
        PROVE  /\ pc[t] = "install" /\ pc'[t] = "leave"
               /\ entryOf[target[t]] = o /\ mine[t] # o
    <3>1. pc[t] = "install" /\ pc'[t] = "leave" /\ name' = name
      BY <2>1 DEF Install, IInv, TypeOK
    <3>2. entryOf[target[t]] = o
      BY <2>1, <3>1 DEF Install, Foreign, IInv, TypeOK
    <3>3. client'[o] = login[t]
      BY <2>1, <3>2, Constants DEF Install, IInv, TypeOK
    <3>4. login[t] = name[mine[t]]
      BY <3>1 DEF Identities, CallsKeepNames, Busy, PcValues, Critical
    <3>5. QED  BY <3>1, <3>2, <3>3, <3>4 DEF Foreign
  <2>2. ~Reload
    <3>1. ASSUME Reload
          PROVE  FALSE
      <4>1. /\ client' = client
            /\ o <= created => name'[o] = name[o]
        BY <3>1, ReloadKeepsNames DEF Reload, Identities
      <4>2. o > created
        BY <4>1, Constants DEF Foreign, IInv, TypeOK
      <4>3. client[o] = None
        BY <4>2 DEF Identities, NoClientYet
      <4>4. QED  BY <4>1, <4>3 DEF Foreign
    <3>2. QED  BY <3>1
  <2>3. ~Restart
    BY DEF Restart, Foreign
  <2>4. ~UNCHANGED <<name, client>>
    BY DEF Foreign
  <2>5. \E t \in Threads : Install(t)
    BY <2>2, <2>3, <2>4
       DEF Next, BeginChat, BeginRefresh, BeginWarmup, Begin, TakeLoginLock,
           Locked, Recheck, NetworkSucceeds, NetworkFails, LockMemory, LockRow,
           Commit, Leave, SkipWarmup, Toggle, Delete, Add, Expire, Renew,
           WarmupWakes, SetPassword, vars
  <2>6. QED  BY <2>1, <2>5
<1>2. [][Known]_vars => ForeignOnlyByReplacement
  BY PTL DEF ForeignOnlyByReplacement
<1>3. QED  BY <1>1, <1>2, Inductive, AlwaysIdentities, PTL DEF Spec

-------------------------------------------------------------------------------
(* Without deletions: an id keeps its entry, so what a thread read at the   *)
(* start of do_login is still true at the end.                              *)
NoDeletion == "delete" \notin AdminKinds

CallsAreCurrent ==
  \A t \in Threads :
    pc[t] \in Busy => /\ entryOf[target[t]] = mine[t]
                      /\ password[mine[t]]
                      /\ login[t] = name[mine[t]]

NamesFollowRows ==
  \A id \in Ids : entryOf[id] # None => Exists(id) /\ name[entryOf[id]] = row[id]

Stable == /\ NoDeletion
          /\ CallsAreCurrent /\ NamesFollowRows /\ NoClientYet
          /\ NoRepeatedLogin /\ ClientIsOwn

(* A call works on an entry of the pool, which was created.                  *)
LEMMA CurrentCall ==
  ASSUME IInv, Stable, NEW t \in Threads, pc[t] \in Busy
  PROVE  /\ mine[t] \in Objects /\ mine[t] # None /\ target[t] \in Ids
         /\ entryOf[target[t]] = mine[t] /\ password[mine[t]]
         /\ mine[t] <= created
<1>1. mine[t] \in Objects /\ target[t] \in Ids
  BY DEF IInv, Owns
<1>2. mine[t] # None
  BY <1>1, Constants
<1>3. entryOf[target[t]] = mine[t] /\ password[mine[t]]
  BY DEF Stable, CallsAreCurrent
<1>4. entryOf[target[t]] <= created
  BY <1>1, <1>2, <1>3 DEF IInv, RowsAndEntries
<1>5. QED  BY <1>1, <1>2, <1>3, <1>4

(* A call begins with what its entry says, and with no login under way of    *)
(* its own.                                                                  *)
LEMMA StableBegin ==
  ASSUME IInv, Stable, NEW t \in Threads, NEW id \in Ids,
         BeginChat(t, id) \/ BeginRefresh(t, id) \/ BeginWarmup(t, id)
  PROVE  Stable'
<1>1. PICK why \in Causes : Begin(t, id, why)
  BY DEF BeginChat, BeginRefresh, BeginWarmup, Causes
<1>2. /\ UNCHANGED <<row, entryOf, created, name, password, client, session>>
      /\ pc' = [pc EXCEPT ![t] = "lock"]
      /\ target' = [target EXCEPT ![t] = id]
      /\ mine' = [mine EXCEPT ![t] = entryOf[id]]
      /\ login' = [login EXCEPT ![t] = name[entryOf[id]]]
      /\ password[entryOf[id]]
  BY <1>1 DEF Begin, Move, Usable, rowVars, objectVars
<1>3. CallsAreCurrent'
  BY <1>2 DEF CallsAreCurrent, Stable, IInv, TypeOK
<1>4. NoRepeatedLogin'
  BY <1>2
     DEF NoRepeatedLogin, LoggedIn, ValidClient, Usable, Stable, IInv, TypeOK
<1>5. QED
  BY <1>2, <1>3, <1>4
     DEF Stable, NoDeletion, NamesFollowRows, NoClientYet, ClientIsOwn, Exists

(* A login installs the client of its own account in the entry it locked,    *)
(* which no other thread is logging in.                                      *)
LEMMA StableThread ==
  ASSUME IInv, Stable, NEW t \in Threads, TakeLoginLock(t) \/ Locked(t)
  PROVE  Stable'
<1> USE DEF Move, SameCall, rowVars, objectVars, warmupVars, adminVars
<1>1. UNCHANGED <<row, entryOf, created, name, password>>
  BY DEF TakeLoginLock, Locked, Recheck, NetworkSucceeds, NetworkFails,
         LockMemory, LockRow, Commit, Install, Leave
<1>2. NoDeletion' /\ NamesFollowRows'
  BY <1>1 DEF Stable, NoDeletion, NamesFollowRows, Exists
<1>3. CASE Leave(t)
  <2>1. /\ UNCHANGED <<client, session>>
        /\ pc' = [pc EXCEPT ![t] = "idle"]
        /\ \A u \in Threads : u # t => /\ target'[u] = target[u]
                                       /\ mine'[u] = mine[u]
                                       /\ login'[u] = login[u]
    BY <1>3 DEF Leave, IInv, TypeOK
  <2>2. CallsAreCurrent'
    BY <1>1, <2>1 DEF CallsAreCurrent, Stable, IInv, TypeOK, Busy
  <2>3. NoRepeatedLogin'
    BY <1>1, <2>1
       DEF NoRepeatedLogin, LoggedIn, ValidClient, Usable, Stable, IInv, TypeOK
  <2>4. QED
    BY <1>1, <1>2, <2>1, <2>2, <2>3 DEF Stable, NoClientYet, ClientIsOwn
<1>4. CASE Install(t)
  <2>1. /\ pc[t] = "install" /\ pc' = [pc EXCEPT ![t] = "leave"]
        /\ UNCHANGED <<target, mine, login>>
    BY <1>4 DEF Install
  <2>2. /\ target[t] \in Ids /\ mine[t] \in Objects
        /\ entryOf[target[t]] = mine[t] /\ login[t] = name[mine[t]]
    BY <2>1 DEF IInv, Owns, Stable, CallsAreCurrent, Busy, PcValues, Critical
  <2>3. /\ client' = [client EXCEPT ![mine[t]] = name[mine[t]]]
        /\ session' = [session EXCEPT ![mine[t]] = "login"]
    BY <1>4, <2>2, Constants DEF Install
  <2>4. CallsAreCurrent'
    BY <1>1, <2>1 DEF CallsAreCurrent, Stable, IInv, TypeOK, Busy, PcValues, Critical
  <2>5. ~(mine[t] > created)
    <3>1. mine[t] <= created
      BY <2>1, CurrentCall DEF Busy, PcValues, Critical
    <3>2. mine[t] \in Nat
      BY <2>2, Constants
    <3>3. created \in Nat
      BY DEF IInv, TypeOK
    <3>4. QED  BY <3>1, <3>2, <3>3
  <2>6. NoClientYet'
    BY <1>1, <2>3, <2>5 DEF NoClientYet, Stable, IInv, TypeOK
  <2>7. ClientIsOwn'
    BY <1>1, <2>3 DEF ClientIsOwn, Stable, IInv, TypeOK
  <2>8. ASSUME NEW u \in Threads, pc'[u] \in {"network", "commit", "install"}
        PROVE  ~LoggedIn(target[u])'
    <3>1. u # t /\ pc[u] \in {"network", "commit", "install"}
      BY <2>1, <2>8 DEF IInv, TypeOK
    <3>2. mine[u] # mine[t] /\ mine[u] \in Objects /\ entryOf[target[u]] = mine[u]
      BY <2>1, <3>1
         DEF IInv, Owns, Stable, CallsAreCurrent, Busy, PcValues, Critical
    <3>3. ~LoggedIn(target[u])
      BY <3>1 DEF Stable, NoRepeatedLogin
    <3>4. QED
      BY <1>1, <2>1, <2>3, <3>2, <3>3
         DEF LoggedIn, ValidClient, Usable, IInv, TypeOK
  <2>9. QED
    BY <1>2, <2>1, <2>4, <2>6, <2>7, <2>8 DEF Stable, NoRepeatedLogin
<1>5. ASSUME \/ TakeLoginLock(t) \/ Recheck(t) \/ NetworkSucceeds(t)
             \/ NetworkFails(t) \/ LockMemory(t) \/ LockRow(t) \/ Commit(t)
      PROVE  Stable'
  <2>1. /\ UNCHANGED <<client, session, target, mine, login>>
        /\ \E to \in Critical : pc' = [pc EXCEPT ![t] = to]
        /\ pc[t] \in Busy
    BY <1>5 DEF TakeLoginLock, Recheck, NetworkSucceeds, NetworkFails,
                LockMemory, LockRow, Commit, Critical, PcValues, Busy
  <2>2. CallsAreCurrent'
    BY <1>1, <2>1 DEF CallsAreCurrent, Stable, IInv, TypeOK
  <2>3. pc'[t] \in {"network", "commit", "install"} => ~LoggedIn(target[t])
    BY <1>5 DEF TakeLoginLock, Recheck, NetworkSucceeds, NetworkFails, Stable,
                LockMemory, LockRow, Commit, NoRepeatedLogin, LoggedIn, IInv,
                TypeOK
  <2>4. \A u \in Threads : u # t => pc'[u] = pc[u]
    BY <2>1 DEF IInv, TypeOK
  <2>5. NoRepeatedLogin'
    BY <1>1, <2>1, <2>3, <2>4
       DEF NoRepeatedLogin, LoggedIn, ValidClient, Usable, Stable
  <2>6. QED
    BY <1>1, <1>2, <2>1, <2>2, <2>5 DEF Stable, NoClientYet, ClientIsOwn
<1>6. QED  BY <1>3, <1>4, <1>5 DEF Locked

(* What happens outside the logins and the reloads changes no entry of a     *)
(* call under way; an added row has no entry yet.                            *)
LEMMA StableOther ==
  ASSUME IInv, Stable,
         \/ \E id \in Ids : SkipWarmup(id) \/ Toggle(id) \/ Delete(id)
         \/ \E n \in Names, id \in Ids : Add(n, id)
         \/ \E o \in Objects : Expire(o) \/ Renew(o)
         \/ WarmupWakes \/ SetPassword \/ UNCHANGED vars
  PROVE  Stable'
<1> USE DEF rowVars, objectVars, threadVars, warmupVars, adminVars, AdminBegins
<1>1. UNCHANGED <<entryOf, created, name, client, pc, target, mine, login>>
  BY DEF SkipWarmup, Toggle, Delete, Add, Expire, Renew, WarmupWakes,
         SetPassword, vars
<1>2. \A o \in Objects : password[o] => password'[o]
  BY DEF SkipWarmup, Toggle, Delete, Add, Expire, Renew, WarmupWakes,
         SetPassword, vars, IInv, TypeOK
<1>3. \A o \in Objects : session'[o] = "login" => session[o] = "login"
  BY DEF SkipWarmup, Toggle, Delete, Add, Expire, Renew, WarmupWakes,
         SetPassword, vars, IInv, TypeOK
<1>4. \A id \in Ids : Exists(id) => row'[id] = row[id]
  <2>1. CASE \E n \in Names, id \in Ids : Add(n, id)
    <3>1. PICK n \in Names, id \in Ids : Add(n, id)
      BY <2>1
    <3>2. row' = [row EXCEPT ![id] = n] /\ \A i \in Ids : Exists(i) => i < id
      BY <3>1 DEF Add
    <3>3. ~Exists(id)
      BY <3>2, Constants
    <3>4. QED  BY <3>2, <3>3 DEF IInv, TypeOK
  <2>2. CASE \E id \in Ids : Delete(id)
    BY <2>2 DEF Delete, Stable, NoDeletion
  <2>3. CASE ~(\E n \in Names, id \in Ids : Add(n, id)) /\ ~(\E id \in Ids : Delete(id))
    BY <2>3 DEF SkipWarmup, Toggle, Expire, Renew, WarmupWakes, SetPassword, vars
  <2>4. QED  BY <2>1, <2>2, <2>3
<1>5. NamesFollowRows'
  BY <1>1, <1>4 DEF Stable, NamesFollowRows, Exists
<1>6. \A t \in Threads : pc[t] \in Busy => mine[t] \in Objects
  BY DEF IInv, Owns
<1>7. CallsAreCurrent'
  BY <1>1, <1>2, <1>6 DEF Stable, CallsAreCurrent
<1>8. ASSUME NEW t \in Threads, pc[t] \in {"network", "commit", "install"}
      PROVE  ~LoggedIn(target[t])'
  <2>1. ~LoggedIn(target[t]) /\ entryOf[target[t]] = mine[t] /\ password[mine[t]]
    BY <1>8 DEF Stable, NoRepeatedLogin, CallsAreCurrent, Busy, PcValues, Critical
  <2>2. mine[t] \in Objects
    BY <1>6, <1>8 DEF Busy, PcValues, Critical
  <2>3. QED
    BY <1>1, <1>2, <1>3, <2>1, <2>2, Constants DEF LoggedIn, ValidClient, Usable
<1>9. QED
  BY <1>1, <1>5, <1>7, <1>8
     DEF Stable, NoDeletion, NoRepeatedLogin, NoClientYet, ClientIsOwn

(* A reload without deletions leaves every entry its id and its name, and    *)
(* creates objects that have no client.                                      *)
LEMMA StableReload ==
  ASSUME IInv, Stable, Reload
  PROVE  Stable'
<1>1. /\ UNCHANGED <<row, password, client, session, pc, target, mine, login>>
      /\ \A id \in Ids : Exists(id)' <=> Exists(id)
  BY DEF Reload, rowVars, threadVars, Exists
<1>2. Cardinality(NewIds) \in Nat /\ created \in Nat
  BY IdSets DEF NewIds, IInv, TypeOK
<1>3. created' \in Nat /\ created' >= created /\ (NewIds # {} => created' > created)
  <2>1. NewIds # {} => Cardinality(NewIds) # 0
    BY IdSets, FS_EmptySet DEF NewIds
  <2>2. QED  BY <1>2, <2>1 DEF Reload
<1>4. \A id \in Ids : entryOf'[id] = IF ~Exists(id) THEN None
                                     ELSE IF id \in NewIds THEN created'
                                     ELSE entryOf[id]
  BY DEF Reload
<1>5. \A id \in Ids : entryOf[id] # None => entryOf'[id] = entryOf[id]
  BY <1>4 DEF Stable, NamesFollowRows, NewIds
<1>6. NamesMatchRows' /\ \A o \in Objects : o <= created => name'[o] = name[o]
  BY ReloadKeepsNames DEF Stable, NamesFollowRows, NamesMatchRows
<1>7. NamesFollowRows'
  BY <1>1, <1>4, <1>6 DEF NamesFollowRows, NamesMatchRows
<1>8. \A o \in Objects : o <= created => name'[o] = name[o]
  BY <1>6
<1>9. \A t \in Threads : pc[t] \in Busy =>
         /\ mine[t] \in Objects /\ mine[t] # None /\ target[t] \in Ids
         /\ entryOf[target[t]] = mine[t] /\ password[mine[t]]
         /\ mine[t] <= created
  BY CurrentCall
<1>10. CallsAreCurrent'
  BY <1>1, <1>5, <1>8, <1>9, Constants DEF Stable, CallsAreCurrent
<1>11. NoRepeatedLogin'
  <2>1. SUFFICES ASSUME NEW t \in Threads, pc[t] \in {"network", "commit", "install"}
                 PROVE  ~LoggedIn(target[t])'
    BY <1>1 DEF NoRepeatedLogin
  <2>2. ~LoggedIn(target[t]) /\ pc[t] \in Busy
    BY <2>1 DEF Stable, NoRepeatedLogin, Busy, PcValues, Critical
  <2>3. QED
    BY <1>1, <1>5, <1>9, <2>2, Constants DEF LoggedIn, ValidClient, Usable
<1>12. NoClientYet'
  BY <1>1, <1>2, <1>3, Constants DEF Stable, NoClientYet
<1>13. ClientIsOwn'
  <2>1. SUFFICES ASSUME NEW o \in Objects
                 PROVE  client[o] \in {None, name'[o]}
    BY <1>1 DEF ClientIsOwn
  <2>2. CASE o <= created
    BY <1>8, <2>2 DEF Stable, ClientIsOwn
  <2>3. CASE ~(o <= created)
    BY <1>2, <2>3, Constants DEF Stable, NoClientYet
  <2>4. QED  BY <2>2, <2>3
<1>14. QED
  BY <1>7, <1>10, <1>11, <1>12, <1>13 DEF Stable, NoDeletion

(* A server that starts has no clients and no calls.                         *)
LEMMA StableLoaded ==
  ASSUME NoDeletion,
         entryOf = [id \in Ids |-> LoadedEntry(id)],
         name = [o \in Objects |-> IF o \in Loaded THEN row[IdOf(o)] ELSE None],
         client = [o \in Objects |-> None],
         session = [o \in Objects |-> "none"],
         pc = [t \in Threads |-> "idle"]
  PROVE  Stable
<1>1. CallsAreCurrent /\ NoClientYet /\ NoRepeatedLogin /\ ClientIsOwn
  BY DEF CallsAreCurrent, NoClientYet, NoRepeatedLogin, ClientIsOwn, Busy
<1>2. ASSUME NEW id \in Ids, entryOf[id] # None
      PROVE  Exists(id) /\ name[entryOf[id]] = row[id]
  BY <1>2, LoadedNames DEF LoadedEntry
<1>3. QED  BY <1>1, <1>2 DEF Stable, NamesFollowRows

LEMMA StableRestart ==
  ASSUME IInv, Stable, Restart
  PROVE  Stable'
<1>1. row' = row
  BY DEF Restart, rowVars
<1>2. /\ CallsAreCurrent' /\ NoClientYet' /\ NoRepeatedLogin' /\ ClientIsOwn'
  BY DEF Restart, CallsAreCurrent, NoClientYet, NoRepeatedLogin, ClientIsOwn, Busy
<1>3. ASSUME NEW id \in Ids, entryOf'[id] # None
      PROVE  Exists(id) /\ name'[entryOf'[id]] = row[id]
  BY <1>3, LoadedNames DEF Restart, LoadedEntry
<1>4. QED
  BY <1>1, <1>2, <1>3 DEF Stable, NamesFollowRows, Exists, NoDeletion

LEMMA InitStable == NoDeletion /\ Init => Stable
BY StableLoaded DEF Init

LEMMA StepStable == IInv /\ Stable /\ [Next]_vars => Stable'
<1> SUFFICES ASSUME IInv, Stable, [Next]_vars
             PROVE  Stable'
  OBVIOUS
<1>1. QED
  BY StableBegin, StableThread, StableOther, StableReload, StableRestart DEF Next

LEMMA AlwaysStable == NoDeletion /\ Spec => []Stable
BY InitStable, StepStable, Inductive, PTL DEF Spec

(* account_pool.py:196-199: unless accounts are deleted, no thread logs an   *)
(* account in over the network while its entry has a session that another    *)
(* do_login brought, however additions, reloads, expiries, renewals by       *)
(* requests and restarts come in between.                                    *)
THEOREM LoginsNotRepeated == NoDeletion /\ Spec => []NoRepeatedLogin
<1>1. Stable => NoRepeatedLogin
  BY DEF Stable
<1>2. QED  BY <1>1, AlwaysStable, PTL

(* account_pool.py:206-214: unless accounts are deleted, the client of an    *)
(* entry is one of its own account.                                          *)
THEOREM ClientsAreOwn == NoDeletion /\ Spec => []ClientIsOwn
<1>1. Stable => ClientIsOwn
  BY DEF Stable
<1>2. QED  BY <1>1, AlwaysStable, PTL
===============================================================================
