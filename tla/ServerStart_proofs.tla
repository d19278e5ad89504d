-------------------------- MODULE ServerStart_proofs ---------------------------
(***************************************************************************)
(* Proofs about ServerStart, for any number of accounts, crashes, changes  *)
(* of the settings and generated secrets.                                  *)
(*                                                                         *)
(* The argument: whatever was sealed under the empty setting was sealed    *)
(* with the secret in the file, and once the file holds a secret no step   *)
(* writes it again (Backed); a process that got past its secret uses the   *)
(* setting or, without one, the secret of the file (InUse).                *)
(*                                                                         *)
(* A start writes no default and no empty password but over a row that had *)
(* no hash, and does not get past a default one of the configured name;    *)
(* what it never looks at stays as it came (AdminGood).                    *)
(***************************************************************************)
EXTENDS ServerStart, TLAPS

Ready == {"crypto", "pool", "admin", "serving"}

IsBacked(t) ==
  /\ t.under = NoSecret => t.by = secretFile
  /\ t.under # NoSecret => t.by = t.under

Backed ==
  /\ \A a \in Accounts : rows[a] # NoRow => IsBacked(rows[a])
  /\ \A t \in tokens : IsBacked(t)

InUse ==
  /\ phase \in {"tables", "migrate", "secret"} => secret = setting
  /\ phase = "saving" => setting = NoSecret /\ secretFile \notin Secrets
  /\ phase \in Ready => secret = IF setting = NoSecret THEN secretFile ELSE setting

Opened ==
  phase \in {"admin", "serving"} => \A a \in Accounts :
    rows[a] # NoRow /\ rows[a].by = fernet => a \in known

Migrated ==
  phase \in Ready \cup {"secret", "saving"} => columns = Columns

AdminGood ==
  /\ \A u \in Users :
       /\ admin[u] \in {"", "nohash"} => oldAdmin[u] = "nohash"
       /\ admin[u] = "changeme" => oldAdmin[u] \in {"nohash", "changeme"}
  /\ phase = "serving" =>
       /\ admin[user] # "none"
       /\ admin[user] = "changeme" => oldAdmin[user] = "nohash"

IInv == TypeOK /\ Backed /\ InUse /\ Opened /\ Migrated /\ AdminGood

-------------------------------------------------------------------------------
LEMMA InitIInv == Init => IInv
<1> SUFFICES ASSUME Init PROVE IInv
  OBVIOUS
<1>1. TypeOK
  <2>1. rows \in [Accounts -> Sealed \cup {NoRow}] /\ tokens \subseteq Sealed
    BY DEF Init
  <2>2. /\ generated \in 0..MaxGenerated /\ crashes \in 0..MaxCrashes
        /\ changes \in 0..MaxChanges
    <3>1. generated = 0 /\ crashes = 0 /\ changes = 0
      BY DEF Init
    <3>2. MaxGenerated \in Nat /\ MaxCrashes \in Nat /\ MaxChanges \in Nat
      BY StartAssumption
    <3>3. QED  BY <3>1, <3>2
  <2>3. admin \in [Users -> Passwords \cup {"none", "nohash"}] /\ oldAdmin = admin
    <3>1. \/ admin = [u \in Users |-> "none"]
          \/ admin \in [Users -> {"none", "nohash", "changeme", "good"}]
      BY StartAssumption DEF Init
    <3>2. QED  BY <3>1 DEF Init, Passwords
  <2>4. QED
    BY <2>1, <2>2, <2>3 DEF Init, TypeOK, Starting, Settings, Passwords
<1>2. Backed /\ InUse /\ Opened /\ Migrated
  BY DEF Init, Backed, InUse, Opened, Migrated, Ready
<1>3. AdminGood
  <2>1. \A u \in Users : admin[u] # "" /\ oldAdmin[u] = admin[u]
    <3>1. \/ admin = [u \in Users |-> "none"]
          \/ admin \in [Users -> {"none", "nohash", "changeme", "good"}]
      BY StartAssumption DEF Init
    <3>2. QED  BY <3>1 DEF Init
  <2>2. QED  BY <2>1 DEF Init, AdminGood
<1>4. QED
  BY <1>1, <1>2, <1>3 DEF IInv

(* The steps of a start that leave disk and tokens to Backed as they were. *)
LEMMA BackedKept ==
  ASSUME Backed, secretFile' = secretFile, tokens' \subseteq tokens,
         \A a \in Accounts : rows'[a] = rows[a] \/ rows'[a] = NoRow
  PROVE  Backed'
BY DEF Backed, IsBacked

(* A new secret in the file unseals nothing: nothing was sealed by the file. *)
LEMMA BackedFresh ==
  ASSUME TypeOK, Backed, secretFile \notin Secrets, UNCHANGED <<rows, tokens>>
  PROVE  Backed'
<1>1. \A a \in Accounts : rows[a] # NoRow => rows[a].by \in Secrets
  BY DEF TypeOK, Sealed
<1>2. \A t \in tokens : t.by \in Secrets
  BY DEF TypeOK, Sealed
<1>3. QED
  BY <1>1, <1>2 DEF Backed, IsBacked

LEMMA StepIInv == IInv /\ [Next]_vars => IInv'
<1> SUFFICES ASSUME IInv, [Next]_vars PROVE IInv'
  OBVIOUS
<1>0. TypeOK /\ Backed /\ InUse /\ Opened /\ Migrated /\ AdminGood
  BY DEF IInv
<1> USE DEF settingVars, loadedVars, diskVars, boundVars, Goto
<1>1. CASE Start
  <2>1. TypeOK'
    BY <1>0, <1>1 DEF Start, TypeOK, Starting, Settings, Secrets, Passwords
  <2>2. Backed'
    BY <1>0, <1>1, BackedKept DEF Start
  <2>3. InUse' /\ Opened' /\ Migrated' /\ AdminGood'
    BY <1>0, <1>1 DEF Start, InUse, Opened, Migrated, AdminGood, Ready
  <2>4. QED  BY <2>1, <2>2, <2>3 DEF IInv
<1>2. CASE CreateTables
  <2>1. TypeOK'
    BY <1>0, <1>2, StartAssumption DEF CreateTables, TypeOK, Starting, Columns
  <2>2. Backed'
    BY <1>0, <1>2, BackedKept DEF CreateTables
  <2>3. InUse' /\ Opened' /\ Migrated' /\ AdminGood'
    BY <1>0, <1>2 DEF CreateTables, InUse, Opened, Migrated, AdminGood, Ready
  <2>4. QED  BY <2>1, <2>2, <2>3 DEF IInv
<1>3. CASE Migrate
  <2>1. TypeOK'
    BY <1>0, <1>3, StartAssumption DEF Migrate, TypeOK, Starting, Columns
  <2>2. Backed'
    BY <1>0, <1>3, BackedKept DEF Migrate
  <2>3. InUse' /\ Opened' /\ Migrated' /\ AdminGood'
    BY <1>0, <1>3 DEF Migrate, InUse, Opened, Migrated, AdminGood, Ready
  <2>4. QED  BY <2>1, <2>2, <2>3 DEF IInv
<1>4. CASE ReadSecret
  <2>1. /\ secret' \in Secrets
        /\ secret' = IF setting = NoSecret THEN secretFile ELSE setting
    BY <1>0, <1>4, StartAssumption DEF ReadSecret, InUse
  <2>2. /\ phase = "secret" /\ phase' = "crypto"
        /\ UNCHANGED <<settingVars, loadedVars, diskVars, boundVars, tokens, fernet,
                       known, oldAdmin>>
    BY <1>4 DEF ReadSecret
  <2>3. TypeOK'
    BY <1>0, <2>1, <2>2 DEF TypeOK, Starting
  <2>4. Backed'
    BY <1>0, <2>2, BackedKept
  <2>5. InUse' /\ Opened' /\ Migrated' /\ AdminGood'
    BY <1>0, <2>1, <2>2 DEF InUse, Opened, Migrated, AdminGood, Ready
  <2>6. QED  BY <2>3, <2>4, <2>5 DEF IInv
<1>5. CASE GenerateSecret
  <2>1. generated' \in Generated /\ generated' \in 0..MaxGenerated
    BY <1>0, <1>5, StartAssumption DEF GenerateSecret, TypeOK, Generated
  <2>2. TypeOK'
    BY <1>0, <1>5, <2>1 DEF GenerateSecret, TypeOK, Starting, Secrets
  <2>3. Backed'
    BY <1>0, <1>5, BackedFresh DEF GenerateSecret
  <2>4. InUse' /\ Opened' /\ Migrated' /\ AdminGood'
    BY <1>0, <1>5, StartAssumption
       DEF GenerateSecret, InUse, Opened, Migrated, AdminGood, Ready
  <2>5. QED  BY <2>2, <2>3, <2>4 DEF IInv
<1>6. CASE SaveSecret
  <2>1. TypeOK'
    BY <1>0, <1>6 DEF SaveSecret, TypeOK, Starting
  <2>2. Backed'
    BY <1>0, <1>6, BackedFresh DEF SaveSecret, InUse
  <2>3. InUse' /\ Opened' /\ Migrated' /\ AdminGood'
    BY <1>0, <1>6 DEF SaveSecret, InUse, Opened, Migrated, AdminGood, Ready
  <2>4. QED  BY <2>1, <2>2, <2>3 DEF IInv
<1>7. CASE InitCrypto
  <2>1. TypeOK'
    BY <1>0, <1>7 DEF InitCrypto, TypeOK, Starting
  <2>2. Backed'
    BY <1>0, <1>7, BackedKept DEF InitCrypto
  <2>3. InUse' /\ Opened' /\ Migrated' /\ AdminGood'
    BY <1>0, <1>7 DEF InitCrypto, InUse, Opened, Migrated, AdminGood, Ready
  <2>4. QED  BY <2>1, <2>2, <2>3 DEF IInv
<1>8. CASE BootstrapPasswords
  <2>1. TypeOK'
    BY <1>0, <1>8 DEF BootstrapPasswords, TypeOK, Starting
  <2>2. Backed'
    BY <1>0, <1>8, BackedKept DEF BootstrapPasswords
  <2>3. InUse' /\ Opened' /\ Migrated' /\ AdminGood'
    BY <1>0, <1>8 DEF BootstrapPasswords, InUse, Opened, Migrated, AdminGood, Ready
  <2>4. QED  BY <2>1, <2>2, <2>3 DEF IInv
<1>9. CASE BootstrapAdmin
  <2>1. /\ phase = "admin" /\ phase' = "serving"
        /\ admin' = admin \/ admin' = [admin EXCEPT ![user] = password]
        /\ user \in Users /\ password \in Passwords
        /\ UNCHANGED <<settingVars, loadedVars, boundVars, secretFile, columns, rows,
                       tokens, secret, fernet, known, oldAdmin>>
    BY <1>0, <1>9 DEF BootstrapAdmin, TypeOK
  <2>2. TypeOK'
    BY <1>0, <2>1 DEF TypeOK, Starting
  <2>3. Backed'
    BY <1>0, <2>1, BackedKept
  <2>4. InUse' /\ Opened' /\ Migrated'
    BY <1>0, <2>1 DEF InUse, Opened, Migrated, Ready
  <2>5. AdminGood'
    <3>1. \A u \in Users \ {user} : admin'[u] = admin[u]
      BY <1>0, <2>1 DEF TypeOK
    <3>2. /\ admin'[user] # "none"
          /\ admin'[user] \in {"", "nohash", "changeme"} => oldAdmin[user] = "nohash"
      BY <1>0, <1>9, <2>1 DEF BootstrapAdmin, AdminGood, TypeOK, Passwords
    <3>3. QED
      BY <1>0, <2>1, <3>1, <3>2 DEF AdminGood
  <2>6. QED  BY <2>2, <2>3, <2>4, <2>5 DEF IInv
<1>10. ASSUME Ends, crashes' \in 0..MaxCrashes
       PROVE  IInv'
  <2>1. TypeOK'
    BY <1>0, <1>10 DEF Ends, TypeOK, Starting, Settings, Passwords
  <2>2. Backed'
    BY <1>0, <1>10, BackedKept DEF Ends
  <2>3. InUse' /\ Opened' /\ Migrated' /\ AdminGood'
    BY <1>0, <1>10 DEF Ends, InUse, Opened, Migrated, AdminGood, Ready
  <2>4. QED  BY <2>1, <2>2, <2>3 DEF IInv
<1>11. CASE AdminRefused
  BY <1>0, <1>10, <1>11 DEF AdminRefused, TypeOK
<1>12. CASE Crash
  <2>1. crashes' \in 0..MaxCrashes
    BY <1>0, <1>12, StartAssumption DEF Crash, TypeOK
  <2>2. QED  BY <1>10, <1>12, <2>1 DEF Crash
<1>13. phase = "serving" =>
         /\ secret \in Secrets /\ fernet = secret /\ setting \in Settings
         /\ IsBacked([by |-> secret, under |-> setting])
  BY <1>0 DEF TypeOK, InUse, Ready, IsBacked
<1>14. ASSUME NEW a \in Accounts, AddAccount(a)
       PROVE  IInv'
  <2> DEFINE sealed == [by |-> secret, under |-> setting]
  <2>1. sealed \in Sealed /\ IsBacked(sealed) /\ sealed.by = secret
    BY <1>13, <1>14 DEF AddAccount, Serving, Sealed
  <2>2. /\ rows' = [rows EXCEPT ![a] = sealed] /\ known' = known \cup {a}
        /\ UNCHANGED <<settingVars, loadedVars, boundVars, secretFile, columns, admin,
                       phase, secret, fernet, oldAdmin, tokens>>
    BY <1>13, <1>14 DEF AddAccount, Serving
  <2> HIDE DEF sealed
  <2>3. TypeOK'
    BY <1>0, <2>1, <2>2 DEF TypeOK, Starting
  <2>4. \A b \in Accounts : rows'[b] = IF b = a THEN sealed ELSE rows[b]
    BY <1>0, <2>2 DEF TypeOK
  <2>5. Backed'
    BY <1>0, <2>1, <2>2, <2>4 DEF Backed, IsBacked
  <2>6. InUse' /\ Opened' /\ Migrated' /\ AdminGood'
    BY <1>0, <2>2, <2>4 DEF InUse, Opened, Migrated, AdminGood, Ready
  <2>7. QED  BY <2>3, <2>5, <2>6 DEF IInv
<1>15. ASSUME NEW a \in Accounts, DeleteAccount(a)
       PROVE  IInv'
  <2>1. \A b \in Accounts : rows'[b] = IF b = a THEN NoRow ELSE rows[b]
    BY <1>0, <1>15 DEF DeleteAccount, TypeOK
  <2>2. TypeOK'
    BY <1>0, <1>15 DEF DeleteAccount, Serving, TypeOK, Starting
  <2>3. Backed'
    BY <1>0, <1>15, <2>1, BackedKept DEF DeleteAccount, Serving
  <2>4. InUse' /\ Opened' /\ Migrated' /\ AdminGood'
    BY <1>0, <1>15, <2>1
       DEF DeleteAccount, Serving, InUse, Opened, Migrated, AdminGood, Ready
  <2>5. QED  BY <2>2, <2>3, <2>4 DEF IInv
<1>16. ASSUME NEW u \in Users, LogIn(u)
       PROVE  IInv'
  <2> DEFINE sealed == [by |-> secret, under |-> setting]
  <2>1. sealed \in Sealed /\ IsBacked(sealed)
    BY <1>13, <1>16 DEF LogIn, Serving, Sealed
  <2>2. /\ tokens' = tokens \cup {sealed}
        /\ UNCHANGED <<settingVars, loadedVars, boundVars, secretFile, columns, admin,
                       phase, secret, fernet, oldAdmin, rows, known>>
    BY <1>16 DEF LogIn, Serving
  <2> HIDE DEF sealed
  <2>3. TypeOK'
    BY <1>0, <2>1, <2>2 DEF TypeOK, Starting
  <2>4. Backed'
    BY <1>0, <2>1, <2>2 DEF Backed, IsBacked
  <2>5. InUse' /\ Opened' /\ Migrated' /\ AdminGood'
    BY <1>0, <2>2 DEF InUse, Opened, Migrated, AdminGood, Ready
  <2>6. QED  BY <2>3, <2>4, <2>5 DEF IInv
<1>17. ASSUME NEW t \in tokens, TokenExpires(t)
       PROVE  IInv'
  <2>1. TypeOK'
    BY <1>0, <1>17 DEF TokenExpires, TypeOK, Starting
  <2>2. Backed'
    BY <1>0, <1>17, BackedKept DEF TokenExpires
  <2>3. InUse' /\ Opened' /\ Migrated' /\ AdminGood'
    BY <1>0, <1>17 DEF TokenExpires, InUse, Opened, Migrated, AdminGood, Ready
  <2>4. QED  BY <2>1, <2>2, <2>3 DEF IInv
<1>18. ASSUME NEW s \in Settings, NEW u \in Users, NEW p \in Passwords,
              Configure(s, u, p)
       PROVE  IInv'
  <2>1. changes' \in 0..MaxChanges
    BY <1>0, <1>18, StartAssumption DEF Configure, TypeOK
  <2>2. TypeOK'
    BY <1>0, <1>18, <2>1 DEF Configure, TypeOK, Starting
  <2>3. Backed'
    BY <1>0, <1>18, BackedKept DEF Configure
  <2>4. InUse' /\ Opened' /\ Migrated' /\ AdminGood'
    BY <1>0, <1>18 DEF Configure, InUse, Opened, Migrated, AdminGood, Ready
  <2>5. QED  BY <2>2, <2>3, <2>4 DEF IInv
<1>19. CASE UNCHANGED vars
  <2>1. TypeOK'
    BY <1>0, <1>19 DEF vars, TypeOK, Starting
  <2>2. Backed'
    BY <1>0, <1>19, BackedKept DEF vars
  <2>3. InUse' /\ Opened' /\ Migrated' /\ AdminGood'
    BY <1>0, <1>19 DEF vars, InUse, Opened, Migrated, AdminGood, Ready
  <2>4. QED  BY <2>1, <2>2, <2>3 DEF IInv
<1>20. QED
  BY <1>1, <1>2, <1>3, <1>4, <1>5, <1>6, <1>7, <1>8, <1>9, <1>11, <1>12, <1>14, <1>15,
     <1>16, <1>17, <1>18, <1>19 DEF Next, StartStep

-------------------------------------------------------------------------------
LEMMA Invariance == Spec => []IInv
BY InitIInv, StepIInv, PTL DEF Spec

(* Types of disk, settings and memory. *)
THEOREM TypeCorrect == Spec => []TypeOK
BY Invariance, PTL DEF IInv

(* config.py, get_session_secret: whatever crashed and whatever was set in  *)
(* between, the same setting reads the same passwords.                      *)
THEOREM PasswordsOutliveProcesses == Spec => []PasswordsSurvive
<1>1. IInv => PasswordsSurvive
  BY DEF IInv, TypeOK, Backed, IsBacked, InUse, Opened, Ready, PasswordsSurvive
<1>2. QED
  BY <1>1, Invariance, PTL

(* ... and accepts the same administrators' cookies. *)
THEOREM SessionsOutliveProcesses == Spec => []SessionsSurvive
<1>1. IInv => SessionsSurvive
  BY DEF IInv, Backed, IsBacked, InUse, Ready, SessionsSurvive, Accepts
<1>2. QED
  BY <1>1, Invariance, PTL

(* db.py, _migrate: no crash leaves a serving process with half a schema. *)
THEOREM ServesWholeSchema == Spec => []SchemaComplete
<1>1. IInv => SchemaComplete
  BY DEF IInv, Migrated, Ready, SchemaComplete
<1>2. QED
  BY <1>1, Invariance, PTL

(* app.py, _bootstrap_admin: no start that serves leaves the configured      *)
(* administrator with the default or no password, and none gives such a     *)
(* password to anybody, but to a row that came without a hash.              *)
THEOREM DefaultAdminRefused == Spec => []NoDefaultAdmin
<1>1. IInv => NoDefaultAdmin
  BY DEF IInv, TypeOK, Passwords, AdminGood, NoDefaultAdmin
<1>2. QED
  BY <1>1, Invariance, PTL
===============================================================================
