------------------------------ MODULE ServerStart -------------------------------
(***************************************************************************)
(* The start of the server and what must survive its end: the lifespan of  *)
(* server/app.py with the secret of server/config.py, the cipher of        *)
(* server/crypto.py, the migration of server/db.py and the administrator's *)
(* tokens of server/auth.py.                                               *)
(*                                                                         *)
(* One secret does everything: it encrypts the accounts' passwords and     *)
(* signs the administrators' cookies.  It comes from the settings or, when *)
(* they leave it empty, from a file that the first start writes.  The      *)
(* process may die between any two writes and is started again by its      *)
(* supervisor, possibly with other settings.                               *)
(*                                                                         *)
(* Abstracted: cryptography (a text opens with the secret that made it and *)
(* with no other, generated secrets are new), the settings without         *)
(* influence on secret or administrator, logins of accounts                *)
(* (AccountLogin), the expiry of tokens (they may expire at any time) and  *)
(* whose they are (no administrator is ever deleted), a migration that is  *)
(* left out because the inspection of the table raised (the pool's first   *)
(* SELECT then ends the start).  data_dir is always the same directory.    *)
(***************************************************************************)
EXTENDS Naturals

CONSTANTS Accounts,
          Users,          \* names an administrator may have
          OldAdmins,      \* the administrators old databases come with
          SettingSecrets, \* what CTYUN_ADMIN_SECRET or the yaml may hold
          MaxGenerated,   \* bound: generated secrets
          MaxCrashes,     \* bound
          MaxChanges,     \* bound: changes of the settings
          NoSecret,       \* the empty string
          NoFile, NoTable, NoRow, NoUser

Generated == 1..MaxGenerated
Secrets   == SettingSecrets \cup Generated
Settings  == SettingSecrets \cup {NoSecret}
Passwords == {"", "changeme", "good"}  \* of the administrator
Columns   == {"concurrency_limit", "delete_conversation_after"}

ASSUME StartAssumption ==
  /\ MaxGenerated \in Nat /\ MaxCrashes \in Nat /\ MaxChanges \in Nat
  /\ SettingSecrets \cap Generated = {}
  /\ \A cols \in SUBSET Columns : NoTable # cols
  /\ NoSecret \notin Secrets /\ NoFile \notin Secrets \cup {NoSecret}
  /\ NoUser \notin Users
  /\ OldAdmins \subseteq [Users -> {"none", "nohash", "changeme", "good"}]

(* What a secret made; under: history, the setting in force then. *)
Sealed == [by : Secrets, under : Settings]
ASSUME NoRowAssumption == NoRow \notin Sealed

VARIABLES
  secretSetting, userSetting, passwordSetting, \* what the next start will read
  secretFile,  \* data_dir/.session_secret
  columns,     \* of the table accounts; NoTable if there is none
  admin,       \* admin_users: for each name "none", "nohash" or the password
  rows,        \* accounts.password_enc
  tokens,      \* cookies that have not expired
  phase,       \* how far lifespan is
  setting, user, password, \* cfg.admin of this process as loaded
  secret,      \* cfg.admin.session_secret as it is now
  fernet,      \* crypto._fernet
  known,       \* accounts whose password is in the pool
  generated, crashes, changes,
  oldAdmin     \* history: admin_users as the first start found it

settingVars == <<secretSetting, userSetting, passwordSetting, changes>>
loadedVars  == <<setting, user, password>>
diskVars    == <<secretFile, columns, admin, rows>>
boundVars   == <<generated, crashes>>
vars == <<settingVars, loadedVars, diskVars, boundVars, tokens, phase, secret,
          fernet, known, oldAdmin>>

Starting == {"tables", "migrate", "secret", "saving", "crypto", "pool", "admin"}

Goto(p, q) == phase = p /\ phase' = q

-------------------------------------------------------------------------------
(* load_config *)
Start ==
  /\ Goto("off", "tables")
  /\ setting' = secretSetting /\ user' = userSetting /\ password' = passwordSetting
  /\ secret' = secretSetting
  /\ UNCHANGED <<settingVars, diskVars, boundVars, tokens, fernet, known, oldAdmin>>

(* create_all: new tables have every column *)
CreateTables ==
  /\ Goto("tables", "migrate")
  /\ columns' = IF columns = NoTable THEN Columns ELSE columns
  /\ UNCHANGED <<settingVars, loadedVars, boundVars, secretFile, admin, rows, tokens,
                 secret, fernet, known, oldAdmin>>

(* mutant: whoever has the first column has both *)
Migrate_FirstOnly ==
  /\ phase = "migrate"
  /\ \/ /\ "concurrency_limit" \notin columns
        /\ columns' = columns \cup {"concurrency_limit"}
        /\ UNCHANGED phase
     \/ /\ "concurrency_limit" \in columns
        /\ Goto("migrate", "secret")
        /\ UNCHANGED columns
  /\ UNCHANGED <<settingVars, loadedVars, boundVars, secretFile, admin, rows, tokens,
                 secret, fernet, known, oldAdmin>>

(* mutant: the columns are added without looking; a duplicate raises *)
Migrate_Blind ==
  /\ phase = "migrate"
  /\ \/ \E c \in Columns \ columns :
          /\ columns' = columns \cup {c}
          /\ phase' = IF columns' = Columns THEN "secret" ELSE "migrate"
     \/ /\ columns # {} /\ phase' = "off"
        /\ UNCHANGED columns
  /\ UNCHANGED <<settingVars, loadedVars, boundVars, secretFile, admin, rows, tokens,
                 secret, fernet, known, oldAdmin>>

(* _migrate: two statements, each committed on its own *)
Migrate ==
  /\ phase = "migrate"
  /\ \/ /\ "concurrency_limit" \notin columns
        /\ columns' = columns \cup {"concurrency_limit"}
        /\ UNCHANGED phase
     \/ /\ "concurrency_limit" \in columns
        /\ "delete_conversation_after" \notin columns
        /\ columns' = columns \cup {"delete_conversation_after"}
        /\ UNCHANGED phase
     \/ /\ columns = Columns
        /\ Goto("migrate", "secret")
        /\ UNCHANGED columns
  /\ UNCHANGED <<settingVars, loadedVars, boundVars, secretFile, admin, rows, tokens,
                 secret, fernet, known, oldAdmin>>

(* mutant: the file goes before the setting *)
ReadSecret_FileFirst ==
  /\ \E s \in Secrets :
       /\ \/ secretFile = s
          \/ secretFile \notin Secrets /\ secret = s
       /\ Goto("secret", "crypto")
       /\ secret' = s
  /\ UNCHANGED <<settingVars, loadedVars, diskVars, boundVars, tokens, fernet, known,
                 oldAdmin>>

(* get_session_secret: the setting, or else what the file holds *)
ReadSecret ==
  /\ \E s \in Secrets :
       /\ \/ secret = s
          \/ secret = NoSecret /\ secretFile = s
       /\ Goto("secret", "crypto")
       /\ secret' = s
  /\ UNCHANGED <<settingVars, loadedVars, diskVars, boundVars, tokens, fernet, known,
                 oldAdmin>>

(* mutant: a file that exists is not written, even an empty one *)
GenerateSecret_OnlyNewFile ==
  /\ phase = "secret" /\ secret = NoSecret /\ secretFile \notin Secrets
  /\ generated < MaxGenerated
  /\ generated' = generated + 1
  /\ secret' = generated'
  /\ IF secretFile = NoFile THEN secretFile' = NoSecret /\ phase' = "saving"
     ELSE phase' = "crypto" /\ UNCHANGED secretFile
  /\ UNCHANGED <<settingVars, loadedVars, crashes, columns, admin, rows, tokens, fernet,
                 known, oldAdmin>>

(* neither: a new one; opening the file empties it *)
GenerateSecret ==
  /\ Goto("secret", "saving")
  /\ secret = NoSecret /\ secretFile \notin Secrets
  /\ generated < MaxGenerated
  /\ generated' = generated + 1
  /\ secret' = generated'
  /\ secretFile' = NoSecret
  /\ UNCHANGED <<settingVars, loadedVars, crashes, columns, admin, rows, tokens, fernet,
                 known, oldAdmin>>

SaveSecret ==
  /\ Goto("saving", "crypto")
  /\ secretFile' = secret
  /\ UNCHANGED <<settingVars, loadedVars, boundVars, columns, admin, rows, tokens, secret,
                 fernet, known, oldAdmin>>

(* mutant: the cipher is set up from the setting as loaded *)
InitCrypto_Setting ==
  /\ Goto("crypto", "pool")
  /\ fernet' = setting
  /\ UNCHANGED <<settingVars, loadedVars, diskVars, boundVars, tokens, secret, known,
                 oldAdmin>>

(* init_crypto *)
InitCrypto ==
  /\ Goto("crypto", "pool")
  /\ fernet' = secret
  /\ UNCHANGED <<settingVars, loadedVars, diskVars, boundVars, tokens, secret, known,
                 oldAdmin>>

(* mutant: one password that does not open ends the loop *)
BootstrapPasswords_StopAtFirst ==
  /\ Goto("pool", "admin")
  /\ known' = IF \E a \in Accounts : rows[a] # NoRow /\ rows[a].by # fernet THEN {}
              ELSE {a \in Accounts : rows[a] # NoRow}
  /\ UNCHANGED <<settingVars, loadedVars, diskVars, boundVars, tokens, secret, fernet,
                 oldAdmin>>

(* init_pool, _bootstrap_account_passwords: what does not open is skipped   *)
BootstrapPasswords ==
  /\ Goto("pool", "admin")
  /\ known' = {a \in Accounts : rows[a] # NoRow /\ rows[a].by = fernet}
  /\ UNCHANGED <<settingVars, loadedVars, diskVars, boundVars, tokens, secret, fernet,
                 oldAdmin>>

(* mutant: an administrator that exists is left alone *)
BootstrapAdmin_NewOnly ==
  /\ phase = "admin"
  /\ \/ /\ admin[user] = "none" /\ password = "good"
        /\ admin' = [admin EXCEPT ![user] = password]
     \/ admin[user] # "none" /\ UNCHANGED admin
  /\ phase' = "serving"
  /\ UNCHANGED <<settingVars, loadedVars, boundVars, secretFile, columns, rows, tokens,
                 secret, fernet, known, oldAdmin>>

(* _bootstrap_admin: looks for the configured name and for no other *)
BootstrapAdmin ==
  /\ Goto("admin", "serving")
  /\ \/ /\ admin[user] \in {"none", "changeme"} /\ password \notin {"", "changeme"}
        /\ admin' = [admin EXCEPT ![user] = password]
     \/ /\ admin[user] = "nohash"
        /\ admin' = [admin EXCEPT ![user] = password]
     \/ /\ admin[user] \notin {"none", "changeme", "nohash"}
        /\ UNCHANGED admin
  /\ UNCHANGED <<settingVars, loadedVars, boundVars, secretFile, columns, rows, tokens,
                 secret, fernet, known, oldAdmin>>

(* the memory of a process is gone when it ends *)
Ends == /\ phase' = "off"
        /\ setting' = NoSecret /\ user' = NoUser /\ password' = ""
        /\ fernet' = NoSecret /\ secret' = NoSecret /\ known' = {}
        /\ UNCHANGED <<settingVars, diskVars, generated, tokens, oldAdmin>>

(* ... or its exception, which ends the start *)
AdminRefused ==
  /\ phase = "admin"
  /\ admin[user] \in {"none", "changeme"} /\ password \in {"", "changeme"}
  /\ Ends
  /\ UNCHANGED crashes

-------------------------------------------------------------------------------
(* A server that serves *)

Serving ==
  /\ phase = "serving"
  /\ UNCHANGED <<settingVars, loadedVars, boundVars, secretFile, columns, admin, phase,
                 secret, fernet, oldAdmin>>

(* accounts_add: crypto.encrypt and set_password *)
AddAccount(a) ==
  /\ Serving
  /\ rows[a] = NoRow
  /\ rows' = [rows EXCEPT ![a] = [by |-> fernet, under |-> setting]]
  /\ known' = known \cup {a}
  /\ UNCHANGED tokens

(* accounts_delete *)
DeleteAccount(a) ==
  /\ Serving
  /\ rows[a] # NoRow
  /\ rows' = [rows EXCEPT ![a] = NoRow]
  /\ known' = known \ {a}
  /\ UNCHANGED tokens

(* login_submit: any name with a row, and its password; make_admin_token *)
LogIn(u) ==
  /\ Serving
  /\ admin[u] \notin {"none", "nohash"}
  /\ tokens' = tokens \cup {[by |-> secret, under |-> setting]}
  /\ UNCHANGED <<rows, known>>

(* verify_admin_token: exp *)
TokenExpires(t) ==
  /\ tokens' = tokens \ {t}
  /\ UNCHANGED <<settingVars, loadedVars, diskVars, boundVars, phase, secret, fernet, known,
                 oldAdmin>>

(* get_current_admin *)
Accepts(t) == phase = "serving" /\ t \in tokens /\ t.by = secret

-------------------------------------------------------------------------------
(* Outside *)

(* the process dies, or is stopped *)
Crash ==
  /\ phase # "off" /\ crashes < MaxCrashes
  /\ crashes' = crashes + 1
  /\ Ends

(* the operator edits yaml or environment, read at the next start *)
Configure(s, u, p) ==
  /\ changes < MaxChanges
  /\ <<s, u, p>> # <<secretSetting, userSetting, passwordSetting>>
  /\ changes' = changes + 1
  /\ secretSetting' = s /\ userSetting' = u /\ passwordSetting' = p
  /\ UNCHANGED <<loadedVars, diskVars, boundVars, tokens, phase, secret, fernet, known,
                 oldAdmin>>

(* no database yet, or one of an earlier version with its rows *)
Init ==
  /\ secretSetting \in Settings /\ userSetting \in Users
  /\ passwordSetting \in Passwords
  /\ secretFile = NoFile
  /\ \/ columns = NoTable /\ admin = [u \in Users |-> "none"]
     \/ columns = {} /\ admin \in OldAdmins
  /\ rows = [a \in Accounts |-> NoRow] /\ tokens = {}
  /\ phase = "off"
  /\ setting = NoSecret /\ user = NoUser /\ password = ""
  /\ secret = NoSecret /\ fernet = NoSecret /\ known = {}
  /\ generated = 0 /\ crashes = 0 /\ changes = 0
  /\ oldAdmin = admin

StartStep ==
  \/ Start \/ CreateTables \/ Migrate
  \/ ReadSecret \/ GenerateSecret \/ SaveSecret \/ InitCrypto
  \/ BootstrapPasswords \/ BootstrapAdmin \/ AdminRefused

Next ==
  \/ StartStep
  \/ \E a \in Accounts : AddAccount(a) \/ DeleteAccount(a)
  \/ \E u \in Users : LogIn(u)
  \/ \E t \in tokens : TokenExpires(t)
  \/ Crash
  \/ \E s \in Settings, u \in Users, p \in Passwords : Configure(s, u, p)

Spec == Init /\ [][Next]_vars

(* the supervisor starts the server again (docker-compose.yml, restart:     *)
(* unless-stopped), and a start goes on                                     *)
FairSpec == Spec /\ WF_vars(StartStep)

-------------------------------------------------------------------------------
(* Properties *)

(* Types of disk, settings and memory.                                      *)
TypeOK ==
  /\ secretSetting \in Settings /\ userSetting \in Users
  /\ passwordSetting \in Passwords
  /\ setting \in Settings /\ password \in Passwords
  /\ IF phase = "off" THEN user = NoUser ELSE user \in Users
  /\ secretFile \in Secrets \cup {NoSecret, NoFile}
  /\ columns = NoTable \/ columns \subseteq Columns
  /\ phase \notin {"off", "tables"} => columns # NoTable
  /\ admin \in [Users -> Passwords \cup {"none", "nohash"}]
  /\ oldAdmin \in [Users -> Passwords \cup {"none", "nohash"}]
  /\ rows \in [Accounts -> Sealed \cup {NoRow}]
  /\ tokens \subseteq Sealed
  /\ phase \in Starting \cup {"off", "serving"}
  /\ secret \in Secrets \cup {NoSecret} /\ fernet \in Secrets \cup {NoSecret}
  /\ phase \in {"saving", "crypto", "pool", "admin", "serving"} => secret \in Secrets
  /\ phase \in {"pool", "admin", "serving"} => fernet = secret
  /\ known \subseteq Accounts
  /\ generated \in 0..MaxGenerated /\ crashes \in 0..MaxCrashes
  /\ changes \in 0..MaxChanges

(* A password stored under some setting of the secret is readable in every  *)
(* later process with the same setting, whatever crashes and other settings *)
(* came between ("generated in data_dir and kept", config.example.yaml).    *)
PasswordsSurvive ==
  phase = "serving" => \A a \in Accounts :
    rows[a] # NoRow /\ rows[a].under = setting => a \in known

(* So is an administrator logged in until the token expires.                *)
SessionsSurvive ==
  phase = "serving" => \A t \in tokens : t.under = setting => Accepts(t)

(* Whoever serves has every column, also when an earlier start died between *)
(* the two statements of the migration.                                     *)
SchemaComplete == phase = "serving" => columns = Columns

(* "The default administrator password is forbidden" (app.py:41), for the   *)
(* configured name: whoever serves has that administrator, and a row with   *)
(* the default password or an empty one came with the database, under       *)
(* another name than the configured one or without a hash.  No crash,       *)
(* refused start or change of the settings adds such a row.                 *)
NoDefaultAdmin ==
  phase = "serving" =>
    /\ admin[user] # "none"
    /\ \A u \in Users : admin[u] \in {"", "changeme"} =>
         \/ oldAdmin[u] = "nohash"
         \/ oldAdmin[u] = "changeme" /\ u # user

(* With a proper password in the settings the server comes up, however      *)
(* earlier starts ended.                                                    *)
GoodSettingsServe ==
  passwordSetting = "good" ~> phase = "serving" \/ passwordSetting # "good"

-------------------------------------------------------------------------------
(* Two statements that do not hold: a start looks at the configured name    *)
(* only (app.py:38), a login at any (routes.py:125; README, section 4).     *)

(* "Default administrator password detected, set CTYUN_ADMIN_PASSWORD"      *)
(* (app.py:54): nobody can log in with the default password.                *)
NoDefaultLogin == phase = "serving" => \A u \in Users : admin[u] # "changeme"

(* "The administrator (a single user)" (models.py:17), for a database that  *)
(* came with no more than one.                                              *)
AtMostOne(a) == \A u, v \in Users : a[u] # "none" /\ a[v] # "none" => u = v

SingleUser == AtMostOne(oldAdmin) => AtMostOne(admin)
===============================================================================
