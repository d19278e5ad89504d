CONSTANTS
  Accounts = {a1, a2}
  u1 = u1
  u2 = u2
  Users <- MCUsers
  OldAdmins <- MCOldAdmins
  SettingSecrets = {set1}
  MaxGenerated = 3
  MaxCrashes = 2
  MaxChanges = 2
  NoSecret = NoSecret
  NoFile = NoFile
  NoTable = NoTable
  NoRow = NoRow
  NoUser = NoUser
SPECIFICATION FairSpec
INVARIANTS TypeOK PasswordsSurvive SessionsSurvive SchemaComplete NoDefaultAdmin
PROPERTY GoodSettingsServe
CHECK_DEADLOCK FALSE
