SPECIFICATION Spec
CONSTANTS
  Tab = Tab
  Other = Other
  Null = Null
  Official = Official
  Mine = Mine
  MaxTab = 1
  MaxOther = 1
  MaxFaults = 1
  MaxAccounts = 1
  MaxScripts = 2
  MaxEdits = 3
  Rows <- StoredRows
  Texts <- AllTexts
  Typed <- Typing
CONSTRAINT OneStory
INVARIANTS
  SaveIsHonest
PROPERTIES
  ScriptGivesWay
CHECK_DEADLOCK FALSE
