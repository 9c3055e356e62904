SPECIFICATION Spec
CONSTANTS
  Emails = {e1}
  Handlers = {h1, h2}
  Helper = Helper
  Main = Main
  MaxAccounts = 2
  MaxEdits = 1
  None = None
INVARIANTS TypeOK ConfirmedStay AccountMailed
PROPERTIES SavedStay FileFollows
CHECK_DEADLOCK FALSE
