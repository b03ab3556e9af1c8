SPECIFICATION Spec
CONSTANTS
  Clients = {"be", "eu"}
  Foreign = {"eu"}
  MaxLines = 2
  MaxClicks = 4
  MaxFaults = 1
  Products = {"p"}
  Price <- MCPrice
  Rate <- MCRate
  MaxDate = 2
  MaxKeys = 2
  MaxSteps = 8
  Invoices = {"a"}
  MaxForms = 2
  MaxPresses = 3
  MaxLosses = 1
  MaxOthers = 1
  BlockKinds <- MCBlockKinds
  RequiredBlocks = {"header", "items"}
  Presets = {{"notes"}, {}}
  MaxStudioMoves = 7
  MaxStudioFaults = 1
  Texts = {"terms"}
  Seeds = {"client"}
  MaxDetours = 1
  Stock = 2
  PageSize = 1
  MaxTexts = 2
  MaxListMoves = 5
  MaxListFaults = 1
  Windows = {"a", "b"}
  Fields = {"vat", "bic"}
  SerialPatches = TRUE
  MaxEdits = 2
  MaxSettingsFaults = 1
  Companies = {"ann", "zoe"}
  HitKinds = {"invoice", "credit_note", "asset"}
  MaxShellMoves = 2
  MaxShellFaults = 1
CHECK_DEADLOCK FALSE
INVARIANTS
  ScreensTypeOK MoneyShown PressedOnce TrueToItsRecord NoDeadDoors
PROPERTIES
  TotalsAppear FirstRunFinishes NoSaveUndone
