SPECIFICATION Spec
CONSTANTS
  c1 = c1
  c2 = c2
  ann = ann
  bob = bob
  bot = bot
  None = None
  Names = {ann, bob, bot}
  Conns = {c1, c2}
  Name <- MCName
  BotNames = {bot}
  Says <- Texts
  Replies <- BotTexts
  MaxMessages = 2
  Amount = 3
  MaxLog = 3
  MaxReplays = 2
INVARIANTS SeesItsShare OnlyNewestTwice AuthorOrder
