SPECIFICATION Spec
CONSTANTS
  Names = {mail, game}
  Targets = {t1}
  Hands = {{}, {3}}
  MaxLines = 11
PROPERTY ImplementsTable
PROPERTY OthersKept
