\* All orders of six transactions over four blocks, rollbacks of them, and
\* the queries after every step.
SPECIFICATION QuerySpec
CONSTANTS
  etch = etch  mint = mint  mint2 = mint2
  spend = spend  cenotaph = cenotaph  reserve = reserve
  R = R
  Tx <- MCTx
  Content <- MCContent
  Rune = {R}
  UnlockHeight <- MCUnlockHeight
  FirstHeight = 1
  MaxReorgDepth = 3
  LastHeight = 4
  BlockSize = 3
  U32 = 16
\* A start on a half indexed block is the subject of IndexLoop's runs.
CONSTRAINT Orderly
INVARIANTS
  TypeOK
  SupplyConserved
  BalancesResolve
  NamesResolve
  NumbersConsecutive
  MintsAreOfChain
  ConfirmationsCount
  LookupsAgree
  SettledRunesStay
PROPERTY RollBackRestores
