INIT Init
NEXT Next
CONSTANTS
  None = None
  Letters <- LettersOf
  Falsy <- FalsyValues
  Err = Err
  Gap = Gap
  End = End
INVARIANTS SortKeepsOrder ConfigsResolve NamesResolve ItemsKept
CHECK_DEADLOCK FALSE
