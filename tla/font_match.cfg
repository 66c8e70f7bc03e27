SPECIFICATION Spec
CONSTANTS
  one = one
  two = two
  three = three
  NoFont = NoFont
  Files <- ThreeFiles
  Tables <- Given
  Names <- Some
  lower <- ToLower
  startsWith <- Prefixes
  genericAliases <- Generic
  Bolds <- Bold
  Italics <- Italic
  Obliques <- Oblique
  fold <- Folds
  Patterns <- Asked
  MaxCalls = 4
INVARIANT MInv
INVARIANT NamesPreferred
INVARIANT ListsWhole
INVARIANT MatchIsClosest
PROPERTY SameAgain
CHECK_DEADLOCK FALSE
