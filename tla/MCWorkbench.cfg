\* One page, four events after it was opened.
CONSTANTS
  None = None
  null = null
  Other = Other
  Items = Items
  NameOrder <- Names0
  Trimmed <- Trimmed0
  Json <- Json0
  Numbers <- Numbers0
  Ages <- Ages0
  Documents <- DocumentSet
  Texts <- TextSet
  Ids <- IdSet
  Times <- TimeSet
  RowInputs <- RowSet
  MaxNodes = 2
  MaxRows = 2
  MaxEvents = 4
SPECIFICATION Spec
INVARIANTS
  TypeOK
  LoadedIsShown
  AppliedLoadsBack
  SuggestionsFollowMethod
PROPERTIES
  ImplementsSuggestedCards
