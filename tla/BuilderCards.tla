----------------------------- MODULE BuilderCards -----------------------------
(***************************************************************************)
(* The cards of the visual builder in test-client/templates/home.html, one *)
(* by one: a card is a form for one authentication method, with a list of  *)
(* rows for its properties and one for its metadata.  A row is a form for  *)
(* one constraint.  The card suggests names, and each row values, from the *)
(* metadata the page has when the suggestions are drawn.                   *)
(***************************************************************************)
EXTENDS DiscoveryMetadata

CONSTANTS
  null,       \* JSON's null
  Ids,        \* identifiers the user may type into a card
  Times,      \* settings of a card's time section
  RowInputs   \* what the user may leave in the fields of a row

\* A row: the fields of addConstraint; id numbers its datalist within the list.
IsRow(row) == DOMAIN row = {"id", "name", "mode", "value", "min", "max", "essential", "options"}

ASSUME BuilderAssumption == \A input \in RowInputs : IsRow(input)

Own(object, key) == key \in DOMAIN object

-------------------------------------------------------------------------------
(* Suggestions of a card, from the metadata the page has *)

MethodOf(metadata, identifier) ==
  IF identifier \in DOMAIN metadata.methods THEN metadata.methods[identifier]
                                            ELSE [kind \in Kinds |-> <<>>]
OptionsOf(metadata, identifier, kind, name) ==
  LET names == MethodOf(metadata, identifier)[kind] IN
  IF Own(names, name) THEN ToSet(names[name].values) ELSE {}

\* refreshConstraintSuggestions and refreshFactorSuggestions: the datalists of
\* one row, and of a whole card.
RefreshRow(row, metadata, identifier, kind) ==
  [row EXCEPT !.options = OptionsOf(metadata, identifier, kind, row.name)]
RefreshNames(card, metadata) ==
  [card EXCEPT !.names =
     [kind \in Kinds |-> DOMAIN MethodOf(metadata, card.identifier)[kind]]]
RefreshFactor(card, metadata) ==
  [RefreshNames(card, metadata) EXCEPT !.rows =
     [kind \in Kinds |-> [i \in DOMAIN card.rows[kind] |->
        RefreshRow(card.rows[kind][i], metadata, card.identifier, kind)]]]

-------------------------------------------------------------------------------
(* Cards *)

\* A text is a sequence of words, with a comma between each two: this is an empty field.
NoText == <<"">>

Row(name, mode, value, min, max, essential) ==
  [id |-> 0, name |-> name, mode |-> mode, value |-> value, min |-> min, max |-> max,
   essential |-> essential, options |-> {}]
RequestedRow(name) == Row(name, "requested", NoText, NoText, NoText, FALSE)

\* addConstraint: the number is one more than the rows that are there.
AppendNumberedFrom0(rows, row) == Append(rows, [row EXCEPT !.id = Len(rows)])
AppendRow(rows, row) == Append(rows, [row EXCEPT !.id = Len(rows) + 1])
NumberedRows(rows) == [i \in DOMAIN rows |-> [rows[i] EXCEPT !.id = i]]

\* addFactor with a model; removed is history: a row before another was removed.
Card(metadata, identifier, time, rows) ==
  RefreshFactor([type |-> "factor", identifier |-> identifier, time |-> time,
                 rows |-> [kind \in Kinds |-> NumberedRows(rows[kind])],
                 names |-> [kind \in Kinds |-> {}], removed |-> FALSE], metadata)

NoRows == [kind \in Kinds |-> <<>>]
AnyTime == [requested |-> TRUE, essential |-> FALSE, max_age |-> NoText]

DefaultIdentifier(metadata) ==
  LET ids == metadata.identifiers IN
  IF Contains(ids, "pwd") \/ ids = <<>> THEN "pwd" ELSE ids[1]
DefaultCard(metadata) == Card(metadata, DefaultIdentifier(metadata), AnyTime, NoRows)

\* addConstraint without a model: the first name of the method, or none ("").
NewRow(card, metadata, kind) ==
  LET names == SortedNames(DOMAIN MethodOf(metadata, card.identifier)[kind]) IN
  RefreshRow(RequestedRow(IF names = <<>> THEN "" ELSE names[1]),
             metadata, card.identifier, kind)

-------------------------------------------------------------------------------
(* Edits of a card *)

WithIdentifier(card, identifier, metadata) ==
  RefreshFactor([card EXCEPT !.identifier = identifier], metadata)

WithTime(card, time) == [card EXCEPT !.time = time]

WithNewRow(card, metadata, kind) ==
  [card EXCEPT !.rows[kind] = AppendRow(@, NewRow(card, metadata, kind))]

WithoutRow(card, kind, i) ==
  [card EXCEPT !.rows[kind] = RemoveAt(@, i),
               !.removed = card.removed \/ i < Len(card.rows[kind])]

\* The fields of a row; a change of the name refreshes the row's suggestions.
WithRow(card, metadata, kind, i, input) ==
  LET row == [input EXCEPT !.id = card.rows[kind][i].id] IN
  [card EXCEPT !.rows[kind][i] = RefreshRow(row, metadata, card.identifier, kind)]

-------------------------------------------------------------------------------
(* What a card should suggest *)

\* The datalist that the browser finds for a row: the first with its id.
ListOf(rows, i) == rows[SelectInSeq(rows, LAMBDA r : r.id = rows[i].id)].options

\* The names a document gives for the card's method, and for every row the values
\* it gives for the row's name.  Left out is where a field looks once a row before
\* another was removed: two rows may then have one number.
FollowsMethod(card, document) ==
  \A kind \in Kinds :
    LET rows == card.rows[kind] IN
    /\ card.names[kind] = AdvertisedNames(document, card.identifier, kind)
    /\ \A i \in DOMAIN rows :
         /\ rows[i].options = AdvertisedValues(document, card.identifier, kind, rows[i].name)
         /\ ~card.removed => ListOf(rows, i) = rows[i].options
===============================================================================
