------------------------- MODULE SuggestedCardsProofs -------------------------
(***************************************************************************)
(* Theorems about the cards of the visual builder and the metadata their   *)
(* suggestions come from, for every discovery document, every card and any *)
(* number of them.                                                         *)
(***************************************************************************)
EXTENDS SuggestedCards, SequenceTheorems, TLAPS

(***************************************************************************)
(* The metadata of a document says what the document says.                 *)
(***************************************************************************)

\* The empty document, which stands for a page without an answer.
LEMMA EmptyDocument ==
  /\ DOMAIN <<>> = {}
  /\ IsDocument(<<>>)
  /\ DOMAIN NoMetadata.methods = {}
BY DEF IsDocument, NoMetadata

\* What a loop of builder_discovery_metadata sees of a member.
LEMMA ListIs ==
  ASSUME NEW document, IsDocument(document), NEW m
  PROVE  ToSet(ListAt(document, m)) = {x \in Names \cup {Other} : Lists(document, m, x)}
<1>1. CASE m \in DOMAIN document /\ document[m] # Other
  <2>1. document[m] \in Seq(Names \cup {Other})
    BY <1>1 DEF IsDocument
  <2>2. \A x \in ToSet(document[m]) : x \in Names \cup {Other}
    BY <2>1, LenProperties DEF ToSet
  <2> QED BY <1>1, <2>2 DEF ListAt, Lists
<1>2. CASE ~(m \in DOMAIN document /\ document[m] # Other)
  BY <1>2, EmptyDocument DEF ListAt, Lists, ToSet
<1> QED BY <1>1, <1>2

\* The methods of the metadata, and for each the names and their values.
LEMMA MetadataIs ==
  ASSUME NEW document, IsDocument(document), NEW identifier, NEW kind \in Kinds, NEW name
  PROVE  LET methods == BuilderMetadata(document).methods IN
         /\ identifier \in DOMAIN methods
              <=> identifier \in Names /\ Lists(document, Identifiers, identifier)
         /\ identifier \in DOMAIN methods =>
              /\ DOMAIN methods[identifier][kind]
                   = {n \in Names : Lists(document, MemberOf(identifier, kind), n)}
              /\ name \in DOMAIN methods[identifier][kind] =>
                   ToSet(methods[identifier][kind][name].values)
                     = {v \in Names \cup {Other} : Lists(document, MemberOf(name, "values"), v)}
<1>1. \A m : Strings(ListAt(document, m)) = {n \in Names : Lists(document, m, n)}
  BY ListIs, DiscoveryAssumption DEF Strings
<1> DEFINE methods == BuilderMetadata(document).methods
<1>2. methods = [i \in Strings(ListAt(document, Identifiers)) |-> MethodMetadata(document, i)]
  BY DEF BuilderMetadata
<1>3. identifier \in DOMAIN methods
        <=> identifier \in Names /\ Lists(document, Identifiers, identifier)
  BY <1>1, <1>2
<1>4. ASSUME identifier \in DOMAIN methods
      PROVE  methods[identifier][kind]
               = [n \in {n \in Names : Lists(document, MemberOf(identifier, kind), n)}
                    |-> ValuesFor(document, n)]
  <2>1. methods[identifier] = MethodMetadata(document, identifier)
    BY <1>2, <1>4
  <2> QED BY <1>1, <2>1 DEF MethodMetadata
<1>5. ToSet(ValuesFor(document, name).values)
        = {v \in Names \cup {Other} : Lists(document, MemberOf(name, "values"), v)}
  BY ListIs DEF ValuesFor
<1> QED BY <1>3, <1>4, <1>5

\* builder_discovery_metadata and the lookups of home.html agree with the document,
\* member by member: whatever types its members have, and whatever is asked for.
THEOREM SuggestionsAreAdvertised ==
  ASSUME NEW document, IsDocument(document), NEW identifier, NEW kind \in Kinds, NEW name
  PROVE  LET metadata == BuilderMetadata(document) IN
         /\ DOMAIN MethodOf(metadata, identifier)[kind]
              = AdvertisedNames(document, identifier, kind)
         /\ OptionsOf(metadata, identifier, kind, name)
              = AdvertisedValues(document, identifier, kind, name)
<1> DEFINE metadata == BuilderMetadata(document)
           methods == metadata.methods
           advertised == AdvertisedNames(document, identifier, kind)
<1>1. CASE identifier \in DOMAIN methods
  <2>1. MethodOf(metadata, identifier)[kind] = methods[identifier][kind]
    BY <1>1 DEF MethodOf
  <2>2. DOMAIN methods[identifier][kind] = advertised
    BY <1>1, MetadataIs DEF AdvertisedNames
  <2>3. OptionsOf(metadata, identifier, kind, name)
          = IF name \in advertised THEN ToSet(methods[identifier][kind][name].values) ELSE {}
    BY <2>1, <2>2 DEF OptionsOf, Own
  <2>4. name \in advertised =>
          ToSet(methods[identifier][kind][name].values)
            = {v \in Names \cup {Other} : Lists(document, MemberOf(name, "values"), v)}
    BY <1>1, <2>2, MetadataIs
  <2> QED BY <2>1, <2>2, <2>3, <2>4 DEF AdvertisedValues
<1>2. CASE identifier \notin DOMAIN methods
  <2>1. ~(identifier \in Names /\ Lists(document, Identifiers, identifier))
    BY <1>2, MetadataIs
  <2>2. advertised = {}
    BY <2>1 DEF AdvertisedNames
  <2>3. MethodOf(metadata, identifier)[kind] = <<>>
    BY <1>2 DEF MethodOf
  <2> QED BY <2>2, <2>3, EmptyDocument DEF OptionsOf, Own, AdvertisedValues
<1> QED BY <1>1, <1>2

\* Without an answer nothing is suggested.
LEMMA NothingSuggested ==
  ASSUME NEW identifier, NEW kind \in Kinds, NEW name
  PROVE  /\ DOMAIN MethodOf(NoMetadata, identifier)[kind] = AdvertisedNames(<<>>, identifier, kind)
         /\ OptionsOf(NoMetadata, identifier, kind, name)
              = AdvertisedValues(<<>>, identifier, kind, name)
<1>1. MethodOf(NoMetadata, identifier)[kind] = <<>>
  BY EmptyDocument DEF MethodOf
<1>2. AdvertisedNames(<<>>, identifier, kind) = {}
  BY EmptyDocument DEF AdvertisedNames, Lists
<1> QED BY <1>1, <1>2, EmptyDocument DEF OptionsOf, Own, AdvertisedValues

\* So cards made for the page's metadata suggest what its document says.
LEMMA PageSuggests ==
  ASSUME MetadataInv, NEW identifier, NEW kind \in Kinds, NEW name
  PROVE  /\ DOMAIN MethodOf(discovery, identifier)[kind]
              = AdvertisedNames(Document, identifier, kind)
         /\ OptionsOf(discovery, identifier, kind, name)
              = AdvertisedValues(Document, identifier, kind, name)
<1>1. CASE served = None /\ discovery = NoMetadata
  BY <1>1, NothingSuggested DEF Document
<1>2. CASE served \in Documents /\ discovery = BuilderMetadata(served)
  <2>1. Document = served /\ IsDocument(served)
    BY <1>2, DiscoveryAssumption DEF Document
  <2> QED BY <1>2, <2>1, SuggestionsAreAdvertised
<1> QED BY <1>1, <1>2 DEF MetadataInv

(***************************************************************************)
(* Lists of rows.                                                          *)
(***************************************************************************)

\* Rows in order are a list.
LEMMA RowsAreList ==
  ASSUME NEW n \in Nat, NEW rows, rows = [i \in 1 .. n |-> rows[i]],
         \A i \in 1 .. n : IsRow(rows[i])
  PROVE  IsList(rows) /\ DOMAIN rows = 1 .. n /\ Len(rows) = n
<1>1. rows \in [1 .. n -> ToSet(rows)] /\ DOMAIN rows = 1 .. n
  BY DEF ToSet
<1>2. rows \in Seq(ToSet(rows))
  BY <1>1, SeqDef
<1>3. Len(rows) = n
  BY <1>1, <1>2, LenProperties
<1> QED BY <1>1, <1>2, <1>3 DEF IsList

\* And the other way round.
LEMMA ListHasRows ==
  ASSUME NEW rows, IsList(rows)
  PROVE  /\ Len(rows) \in Nat /\ DOMAIN rows = 1 .. Len(rows)
         /\ rows = [i \in 1 .. Len(rows) |-> rows[i]]
         /\ \A i \in 1 .. Len(rows) : IsRow(rows[i])
BY LenProperties DEF IsList

\* What a row is after its suggestions were drawn.
LEMMA RefreshedRow ==
  ASSUME NEW row, IsRow(row), NEW metadata, NEW identifier, NEW kind
  PROVE  LET new == RefreshRow(row, metadata, identifier, kind) IN
         /\ IsRow(new) /\ new.id = row.id /\ new.name = row.name
         /\ new.options = OptionsOf(metadata, identifier, kind, row.name)
BY DEF IsRow, RefreshRow

\* A row that is given a number.
LEMMA NumberedRow ==
  ASSUME NEW row, IsRow(row), NEW n
  PROVE  LET new == [row EXCEPT !.id = n] IN
         IsRow(new) /\ new.id = n /\ new.name = row.name /\ new.options = row.options
BY DEF IsRow

\* The rows of a list with their suggestions drawn.
Redrawn(rows, metadata, identifier, kind) ==
  [i \in DOMAIN rows |-> RefreshRow(rows[i], metadata, identifier, kind)]

\* A list after the suggestions of its rows were drawn.
LEMMA RefreshedList ==
  ASSUME NEW rows, IsList(rows), NEW metadata, NEW identifier, NEW kind
  PROVE  LET new == Redrawn(rows, metadata, identifier, kind) IN
         /\ IsList(new) /\ DOMAIN new = DOMAIN rows
         /\ \A i \in DOMAIN rows :
              /\ new[i].id = rows[i].id
              /\ new[i].options = OptionsOf(metadata, identifier, kind, new[i].name)
<1> DEFINE new == Redrawn(rows, metadata, identifier, kind)
<1>1. /\ Len(rows) \in Nat /\ DOMAIN rows = 1 .. Len(rows)
      /\ \A i \in 1 .. Len(rows) : IsRow(rows[i])
  BY ListHasRows
<1>2. \A i \in DOMAIN rows : new[i] = RefreshRow(rows[i], metadata, identifier, kind)
  BY DEF Redrawn
<1>3. \A i \in DOMAIN rows :
        /\ IsRow(new[i]) /\ new[i].id = rows[i].id
        /\ new[i].options = OptionsOf(metadata, identifier, kind, new[i].name)
  BY <1>1, <1>2, RefreshedRow
<1>4. new = [i \in 1 .. Len(rows) |-> new[i]]
  BY <1>1 DEF Redrawn
<1> HIDE DEF new
<1>5. IsList(new) /\ DOMAIN new = DOMAIN rows
  BY <1>1, <1>3, <1>4, RowsAreList
<1> QED BY <1>3, <1>5 DEF new

\* A list whose rows were numbered by addFactor.
LEMMA NumberedList ==
  ASSUME NEW rows, IsList(rows)
  PROVE  /\ IsList(NumberedRows(rows)) /\ DOMAIN NumberedRows(rows) = DOMAIN rows
         /\ \A i \in DOMAIN rows : NumberedRows(rows)[i].id = i
<1> DEFINE new == NumberedRows(rows)
<1>1. /\ Len(rows) \in Nat /\ DOMAIN rows = 1 .. Len(rows)
      /\ \A i \in 1 .. Len(rows) : IsRow(rows[i])
  BY ListHasRows
<1>2. \A i \in DOMAIN rows : new[i] = [rows[i] EXCEPT !.id = i]
  BY DEF NumberedRows
<1>3. new = [i \in 1 .. Len(rows) |-> new[i]]
  BY <1>1 DEF NumberedRows
<1> HIDE DEF new
<1>4. ASSUME NEW i \in DOMAIN rows PROVE IsRow(new[i]) /\ new[i].id = i
  <2>1. IsRow(rows[i])
    BY <1>1
  <2> DEFINE row == rows[i]
  <2>2. IsRow([row EXCEPT !.id = i]) /\ [row EXCEPT !.id = i].id = i
    BY <2>1, NumberedRow
  <2> QED BY <1>2, <2>2
<1>5. IsList(new) /\ DOMAIN new = DOMAIN rows
  BY <1>1, <1>3, <1>4, RowsAreList
<1> QED BY <1>4, <1>5 DEF new

\* A list with a row added at its end: the row has the number of its place.
LEMMA AppendedList ==
  ASSUME NEW rows, IsList(rows), NEW row, IsRow(row)
  PROVE  LET new == AppendRow(rows, row) IN
         /\ IsList(new) /\ Len(rows) \in Nat /\ DOMAIN new = 1 .. Len(rows) + 1
         /\ \A i \in 1 .. Len(rows) : new[i] = rows[i]
         /\ new[Len(rows) + 1] = [row EXCEPT !.id = Len(rows) + 1]
<1> DEFINE last == [row EXCEPT !.id = Len(rows) + 1]
           new == Append(rows, last)
           S == ToSet(rows) \cup {last}
<1>1. /\ Len(rows) \in Nat /\ DOMAIN rows = 1 .. Len(rows)
      /\ \A i \in 1 .. Len(rows) : IsRow(rows[i])
  BY ListHasRows
<1>2. IsRow(last)
  BY NumberedRow
<1>3. rows \in Seq(S)
  BY SeqMonotonic DEF IsList
<1> HIDE DEF last
<1>4. /\ new \in Seq(S) /\ Len(new) = Len(rows) + 1
      /\ \A i \in 1 .. Len(rows) : new[i] = rows[i]
      /\ new[Len(rows) + 1] = last
  BY <1>3, AppendProperties
<1> HIDE DEF new, S
<1>5. new = [i \in 1 .. Len(rows) + 1 |-> new[i]]
  BY <1>4, LenProperties
<1>6. \A i \in 1 .. Len(rows) + 1 : IsRow(new[i])
  BY <1>1, <1>2, <1>4
<1>7. IsList(new) /\ DOMAIN new = 1 .. Len(rows) + 1
  BY <1>1, <1>5, <1>6, RowsAreList
<1> QED BY <1>1, <1>4, <1>7 DEF AppendRow, new, last

\* A list without the row at place i: those behind it move up.
LEMMA RemovedList ==
  ASSUME NEW rows, IsList(rows), NEW i \in DOMAIN rows
  PROVE  LET new == RemoveAt(rows, i) IN
         /\ IsList(new) /\ Len(rows) \in Nat /\ DOMAIN new = 1 .. Len(rows) - 1
         /\ \A j \in 1 .. Len(rows) - 1 : new[j] = IF j < i THEN rows[j] ELSE rows[j + 1]
<1> DEFINE S == ToSet(rows)
           before == SubSeq(rows, 1, i - 1)
           after == SubSeq(rows, i + 1, Len(rows))
           new == before \o after
<1>1. /\ Len(rows) \in Nat /\ DOMAIN rows = 1 .. Len(rows)
      /\ \A j \in 1 .. Len(rows) : IsRow(rows[j])
  BY ListHasRows
<1>2. i \in 1 .. Len(rows) /\ \A j \in 1 .. Len(rows) : rows[j] \in S
  BY <1>1 DEF ToSet
<1> HIDE DEF S
<1>3. /\ before \in Seq(S) /\ Len(before) = i - 1
      /\ \A j \in 1 .. i - 1 : before[j] = rows[j]
  BY <1>1, <1>2, SubSeqProperties
<1>4. /\ after \in Seq(S) /\ Len(after) = Len(rows) - i
      /\ \A j \in 1 .. Len(rows) - i : after[j] = rows[i + j]
  <2>1. i + 1 \in Int /\ Len(rows) \in Int /\ \A j \in i + 1 .. Len(rows) : rows[j] \in S
    BY <1>1, <1>2
  <2>2. /\ after \in Seq(S)
        /\ Len(after) = IF i + 1 <= Len(rows) THEN Len(rows) - (i + 1) + 1 ELSE 0
        /\ \A j \in 1 .. Len(rows) - (i + 1) + 1 : after[j] = rows[(i + 1) + j - 1]
    BY <2>1, SubSeqProperties
  <2>3. Len(after) = Len(rows) - i
    BY <1>1, <1>2, <2>2
  <2>4. \A j \in 1 .. Len(rows) - i : (i + 1) + j - 1 = i + j
    BY <1>1, <1>2
  <2>5. Len(rows) - (i + 1) + 1 = Len(rows) - i
    BY <1>1, <1>2
  <2> QED BY <2>2, <2>3, <2>4, <2>5
<1> HIDE DEF before, after
<1>5. /\ new \in Seq(S) /\ Len(new) = (i - 1) + (Len(rows) - i)
      /\ \A j \in 1 .. (i - 1) + (Len(rows) - i) :
           new[j] = IF j <= i - 1 THEN before[j] ELSE after[j - (i - 1)]
  <2>1. /\ new \in Seq(S) /\ Len(new) = Len(before) + Len(after)
        /\ \A j \in 1 .. Len(before) + Len(after) :
             new[j] = IF j <= Len(before) THEN before[j] ELSE after[j - Len(before)]
    BY <1>3, <1>4, ConcatProperties
  <2> QED BY <1>3, <1>4, <2>1
<1>6. (i - 1) + (Len(rows) - i) = Len(rows) - 1
  BY <1>1, <1>2
<1>7. \A j \in 1 .. Len(rows) - 1 : new[j] = IF j < i THEN rows[j] ELSE rows[j + 1]
  <2>1. ASSUME NEW j \in 1 .. Len(rows) - 1, j < i PROVE new[j] = rows[j]
    BY <1>1, <1>2, <1>3, <1>5, <1>6, <2>1
  <2>2. ASSUME NEW j \in 1 .. Len(rows) - 1, ~(j < i) PROVE new[j] = rows[j + 1]
    <3>1. j - (i - 1) \in 1 .. Len(rows) - i /\ i + (j - (i - 1)) = j + 1
      BY <1>1, <1>2, <2>2
    <3>2. new[j] = after[j - (i - 1)]
      BY <1>1, <1>2, <1>5, <1>6, <2>2
    <3> QED BY <1>4, <3>1, <3>2
  <2> QED BY <2>1, <2>2
<1> HIDE DEF new
<1>8. new = [j \in 1 .. Len(rows) - 1 |-> new[j]]
  BY <1>5, <1>6, LenProperties
<1>9. \A j \in 1 .. Len(rows) - 1 : IsRow(new[j])
  BY <1>1, <1>2, <1>7
<1>10. Len(rows) - 1 \in Nat
  BY <1>1, <1>2
<1>11. IsList(new) /\ DOMAIN new = 1 .. Len(rows) - 1
  BY <1>8, <1>9, <1>10, RowsAreList
<1> QED BY <1>1, <1>7, <1>11 DEF RemoveAt, new, before, after

\* A list with another row at place i.
LEMMA ReplacedList ==
  ASSUME NEW rows, IsList(rows), NEW i \in DOMAIN rows, NEW row, IsRow(row)
  PROVE  LET new == [rows EXCEPT ![i] = row] IN
         /\ IsList(new) /\ DOMAIN new = DOMAIN rows /\ new[i] = row
         /\ \A j \in DOMAIN rows : j # i => new[j] = rows[j]
<1> DEFINE new == [rows EXCEPT ![i] = row]
<1>1. /\ Len(rows) \in Nat /\ DOMAIN rows = 1 .. Len(rows)
      /\ \A j \in 1 .. Len(rows) : IsRow(rows[j])
  BY ListHasRows
<1>2. DOMAIN new = DOMAIN rows /\ new[i] = row /\ \A j \in DOMAIN rows : j # i => new[j] = rows[j]
  OBVIOUS
<1>3. new = [j \in 1 .. Len(rows) |-> new[j]]
  BY <1>1
<1> HIDE DEF new
<1>4. \A j \in 1 .. Len(rows) : IsRow(new[j])
  BY <1>1, <1>2
<1>5. IsList(new)
  BY <1>1, <1>3, <1>4, RowsAreList
<1> QED BY <1>2, <1>5 DEF new

(***************************************************************************)
(* Cards.                                                                  *)
(***************************************************************************)

\* Drawing a card's suggestions: they become those of the metadata, and nothing
\* else changes.
LEMMA RefreshedCard ==
  ASSUME NEW card, IsCard(card), NEW metadata
  PROVE  LET new == RefreshFactor(card, metadata) IN
         /\ IsCard(new)
         /\ new.removed = card.removed /\ new.identifier = card.identifier
         /\ SuggestsNames(new, metadata) /\ SuggestsValues(new, metadata)
         /\ InOrder(card) => InOrder(new)
<1> DEFINE named == RefreshNames(card, metadata)
           list(kind) == Redrawn(card.rows[kind], metadata, card.identifier, kind)
           new == RefreshFactor(card, metadata)
<1>1. /\ DOMAIN named = DOMAIN card
      /\ named.names = [kind \in Kinds |-> DOMAIN MethodOf(metadata, card.identifier)[kind]]
      /\ named.removed = card.removed /\ named.identifier = card.identifier
  BY DEF RefreshNames, IsCard
<1> HIDE DEF named, list
<1>2. new = [named EXCEPT !.rows = [kind \in Kinds |-> list(kind)]]
  BY DEF RefreshFactor, named, list, Redrawn
<1> HIDE DEF new
<1>3. /\ DOMAIN new = DOMAIN card /\ new.names = named.names
      /\ new.rows = [kind \in Kinds |-> list(kind)]
      /\ new.removed = card.removed /\ new.identifier = card.identifier
  BY <1>1, <1>2 DEF IsCard
<1>4. ASSUME NEW kind \in Kinds
      PROVE  /\ IsList(new.rows[kind]) /\ DOMAIN new.rows[kind] = DOMAIN card.rows[kind]
             /\ \A i \in DOMAIN card.rows[kind] :
                  /\ new.rows[kind][i].id = card.rows[kind][i].id
                  /\ new.rows[kind][i].options =
                       OptionsOf(metadata, card.identifier, kind, new.rows[kind][i].name)
  <2>1. IsList(card.rows[kind])
    BY DEF IsCard
  <2>2. new.rows[kind] = list(kind)
    BY <1>3
  <2>3. /\ IsList(list(kind)) /\ DOMAIN list(kind) = DOMAIN card.rows[kind]
        /\ \A i \in DOMAIN card.rows[kind] :
             /\ list(kind)[i].id = card.rows[kind][i].id
             /\ list(kind)[i].options =
                  OptionsOf(metadata, card.identifier, kind, list(kind)[i].name)
    BY <2>1, RefreshedList DEF list
  <2> QED BY <2>2, <2>3
<1>5. IsCard(new)
  BY <1>1, <1>3, <1>4 DEF IsCard
<1>6. SuggestsNames(new, metadata)
  BY <1>1, <1>3 DEF SuggestsNames
<1>7. SuggestsValues(new, metadata)
  BY <1>3, <1>4 DEF SuggestsValues
<1>8. InOrder(card) => InOrder(new)
  BY <1>3, <1>4 DEF InOrder
<1> QED BY <1>3, <1>5, <1>6, <1>7, <1>8 DEF new

\* A card as addFactor leaves it suggests what the metadata gives.
LEMMA MadeCard ==
  ASSUME NEW card, NEW metadata, NewCard(card, metadata)
  PROVE  /\ IsCard(card) /\ card.removed = FALSE /\ InOrder(card)
         /\ SuggestsNames(card, metadata) /\ SuggestsValues(card, metadata)
<1> DEFINE blank == [type |-> "factor", identifier |-> card.identifier, time |-> card.time,
                     rows |-> [kind \in Kinds |-> NumberedRows(card.rows[kind])],
                     names |-> [kind \in Kinds |-> {}], removed |-> FALSE]
<1>1. card = RefreshFactor(blank, metadata)
  BY DEF NewCard, Card
<1>2. \A kind \in Kinds :
        /\ IsList(blank.rows[kind])
        /\ \A i \in DOMAIN blank.rows[kind] : blank.rows[kind][i].id = i
  BY NumberedList DEF NewCard
<1>3. /\ DOMAIN blank = {"type", "identifier", "time", "rows", "names", "removed"}
      /\ DOMAIN blank.rows = Kinds /\ DOMAIN blank.names = Kinds /\ blank.removed = FALSE
  OBVIOUS
<1> HIDE DEF blank
<1>4. IsCard(blank) /\ InOrder(blank)
  BY <1>2, <1>3 DEF IsCard, InOrder
<1> QED BY <1>1, <1>3, <1>4, RefreshedCard

\* One list of a card is exchanged for another ...
Exchanged(card, new, kind, rows) ==
  /\ DOMAIN new = DOMAIN card /\ new.identifier = card.identifier /\ new.names = card.names
  /\ new.rows = [card.rows EXCEPT ![kind] = rows]

\* ... that suggests the right values ...
RowsSuggest(card, kind, rows) ==
  \A i \in DOMAIN rows :
    rows[i].options = OptionsOf(discovery, card.identifier, kind, rows[i].name)

\* ... and is in order unless the new card is marked.
RowsInOrder(card, new, rows) ==
  /\ new.removed \in BOOLEAN
  /\ new.removed = FALSE => card.removed = FALSE /\ \A i \in DOMAIN rows : rows[i].id = i

LEMMA ChangedCard ==
  ASSUME NEW card, CardInv(card), NEW kind \in Kinds, NEW rows, IsList(rows), NEW new,
         Exchanged(card, new, kind, rows), RowsSuggest(card, kind, rows),
         RowsInOrder(card, new, rows)
  PROVE  CardInv(new)
<1> USE DEF Exchanged, RowsSuggest, RowsInOrder
<1>1. /\ DOMAIN new.rows = Kinds /\ new.rows[kind] = rows
      /\ \A other \in Kinds : other # kind => new.rows[other] = card.rows[other]
  BY DEF CardInv, IsCard
<1>2. IsCard(new)
  BY <1>1 DEF CardInv, IsCard
<1>3. SuggestsNames(new, discovery)
  BY DEF CardInv, SuggestsNames
<1>4. SuggestsValues(new, discovery)
  BY <1>1 DEF CardInv, SuggestsValues
<1>5. InOrder(new)
  BY <1>1 DEF CardInv, InOrder
<1> QED BY <1>2, <1>3, <1>4, <1>5 DEF CardInv

\* Another method: the card suggests what the metadata gives for it.
LEMMA IdentifierInv ==
  ASSUME NEW card, CardInv(card), NEW identifier
  PROVE  CardInv(WithIdentifier(card, identifier, discovery))
<1> DEFINE other == [card EXCEPT !.identifier = identifier]
<1>1. /\ DOMAIN other = DOMAIN card /\ other.rows = card.rows /\ other.names = card.names
      /\ other.removed = card.removed
  BY DEF CardInv, IsCard
<1> HIDE DEF other
<1>2. IsCard(other) /\ InOrder(other) /\ other.removed \in BOOLEAN
  BY <1>1 DEF CardInv, IsCard, InOrder
<1> DEFINE new == RefreshFactor(other, discovery)
<1> HIDE DEF new
<1>3. /\ IsCard(new) /\ InOrder(new) /\ new.removed = other.removed
      /\ SuggestsNames(new, discovery) /\ SuggestsValues(new, discovery)
  BY <1>2, RefreshedCard DEF new
<1>4. CardInv(new)
  BY <1>2, <1>3 DEF CardInv
<1> QED BY <1>4 DEF WithIdentifier, new, other

\* The time section suggests nothing.
LEMMA TimeInv ==
  ASSUME NEW card, CardInv(card), NEW time
  PROVE  CardInv(WithTime(card, time))
<1> DEFINE new == WithTime(card, time)
<1>1. /\ DOMAIN new = DOMAIN card /\ new.rows = card.rows /\ new.names = card.names
      /\ new.removed = card.removed /\ new.identifier = card.identifier
  BY DEF WithTime, CardInv, IsCard
<1> HIDE DEF new
<1>2. CardInv(new)
  BY <1>1 DEF CardInv, IsCard, InOrder, SuggestsNames, SuggestsValues
<1> QED BY <1>2 DEF new

\* A new row is last: its number is its place.
LEMMA NewRowInv ==
  ASSUME NEW card, CardInv(card), NEW kind \in Kinds
  PROVE  CardInv(WithNewRow(card, discovery, kind))
<1> DEFINE rows == card.rows[kind]
           row == NewRow(card, discovery, kind)
           more == AppendRow(rows, row)
           new == WithNewRow(card, discovery, kind)
<1>1. IsList(rows)
  BY DEF CardInv, IsCard
<1>2. IsRow(row) /\ row.options = OptionsOf(discovery, card.identifier, kind, row.name)
  <2> DEFINE names == SortedNames(DOMAIN MethodOf(discovery, card.identifier)[kind])
             name == IF names = <<>> THEN "" ELSE names[1]
             blank == RequestedRow(name)
  <2>1. IsRow(blank)
    BY DEF RequestedRow, Row, IsRow
  <2> HIDE DEF blank
  <2>2. row = RefreshRow(blank, discovery, card.identifier, kind)
    BY DEF NewRow, blank
  <2> HIDE DEF row
  <2> QED BY <2>1, <2>2, RefreshedRow
<1>3. /\ DOMAIN new = DOMAIN card /\ new.names = card.names
      /\ new.rows = [card.rows EXCEPT ![kind] = more]
      /\ new.removed = card.removed /\ new.identifier = card.identifier
  BY DEF WithNewRow, CardInv, IsCard
<1> HIDE DEF row, new
<1>4. /\ IsList(more) /\ Len(rows) \in Nat /\ DOMAIN more = 1 .. Len(rows) + 1
      /\ \A i \in 1 .. Len(rows) : more[i] = rows[i]
      /\ more[Len(rows) + 1] = [row EXCEPT !.id = Len(rows) + 1]
  BY <1>1, <1>2, AppendedList
<1> DEFINE last == [row EXCEPT !.id = Len(rows) + 1]
<1>5. last.id = Len(rows) + 1 /\ last.name = row.name /\ last.options = row.options
  BY <1>2, NumberedRow
<1>6. DOMAIN rows = 1 .. Len(rows)
  BY <1>1, ListHasRows
<1>7. \A i \in DOMAIN rows :
        /\ rows[i].options = OptionsOf(discovery, card.identifier, kind, rows[i].name)
        /\ card.removed = FALSE => rows[i].id = i
  BY DEF CardInv, SuggestsValues, InOrder
<1> HIDE DEF last, more, rows
<1>8. ASSUME NEW i \in DOMAIN more
      PROVE  /\ more[i].options = OptionsOf(discovery, card.identifier, kind, more[i].name)
             /\ card.removed = FALSE => more[i].id = i
  <2>1. CASE i = Len(rows) + 1
    BY <1>2, <1>4, <1>5, <2>1 DEF last
  <2>2. CASE i # Len(rows) + 1
    <3>1. i \in 1 .. Len(rows)
      BY <1>4, <2>2
    <3> QED BY <1>4, <1>6, <1>7, <3>1
  <2> QED BY <2>1, <2>2
<1>9. new.removed \in BOOLEAN
  BY <1>3 DEF CardInv
<1>10. Exchanged(card, new, kind, more)
  BY <1>3 DEF Exchanged
<1>11. RowsSuggest(card, kind, more) /\ RowsInOrder(card, new, more)
  BY <1>3, <1>8, <1>9 DEF RowsSuggest, RowsInOrder
<1>12. CardInv(new)
  BY <1>4, <1>10, <1>11, ChangedCard
<1> QED BY <1>12 DEF new

\* A row is removed: unless it was the last, numbers and places part from here on.
LEMMA WithoutRowInv ==
  ASSUME NEW card, CardInv(card), NEW kind \in Kinds, NEW i \in DOMAIN card.rows[kind]
  PROVE  CardInv(WithoutRow(card, kind, i))
<1> DEFINE rows == card.rows[kind]
           fewer == RemoveAt(rows, i)
           new == WithoutRow(card, kind, i)
<1>1. IsList(rows)
  BY DEF CardInv, IsCard
<1>2. /\ DOMAIN new = DOMAIN card /\ new.names = card.names
      /\ new.rows = [card.rows EXCEPT ![kind] = fewer]
      /\ new.removed = (card.removed \/ i < Len(rows)) /\ new.identifier = card.identifier
  BY DEF WithoutRow, CardInv, IsCard
<1>3. /\ IsList(fewer) /\ Len(rows) \in Nat /\ DOMAIN fewer = 1 .. Len(rows) - 1
      /\ \A j \in 1 .. Len(rows) - 1 : fewer[j] = IF j < i THEN rows[j] ELSE rows[j + 1]
  BY <1>1, RemovedList
<1>4. DOMAIN rows = 1 .. Len(rows) /\ i \in DOMAIN rows
  BY <1>1, ListHasRows
<1>5. \A j \in DOMAIN rows :
        /\ rows[j].options = OptionsOf(discovery, card.identifier, kind, rows[j].name)
        /\ card.removed = FALSE => rows[j].id = j
  BY DEF CardInv, SuggestsValues, InOrder
<1> HIDE DEF rows, fewer, new
<1>6. ASSUME NEW j \in DOMAIN fewer
      PROVE  /\ fewer[j].options = OptionsOf(discovery, card.identifier, kind, fewer[j].name)
             /\ new.removed = FALSE => fewer[j].id = j
  <2>1. j \in 1 .. Len(rows) /\ j + 1 \in 1 .. Len(rows)
    BY <1>3, <1>4
  <2>2. fewer[j] = IF j < i THEN rows[j] ELSE rows[j + 1]
    BY <1>3
  <2>3. fewer[j].options = OptionsOf(discovery, card.identifier, kind, fewer[j].name)
    BY <1>4, <1>5, <2>1, <2>2
  <2>4. ASSUME new.removed = FALSE PROVE fewer[j].id = j
    <3>1. card.removed = FALSE /\ ~(i < Len(rows))
      BY <1>2, <2>4 DEF CardInv
    <3>2. j < i
      BY <1>3, <1>4, <3>1
    <3> QED BY <1>4, <1>5, <2>1, <2>2, <3>1, <3>2
  <2> QED BY <2>3, <2>4
<1>7. new.removed \in BOOLEAN
  BY <1>2 DEF CardInv
<1>8. new.removed = FALSE => card.removed = FALSE
  BY <1>2 DEF CardInv
<1>9. Exchanged(card, new, kind, fewer)
  BY <1>2 DEF Exchanged
<1>10. RowsSuggest(card, kind, fewer) /\ RowsInOrder(card, new, fewer)
  BY <1>6, <1>7, <1>8 DEF RowsSuggest, RowsInOrder
<1>11. CardInv(new)
  BY <1>3, <1>9, <1>10, ChangedCard
<1> QED BY <1>11 DEF new

\* The fields of a row: the row keeps its number and suggests for its new name.
LEMMA RowInv ==
  ASSUME NEW card, CardInv(card), NEW kind \in Kinds, NEW i \in DOMAIN card.rows[kind],
         NEW input \in RowInputs
  PROVE  CardInv(WithRow(card, discovery, kind, i, input))
<1> DEFINE rows == card.rows[kind]
           row == [input EXCEPT !.id = rows[i].id]
           drawn == RefreshRow(row, discovery, card.identifier, kind)
           edited == [rows EXCEPT ![i] = drawn]
           new == WithRow(card, discovery, kind, i, input)
<1>1. IsList(rows)
  BY DEF CardInv, IsCard
<1>2. IsRow(row) /\ row.id = rows[i].id
  BY BuilderAssumption, NumberedRow
<1>3. /\ DOMAIN new = DOMAIN card /\ new.names = card.names
      /\ new.rows = [card.rows EXCEPT ![kind] = edited]
      /\ new.removed = card.removed /\ new.identifier = card.identifier
  BY DEF WithRow, CardInv, IsCard
<1> HIDE DEF row, new
<1>4. /\ IsRow(drawn) /\ drawn.id = rows[i].id
      /\ drawn.options = OptionsOf(discovery, card.identifier, kind, drawn.name)
  BY <1>2, RefreshedRow
<1> HIDE DEF drawn
<1>5. /\ IsList(edited) /\ DOMAIN edited = DOMAIN rows /\ edited[i] = drawn
      /\ \A j \in DOMAIN rows : j # i => edited[j] = rows[j]
  BY <1>1, <1>4, ReplacedList
<1>6. \A j \in DOMAIN rows :
        /\ rows[j].options = OptionsOf(discovery, card.identifier, kind, rows[j].name)
        /\ card.removed = FALSE => rows[j].id = j
  BY DEF CardInv, SuggestsValues, InOrder
<1> HIDE DEF rows, edited
<1>7. ASSUME NEW j \in DOMAIN edited
      PROVE  /\ edited[j].options = OptionsOf(discovery, card.identifier, kind, edited[j].name)
             /\ card.removed = FALSE => edited[j].id = j
  <2>1. CASE j = i
    BY <1>4, <1>5, <1>6, <2>1
  <2>2. CASE j # i
    BY <1>5, <1>6, <2>2
  <2> QED BY <2>1, <2>2
<1>8. new.removed \in BOOLEAN
  BY <1>3 DEF CardInv
<1>9. Exchanged(card, new, kind, edited)
  BY <1>3 DEF Exchanged
<1>10. RowsSuggest(card, kind, edited) /\ RowsInOrder(card, new, edited)
  BY <1>3, <1>7, <1>8 DEF RowsSuggest, RowsInOrder
<1>11. CardInv(new)
  BY <1>5, <1>9, <1>10, ChangedCard
<1> QED BY <1>11 DEF new

(***************************************************************************)
(* The cards of the builder.                                               *)
(***************************************************************************)

\* An edit of a card, whichever it is.
LEMMA EditedInv ==
  ASSUME NEW card, CardInv(card), NEW new, EditedCard(card, new)
  PROVE  CardInv(new)
<1>1. ASSUME NEW kind \in Kinds, NEW i \in DOMAIN card.rows[kind],
             \/ new = WithoutRow(card, kind, i)
             \/ \E input \in RowInputs : new = WithRow(card, discovery, kind, i, input)
      PROVE  CardInv(new)
  BY <1>1, WithoutRowInv, RowInv
<1> QED BY <1>1, IdentifierInv, TimeInv, NewRowInv DEF EditedCard

\* A page that was just opened.
LEMMA InitInv == Init => Inv
<1> SUFFICES ASSUME Init PROVE Inv
  OBVIOUS
<1>1. served = None /\ discovery = NoMetadata
  BY DEF Init, Opened
<1>2. ASSUME NEW card \in cards PROVE CardInv(card)
  <2>1. NewCard(card, discovery)
    BY <1>1 DEF Init, Opened
  <2> QED BY <2>1, MadeCard DEF CardInv
<1> QED BY <1>1, <1>2 DEF Inv, MetadataInv

\* ... or opened again.
LEMMA ReopenInv == ASSUME Reopen PROVE Inv'
<1>1. served' = None /\ discovery' = NoMetadata
  BY DEF Reopen, Opened
<1>2. ASSUME NEW card \in cards' PROVE CardInv(card)'
  <2>1. NewCard(card, discovery')
    BY <1>1 DEF Reopen, Opened
  <2> QED BY <2>1, MadeCard DEF CardInv
<1> QED BY <1>1, <1>2 DEF Inv, MetadataInv

\* Cards come and go and are edited: those that are new suggest what the page's
\* metadata gives, the others still do.
LEMMA ChangeInv == ASSUME Inv, Change PROVE Inv'
<1>1. UNCHANGED <<served, discovery>>
  BY DEF Change
<1>2. ASSUME NEW card \in cards' PROVE CardInv(card)
  <2>1. CASE card \in cards
    BY <2>1 DEF Inv
  <2>2. CASE NewCard(card, discovery)
    BY <2>2, MadeCard DEF CardInv
  <2>3. ASSUME NEW old \in cards, EditedCard(old, card) PROVE CardInv(card)
    BY <2>3, EditedInv DEF Inv
  <2> QED BY <2>1, <2>2, <2>3 DEF Change
<1>3. ASSUME NEW card \in cards' PROVE CardInv(card)'
  BY <1>1, <1>2 DEF CardInv
<1> QED BY <1>1, <1>3 DEF Inv, MetadataInv

\* The answer of /discovery reaches every card.
LEMMA AnswerInv == ASSUME Inv, Answer PROVE Inv'
<1>1. ASSUME NEW card \in cards' PROVE CardInv(card)'
  <2>1. PICK old \in cards : card = RefreshFactor(old, discovery')
    BY DEF Answer
  <2>2. IsCard(old) /\ old.removed \in BOOLEAN /\ InOrder(old)
    BY DEF Inv, CardInv
  <2>3. /\ IsCard(card) /\ card.removed = old.removed /\ InOrder(card)
        /\ SuggestsNames(card, discovery') /\ SuggestsValues(card, discovery')
    BY <2>1, <2>2, RefreshedCard
  <2> QED BY <2>2, <2>3 DEF CardInv
<1> QED BY <1>1 DEF Answer, Inv, MetadataInv

\* The field of a row opens the row's own list, as long as numbers are places.
LEMMA OwnList ==
  ASSUME NEW rows, IsList(rows), \A j \in DOMAIN rows : rows[j].id = j, NEW i \in DOMAIN rows
  PROVE  ListOf(rows, i) = rows[i].options
<1>1. DOMAIN rows = 1 .. Len(rows) /\ Len(rows) \in Nat
  BY ListHasRows
<1> DEFINE I == {j \in 1 .. Len(rows) : rows[j].id = rows[i].id}
<1>2. I = {i}
  BY <1>1
<1>3. Min({i}) = i
  BY <1>1 DEF Min
<1>4. SelectInSeq(rows, LAMBDA r : r.id = rows[i].id) = i
  BY <1>2, <1>3 DEF SelectInSeq
<1> QED BY <1>4 DEF ListOf

\* What the invariant says of a card is what it promises.
LEMMA CardFollows ==
  ASSUME MetadataInv, NEW card, CardInv(card)
  PROVE  FollowsMethod(card, Document)
<1>1. ASSUME NEW kind \in Kinds
      PROVE  card.names[kind] = AdvertisedNames(Document, card.identifier, kind)
  BY PageSuggests DEF CardInv, SuggestsNames
<1>2. ASSUME NEW kind \in Kinds, NEW i \in DOMAIN card.rows[kind]
      PROVE  /\ card.rows[kind][i].options
                  = AdvertisedValues(Document, card.identifier, kind, card.rows[kind][i].name)
             /\ ~card.removed => ListOf(card.rows[kind], i) = card.rows[kind][i].options
  <2>1. card.rows[kind][i].options
          = AdvertisedValues(Document, card.identifier, kind, card.rows[kind][i].name)
    <3>1. card.rows[kind][i].options
            = OptionsOf(discovery, card.identifier, kind, card.rows[kind][i].name)
      BY DEF CardInv, SuggestsValues
    <3>2. \A name : OptionsOf(discovery, card.identifier, kind, name)
                     = AdvertisedValues(Document, card.identifier, kind, name)
      BY PageSuggests
    <3> QED BY <3>1, <3>2
  <2>2. ASSUME ~card.removed
        PROVE  ListOf(card.rows[kind], i) = card.rows[kind][i].options
    <3>1. /\ IsList(card.rows[kind])
          /\ \A j \in DOMAIN card.rows[kind] : card.rows[kind][j].id = j
      BY <2>2 DEF CardInv, IsCard, InOrder
    <3> QED BY <3>1, OwnList
  <2> QED BY <2>1, <2>2
<1> QED BY <1>1, <1>2 DEF FollowsMethod

\* The inductive invariant holds in every state of every behaviour.
LEMMA Invariance == Spec => []Inv
<1>1. Inv /\ [Next]_scVars => Inv'
  <2>1. ASSUME Inv, UNCHANGED scVars PROVE Inv'
    BY <2>1 DEF scVars, Inv, MetadataInv, CardInv
  <2> QED BY <2>1, ReopenInv, ChangeInv, AnswerInv DEF Next
<1> QED BY <1>1, InitInv, PTL DEF Spec

\* "Property suggestions now follow the selected method": in whatever order cards
\* are made, edited and refreshed, for any number of cards and any document, each
\* suggests the names the document gives for its method and each row the values
\* it gives for the row's name, in the list its field opens.
THEOREM SuggestionsFollow == Spec => []CardsFollow
<1>1. Inv => CardsFollow
  BY CardFollows DEF Inv, CardsFollow
<1> QED BY <1>1, Invariance, PTL
===============================================================================
