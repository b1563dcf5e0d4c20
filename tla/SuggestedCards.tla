---------------------------- MODULE SuggestedCards ----------------------------
(***************************************************************************)
(* What the visual builder promises about its cards, without the tree they *)
(* stand in, the editor or the JSON: the page has the metadata of at most  *)
(* one discovery document, every card was made for the metadata there was, *)
(* and an answer of /discovery reaches all of them at once.                *)
(***************************************************************************)
EXTENDS BuilderCards

VARIABLES
  served,      \* the discovery document the page has, or None
  discovery,   \* the page's metadata
  cards        \* the cards in the builder

scVars == <<served, discovery, cards>>

\* The list of rows of a card: rows in order.
IsList(rows) == rows \in Seq(ToSet(rows)) /\ \A i \in DOMAIN rows : IsRow(rows[i])

-------------------------------------------------------------------------------

\* A card as addFactor leaves it: made from its own fields and the metadata.
NewCard(card, metadata) ==
  /\ DOMAIN card.rows = Kinds /\ \A kind \in Kinds : IsList(card.rows[kind])
  /\ card = Card(metadata, card.identifier, card.time, card.rows)

\* One edit of a card.
EditedCard(card, new) ==
  \/ \E identifier \in Ids : new = WithIdentifier(card, identifier, discovery)
  \/ \E time \in Times : new = WithTime(card, time)
  \/ \E kind \in Kinds :
       \/ new = WithNewRow(card, discovery, kind)
       \/ \E i \in DOMAIN card.rows[kind] :
            \/ new = WithoutRow(card, kind, i)
            \/ \E input \in RowInputs : new = WithRow(card, discovery, kind, i, input)

\* The page is opened, with new cards and no metadata.
Opened(document, metadata, new) ==
  /\ document = None /\ metadata = NoMetadata
  /\ \A card \in new : NewCard(card, NoMetadata)

Init == Opened(served, discovery, cards)

Reopen == Opened(served', discovery', cards')

\* Cards come, go, and are edited.
Change ==
  /\ \A new \in cards' \ cards :
       NewCard(new, discovery) \/ \E card \in cards : EditedCard(card, new)
  /\ UNCHANGED <<served, discovery>>

\* /discovery answers: every card that is there draws its suggestions again.
Answer ==
  /\ served = None
  /\ \E document \in Documents :
       /\ served' = document
       /\ discovery' = BuilderMetadata(document)
  /\ cards' = {RefreshFactor(card, discovery') : card \in cards}

Next == Reopen \/ Change \/ Answer

Spec == Init /\ [][Next]_scVars

-------------------------------------------------------------------------------
(* Properties *)

Document == IF served = None THEN <<>> ELSE served

\* In whatever order cards are made and edited and /discovery answers, each card
\* suggests what the document says about its method (refreshFactorSuggestions,
\* refreshConstraintSuggestions, builder_discovery_metadata).
CardsFollow == \A card \in cards : FollowsMethod(card, Document)

(* Why: a card has its shape, its lists, and its numbers in order. *)

IsCard(card) ==
  /\ DOMAIN card = {"type", "identifier", "time", "rows", "names", "removed"}
  /\ DOMAIN card.rows = Kinds /\ DOMAIN card.names = Kinds
  /\ \A kind \in Kinds : IsList(card.rows[kind])

SuggestsNames(card, metadata) ==
  \A kind \in Kinds : card.names[kind] = DOMAIN MethodOf(metadata, card.identifier)[kind]

SuggestsValues(card, metadata) ==
  \A kind \in Kinds : \A i \in DOMAIN card.rows[kind] :
    card.rows[kind][i].options =
      OptionsOf(metadata, card.identifier, kind, card.rows[kind][i].name)

InOrder(card) ==
  card.removed = FALSE =>
    \A kind \in Kinds : \A i \in DOMAIN card.rows[kind] : card.rows[kind][i].id = i

CardInv(card) ==
  /\ IsCard(card) /\ card.removed \in BOOLEAN
  /\ SuggestsNames(card, discovery) /\ SuggestsValues(card, discovery)
  /\ InOrder(card)

MetadataInv ==
  \/ served = None /\ discovery = NoMetadata
  \/ served \in Documents /\ discovery = BuilderMetadata(served)

Inv == MetadataInv /\ \A card \in cards : CardInv(card)
===============================================================================
