------------------------------- MODULE Workbench -------------------------------
(***************************************************************************)
(* The request workbench: the page of test-client/templates/home.html in a *)
(* browser, with the visual builder, the JSON editor and the suggestions   *)
(* that /discovery delivers some time after the page is shown, and the     *)
(* answers of test-client/app.py to it.                                    *)
(*                                                                         *)
(* The user edits the builder and the editor in any order; an answer of    *)
(* the provider comes between any two edits, or never.                     *)
(***************************************************************************)
EXTENDS ClaimsBuilder

CONSTANTS
  Texts,       \* what the user may type or paste into the editor
  MaxNodes,    \* bound: nodes the user adds to a list of nodes
  MaxRows,     \* bound: rows of a list
  MaxEvents    \* bound: events after the page was opened

VARIABLES
  served,      \* history: the discovery document the page has, or None
  fetch,       \* loadDiscovery: "loading" or "done"
  discovery,   \* the page's metadata
  root,        \* the builder's nodes
  form,        \* its fields for the whole request
  editor,      \* the editor's text
  loaded,      \* history: the request last loaded, while the builder is as it was left
  events

vars == <<served, fetch, discovery, root, form, editor, loaded, events>>
page == <<served, fetch, discovery>>

Locations == {"id_token", "userinfo"}

\* A text: an object with its claims, or one that JSON or parse_claims refuses.
Object(claims) == [form |-> "object", long |-> FALSE, claims |-> claims]
Forms == {"object", "blank", "malformed", "array"}

\* The JSON of a text, as far as the page looks into it.
IsClaims(claims) ==
  /\ IsObject(claims)
  /\ \A l \in DOMAIN claims \cap Locations :
       /\ claims[l] \notin {null, Other} => IsObject(claims[l])
       /\ claims[l] \notin {null, Other} /\ Own(claims[l], "amr_details") =>
            IsDetails(claims[l].amr_details)
IsText(text) ==
  /\ text = [form |-> text.form, long |-> text.long, claims |-> text.claims]
  /\ text.form \in Forms /\ text.long \in BOOLEAN
  /\ text.form = "object" => IsClaims(text.claims)

\* The words of the presets.
PresetWords == {"otp", "pop", "email", "face", "code", "email_verification_method",
                "pwd_derivation_algorithm"}

ASSUME WorkbenchAssumption ==
  /\ \A text \in Texts : IsText(text)
  /\ \A name \in Ids \cup PresetWords : FilledName(name)
  /\ Own(Numbers, <<"60">>) /\ Numbers[<<"60">>] \in Ages
  /\ \A time \in Times : FilledTime(time)
  /\ \A input \in RowInputs : FilledRow(input)

-------------------------------------------------------------------------------
(* The nodes of the builder, which are elements of the page *)

Paths == DOMAIN root
NodeAt(path) == root[path]
Put(path, node) == [root EXCEPT ![path] = node]
CardPaths == {p \in Paths : NodeAt(p).type = "factor"}
Cards == {NodeAt(p) : p \in CardPaths}

\* The same nodes at other paths: to gives the path of each node that stays.
Moved(tree, to) ==
  [path \in Range(to) |-> tree[CHOOSE p \in DOMAIN to : to[p] = path]]

\* The path of a node at or below place n of the list that path is in.
Nth(path, p) == IF Len(p) >= Len(path) /\ IsPrefix(Front(path), p) THEN p[Len(path)] ELSE 0
Renumber(path, p, n) == [p EXCEPT ![Len(path)] = n]

RefreshShallow(metadata) ==
  [p \in Paths |-> IF Len(p) = 1 /\ NodeAt(p).type = "factor"
                      THEN RefreshFactor(NodeAt(p), metadata) ELSE NodeAt(p)]
RefreshAll(metadata) ==
  [p \in Paths |-> IF NodeAt(p).type = "factor"
                      THEN RefreshFactor(NodeAt(p), metadata) ELSE NodeAt(p)]

-------------------------------------------------------------------------------
(* Presets: one of each shape *)

Time(essential, max_age) == [requested |-> TRUE, essential |-> essential, max_age |-> max_age]
PresetNames == {"informational", "essential-password", "fresh-password",
                "password-or-otp", "nested-methods", "email-property", "unsupported"}

PresetNodes(name, metadata) ==
  LET Factor(id) == Card(metadata, id, Time(TRUE, NoText), NoRows)
      FactorWith(id, row) ==
        Card(metadata, id, Time(TRUE, NoText), [NoRows EXCEPT !["properties"] = <<row>>])
  IN CASE name = "informational" -> Flat(<<>>)
       [] name = "essential-password" ->
            Flat(<<FactorWith("pwd", RequestedRow("pwd_derivation_algorithm"))>>)
       [] name = "fresh-password" -> Flat(<<Card(metadata, "pwd", Time(TRUE, <<"60">>), NoRows)>>)
       [] name = "password-or-otp" -> Flat(<<Factor("pwd"), Factor("otp")>>)
       [] name = "nested-methods" ->
            Graft(Flat(<<GroupNode("all_of"), Factor("pop")>>), <<1>>,
                  Flat(<<Factor("pwd"), Factor("otp")>>))
       [] name = "email-property" ->
            Flat(<<FactorWith("email", Row("email_verification_method", "value", <<"code">>,
                                           NoText, NoText, TRUE))>>)
       [] name = "unsupported" ->
            Flat(<<Card(metadata, "face", [Time(FALSE, NoText) EXCEPT !.requested = FALSE],
                        NoRows)>>)

PresetForm(name) ==
  [essential |-> name # "informational",
   operator |-> IF name \in {"password-or-otp", "nested-methods"} THEN "one_of" ELSE "all_of",
   deliveries |-> Locations]

\* loadPreset, which ends with applyBuilder.
ShowPreset(name, metadata) ==
  /\ root' = PresetNodes(name, metadata)
  /\ form' = PresetForm(name)
  /\ editor' = Object(BuildClaims(root', form'))
  /\ loaded' = None

-------------------------------------------------------------------------------
(* The page and the test client *)

\* home_response and the end of the script: whatever text the page was given for
\* the editor, the first preset is written over it.
OpenedPage ==
  /\ served' = None /\ fetch' = "loading" /\ discovery' = NoMetadata
  /\ ShowPreset("essential-password", NoMetadata)
  /\ events' = 0

Init ==
  /\ served = None /\ fetch = "loading" /\ discovery = NoMetadata
  /\ root = PresetNodes("essential-password", NoMetadata)
  /\ form = PresetForm("essential-password")
  /\ editor = Object(BuildClaims(root, form))
  /\ loaded = None /\ events = 0

\* parse_claims: the text is accepted.
ParseClaims(text) == text.form = "object" /\ ~text.long

\* /preview or /login with a text that is accepted leaves the page; with another,
\* the page is shown again.
SubmitRejected == ~ParseClaims(editor) /\ OpenedPage

\* loadDiscovery, when /discovery has answered.
DiscoveryAnswers ==
  /\ fetch = "loading" /\ fetch' = "done"
  /\ \E document \in Documents :
       /\ served' = document
       /\ discovery' = BuilderMetadata(document)
  /\ root' = RefreshAll(discovery')
  /\ UNCHANGED <<form, editor, loaded>>

\* 502 when the issuer's document can't be had, 500 when it is not an object.
DiscoveryUnavailable ==
  /\ fetch = "loading" /\ fetch' = "done"
  /\ UNCHANGED <<served, discovery, root, form, editor, loaded>>

LoadPreset ==
  /\ \E name \in PresetNames : ShowPreset(name, discovery)
  /\ UNCHANGED page

-------------------------------------------------------------------------------
(* Editor and builder *)

Type ==
  /\ \E text \in Texts : editor' = text
  /\ UNCHANGED <<page, root, form, loaded>>

ApplyBuilder ==
  /\ BuildOK(root, form)
  /\ editor' = Object(BuildClaims(root, form))
  /\ UNCHANGED <<page, root, form, loaded>>

RequestedIn(claims) ==
  {l \in Locations : Own(claims, l) /\ claims[l] \notin {null, Other} /\ Own(claims[l], "amr_details")}
DetailsOf(claims) ==
  claims[IF "id_token" \in RequestedIn(claims) THEN "id_token" ELSE "userinfo"].amr_details
HasExpression(details) ==
  details # null /\ \E key \in Operators \cup {"amr_identifier"} : Own(details[<<>>], key)
Convertible(details) ==
  details # Other /\ (HasExpression(details) => ExpressionOK(details))

Loadable == editor.form = "object" /\ RequestedIn(editor.claims) # {}

NodesOf(details, metadata) ==
  IF HasExpression(details) THEN Graft(<<>>, <<1>>, ExpressionModel(details, metadata))
  ELSE <<>>
FormOf(claims) ==
  [form EXCEPT !.essential = DetailsOf(claims) # null /\ IsTrue(DetailsOf(claims)[<<>>], "essential"),
               !.deliveries = RequestedIn(claims)]

LoadJson ==
  /\ Loadable /\ Convertible(DetailsOf(editor.claims))
  /\ root' = NodesOf(DetailsOf(editor.claims), discovery)
  /\ form' = FormOf(editor.claims)
  /\ loaded' = editor.claims
  /\ UNCHANGED <<page, editor>>

\* The builder was cleared before the conversion failed.
LoadJsonFails ==
  /\ Loadable /\ ~Convertible(DetailsOf(editor.claims))
  /\ root' = <<>> /\ loaded' = None
  /\ UNCHANGED <<page, form, editor>>

-------------------------------------------------------------------------------
(* Edits of the builder *)

Edit(nodes) == root' = nodes /\ loaded' = None /\ UNCHANGED <<page, form, editor>>

NewNodes ==
  {Leaf(DefaultCard(discovery))} \cup {NewGroup(discovery, op) : op \in Operators}

\* At the end of the list at the top, or of a group.
AddNode ==
  \E nodes \in NewNodes, n \in 1 .. MaxNodes,
     parent \in {<<>>} \cup {p \in Paths : NodeAt(p).type = "group"} :
    /\ \A i \in 1 .. n : Append(parent, i) \in Paths <=> i < n
    /\ Edit(Graft(root, Append(parent, n), nodes))

\* What comes after it in its list moves up.
RemoveNode ==
  \E path \in Paths :
    LET To(p) == IF Nth(path, p) > Last(path) THEN Renumber(path, p, Nth(path, p) - 1) ELSE p
        kept == {p \in Paths : ~IsPrefix(path, p)}
    IN  Edit(Moved(root, [p \in kept |-> To(p)]))

MoveUp ==
  \E path \in Paths :
    LET i == Last(path)
        To(p) == CASE Nth(path, p) = i -> Renumber(path, p, i - 1)
                   [] Nth(path, p) = i - 1 -> Renumber(path, p, i)
                   [] OTHER -> p
    IN  i > 1 /\ Edit(Moved(root, [p \in Paths |-> To(p)]))

SetOperator ==
  \E p \in Paths, op \in Operators :
    NodeAt(p).type = "group" /\ Edit(Put(p, [NodeAt(p) EXCEPT !.operator = op]))

SetIdentifier ==
  \E p \in CardPaths : \E id \in Ids :
    Edit(Put(p, WithIdentifier(NodeAt(p), id, discovery)))

SetTime ==
  \E p \in CardPaths : \E time \in Times : Edit(Put(p, WithTime(NodeAt(p), time)))

AddRow ==
  \E p \in CardPaths : \E kind \in Kinds :
    /\ Len(NodeAt(p).rows[kind]) < MaxRows
    /\ Edit(Put(p, WithNewRow(NodeAt(p), discovery, kind)))

RemoveRow ==
  \E p \in CardPaths : \E kind \in Kinds : \E i \in DOMAIN NodeAt(p).rows[kind] :
    Edit(Put(p, WithoutRow(NodeAt(p), kind, i)))

SetRow ==
  \E p \in CardPaths : \E kind \in Kinds : \E i \in DOMAIN NodeAt(p).rows[kind] :
    \E input \in RowInputs : Edit(Put(p, WithRow(NodeAt(p), discovery, kind, i, input)))

SetForm ==
  /\ \/ form' = [form EXCEPT !.essential = ~@]
     \/ \E op \in Operators \ {form.operator} : form' = [form EXCEPT !.operator = op]
     \/ \E l \in Locations :
          form' = [form EXCEPT !.deliveries = IF l \in @ THEN @ \ {l} ELSE @ \cup {l}]
  /\ loaded' = None
  /\ UNCHANGED <<page, root, editor>>

Event ==
  /\ events < MaxEvents /\ events' = events + 1
  /\ \/ DiscoveryAnswers \/ DiscoveryUnavailable
     \/ LoadPreset \/ Type \/ ApplyBuilder \/ LoadJson \/ LoadJsonFails
     \/ AddNode \/ RemoveNode \/ MoveUp \/ SetOperator
     \/ SetIdentifier \/ SetTime \/ AddRow \/ RemoveRow \/ SetRow \/ SetForm

Next == OpenedPage \/ SubmitRejected \/ Event

Spec == Init /\ [][Next]_vars

-------------------------------------------------------------------------------
(* Which requests the builder can show *)

\* One projection for every location, of the builder's shapes, and nothing else.
Expressible(claims) ==
  /\ Only(claims, Locations) /\ ~Empty(claims)
  /\ \A l \in DOMAIN claims : /\ claims[l] \notin {null, Other}
                              /\ DOMAIN claims[l] = {"amr_details"}
                              /\ \A k \in DOMAIN claims : claims[k] = claims[l]
                              /\ PlainDetails(claims[l].amr_details)

-------------------------------------------------------------------------------
(* Properties *)

\* Types: the builder's nodes are numbered without gaps, its cards and the editor have
\* what their fields can hold, rows are numbered from 1, and a page without an answer
\* has no metadata.
TypeOK ==
  /\ fetch \in {"loading", "done"}
  /\ served = None => discovery = NoMetadata
  /\ form.essential \in BOOLEAN /\ form.operator \in Operators
  /\ form.deliveries \subseteq Locations
  /\ IsText(editor)
  /\ IsForest(root)
  /\ \A card \in Cards : /\ Filled(card)
                         /\ \A kind \in Kinds : \A i \in DOMAIN card.rows[kind] :
                              card.rows[kind][i].id \in Nat \ {0}

\* The builder holds what was loaded: until it is edited, and whether or not the
\* suggestions arrive meanwhile, "Apply builder to JSON" writes the request that
\* "Load JSON into builder" read exactly when its fields can show every value of the
\* request.  Of others, such as a bound that is no number, an identifier that is no
\* string or a string that is itself JSON, it writes something else, or nothing
\* (loadJson, applyBuilder).
LoadedIsShown ==
  loaded # None =>
    (BuildOK(root, form) /\ BuildClaims(root, form) = loaded <=> Expressible(loaded))

\* What the builder writes can be loaded, and is then written again as it was: no
\* setting that reaches the JSON is lost on the way back (buildClaims, loadJson).
\* The exception is a string in quotes that is blank, has blanks at its ends or is
\* itself JSON: the field shows it without the quotes (valueForInput, parseScalar).
AppliedLoadsBack ==
  LET claims == BuildClaims(root, form)
      details == DetailsOf(claims)
      nodes == NodesOf(details, discovery)
  IN  BuildOK(root, form)
        /\ (\A card \in Cards, kind \in Kinds : \A i \in DOMAIN card.rows[kind] :
              ~Requoted(card.rows[kind][i]))
      => /\ ParseClaims(Object(claims))
         /\ Convertible(details)
         /\ BuildOK(nodes, FormOf(claims)) /\ BuildClaims(nodes, FormOf(claims)) = claims

\* "Property suggestions now follow the selected method": whatever the order of
\* edits, loads and the answer of /discovery, a card suggests the names that the
\* issuer's document gives for its method, and each field the values it gives for
\* the field's name (builder_discovery_metadata, refreshFactorSuggestions).
SuggestionsFollowMethod ==
  \A card \in Cards : FollowsMethod(card, IF served = None THEN <<>> ELSE served)

(* The promise of SuggestedCards, under a refinement mapping *)

SC == INSTANCE SuggestedCards WITH cards <- Cards

\* Wherever the tree, the presets and the editor put them, cards are only made,
\* edited and refreshed as SuggestedCards says, and none is left out of an answer.
ImplementsSuggestedCards == SC!Spec
===============================================================================
