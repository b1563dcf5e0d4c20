------------------------------- MODULE CardClaims -------------------------------
(***************************************************************************)
(* The two representations of a request for one authentication method in   *)
(* test-client/templates/home.html, and the conversions between them: a    *)
(* card of the builder, with input fields, and an expression in JSON.      *)
(*                                                                         *)
(* A JSON object is a function from member names to values; null and Other *)
(* (a value no code here looks into) are model values.  A scalar is a      *)
(* value that a field can show: a string, or any other by the text that    *)
(* JSON.stringify writes of it.  A text is a sequence of words between     *)
(* commas; blanks next to a comma are of no account, and names have no     *)
(* comma.  A field is known by what trim leaves of it, as every use trims  *)
(* it.  Where a conversion of the script throws, there is a predicate of   *)
(* the name with OK that says when it does not.                            *)
(***************************************************************************)
EXTENDS BuilderCards

CONSTANTS
  Trimmed,   \* from a word with blanks at its ends or line breaks to what is left of it
  Json,      \* from each text that is JSON to the scalar that JSON.parse makes of it
  Numbers,   \* from each text that a number field accepts to its Number
  Ages       \* the numbers that are integers and not negative

IsSequence(value) == value \in Seq(ToSet(value))
IsWords(text) == IsSequence(text) /\ text # <<>>

\* What a text field and trim leave of a word, and of a text.
TrimWord(word) == IF Own(Trimmed, word) THEN Trimmed[word] ELSE word
Trim(text) == [i \in DOMAIN text |-> TrimWord(text[i])]

\* A scalar: text is what valueForInput makes of it, string what String does.
String(text) == [type |-> "string", text |-> text, string |-> text]
Null == [type |-> "null", text |-> <<"null">>, string |-> <<"null">>]
IsScalar(scalar) ==
  /\ scalar = [type |-> scalar.type, text |-> scalar.text, string |-> scalar.string]
  /\ IsWords(scalar.text)
  /\ IF scalar.type = "string" THEN scalar.string = scalar.text
     ELSE Own(Json, scalar.text) /\ Json[scalar.text] = scalar

\* A string in quotes is shorter than with them; that an escape may stand for a comma
\* is left out.  A number is written as JSON and a number field read it.
ASSUME ScalarsAssumption ==
  /\ null # Other /\ null \notin {<<>>, [time |-> null]}
  /\ DOMAIN Trimmed \cap (Names \cup {"", "pwd", "time"}) = {}
  /\ \A word \in DOMAIN Trimmed : Trimmed[word] \notin DOMAIN Trimmed
  /\ \A text \in DOMAIN Json :
       /\ IsWords(text) /\ text # NoText /\ Trim(text) = text
       /\ IsScalar(Json[text])
       /\ Json[text].type = "string" => Trim(Json[text].text) # text
       /\ Len(text) = 1 => Len(Json[text].text) = 1
  /\ IsScalar(Null)
  /\ \A text \in DOMAIN Numbers :
       LET number == Numbers[text] IN
       /\ text \notin {NoText, Null.string}
       /\ IsScalar(number) /\ number.type # "string" /\ number.string = number.text
       /\ Own(Numbers, number.text) /\ Numbers[number.text] = number
  /\ Ages \subseteq Range(Numbers)

Empty(object) == DOMAIN object = {}
\* A member of an object if it is given, and objects put together, as @@ does.
Member(key, value, given) == [k \in IF given THEN {key} ELSE {} |-> value]
a ++ b == [k \in DOMAIN a \cup DOMAIN b |-> IF k \in DOMAIN a THEN a[k] ELSE b[k]]
IsTrue(object, key) == Own(object, key) /\ object[key] = TRUE

-------------------------------------------------------------------------------
(* From a card to JSON: factorExpression *)

\* parseScalar of a text that is not blank: JSON, or the text itself.
ParseScalar(text) == IF Own(Json, text) THEN Json[text] ELSE String(text)

\* split, and filter(Boolean)
Words(text) == FlattenSeq([i \in DOMAIN text |-> IF text[i] = "" THEN <<>> ELSE <<text[i]>>])

ConstraintOK(row) ==
  CASE row.mode = "value" -> row.value # NoText
    [] row.mode = "values" -> Words(row.value) # <<>>
    [] row.mode = "range" -> row.min # NoText \/ row.max # NoText
    [] OTHER -> TRUE

\* The members that the mode asks for, and essential.
ValueMembers(row) ==
  LET words == Words(row.value)
      Bound(key) == Member(key, Numbers[row[key]], row.mode = "range" /\ row[key] # NoText)
  IN  Member("value", ParseScalar(row.value), row.mode = "value")
        ++ Member("values", [i \in DOMAIN words |-> ParseScalar(<<words[i]>>)],
                  row.mode = "values")
        ++ Bound("min") ++ Bound("max")
ConstraintValue(row) ==
  IF row.mode = "requested" THEN null
  ELSE Member("essential", TRUE, row.essential) ++ ValueMembers(row)

\* Of two rows of one name the later is written.
RowMembers(rows) ==
  [n \in {rows[i].name : i \in DOMAIN rows} |->
     ConstraintValue(rows[SelectLastInSeq(rows, LAMBDA r : r.name = n)])]

FactorOK(card) ==
  /\ card.identifier # ""
  /\ card.time.max_age # NoText => Numbers[card.time.max_age] \in Ages
  /\ \A kind \in Kinds : \A i \in DOMAIN card.rows[kind] :
       LET row == card.rows[kind][i] IN
       /\ row.name # "" /\ ~(kind = "metadata" /\ row.name = "time")
       /\ ConstraintOK(row)

\* What is written of a time section that is requested.
TimeValue(time) ==
  LET members == Member("essential", TRUE, time.essential)
                   ++ Member("max_age", Numbers[time.max_age], time.max_age # NoText)
  IN  IF Empty(members) THEN null ELSE members

MetadataMembers(card) ==
  RowMembers(card.rows["metadata"])
    ++ Member("time", TimeValue(card.time),
              card.time.requested \/ card.time.max_age # NoText)

FactorExpression(card) ==
  LET metadata == MetadataMembers(card)
      properties == RowMembers(card.rows["properties"])
  IN  [amr_identifier |-> [value |-> String(<<card.identifier>>)]]
        ++ Member("amr_metadata", metadata, ~Empty(metadata))
        ++ Member("amr_properties", properties, ~Empty(properties))

-------------------------------------------------------------------------------
(* From JSON to a card: factorModel *)

PropertyOK(constraint) ==
  constraint # null =>
    /\ constraint # Other
    /\ Own(constraint, "values") /\ ~Own(constraint, "value") => constraint.values # Other

\* values.map(valueForInput).join
Join(values) ==
  IF values = <<>> THEN NoText
  ELSE FlattenSeq([i \in DOMAIN values |-> values[i].text])

\* What a number field shows of a value: nothing, unless String makes a number of it.
NumberField(object, key) ==
  IF Own(object, key) /\ Own(Numbers, object[key].string) THEN object[key].string ELSE NoText

PropertyModel(name, constraint) ==
  LET essential == IsTrue(constraint, "essential")
      RowOf(mode, value, min, max) == Row(TrimWord(name), mode, Trim(value), min, max, essential)
  IN  IF constraint = null THEN RequestedRow(TrimWord(name))
      ELSE IF Own(constraint, "value")
        THEN RowOf("value", constraint.value.text, NoText, NoText)
      ELSE IF Own(constraint, "values")
        THEN RowOf("values", Join(constraint.values), NoText, NoText)
      ELSE IF Own(constraint, "min") \/ Own(constraint, "max")
        THEN RowOf("range", NoText, NumberField(constraint, "min"),
                                    NumberField(constraint, "max"))
      ELSE RowOf("presence", NoText, NoText, NoText)

\* expression.amr_metadata || {}, and Object.entries of it, in some order.
ObjectAt(expression, key) ==
  IF Own(expression, key) /\ expression[key] # null THEN expression[key] ELSE <<>>
RowModels(object, names) ==
  LET entries == SetToSeq(names) IN
  [i \in DOMAIN entries |-> PropertyModel(entries[i], object[entries[i]])]

FactorModelOK(expression) ==
  LET metadata == ObjectAt(expression, "amr_metadata")
      properties == ObjectAt(expression, "amr_properties")
  IN  /\ Own(expression, "amr_identifier") /\ Own(expression.amr_identifier, "value")
      /\ \A n \in DOMAIN metadata \ {"time"} : PropertyOK(metadata[n])
      /\ \A n \in DOMAIN properties : PropertyOK(properties[n])

\* The time section: a null time is requested, without constraint.
PresentTime(expression) ==
  LET time == ObjectAt(ObjectAt(expression, "amr_metadata"), "time") IN
  [requested |-> ~Empty(time), essential |-> IsTrue(time, "essential"),
   max_age |-> NumberField(time, "max_age")]
TimeModel(expression) ==
  [PresentTime(expression) EXCEPT !.requested =
     \/ Own(ObjectAt(expression, "amr_metadata"), "time")
     \/ Own(expression, "amr_metadata") /\ expression.amr_metadata = null]

\* A null identifier counts as none, and any other becomes a text.
FactorModel(expression, page_metadata) ==
  LET identifier == expression.amr_identifier.value
      metadata == ObjectAt(expression, "amr_metadata")
      properties == ObjectAt(expression, "amr_properties")
  IN  Card(page_metadata,
           IF identifier = Null THEN DefaultIdentifier(page_metadata)
                                ELSE TrimWord(identifier.string[1]),
           TimeModel(expression),
           [kind \in Kinds |-> IF kind = "metadata"
              THEN RowModels(metadata, DOMAIN metadata \ {"time"})
              ELSE RowModels(properties, DOMAIN properties)])

-------------------------------------------------------------------------------
(* The JSON that the conversions are given *)

IsObject(object) == object = [key \in DOMAIN object |-> object[key]]
IsConstraint(constraint) ==
  \/ constraint \in {null, Other}
  \/ /\ IsObject(constraint)
     /\ Own(constraint, "essential") => constraint.essential \in BOOLEAN
     /\ \A key \in {"value", "min", "max"} : Own(constraint, key) => IsScalar(constraint[key])
     /\ Own(constraint, "values") =>
          \/ constraint.values = Other
          \/ /\ IsSequence(constraint.values)
             /\ \A i \in DOMAIN constraint.values : IsScalar(constraint.values[i])

IsTime(time) ==
  \/ time = null
  \/ /\ IsObject(time)
     /\ Own(time, "essential") => time.essential \in BOOLEAN
     /\ Own(time, "max_age") => IsScalar(time.max_age)

IsEntries(object) ==
  \/ object = null
  \/ IsObject(object) /\ IsFiniteSet(DOMAIN object)

IsFactor(expression) ==
  /\ IsObject(expression)
  /\ Own(expression, "amr_identifier") =>
       /\ IsObject(expression.amr_identifier)
       /\ Own(expression.amr_identifier, "value") =>
            LET identifier == expression.amr_identifier.value IN
            IsScalar(identifier) /\ Len(identifier.string) = 1
  /\ Own(expression, "amr_metadata") =>
       /\ IsEntries(expression.amr_metadata)
       /\ LET metadata == ObjectAt(expression, "amr_metadata") IN
          \A n \in DOMAIN metadata :
            IF n = "time" THEN IsTime(metadata[n]) ELSE IsConstraint(metadata[n])
  /\ Own(expression, "amr_properties") =>
       /\ IsEntries(expression.amr_properties)
       /\ LET properties == ObjectAt(expression, "amr_properties") IN
          \A n \in DOMAIN properties : IsConstraint(properties[n])

\* What the fields of a card can hold.
FilledName(name) == ~Own(Trimmed, name)
FilledNumber(text) == text = NoText \/ Own(Numbers, text)
FilledRow(row) ==
  /\ FilledName(row.name) /\ row.essential \in BOOLEAN
  /\ IsWords(row.value) /\ Trim(row.value) = row.value
  /\ FilledNumber(row.min) /\ FilledNumber(row.max)
FilledTime(time) ==
  time.requested \in BOOLEAN /\ time.essential \in BOOLEAN /\ FilledNumber(time.max_age)
Filled(card) ==
  /\ FilledName(card.identifier) /\ FilledTime(card.time)
  /\ \A kind \in Kinds : /\ IsSequence(card.rows[kind])
                         /\ \A i \in DOMAIN card.rows[kind] : FilledRow(card.rows[kind][i])

-------------------------------------------------------------------------------
(* The JSON that a card can show *)

Only(object, keys) == DOMAIN object \subseteq keys
Written(object, key) == Own(object, key) => object[key] = TRUE

\* A scalar that a text field and parseScalar give back: not a string that is blank,
\* has blanks at its ends, or is itself JSON.
Plain(scalar) ==
  scalar.type = "string" =>
    /\ scalar.text # NoText /\ Trim(scalar.text) = scalar.text
    /\ ~Own(Json, scalar.text)

PlainConstraint(constraint) ==
  \/ constraint = null
  \/ /\ constraint # Other
     /\ Written(constraint, "essential")
     /\ \/ /\ Only(constraint, {"essential", "min", "max"})
           /\ \A key \in {"min", "max"} :
                Own(constraint, key) => constraint[key] \in Range(Numbers)
        \/ /\ Only(constraint, {"essential", "value"})
           /\ Plain(constraint.value)
        \/ /\ Only(constraint, {"essential", "values"})
           /\ constraint.values # Other /\ constraint.values # <<>>
           /\ \A i \in DOMAIN constraint.values :
                Plain(constraint.values[i]) /\ Len(constraint.values[i].text) = 1

PlainTime(time) ==
  \/ time = null
  \/ /\ ~Empty(time) /\ Only(time, {"essential", "max_age"})
     /\ Written(time, "essential")
     /\ Own(time, "max_age") => time.max_age \in Ages

\* apart: members that are no constraints.
PlainObject(object, apart) ==
  /\ object # null /\ ~Empty(object)
  /\ \A n \in DOMAIN object : n # "" /\ ~Own(Trimmed, n)
  /\ \A n \in DOMAIN object \ apart : PlainConstraint(object[n])

PlainIdentifier(identifier) ==
  identifier.type = "string" /\ identifier.text # NoText /\ ~Own(Trimmed, identifier.text[1])

PlainFactor(expression) ==
  /\ Only(expression, {"amr_identifier", "amr_metadata", "amr_properties"})
  /\ Own(expression, "amr_identifier")
  /\ Only(expression.amr_identifier, {"value"}) /\ Own(expression.amr_identifier, "value")
  /\ PlainIdentifier(expression.amr_identifier.value)
  /\ Own(expression, "amr_metadata") =>
       /\ PlainObject(expression.amr_metadata, {"time"})
       /\ Own(expression.amr_metadata, "time") => PlainTime(expression.amr_metadata.time)
  /\ Own(expression, "amr_properties") => PlainObject(expression.amr_properties, {})

\* What parseScalar is given of a row; of it, strings in quotes that mean something
\* else without them.
ScalarTexts(row) ==
  CASE row.mode = "value" -> {row.value}
    [] row.mode = "values" -> {<<word>> : word \in ToSet(Words(row.value))}
    [] OTHER -> {}
Requoted(row) == \E text \in ScalarTexts(row) : ~Plain(ParseScalar(text))
===============================================================================
