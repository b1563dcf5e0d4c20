--------------------------- MODULE DiscoveryMetadata ---------------------------
(***************************************************************************)
(* What test-client/app.py makes of the issuer's discovery document for    *)
(* the visual builder.                                                     *)
(*                                                                         *)
(* A document is a function from the names of its members to JSON values.  *)
(* Member names are composed: <<"pwd", "properties">> stands for           *)
(* pwd_properties_supported.  Any value may have the wrong type: a list is *)
(* a sequence, its strings are members of Names, and Other is a JSON value *)
(* that is neither.                                                        *)
(***************************************************************************)
EXTENDS Integers, Sequences, SequencesExt

CONSTANTS
  NameOrder,  \* the strings that occur, in the order Python sorts them
  Other,      \* a value that is neither a list nor a string
  None,       \* no document
  Documents   \* documents the issuer may serve

Names == ToSet(NameOrder)

IsDocument(document) ==
  \A m \in DOMAIN document :
    document[m] = Other \/ document[m] \in Seq(Names \cup {Other})

ASSUME DiscoveryAssumption ==
  /\ NameOrder \in Seq(Names)
  /\ Other \notin Names
  /\ None \notin Documents
  /\ \A document \in Documents : IsDocument(document)

Identifiers == <<"amr", "identifiers">>
MemberOf(name, kind) == <<name, kind>>
Kinds == {"properties", "metadata"}

-------------------------------------------------------------------------------
(* builder_discovery_metadata *)

\* document.get(name, []), and [] again unless it is a list.
ListAt(document, name) ==
  IF name \in DOMAIN document /\ document[name] # Other THEN document[name] ELSE <<>>

\* The elements a loop of the function does not skip.
AllElements(list) == ToSet(list)
Strings(list) == ToSet(list) \ {Other}

ValuesFor(document, name) == [values |-> ListAt(document, MemberOf(name, "values"))]

MethodMetadata(document, identifier) ==
  [kind \in Kinds |->
    [name \in Strings(ListAt(document, MemberOf(identifier, kind))) |->
       ValuesFor(document, name)]]

SortedNames(names) ==
  LET n == Len(NameOrder)
      First[i \in 0 .. n] ==
        IF i = 0 THEN <<>>
        ELSE IF NameOrder[i] \in names THEN Append(First[i - 1], NameOrder[i])
        ELSE First[i - 1]
  IN  First[n]

BuilderMetadata(document) ==
  LET identifiers == Strings(ListAt(document, Identifiers)) IN
  [identifiers |-> SortedNames(identifiers),
   methods |-> [i \in identifiers |-> MethodMetadata(document, i)]]

\* discovery as the page has it before an answer, or without one.
NoMetadata == [identifiers |-> <<>>, methods |-> <<>>]

-------------------------------------------------------------------------------
(* Reference: what a document says, one member at a time *)

Lists(document, member, x) ==
  /\ member \in DOMAIN document
  /\ document[member] # Other
  /\ x \in ToSet(document[member])

\* The names a document gives for a method, and the values for a name.
AdvertisedNames(document, i, kind) ==
  {n \in Names : /\ i \in Names /\ Lists(document, Identifiers, i)
                 /\ Lists(document, MemberOf(i, kind), n)}
AdvertisedValues(document, i, kind, n) ==
  {v \in Names \cup {Other} : /\ n \in AdvertisedNames(document, i, kind)
                              /\ Lists(document, MemberOf(n, "values"), v)}
===============================================================================
