------------------------------ MODULE MCWorkbench ------------------------------
(***************************************************************************)
(* An instance of Workbench for TLC: documents, requests and inputs of     *)
(* every kind the conversions tell apart.                                  *)
(***************************************************************************)
EXTENDS Workbench

Names0 == <<"amr", "argon2id", "code", "email", "email_verification_method", "face",
            "location", "otp", "pop", "pwd", "pwd_derivation_algorithm", "time">>

\* Words with blanks at their ends; JSON that is no string, with what String makes of
\* it; strings in quotes; and what a number field accepts.
Trimmed0 == (" code" :> "code") @@ (" pwd" :> "pwd") @@ ("  " :> "")
Value(text, string) == [type |-> "value", text |-> text, string |-> string]
Same(text) == Value(text, text)
Five == Same(<<"5">>)
Pair == Same(<<"[1", "2]">>)
List == Value(<<"[5]">>, <<"5">>)
Values0 == {Null, Five, Pair, List, Same(<<"0">>), Same(<<"60">>), Same(<<"-1">>),
            Same(<<"1.5">>)}
Quoted0 ==
  (<<"'5'">> :> <<"5">>) @@ (<<"''">> :> NoText) @@ (<<"'a", "b'">> :> <<"a", "b">>)
    @@ (<<"'[1", "2]'">> :> <<"[1", "2]">>) @@ (<<"''5''">> :> <<"'5'">>)
Json0 ==
  [text \in {v.text : v \in Values0} |-> CHOOSE v \in Values0 : v.text = text]
    @@ [text \in DOMAIN Quoted0 |-> String(Quoted0[text])] @@ (<<"5.0">> :> Five)
Numbers0 ==
  [text \in {<<"5">>, <<"0">>, <<"60">>, <<"-1">>, <<"1.5">>} |-> Json0[text]]
    @@ (<<"05">> :> Five)
Ages0 == {Numbers0[text] : text \in {<<"5">>, <<"0">>, <<"60">>}}

-------------------------------------------------------------------------------
Full ==
  Identifiers :> <<"pwd", "email">>
    @@ MemberOf("pwd", "properties") :> <<"pwd_derivation_algorithm">>
    @@ MemberOf("pwd", "metadata") :> <<"time", "location">>
    @@ MemberOf("email", "properties") :> <<"email_verification_method">>
    @@ MemberOf("pwd_derivation_algorithm", "values") :> <<"argon2id">>
    @@ MemberOf("email_verification_method", "values") :> <<"code", "argon2id">>
Partial ==
  Identifiers :> <<Other, "otp", "pwd", "pwd">>
    @@ MemberOf("pwd", "properties") :> <<"pwd_derivation_algorithm", Other, "code">>
    @@ MemberOf("pwd", "metadata") :> Other
    @@ MemberOf("face", "properties") :> <<"code">>
    @@ MemberOf("code", "values") :> <<Other, "code">>
    @@ MemberOf("pwd_derivation_algorithm", "values") :> Other
NoList == Identifiers :> Other @@ MemberOf("pwd", "properties") :> <<"code">>

DocumentSet == {Full, Partial, NoList}

-------------------------------------------------------------------------------
Word == String(<<"argon2id">>)
Zero == Same(<<"0">>)

MethodOfValue(value) == [amr_identifier |-> [value |-> value]]
Method(id) == MethodOfValue(String(<<id>>))
WithMetadata(m) == Method("pwd") @@ [amr_metadata |-> m]
WithProperty(c) == Method("pwd") @@ [amr_properties |-> [pwd_derivation_algorithm |-> c]]

\* What comes back, some at a time, and what does not, each by itself.
Kept ==
  { ("code" :> null) @@ ("time" :> [essential |-> TRUE])
      @@ ("otp" :> [essential |-> TRUE, values |-> <<Word, Five>>]) @@ ("pwd" :> [value |-> Null]),
    ("code" :> [min |-> Zero, max |-> Five]) @@ ("otp" :> [essential |-> TRUE, min |-> Zero])
      @@ ("pop" :> <<>>) @@ ("pwd" :> [value |-> String(<<"argon2id", "code">>)]),
    ("code" :> [value |-> Five]) @@ ("otp" :> [value |-> Pair])
      @@ ("pop" :> [value |-> List]) @@ ("pwd" :> [values |-> <<List>>]) }
Changed ==
  { Other, [essential |-> FALSE], [values |-> <<>>], [values |-> Other],
    [value |-> Word, values |-> <<Word>>], [values |-> <<Word, String(NoText)>>],
    [max |-> Five, value |-> Word], [min |-> Null, max |-> Five] }
  \cup {[value |-> String(text)] :
          text \in {NoText, <<" code">>, <<"5">>, <<"[1", "2]">>, <<"'5'">>}}
  \cup {[values |-> <<v>>] : v \in {Pair, String(<<"5">>), String(<<"argon2id", "code">>)}}
  \cup {[min |-> v] : v \in {List, Word, String(<<"5">>)}}

Times0 ==
  { null, <<>>, [essential |-> TRUE, max_age |-> Same(<<"60">>)],
    [essential |-> FALSE, max_age |-> Zero] }
  \cup {[max_age |-> v] : v \in {Null, Zero, Same(<<"-1">>), Same(<<"1.5">>), String(<<"5">>)}}

Expressions ==
  {Other, Method("face"), <<>>, [amr_identifier |-> <<>>],
   Method("pwd") @@ [amr_metadata |-> null], Method("pwd") @@ [amr_properties |-> <<>>],
   Method("pwd") @@ [amr_properties |-> "" :> null],
   Method("pwd") @@ [amr_properties |-> ("code" :> null) @@ (" code" :> [essential |-> TRUE])]}
  \cup {MethodOfValue(v) : v \in {Null, Five} \cup {String(<<w>>) : w \in {"", "  ", " code"}}}
  \cup {WithProperty(c) : c \in Changed}
  \cup {Method("pwd") @@ [amr_properties |-> p] : p \in Kept}
  \cup {WithMetadata([time |-> t, location |-> null]) : t \in Times0}

\* An object with an array of expressions.
Group(op, elements) ==
  LET paths == UNION {{<<i>> \o p : p \in DOMAIN elements[i]} : i \in DOMAIN elements} IN
  [p \in {<<>>} \cup paths |-> IF p = <<>> THEN op :> Items ELSE elements[p[1]][Tail(p)]]
With(tree, object) == [tree EXCEPT ![<<>>] = @ @@ object]

Groups(expressions) ==
  {Group("one_of", <<Group("all_of", <<e>>), Leaf(Method("pop"))>>) : e \in expressions}

Otp == Leaf(Method("otp"))
OtpGroup == Group("all_of", <<Otp>>)
DetailSet ==
  {Leaf(e) : e \in Expressions \ {Other}}
  \cup Groups({Leaf(null), Otp, Group("one_of", <<>>)})
  \cup {Group("all_of", <<Otp, Leaf(e)>>) : e \in {Other, WithProperty(Other)}}
  \cup {null, Other, Leaf([essential |-> TRUE]), Leaf([essential |-> FALSE]),
        Group("all_of", <<>>),
        Leaf([one_of |-> Other]), Leaf([all_of |-> Other] @@ Method("pwd")),
        With(OtpGroup, [essential |-> TRUE]), With(OtpGroup, [one_of |-> Items]),
        With(Otp, [essential |-> TRUE]), With(Otp, [issuer |-> Other])}

Details(d) == [amr_details |-> d]
ClaimSet ==
  {"id_token" :> Details(d) : d \in DetailSet}
  \cup {[id_token |-> Details(Otp), userinfo |-> u] :
          u \in {null, Other, Details(Otp), Details(null), <<>>}}
  \cup {"userinfo" :> Details(Otp), "id_token" :> <<>>, <<>>,
        "id_token" :> (Details(null) @@ [acr |-> null]),
        "userinfo" :> Details(null) @@ "extra" :> null}

TextSet ==
  {Object(c) : c \in ClaimSet}
  \cup {[Object("userinfo" :> Details(null)) EXCEPT !.long = TRUE]}
  \cup {[form |-> f, long |-> FALSE, claims |-> null] : f \in Forms \ {"object"}}

-------------------------------------------------------------------------------
IdSet == {"email"}
TimeSet == {[requested |-> FALSE, essential |-> TRUE, max_age |-> text] :
              text \in {NoText, <<"05">>, <<"-1">>}}
Filling(mode, value) ==
  Row("pwd_derivation_algorithm", mode, value, NoText, NoText, mode = "values")
RowSet ==
  {Row("code", "requested", NoText, NoText, NoText, TRUE),
   Row("email_verification_method", "range", NoText, <<"05">>, NoText, FALSE),
   Row("time", "presence", NoText, NoText, NoText, FALSE),
   Filling("value", <<"''">>), Filling("values", <<"code", "", "'a", "b'">>)}
===============================================================================
