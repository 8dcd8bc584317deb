----------------------------- MODULE MCFrontend -----------------------------
EXTENDS Frontend

MCBlank == {" ", "\n"}
MCNewline == "\n"
MCQuote == "\""

W(word, kind) == [word |-> word, kind |-> kind]
Sign(byte) == W(<<byte>>, byte)

MCTable ==
  {Sign(b) : b \in {"(", ")", "{", "}", "[", "]", ".", ":", "=", "+", "-", "/", ">"}}
  \cup {W(<<".", ".">>, ".."), W(<<"=", ">">>, "=>"), W(<<"=", "=">>, "=="), W(<<"+", "=">>, "+="),
        W(<<"i", "n">>, "in"), W(<<"t">>, "bool"), W(<<"pi", "~">>, "number")}

(* Words, signs and blanks of a text in any order, and comments between     *)
(* them.                                                                    *)
Pieces == {<<"i", "n">>, <<"t">>, <<"x">>, <<"1">>, <<".">>, <<"=">>, <<">">>, <<"/">>, <<"\"">>, <<" ">>, <<"\n">>,
           <<"pi", "~">>, <<"half", "~">>, <<";">>}
MCTexts ==
  {Joined(s) : s \in UNION {[1 .. n -> Pieces] : n \in 0 .. 4}}
  \cup {p \o <<"/", "/">> \o q \o <<"\n">> \o r \o s :
          p \in {<<>>, <<"x">>, <<"pi", "~">>, <<"\"">>}, q \in {<<>>, <<"x">>, <<"\"">>, <<"pi", "~">>},
          r, s \in Pieces \cup {<<>>}}

N == <<"name">>
NoType == <<"no type">>
T == <<"type">>
Args(names) == <<"arguments">> \o [i \in 1 .. names |-> <<"argument", N, NoType>>]

(* Expressions made of expressions. *)
Made(es) ==
  {<<op, e, f>> : op \in {"=", "&&", "==", "<", "+", "-", "*", "index"}, e, f \in es}
  \cup {<<"sign", <<s>>, e>> : s \in {"-", "!"}, e \in es}
  \cup {<<"call", e, f>> : e, f \in es} \cup {<<"call", e>> : e \in es}
  \cup {<<"member", e, <<"property">>>> : e \in es}
  \cup {<<"array", e>> : e \in es} \cup {<<"object", <<"pair", <<"string">>, e>>>> : e \in es}
  \cup {<<"lambda", Args(n), NoType, <<"value", e>>>> : n \in {1}, e \in es}
  \cup {<<"lambda", Args(n), NoType, <<"block", <<"expression", e>>>>>> : n \in {0}, e \in es}

Small == {N, <<"number">>}
Middle == {<<op, N, N>> : op \in {"=", "||", "==", "<", "-", "*", "index"}}
          \cup Made({N}) \cup {<<"array">>, <<"object">>, <<"lambda", Args(2), T, <<"block">>>>}
Deep == {<<op, e, f>> : op \in {"=", "&&", "==", "<", "+", "*", "call", "index"}, e, f \in Middle \cup Small}
        \cup Made(Middle) 
Deeper == {<<op, e, N>> : op \in {"+", "call"}, e \in Made(Middle)} \cup {<<"+", N, e>> : e \in Made(Middle)}

Types == {NoType, T, <<"array type", T>>, <<"object type">>, <<"object type", <<"entry", N, <<"array type", T>>>>>>}

X(e) == <<"expression", e>>
B(ss) == <<"block">> \o ss
Simple == {X(e) : e \in Middle \cup Small \cup {<<"sign", <<"-">>, N>>}}
          \cup {<<"let", N, NoType, e>> : e \in Middle} \cup {<<"return", N>>, <<"break">>}
Blocks == {B(<<>>), B(<<X(N)>>), B(<<X(N), X(<<"array">>)>>), B(<<<<"break">>, X(N)>>)}
None == <<"no bound">>
Ifs == {<<"if", N, B(<<>>)>>, <<"if", N, B(<<>>), B(<<>>)>>}
Compound(es) ==
  {<<"let", N, t, e>> : t \in Types, e \in es}
  \cup {<<"fn", N, <<"arguments", <<"argument", N, t>>>>, u, b>> : t, u \in Types, b \in Blocks}
  \cup {<<"if", e, b>> : e \in es, b \in Blocks}
  \cup {<<"if", e, b, c>> : e \in es, b \in Blocks, c \in Blocks \cup Ifs}
  \cup {<<"while", e, b>> : e \in es, b \in Blocks}
  \cup {<<"for", N, e, b>> : e \in es, b \in Blocks}
  \cup {<<"for", N, <<"range", e, f>>, B(<<>>)>> : e \in es, f \in es \cup {None}}
  \cup {<<"for", N, <<"range", None, e>>, B(<<>>)>> : e \in es}
  \cup {<<"export", <<"fn", N, Args(0), NoType, b>>>> : b \in Blocks}
  \cup {<<"import", <<"specifiers">> \o s, <<"string">>>> : s \in {<<>>, <<N>>, <<N, N>>}}
  \cup {<<"class", N, <<"members">> \o m>> :
          m \in UNION {[1 .. n -> {<<"field", N, N>>, <<"constructor", N, Args(1), NoType, B(<<>>)>>,
                                  <<"fn", N, Args(0), T, B(<<>>)>>}] : n \in 0 .. 2}}
Exports == {<<"export", s>> : s \in {<<"let", N, NoType, N>>, X(N)}}
Some == {<<"fn", N, Args(0), NoType, B(<<>>)>>, <<"if", N, B(<<>>)>>, <<"while", N, B(<<>>)>>, <<"for", N, N, B(<<>>)>>,
         <<"import", <<"specifiers">>, <<"string">>>>, <<"class", N, <<"members">>>>}
        \cup Exports

MCPrograms ==
  {<<X(e)>> : e \in Deep \cup Deeper} \cup {<<s>> : s \in Compound(Middle) \cup Exports}
  \cup {<<r, s>> : r, s \in Simple \cup Some}

MCStreams ==
  UNION {[1 .. n -> {"name", "number", "numeral", "(", ")", "{", "}", "[", "]", ".", ",", "=", "-", "=>", ":", "return"}] : n \in 0 .. 4}
  \cup {p \o q : p \in {<<"let", "name", "=">>, <<"name", "=", "name", ".">>, <<"(", "name">>, <<"for", "name", "in">>, <<"class", "name", "{">>,
                         <<"if", "name", "{">>, <<"import", "{", "name">>, <<"fn", "name", "(">>},
                 q \in [1 .. 3 -> {"name", "string", "(", ")", "{", "}", ".", ",", "=", "-", "=>", ":", "..", "fn", "public", "else", "from"}]}

=============================================================================
