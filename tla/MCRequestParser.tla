-------------------------- MODULE MCRequestParser --------------------------
(* Requests for RequestParser: with all sorts of queries and paths, of       *)
(* headers, and of contents.                                                 *)
EXTENDS RequestParser

AllWords ==
  {" ", "\r", "\n", "?", "&", "=", ":", "+", "%", "\"", "/", "HTTP/1.1", "GET", "POST",
   "OPTIONS", "Content-Type", "Content-Length", "application/x-www-form-urlencoded",
   "multipart/form-data;", "boundary=", "NUL", "Junk", "0", "1", "2", "5", "7",
   "a", "b", "k", "l", "text", "u", "v", "w", "x"}

Numerals == (<<"0">> :> 0) @@ (<<"2">> :> 2) @@ (<<"5">> :> 5) @@ (<<"7">> :> 7)
              @@ (<<"1", "2">> :> 12)

Of(method, paths, queries, headers, forms, contents) ==
  [requestType : {method}, path : paths, query : queries, headers : headers,
   form : forms, content : contents]
Header(key, value) == << <<key>>, value >>
TypeIs(value) == Header("Content-Type", <<" ">> \o value)
LengthIs(value) == Header("Content-Length", <<" ">> \o value)
Form == <<"application/x-www-form-urlencoded">>

SomePairs == {<< <<"a">>, <<"b", "=">> >>, << <<"a">>, <<"+">> >>, << <<"+">>, <<>> >>,
              << <<"a">>, None >>}
Queries == BoundedSeq(SomePairs, 2) \cup {[i \in 1 .. 3 |-> << <<"a">>, <<w>> >>] : w \in {"b", "+"}}
Targets ==
  Of("GET", {<<"/">>}, Queries, {<<>>}, {<<>>}, {<<>>})
    \cup Of("GET", {<<>>, <<"/", "+">>, <<"+", "/", "a">>}, {<<>>, << << <<"a">>, <<"b">> >> >>},
            {<<>>}, {<<>>}, {<<>>})

SomeHeaders == {Header("k", <<" ", "v", ":", " ", "w">>), Header("l", <<" ">>), Header("k", <<" ", "u", " ">>),
                Header("k", <<"v">>), Header("k", <<>>)}
Headed == Of("POST", {<<"/">>}, {<<>>}, BoundedSeq(SomeHeaders, 2), {<<>>}, {<<>>})
            \cup Of("OPTIONS", {<<"/">>}, {<<>>}, {<<>>}, {<<>>}, {<<>>})

Lengths == {<<>>, <<"0">>, <<"2">>, <<"5">>, <<"7">>, <<"1", "2">>, <<"x">>}
Bodies == {<<>>, <<"a", "b">>, <<"a", "NUL", "b", "a", "b", "b", "a">>}
Sizes(type) == {<< LengthIs(n), TypeIs(type) >> : n \in Lengths} \cup {<< TypeIs(type) >>}
Filled ==
  Of("POST", {<<"/">>}, {<<>>}, Sizes(<<"text">>), {<<>>}, Bodies)
    \cup Of("POST", {<<"/">>}, {<<>>}, Sizes(Form),
            {<< << <<"a">>, <<"b">> >>, << <<"a">>, <<"+">> >> >>, << << <<"b">>, <<"+", "a">> >>, << <<"a">>, None >> >>}, {<<>>})
    \cup Of("POST", {<<"/">>}, {<<>>},
            {<< TypeIs(<<"multipart/form-data;", " ", "boundary=">> \o b) >> :
                b \in {<<"b", " ">>, <<"\"", "b", "\"">>}}
              \cup {<< TypeIs(<<"multipart/form-data;">>) >>}, {<<>>}, {<<"b">>})

AllRequests == Targets \cup Headed \cup Filled
=============================================================================
