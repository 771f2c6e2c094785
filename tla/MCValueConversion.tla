-------------------------- MODULE MCValueConversion ---------------------------
(* Small instances of ValueConversion: values of every type, alone, in arrays *)
(* and in hashes, keys that are strings, symbols and integers, and two bins,  *)
(* which have the names a get with_header uses.                               *)
EXTENDS ValueConversion

Str(s) == <<"str", s>>
Sym(s) == <<"sym", s>>
Num(n) == <<"int", n>>
Ary(s) == <<"ary", s>>
Hsh(s) == <<"hash", s>>
Float  == <<"float", "1.5">>
Obj    == <<"obj", "o">>
Geo    == <<"geo", "g">>
Big    == <<"big", "b">>
Time   == <<"data", "t">>

Scalars == {Num(Half - 1), Str("s"), Float, Obj, Geo, Nil, Big, Time}

Inner == {Num(Half - 1), Sym("s"), Obj, Geo, Nil, Time}

Nested ==
  {Ary(<<>>), Ary(<<Num(-Half), Ary(<<Str("s"), Float>>)>>),
   Ary(<<Hsh(<< <<Sym("k"), Sym("s")>> >>)>>), Ary(<<Ary(<<Obj>>)>>),
   Hsh(<<>>), Hsh(<< <<Str("k"), Ary(<<Sym("s")>>)>> >>),
   Hsh(<< <<Str("k"), Float>>, <<Sym("k"), Num(0)>> >>),
   Hsh(<< <<Num(1), Float>>, <<Str("k"), Hsh(<< <<Num(1), Obj>> >>)>> >>),
   Hsh(<< <<Num(1), Str("s")>> >>), Hsh(<< <<Nil, Float>> >>)}
  \cup {Ary(<<v>>) : v \in Inner} \cup {Hsh(<< <<Str("k"), v>> >>) : v \in Inner}

Alone == {<< <<Str("header"), v>> >> : v \in Scalars \cup Nested}

Together ==
  {<< <<Str("header"), v>>, <<k, w>> >> :
     k \in {Sym("header"), Sym("record_header"), Nil}, v \in {Num(0), Nil, Time},
     w \in {Sym("s"), Nil, Ary(<<Num(0)>>)}}

SmallHashes == Alone \cup Together

SmallChanges ==
  {<<Str("header"), Num(1)>>, <<Sym("header"), Sym("s")>>,
   <<Str("record_header"), Nil>>, <<Sym("record_header"), Ary(<<Obj>>)>>}

SmallAppended == {Num(-Half), Sym("s"), Obj, Ary(<<Sym("s")>>)}

SmallForeign ==
  {Num(2 * Half - 1), Num(-Half - 1), <<"blob", "x">>, Geo,
   <<"list", <<Geo, Num(Half)>> >>,
   <<"map", {<<Num(1), Str("s")>>}>>,
   <<"map", {<<Str("k"), <<"dbl", "1.5">> >>}>>}

SmallNames ==
  {"s", "k", "header", "record_header", "gen", "expire_in", "AS_BYTES"}
    \cup {ToString(n) : n \in -Half..Half - 1}

SmallContents == {"1.5", "o", "g", "b", "t", "x"}
===============================================================================
