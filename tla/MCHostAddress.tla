---------------------------- MODULE MCHostAddress ----------------------------
(****************************************************************************)
(* HostAddress for TLC: every way to leave groups out, up to nine of them,  *)
(* dotted tails, right and wrong, at every place, and digits at their       *)
(* limits.                                                                  *)
(****************************************************************************)
EXTENDS HostMeaning

\* Up to nine texts with a ':' between.
Joined(texts) ==
    FoldLeft(LAMBDA all, t : all \o <<":">> \o t, Head(texts), Tail(texts))

Lists(texts, least, most) == UNION {[1..n -> texts] : n \in least..most}

Dotted == {<<"1", ".", "0", ".", "2", ".", "2", "5", "5">>,
           <<"1", ".", "2", ".", "3">>,
           <<"1", ".", "2", ".", "3", ".">>,
           <<"1", ".", "2", ".", "3", ".", "4", ".", "5">>,
           <<"2", "5", "6", ".", "1", ".", "1", ".", "1">>,
           <<"0", "1", ".", "1", ".", "1", ".", "1">>,
           <<"1", ".", "1", ".", "1", ".", "1", ":", "1">>,
           <<".", "1", ".", "1", ".", "1">>}

Limits == {<<"f", "f", "f", "f">>, <<"1", "0", "0", "0", "0">>,
           <<"0", "0", "a", "0">>, <<"1", "g">>}

MCInputs ==
    { Joined(t) : t \in Lists({<<>>, <<"0">>, <<"1">>}, 1, 8)
                          \union Lists({<<>>, <<"1">>}, 9, 9) }
    \union { Joined(t \o <<tail>>) : t \in Lists({<<>>, <<"1">>}, 1, 7), tail \in Dotted }
    \union { Joined(<<group, <<>>, other>>) : group, other \in Limits \union {<<>>} }
==============================================================================
