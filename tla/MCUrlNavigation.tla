--------------------------- MODULE MCUrlNavigation ---------------------------
(****************************************************************************)
(* UrlNavigation for TLC: every text of up to two lexemes as a reference    *)
(* and behind each of a few fronts as a first URL, and longer ones that     *)
(* climb out of a path, change the authority or spell a dot as "%2e".       *)
(****************************************************************************)
EXTENDS UrlNavigation

MCWord      == {"http", "file", "foo", "host", "localhost", "seg", "C"}
MCLetter    == {"C"}
MCLowercase == [w \in MCWord |-> w]

Alphabet == {"/", ".", "?", "#", ":", "C", "@", "BSLASH", "|", "8"}
Short    == BoundedSeq(Alphabet, 2)

\* One per branch of parse_url_full, with and without an authority.
Fronts == {<<>>,
           <<"http", ":", "/", "/">>,
           <<"http", ":", "/", "/", "host", "/">>,
           <<"file", ":", "/", "/">>,
           <<"foo", ":", "/", "/">>,
           <<"foo", ":", "/">>,
           <<"foo", ":">>}

LongOpenings == {
    <<"http", ":", "/", "/", "seg", ":", "C", "@", "host", ":", "8", "/">>,
    <<"foo", ":", "/", "/", "seg", "@", "host">>,
    <<"file", ":", "/", "/", "localhost", "/", "C", "|", "/", "seg">>,
    <<"file", ":", "/", "/", "host", "/", "/", "C", ":">>,
    <<"foo", ":", "/", ".", "/", "/">>}

MCOpenings == {front \o text : front \in Fronts, text \in Short}
                \union LongOpenings

MCReferences == Short \union {
    <<".", ".", "/", "seg">>,
    <<"seg", "/", ".", "%2e">>,
    <<"/", "%2e", "/", "/", "seg">>,
    <<"/", "/", "seg", ":", "8">>,
    <<"http", ":", "seg">>,
    <<"file", ":", "/", "seg">>,
    <<"/", "TAB", "/", "seg">>,
    <<"SP", "/", "seg">>}
==============================================================================
