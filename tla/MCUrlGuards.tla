----------------------------- MODULE MCUrlGuards -----------------------------
(****************************************************************************)
(* UrlEditing for TLC: a first URL for each tail a guard takes off and each *)
(* path it can find, and names the two encoders and the segment rules treat *)
(* differently.                                                             *)
(****************************************************************************)
EXTENDS UrlEditing, SequencesExt

MCWord      == {"http", "file", "foo", "host", "localhost", "seg", "q", "C"}
MCLetter    == {"C"}
MCLowercase == [w \in MCWord |-> w]

\* Query and fragment, a fragment only, neither; no path, "/." in front of
\* it, an opaque one; a drive letter behind no host.
Sources == {
    <<"http", ":", "/", "/", "host", "/", "seg", "?", "q", "#", "q">>,
    <<"foo", ":", "/", "/", "host", "#", "q">>,
    <<"foo", ":", "/", ".", "/", "/", "seg">>,
    <<"foo", ":", "seg", "SP", "?", "q">>,
    <<"file", ":", "/", "/", "/", "C", ":", "/", "seg", "?", "q">>}

MCInitUrls == {P!Parse(s).url : s \in Sources}

\* Empty, plain, one that is escaped, dots, dots with a tab between, a drive
\* letter.
MCPushArgs == {<<>>, <<"seg">>, <<"/", "%2e">>, <<".", ".">>,
               <<".", "TAB", ".">>, <<"C", "|">>}

\* Empty, and the characters that separate pairs, or stand for a space.
MCNames == {<<>>, <<"&", "=", "SP", "+">>}

\* Paths of up to three lexemes, and a drive letter in front of the segment.
PathLexeme == {"/", "seg", "%2F", "%252e", "C", ":", "|"}
MCPushedTo ==
    {<<"/">> \o text : text \in BoundedSeq(PathLexeme, 2)}
    \union {<<"/", "C", mark, "/">> : mark \in {":", "|"}}

\* Between guards the calls that change what a guard takes off.
MCPaths     == {}
MCQueries   == {<<"+", "&", "&", "=", "%26">>}
MCFragments == {}
==============================================================================
