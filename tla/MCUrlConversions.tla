--------------------------- MODULE MCUrlConversions ---------------------------
(****************************************************************************)
(* UrlConversions for TLC: paths of up to five lexemes on one host, and     *)
(* other schemes, ports, hosts and credentials, each URL as a reference on  *)
(* each other one; file paths with names the encoder and the parser treat   *)
(* differently.                                                             *)
(****************************************************************************)
EXTENDS UrlConversions

MCWord      == {"http", "s", "file", "foo", "blob", "host", "seg", "C"}
MCLetter    == {"C"}
MCLowercase == [w \in MCWord |-> w]

Behind(front, texts) == {front \o text : text \in texts}

Paths == Behind(<<"/">>, BoundedSeq({"/", "seg", "C"}, 4))

MCOpenings ==
    Behind(<<"http", ":", "/", "/", "host">>, Paths)
    \union Behind(<<"http", ":", "/", "/", "host", "/", "seg">>,
                  {<<"?">>, <<"?", "C">>, <<"?", "#", "C">>, <<"#">>})
    \union Behind(<<"http", "s", ":", "/", "/", "host">>,
                  {<<>>, <<":", "8", "0">>, <<":", "4", "4", "3">>})
    \union Behind(<<"http", ":", "/", "/">>,
                  {<<"seg">>, <<"C", "@", "host">>, <<"host", ":", "8", "0">>,
                   <<"host", ":", "8">>})
    \union Behind(<<"foo", ":">>,
                  {<<"/", "/", "host">>, <<"/", "/", "host", "/", "seg">>,
                   <<"/">>, <<"/", "seg">>, <<"/", "seg", "/", "C">>, <<"seg">>})
    \union Behind(<<"blob", ":">>,
                  {<<"seg">>, <<"http", ":", "/", "/", "host", ":", "8">>,
                   <<"blob", ":", "http", ":", "seg", ":", "8", "0">>})

\* With a reference an opaque base cannot resolve.
MCReferences == MCOpenings \union {<<"/">>}

MCFilePaths ==
    Behind(<<"/">>, BoundedSeq({"/", ".", "C", "%2e", "|"}, 2))
    \union {<<>>, <<"seg">>, <<"/", "C", ":", "/", "seg">>,
            <<"/", "seg", "/", ".", ".">>, <<"/", "seg", "/", "?", "#">>,
            <<"/", "seg", "/", "/", ".", "/", "C", "|">>,
            <<"/", "seg", "SP", "/", "BSLASH">>}
==============================================================================
