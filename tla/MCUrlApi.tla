------------------------------ MODULE MCUrlApi ------------------------------
(****************************************************************************)
(* UrlApi for TLC: one first URL for each way a setter can find a URL (with *)
(* and without authority, port, "/." and an opaque path; http, file and     *)
(* another scheme), and setter arguments chosen so that each early return,  *)
(* each conversion and each change of length happens.                       *)
(****************************************************************************)
EXTENDS UrlApi

MCWord == {"http", "s", "foo", "file", "host", "HOST", "localhost", "usr",
           "pw", "seg", "q", "C"}
MCLetter    == {"C"}
MCLowercase == [w \in MCWord |-> IF w = "HOST" THEN "host" ELSE w]

\* The texts the first URLs are parsed from.
Sources == {
    <<"http", ":", "/", "/", "host", "/", "seg">>,
    <<"foo", ":", "/", "/", "host", ":", "8", "/", "seg">>,
    <<"foo", ":", "/", "seg">>,
    <<"foo", ":", "seg", "SP", "SP", "?", "q">>,
    <<"foo", ":", "/", ".", "/", "/", "seg">>,
    <<"file", ":", "/", "/", "host", "/", "seg">>}

MCInitUrls == {P!Parse(s).url : s \in Sources}

\* With a file URL the parser gives no host.
MCHostlessToo ==
    MCInitUrls \union {P!Parse(<<"file", ":", "/", "/", "/", "seg">>).url}

\* "https" has another default port than "http"; the colon ends "foos", and
\* must not be followed by anything.
MCSchemes == {<<"http">>, <<"http", "s">>, <<"foo">>, <<"foo", "s", ":">>,
              <<"file">>, <<"foo", ":", "seg">>}

\* Empty, plain, and one the encoder rewrites.
MCUsernames == {<<>>, <<"usr">>, <<"@">>}
MCPasswords == {<<>>, <<"pw">>}

\* Empty, a host in capitals, an address, a host with a port, only a port.
MCHosts == {<<>>, <<"HOST">>, <<"[v6]">>, <<"host", ":", "8">>, <<":">>,
            <<"localhost">>}

\* The default ports of http and https, and another.
MCPorts == {8, 80, 443}

\* Paths the parser completes, takes for an authority, or would end early.
MCPaths     == {<<>>, <<"seg">>, <<"/", "/", "seg">>, <<"?">>, <<"SP">>}
MCQueries   == {<<>>, <<"q">>}
MCFragments == {<<"#">>}
=============================================================================
