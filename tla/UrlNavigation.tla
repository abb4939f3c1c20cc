---------------------------- MODULE UrlNavigation ----------------------------
(****************************************************************************)
(* Url::parse and Url::join as a program uses them: it parses a first URL   *)
(* and resolves references against the URL it has, each time keeping the    *)
(* result (url.rs: parse, join; parser.rs: parse_url_full).                 *)
(****************************************************************************)
EXTENDS UrlParser, UrlPosition

CONSTANTS
    Openings,     \* the texts a first URL is parsed from
    References,   \* the texts resolved against the URL at hand
    MaxTail       \* bound: path, query and fragment of a URL followed further

ASSUME TextsAssumption == Openings \subseteq Text /\ References \subseteq Text

VARIABLES
    doc,          \* the URL at hand, NoBase before the first one
    reference     \* the text it was parsed from last

vars == <<doc, reference>>

Init == doc = NoBase /\ reference = <<>>

\* The program goes on with the URL it got for text.
GoTo(result, text) ==
    /\ result.ok
    /\ doc' = result.url
    /\ reference' = text

\* Url::parse
Open(text) == doc = NoBase /\ GoTo(Parse(text), text)

Followed == doc # NoBase => Len(doc.ser) - doc.path_start <= MaxTail

\* Url::join
Follow(text) == doc # NoBase /\ Followed /\ GoTo(Join(doc, text), text)

\* Either call fails: the program keeps the URL it has.
Fail(text) ==
    /\ Followed
    /\ ~ParseAgainst(text, doc # NoBase, doc).ok
    /\ UNCHANGED vars

\* The program lets go of the URL.
Close == doc # NoBase /\ doc' = NoBase /\ reference' = <<>>

Next == \/ \E text \in Openings   : Open(text)
        \/ \E text \in References : Follow(text)
        \/ \E text \in References : Fail(text)
        \/ Close

Spec == Init /\ [][Next]_vars

(****************************************************************************)
(* Properties.                                                              *)
(****************************************************************************)
Opened == doc # NoBase

\* Every value the parser hands out, of a text or of a text and a base, has
\* the layout the setters and accessors rely on.
ParserOutputWellFormed ==
    Opened => Good(doc) /\ ComponentsApart(doc) /\ NetworkHasHost(doc)

\* The positions a range may start or end at stand in the order they are
\* declared in, and between those of a component stands what its accessor
\* returns, in every value the parser hands out.
PositionsAgree == Opened => PositionsOrdered(doc) /\ RangesAgree(doc)

\* position.rs: "When a component is absent, its Before*/After* positions
\* coincide".  Around a password that is absent they do not: behind a username
\* the '@' lies between them, and where the serialization ends with the
\* username, as in "foo://", looking for the ':' panics.
AbsentCoincides ==
    Opened /\ ~HasPassword(doc) =>
        /\ \A p \in AroundPassword : ~PositionPanics(doc, p)
        /\ Between(doc, "BeforePassword", "AfterPassword") = <<>>

\* The host a file URL keeps is followed by a path with a drive letter, which
\* parsing it again takes for a reason to drop the host.
HostBeforeDrive(u) ==
    /\ TypeOf(u) = "File" /\ u.host_start < u.host_end
    /\ LET path == Path(u) IN StartsWithDriveLetter(Tail(path))

\* parser.rs, parse_path: "a file: URL can't have both a host and a
\* drive-letter path".  Only a drive letter in the first segment is looked
\* for, before a file path loses all but one of its leading slashes.
NoHostBeforeDrive == Opened => ~HostBeforeDrive(doc)

\* Serializing and parsing again changes nothing, however the URL was arrived
\* at: each join of a URL that parses back gives one that parses back.  (But
\* for a drive letter behind a file host, and a "/." inherited from a base.)
RoundTripsPreserved ==
    [][ \/ doc' = NoBase
        \/ RoundTrips(doc')
        \/ doc # NoBase /\ (DotPrefixed(doc) \/ ~RoundTrips(doc))
        \/ HostBeforeDrive(doc') ]_vars

\* An absolute URL resolves to itself, whatever it is resolved against.
AbsoluteIgnoresBase ==
    [][ \/ NoBase \in {doc, doc'}
        \/ Join(doc', doc.ser) = Ok(doc)
        \/ ~RoundTrips(doc) ]_vars

\* "." and "..", with their dots escaped or not.
DotSegment == UNION {[1..n -> {".", "%2e"}] : n \in 1..2}

\* No segment of a path that has segments is "." or "..", escaped or not,
\* whichever base and reference the path was put together from.
DotSegmentsResolved ==
    Opened /\ ~cannot_be_a_base(doc) =>
        LET path     == Path(doc)
            cuts     == {i \in 1..Len(path) : path[i] = "/"}
            stops    == cuts \union {Len(path) + 1}
        IN  \A i \in cuts :
                LET stop    == Min({j \in stops : j > i})
                    segment == SubSeq(path, i + 1, stop - 1)
                IN  segment \notin DotSegment

\* A reference without a scheme that does not start with two slashes, once
\* its tabs are dropped.  On a file URL a drive letter names another volume.
Relative(input) ==
    /\ Find(input, {":"}) >= Find(input, {"/", "BSLASH", "?", "#"})
    /\ Find(input, Lexeme \ {"/", "BSLASH"}) < 2

ChangesVolume(u, input) ==
    /\ TypeOf(u) = "File"
    /\ \/ StartsWithDriveLetter(input)
       \/ FirstIn(input, {"/", "BSLASH"}) /\ StartsWithDriveLetter(Tail(input))

\* A relative reference stays with the scheme, credentials, host and port it
\* is resolved against.  (But for a drive letter behind a file host: a path
\* from the root keeps the drive letter and drops the host.)
RelativeKeepsAuthority ==
    [][ /\ doc # NoBase /\ doc' # NoBase
           /\ Relative(Input(reference'))
           /\ ~ChangesVolume(doc, Input(reference'))
           /\ ~HostBeforeDrive(doc)
        => /\ SliceInBounds(doc'.ser, 0, doc'.host_end)
           /\ Take(doc'.ser, doc'.host_end) = Take(doc.ser, doc.host_end)
           /\ doc'.host = doc.host /\ doc'.port = doc.port ]_vars
==============================================================================
