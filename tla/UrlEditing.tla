------------------------------ MODULE UrlEditing ------------------------------
(****************************************************************************)
(* The guards composed with the parser and the form encoder: what they do   *)
(* to the text, held against the lists of UrlLists and against what parsing *)
(* the text again gives.                                                    *)
(****************************************************************************)
EXTENDS UrlApi, UrlGuards

F == INSTANCE UrlForm

ApiFormText(text) == F!byte_serialize(text)

\* parse_path in the context PathSegmentSetter: the whole segment is one
\* segment of the path.
ApiPathAfterPush(type, path, segment) ==
    P!ParsePath(path, type, TRUE, 0, P!SkipTabs(segment), "PathSegmentSetter").s

(****************************************************************************)
(* Refinement: the lists a Url and the guard on it stand for.               *)
(****************************************************************************)
\* What a path guard took off: a query up to the first '#', and a fragment.
TakenQueryEnd(taken) == P!Find(taken, {"#"})

CurrentPath ==
    IF guard.kind = "Path" THEN OpenPathText ELSE Path(url)

CurrentQuery ==
    IF guard.kind = "Path" THEN Take(guard.taken, TakenQueryEnd(guard.taken))
    ELSE Slice(url.ser, PathEnd(url), QueryEnd(url))

CurrentFragment ==
    CASE guard.kind = "Path"  -> Drop(guard.taken, TakenQueryEnd(guard.taken))
      [] guard.kind = "Query" -> guard.taken
      [] OTHER                -> Drop(url.ser, QueryEnd(url))

\* path_segments, each decoded.
SegmentList ==
    [path \in Text |->
        IF path = <<>> THEN <<>>
        ELSE LET texts == F!Split(Tail(path), "/")
             IN  [i \in 1..Len(texts) |-> PercentDecode(texts[i])]]

\* query_pairs; the text of a query starts with its '?'.
PairList ==
    [query \in Text |-> IF query = <<>> THEN {} ELSE { F!ParsePairs(Tail(query)) }]

Editing == IF guard.kind = "Finished" THEN "None" ELSE guard.kind

\* "." and ".." are passed over, but not behind a tab, which only the parser
\* skips: ".." then pops, and "." pushes nothing.
PassedOver == {<<".">>, <<".", ".">>}
HiddenParents == {name \in PushArgs \ PassedOver : P!SkipTabs(name) = <<".", ".">>}

\* What any other segment may be read back as: itself, without its tabs, but
\* for a drive letter, which a file URL may write its own way.
StoredAs(name) ==
    LET seen == P!SkipTabs(name)
    IN  CASE seen = <<".">>                     -> { <<>> }
          [] P!is_windows_drive_letter(seen)    -> {seen, <<seen[1], ":">>}
          [] OTHER                              -> {seen}

\* A value a lost guard left broken stands for nothing.
Shown(part) == IF Usable THEN part ELSE <<>>

Lists == INSTANCE UrlLists
            WITH Segment    <- PushArgs,
                 Dots       <- PassedOver,
                 HiddenDots <- HiddenParents,
                 Kept       <- P!is_windows_drive_letter,
                 Stored     <- StoredAs,
                 Name       <- Names,
                 front      <- Shown(Take(url.ser, url.path_start)),
                 segments   <- Shown(SegmentList[CurrentPath]),
                 query      <- Shown(PairList[CurrentQuery]),
                 fragment   <- Shown(CurrentFragment),
                 editing    <- Editing,
                 ret        <- ret

\* Each call makes the edit of its own name, with its own arguments.
EditsAsCalled ==
    /\ guard.kind = "Path" =>
          /\ \A s \in PushArgs : Push(s) => Lists!Push(s)
          /\ PopSegment    => Lists!Pop
          /\ PopIfEmpty    => Lists!PopIfEmpty
          /\ ClearSegments => Lists!Clear
    /\ guard.kind = "Query" =>
          /\ \A n, v \in Names : AppendPair(n, v) => Lists!AppendPair(n, v)
          /\ \A n \in Names : AppendKeyOnly(n) => Lists!AppendKeyOnly(n)
          /\ ClearPairs => Lists!ClearPairs

\* Editing text in front of text that was cut off implements editing lists: a
\* pushed segment is read back as that segment, an appended pair as that pair,
\* a pop takes one name away, and nothing else changes from the opening of a
\* guard to its end.  Each call does so with what it was given, whatever was
\* done through the guard before.
ImplementsLists == Lists!Spec /\ [][EditsAsCalled]_guardVars

\* What parsing a serialization again gives.
Reparsed == [text \in Text |-> P!Parse(text)]

RoundTrips(u) == SameUrl(u, Reparsed[u.ser])

\* The host a file URL keeps is followed by a path with a drive letter.
HostBeforeDrive(u) ==
    TypeOf(u) = "File" /\ u.host_start < u.host_end /\ HasDriveLetter(Path(u))

\* path_segments.rs, extend: "parsing the resulting serialization round-trips
\* to the same URL".  So it does after every edit of either guard, whichever
\* segments, dots and separators are pushed or appended, popped or cleared;
\* but for a "/." in front of the path, and a drive letter pushed behind the
\* host of a file URL.
EditsRoundTrip ==
    [][ guard.kind \in {"Path", "Query"} /\ ret' = "Ok" =>
          \E before \in {PutBack(url, guard)}, after \in {PutBack(url', guard')} :
             \/ RoundTrips(after) \/ ~RoundTrips(before)
             \/ DotPrefixed(before) \/ HostBeforeDrive(after) ]_guardVars
==============================================================================
