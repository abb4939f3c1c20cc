------------------------------- MODULE UrlLists -------------------------------
(****************************************************************************)
(* What PathSegmentsMut and query_pairs_mut promise: a path is a list of    *)
(* names, a query a list of pairs of names, and while one of them is edited *)
(* nothing else changes, neither at the start nor at the end nor between.   *)
(****************************************************************************)
EXTENDS Integers, Sequences

CONSTANTS
    Segment,      \* the names pushed onto a path
    Dots,         \* those that are passed over
    HiddenDots,   \* those seen as ".." once they were accepted
    Kept(_),      \* whether a ".." behind this name leaves it
    Stored(_),    \* the names any other may be read back as
    Name          \* the names and values appended to a query

VARIABLES
    front,      \* what stands in front of the path
    segments,   \* <<>> when there is no path at all
    query,      \* {} when there is none, else {the list of its pairs}
    fragment,
    editing,    \* "None", "Path" or "Query"
    ret         \* how the last call ended

parts == <<front, segments, query, fragment, editing>>
vars  == <<front, segments, query, fragment, editing, ret>>

Lost == {"Forgotten", "Unwound"}

(****************************************************************************)
(* One action per call on the list of names in a path.                      *)
(****************************************************************************)
\* The path "/" is the list of one empty name.
Root == << <<>> >>

AllButLast(list) == SubSeq(list, 1, Len(list) - 1)

SegmentsBecome(lists) ==
    /\ editing = "Path" /\ segments' \in lists
    /\ UNCHANGED <<front, query, fragment, editing>>

\* Onto the root, a name takes the place of the empty one.
Pushed(list, name) ==
    { Append(IF list = Root THEN <<>> ELSE list, stored) : stored \in Stored(name) }

\* A ".." that is only seen once it was accepted takes the last name away,
\* unless that is kept, and leaves an empty one at the end.
HiddenParentPushed(list) ==
    IF list # <<>> /\ Kept(list[Len(list)]) THEN {Append(list, <<>>)}
    ELSE {Append(AllButLast(list), <<>>)}

Push(name) ==
    \E list \in {segments} :
       \/ name \in Dots /\ SegmentsBecome({list})
       \/ name \in HiddenDots /\ SegmentsBecome(HiddenParentPushed(list))
       \/ name \notin Dots \union HiddenDots /\ SegmentsBecome(Pushed(list, name))

\* The last name is removed; the only one becomes empty.
Pop ==
    \E list \in {segments} :
       \/ Len(list) > 1 /\ SegmentsBecome({AllButLast(list)})
       \/ Len(list) = 1 /\ SegmentsBecome({Root})
       \/ Len(list) = 0 /\ SegmentsBecome({list})

PopIfEmpty ==
    \E list \in {segments} :
       IF Len(list) > 1 /\ list[Len(list)] = <<>>
       THEN SegmentsBecome({AllButLast(list)}) ELSE SegmentsBecome({list})

\* A URL without a path is left without.
Clear ==
    \E list \in {segments} :
       SegmentsBecome({IF list = <<>> THEN list ELSE Root})

EditSegments ==
    (\E name \in Segment : Push(name)) \/ Pop \/ PopIfEmpty \/ Clear

(****************************************************************************)
(* One action per call on the pairs of a query.                             *)
(****************************************************************************)
PairsBecome(pairs) ==
    /\ editing = "Query" /\ query' = {pairs}
    /\ UNCHANGED <<front, segments, fragment, editing>>

AppendPair(name, value) ==
    \E list \in query : PairsBecome(Append(list, <<name, value>>))

\* A pair with an empty value, or nothing at all when the name is empty.
AppendKeyOnly(name) ==
    \E list \in query :
       PairsBecome(IF name = <<>> THEN list ELSE Append(list, <<name, <<>>>>))

ClearPairs == PairsBecome(<<>>)

EditPairs ==
    \/ \E name, value \in Name : AppendPair(name, value)
    \/ \E name \in Name : AppendKeyOnly(name)
    \/ ClearPairs

\* A query that is edited exists, be it empty.
Begin ==
    /\ editing = "None" /\ editing' \in {"Path", "Query"}
    /\ query' = (IF editing' = "Query" /\ query = {} THEN { <<>> } ELSE query)
    /\ UNCHANGED <<front, segments, fragment>>

End == /\ editing # "None" /\ editing' = "None"
       /\ UNCHANGED <<front, segments, query, fragment>>

\* The guard is lost, and with it what it did not put back.
Lose == editing' = "None" /\ ret' \in Lost

\* With nothing borrowed the program calls setters.
Elsewhere == editing = "None" /\ editing' = "None"

Init == editing = "None"

Next == Elsewhere \/ Begin \/ EditSegments \/ EditPairs \/ End \/ Lose

Spec == Init /\ [][Next]_parts
==============================================================================
