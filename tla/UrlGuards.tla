------------------------------ MODULE UrlGuards ------------------------------
(****************************************************************************)
(* The two values that borrow a Url and edit a part of it in place:         *)
(* PathSegmentsMut (path_segments.rs) and the form_urlencoded::Serializer   *)
(* of query_pairs_mut (url.rs, UrlQuery).  Each takes off what follows the  *)
(* part it edits and puts it back when it is dropped or finished.  A guard  *)
(* may also be forgotten, and user code called while it is open may panic.  *)
(* Between guards the program calls setters.                                *)
(****************************************************************************)
EXTENDS UrlSetters

CONSTANTS
    PushArgs,               \* the segments pushed
    Names,                  \* the names and values appended to a query
    PathAfterPush(_, _, _), \* Parser::parse_path as extend calls it: type, path, segment
    FormText(_),            \* form_urlencoded::byte_serialize
    PushedTo,               \* bound: the paths a segment is pushed to
    MaxQuery                \* bound: the length of a query appended to

VARIABLE guard              \* the guard that borrows url

guardVars == <<url, ret, guard>>

GuardKinds == {"None", "Path", "Query", "Finished"}

\* What the guard took off the end of the serialization: for a path guard the
\* query and the fragment, for a query guard the fragment ('#' included).  at
\* is old_after_path_position or the serializer's start_position.
GuardSet == [kind : GuardKinds, taken : Text, at : Nat]

NoGuard == [kind |-> "None", taken |-> <<>>, at |-> 0]

\* What parsing a pushed segment and encoding a name give is a text.
ASSUME PushAssumption ==
    /\ PushedTo \subseteq Text
    /\ \A t \in SchemeTypes, p \in PushedTo, s \in PushArgs :
          PathAfterPush(t, p, s) \in Text
    /\ \A n \in Names : FormText(n) \in Text
    /\ MaxQuery \in Nat

\* How a guard is lost: mem::forget, or user code panics and unwinds.
Lost == {"Forgotten", "Unwound"}

\* What calls do to a value that a lost guard left broken is not followed.
Usable == ret \in Lost => WellFormed(url)

\* No guard borrows url.
Free == guard.kind \in {"None", "Finished"} /\ Usable

(****************************************************************************)
(* PathSegmentsMut.                                                         *)
(****************************************************************************)
\* path_segments_mut: take_after_path leaves the offsets as they are.
OpenPath ==
    /\ Free
    /\ \/ cannot_be_a_base(url) /\ Leave("Err") /\ UNCHANGED guard
       \/ /\ ~cannot_be_a_base(url)
          /\ Become([url EXCEPT !.ser = Take(@, PathEnd(url))])
          /\ guard' = [kind |-> "Path", taken |-> Drop(url.ser, PathEnd(url)),
                       at |-> PathEnd(url)]

\* The path while a path guard is open: nothing follows it.
OpenPathText == Drop(url.ser, url.path_start)

EditPath(path) ==
    /\ guard.kind = "Path"
    /\ Become([url EXCEPT !.ser = Take(@, url.path_start) \o path])
    /\ UNCHANGED guard

\* truncate(after_first_slash), which a path without its '/' is too short for.
ClearSegments ==
    EditPath(IF OpenPathText = <<>> THEN <<>> ELSE Take(OpenPathText, 1))

\* Faulty variant of PopIfEmpty: whatever the last segment is.
PopUnlessRoot ==
    EditPath(IF Len(OpenPathText) > 1
             THEN Take(OpenPathText, Len(OpenPathText) - 1) ELSE OpenPathText)

PopIfEmpty ==
    EditPath(IF Len(OpenPathText) > 1 /\ EndsWith(OpenPathText, "/")
             THEN Take(OpenPathText, Len(OpenPathText) - 1) ELSE OpenPathText)

\* Behind the first slash, the last one is at offset n; without one, n = 1.
LastSegmentAt(path, n) ==
    /\ n = 1 \/ path[n + 1] = "/"
    /\ NoByte(Drop(path, n + 1), "/")

PopSegment ==
    \/ Len(OpenPathText) <= 1 /\ EditPath(OpenPathText)
    \/ \E n \in 1..(Len(OpenPathText) - 1) :
           LastSegmentAt(OpenPathText, n) /\ EditPath(Take(OpenPathText, n))

\* extend pushes a '/' unless the path is exactly "/".
Separated(path) == IF Len(path) = 1 THEN path ELSE Append(path, "/")

\* push, and one step of extend: "." and ".." are passed over.
Push(segment) ==
    \/ segment \in {<<".">>, <<".", ".">>} /\ EditPath(OpenPathText)
    \/ /\ segment \notin {<<".">>, <<".", ".">>}
       /\ Separated(OpenPathText) \in PushedTo
       /\ EditPath(PathAfterPush(TypeOf(url), Separated(OpenPathText), segment))

\* Faulty variant of Restored: the fragment's offset stays where it was.
RestoredQueryOnly(u, g) ==
    [ShiftQueryOnly(u, Len(u.ser) - g.at) EXCEPT !.ser = @ \o g.taken]

\* restore_after_path
Restored(u, g) ==
    [ShiftAfterPath(u, Len(u.ser) - g.at) EXCEPT !.ser = @ \o g.taken]

\* The guard goes, and with it what it did not put back.
Release(u, result) == url' = u /\ ret' = result /\ guard' = NoGuard

DropPath == guard.kind = "Path" /\ Release(Restored(url, guard), "Ok")

\* The iterator given to extend panics: mutate had moved the serialization
\* out, and the guard is dropped on the way out.
UnwindPush ==
    /\ guard.kind = "Path"
    /\ Release(Restored([url EXCEPT !.ser = <<>>], guard), "Unwound")

(****************************************************************************)
(* query_pairs_mut: a Serializer whose target is a UrlQuery.                *)
(****************************************************************************)
\* Faulty variant of OpenedQuery: the fragment is cut off but not taken.
OpenedInFrontOfFragment(u) ==
    LET mark == IF u.query_start = None THEN <<"?">> ELSE <<>>
    IN  [u EXCEPT !.ser = Take(@, QueryEnd(u)) \o mark,
                  !.query_start = PathEnd(u)]

\* take_fragment, and a '?' where there is no query.
OpenedQuery(u) ==
    LET mark == IF u.query_start = None THEN <<"?">> ELSE <<>>
    IN  [u EXCEPT !.ser = Take(@, QueryEnd(u)) \o mark,
                  !.query_start = PathEnd(u),
                  !.fragment_start = None]

OpenQuery ==
    /\ Free
    /\ Become(OpenedQuery(url))
    /\ guard' = [kind |-> "Query", taken |-> Drop(url.ser, QueryEnd(url)),
                 at |-> PathEnd(url) + 1]

OpenQueryText == Drop(url.ser, guard.at)

EditQuery(text) ==
    /\ guard.kind = "Query"
    /\ Become([url EXCEPT !.ser = Take(@, guard.at) \o text])
    /\ UNCHANGED guard

\* append_separator_if_needed
AfterSeparator(query) == IF query = <<>> THEN <<>> ELSE Append(query, "&")

AppendPair(name, value) ==
    /\ Len(OpenQueryText) <= MaxQuery
    /\ EditQuery(AfterSeparator(OpenQueryText) \o FormText(name)
                    \o <<"=">> \o FormText(value))

AppendKeyOnly(name) ==
    /\ Len(OpenQueryText) <= MaxQuery
    /\ EditQuery(AfterSeparator(OpenQueryText) \o FormText(name))

\* Serializer::clear
ClearPairs == EditQuery(<<>>)

\* Faulty variant of FragmentRestored: only the text comes back.
FragmentTextRestored(u, g) == [u EXCEPT !.ser = @ \o g.taken]

\* restore_already_parsed_fragment
FragmentRestored(u, g) ==
    IF g.taken = <<>> THEN u
    ELSE [u EXCEPT !.ser = @ \o g.taken, !.fragment_start = Len(u.ser)]

\* finish takes the Url out of the target: the serializer lives on without.
FinishedGuard(g) == [NoGuard EXCEPT !.kind = "Finished"]

Finish ==
    /\ guard.kind = "Query"
    /\ Become(FragmentRestored(url, guard))
    /\ guard' = FinishedGuard(guard)

\* The serializer is dropped, after finish or without.
DropQuery ==
    \/ guard.kind = "Query" /\ Release(FragmentRestored(url, guard), "Ok")
    \/ guard.kind = "Finished" /\ Release(url, "Ok")

\* The iterator given to extend_pairs panics; the pairs so far stay.
UnwindAppend ==
    /\ guard.kind = "Query"
    /\ Release(FragmentRestored(url, guard), "Unwound")

\* append, clear or finish after finish panics: "used after finish".
UseAfterFinish == guard.kind = "Finished" /\ Release(url, "Panic")

-----------------------------------------------------------------------------
\* mem::forget of an open guard: nothing is put back.
Forget == guard.kind \in {"Path", "Query"} /\ Release(url, "Forgotten")

\* The program goes on with another parsed URL.
StartOver ==
    /\ guard.kind = "None"
    /\ \E u \in InitUrls : Release(u, "Ok")

CallSetter == Free /\ OrdinaryCall /\ UNCHANGED guard

GuardInit == Init /\ guard = NoGuard

GuardNext ==
    \/ OpenPath \/ DropPath \/ UnwindPush
    \/ ClearSegments \/ PopIfEmpty \/ PopSegment
    \/ \E s \in PushArgs : Push(s)
    \/ OpenQuery \/ Finish \/ DropQuery \/ UnwindAppend \/ UseAfterFinish
    \/ ClearPairs
    \/ \E n, v \in Names : AppendPair(n, v)
    \/ \E n \in Names : AppendKeyOnly(n)
    \/ Forget \/ StartOver \/ CallSetter

GuardSpec == GuardInit /\ [][GuardNext]_guardVars

(****************************************************************************)
(* Properties.                                                              *)
(****************************************************************************)
GuardTypeOK ==
    /\ url \in UrlSet
    /\ ret \in {"Ok", "Err", "Panic"} \union Lost
    /\ guard \in GuardSet

\* The value once the guard that is open is dropped.
PutBack(u, g) == CASE g.kind = "Path"  -> Restored(u, g)
                   [] g.kind = "Query" -> FragmentRestored(u, g)
                   [] OTHER            -> u

\* Whatever was done through a guard and before it, dropping it leaves a value
\* with its offsets in order and at their delimiters: what was taken off comes
\* back once, behind the text it belongs behind.
WholeOncePutBack == ret \notin Lost => WellFormed(PutBack(url, guard))

\* A query guard that is forgotten, or unwound, takes at most the fragment
\* with it: the value it leaves is well formed.  (A path guard that is lost
\* leaves offsets beyond the text.)
LostQueryGuardHarmless == [][guard.kind = "Query" => WellFormed(url')]_guardVars

\* A path guard that is unwound while mutate holds the serialization puts back
\* what it took off behind nothing at all.  The path and all in front of it is
\* gone, but the drop that runs during the panic brings the offsets of query and
\* fragment in line with it: both read as they did, and within the text.
UnwoundTailReadable ==
    [][guard.kind = "Path" /\ ret' = "Unwound" =>
         /\ QueryEnd(url') <= Len(url'.ser)
         /\ Query(url') = Query(PutBack(url, guard))
         /\ Fragment(url') = Fragment(PutBack(url, guard))]_guardVars

\* form_urlencoded and url.rs, query_pairs_mut: "clear() is equivalent to
\* set_query(Some(""))", wherever the fragment is meanwhile.
ClearIsEmptyQuery ==
    [][ClearPairs =>
         PutBack(url', guard') = WithQuery(PutBack(url, guard), <<>>)]_guardVars
=============================================================================
