----------------------------- MODULE UrlRelative -----------------------------
(****************************************************************************)
(* Url::make_relative (url.rs): a reference that leads from one URL to      *)
(* another on the same host, climbing out of the directories that differ.   *)
(****************************************************************************)
EXTENDS UrlParser

\* split_path_and_filename: the path is cut at its last slash, which goes.
Directory(path) == IF LastSlash(path) = None THEN <<>>
                   ELSE Take(path, LastSlash(path))
Filename(path)  == IF LastSlash(path) = None THEN <<>>
                   ELSE Drop(path, LastSlash(path) + 1)

SplitSegments(text) ==
    LET parts == Segments(text, {"/"})
    IN  [i \in 1..Len(parts) |-> parts[i].text]

\* How many segments two lists start with in common.
CommonLength(a, b) ==
    Max({n \in 0..Min({Len(a), Len(b)}) : \A i \in 1..n : a[i] = b[i]})

\* The segments in front of the first empty one.
UpToEmpty(segments) ==
    Take(segments, Min({i \in 1..Len(segments) : segments[i] = <<>>}
                          \union {Len(segments) + 1}) - 1)

\* Faulty variant of AddSegment: a slash in front of the first segment too.
AddWithSlash(relative, segment) == Append(relative, "/") \o segment

AddSegment(relative, segment) ==
    IF relative = <<>> THEN segment ELSE Append(relative, "/") \o segment

\* ".." for each directory of the base that is left, then those of the URL.
Climb(from, to) ==
    LET n  == CommonLength(from, to)
        up == [i \in 1..Len(UpToEmpty(Drop(from, n))) |-> <<".", ".">>]
    IN  FoldLeft(AddSegment, <<>>, up \o Drop(to, n))

\* The filename, unless it is the base's and nothing stands in front of it.
AddFilename(relative, from, to) ==
    CASE relative = <<>> /\ from = to -> relative
      [] ~(relative = <<>> /\ from = to) /\ to = <<>> -> Append(relative, "/")
      [] OTHER -> AddSegment(relative, to)

\* host() of both is the same: no host is not the empty domain.
SameHost(u, v) == u.host = v.host /\ HostText(u) = HostText(v)

\* None, or the one reference.
make_relative(base, u) ==
    IF cannot_be_a_base(base) \/ Scheme(base) # Scheme(u) \/ ~SameHost(base, u)
        \/ base.port # u.port
    THEN {}
    ELSE { AddFilename(Climb(SplitSegments(Directory(Path(base))),
                             SplitSegments(Directory(Path(u)))),
                       Filename(Path(base)), Filename(Path(u)))
           \o Drop(u.ser, PathEnd(u)) }
==============================================================================
