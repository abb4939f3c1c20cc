---------------------------- MODULE UrlConversions ----------------------------
(****************************************************************************)
(* What a program makes of a URL it has parsed: a reference relative to     *)
(* another (make_relative), its origin, a file path; and the URLs it makes  *)
(* of file paths.                                                           *)
(****************************************************************************)
EXTENDS UrlNavigation, UrlRelative, UrlOrigin, UrlFilePath

CONSTANT FilePaths     \* the file paths URLs are made from

\* Url::from_file_path and Url::from_directory_path
OpenFile(path)      == doc = NoBase /\ GoTo(from_file_path(path), path)
OpenDirectory(path) == doc = NoBase /\ GoTo(from_directory_path(path), path)

\* A path that is not absolute.
OpenNothing(path) ==
    doc = NoBase /\ ~from_file_path(path).ok /\ UNCHANGED vars

ConversionNext ==
    \/ Next
    \/ \E path \in FilePaths :
          OpenFile(path) \/ OpenDirectory(path) \/ OpenNothing(path)

ConversionSpec == Init /\ [][ConversionNext]_vars

(****************************************************************************)
(* Properties.                                                              *)
(****************************************************************************)
NoByteOf(path, marks) == \A i \in 1..Len(path) : path[i] \notin marks

FromTo == doc # NoBase /\ doc' # NoBase

\* u and v differ in their credentials at most.
SameButCredentials(u, v) ==
    Scheme(u) = Scheme(v) /\ Drop(u.ser, u.host_start) = Drop(v.ser, v.host_start)

\* A path with a root, whose segments all have a name and are not drive
\* letters or, as the first of a reference, a scheme.
PlainPath(path) ==
    /\ FirstIn(path, {"/"})
    /\ \A i \in 1..(Len(path) - 1) : path[i] = "/" => path[i + 1] # "/"
    /\ NoByteOf(path, {":", "|"})

\* A reference that names neither path nor query keeps the base's query.
KeepsQuery(base, u) ==
    Path(base) = Path(u) /\ base.query_start # None /\ u.query_start = None

\* From a file to the directory it is in: the reference is "/".
ToOwnDirectory(base, u) ==
    /\ Directory(Path(base)) = Directory(Path(u))
    /\ Filename(Path(u)) = <<>> /\ Filename(Path(base)) # <<>>

ComesBack(base, u) ==
    \A text \in make_relative(base, u) :
        \E joined \in {Join(base, text)} :
            joined.ok /\ SameButCredentials(joined.url, u)

\* Climbing out of one path and down another leads to the URL the reference
\* was made for, with its query and fragment, between any two URLs on a host;
\* but for three cases: names left out or read as something else (PlainPath),
\* a query that is kept, and the directory of the base.
RelativeComesBack ==
    [][ FromTo /\ has_authority(doc) = has_authority(doc')
        /\ PlainPath(Path(doc)) /\ PlainPath(Path(doc'))
        /\ ~KeepsQuery(doc, doc') /\ ~ToOwnDirectory(doc, doc')
        => ComesBack(doc, doc') ]_vars

\* Two network URLs have the same origin if and only if one can be written
\* relative to the other: make_relative compares what is written, the origin
\* the ports it stands for.
RelativeWithinOrigin ==
    [][ FromTo /\ TypeOf(doc) = "SpecialNotFile" /\ TypeOf(doc') = "SpecialNotFile"
        => (make_relative(doc, doc') # {}) = (url_origin[doc] = url_origin[doc']) ]_vars

\* The serialization of an origin is that of a URL with this origin, even when
\* it was taken from within a blob URL.
OriginWritten ==
    Opened =>
        \E origin \in {url_origin[doc]} :
            origin.kind = "Tuple" =>
                \E again \in {Parse(SerializeTuple(origin))} :
                    again.ok /\ url_origin[again.url] = origin

\* A file path comes back from its URL, whatever its names are.
FilePathComesBack ==
    [][ \A path \in FilePaths :
           OpenFile(path) \/ OpenDirectory(path) =>
              \E back \in {to_file_path(doc')} :
                 back.ok /\ Components(back.path) = Components(path) ]_vars

\* The URL of a file path is one the parser could have given; but for "..",
\* which the parser resolves, and a drive letter it would normalize.
FileUrlRoundTrips ==
    [][ \A path \in FilePaths :
           OpenFile(path) \/ OpenDirectory(path) =>
              \/ RoundTrips(doc')
              \/ \E i \in 1..Len(Components(path)) :
                    \/ Components(path)[i] = <<".", ".">>
                    \/ i = 1 /\ is_windows_drive_letter(Components(path)[i]) ]_vars

\* url.rs, from_directory_path: the URL "can be used as a base URL for further
\* relative paths under that directory".
DirectoryHoldsFiles ==
    [][ \A path \in FilePaths : OpenDirectory(path) =>
           \A name \in Word :
              Join(doc', <<name>>) = from_file_path(path \o <<"/", name>>) ]_vars
==============================================================================
