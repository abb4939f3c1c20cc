----------------------------- MODULE UrlFilePath -----------------------------
(****************************************************************************)
(* Conversion between file URLs and the paths of Unix-like systems          *)
(* (file_path.rs; url.rs: from_file_path, from_directory_path,              *)
(* to_file_path).  A path is a text; its components are what                *)
(* std::path::Path::components gives.                                       *)
(****************************************************************************)
EXTENDS UrlParser

Absolute(path) == FirstIn(path, {"/"})

\* Path::components behind the root: empty components and "." are dropped.
Components(path) ==
    LET parts == Segments(path, {"/"})
        texts == [i \in 1..Len(parts) |-> parts[i].text]
    IN  SelectSeq(texts, LAMBDA t : t \notin {<<>>, <<".">>})

Concat(texts) == FoldLeft(LAMBDA all, t : all \o t, <<>>, texts)

\* Faulty variant of FilePathSet: what Windows paths are encoded with.
PlainPathSet == PATH_SEGMENT

\* Faulty variant of FilePathSet: an escape in a name is not escaped.
ParsedPathSet == PATH

FilePathSet == SPECIAL_PATH_SEGMENT

\* path_to_file_url_segments: the path must not be empty.
FileUrlPath(path) ==
    LET names == Components(path)
    IN  IF names = <<>> THEN <<"/">>
        ELSE Concat([i \in 1..Len(names) |->
                        <<"/">> \o PercentEncode(names[i], FilePathSet)])

from_file_path(path) ==
    IF ~Absolute(path) THEN Err("path")
    ELSE Ok([UpToFilePath(FileAuthority, "None") EXCEPT
                !.ser = @ \o FileUrlPath(path)])

\* Faulty variant of from_directory_path: the slash is left to the caller.
DirectoryAsFile(path) == from_file_path(path)

from_directory_path(path) ==
    Try(from_file_path(path),
        LAMBDA u : Ok([u.url EXCEPT !.ser = WithSlash(@)]))

\* A drive letter at the end gets a slash, wherever it starts.
WithDriveSlash(path) ==
    IF /\ Len(path) > 2
       /\ path[Len(path)] \in {":", "|"}
       /\ path[Len(path) - 1] \in Word
    THEN Append(path, "/") ELSE path

\* to_file_path and file_url_segments_to_pathbuf; only a path with a slash has
\* segments, and the empty domain is not the absence of a host.
to_file_path(u) ==
    IF \/ ~FirstIn(Path(u), {"/"})
       \/ ~(u.host = "None" \/ (u.host = "Domain" /\ HostText(u) = <<"localhost">>))
    THEN Err("path")
    ELSE LET parts == Segments(Tail(Path(u)), {"/"})
         IN  [ok |-> TRUE,
              path |-> WithDriveSlash(Concat(
                  [i \in 1..Len(parts) |-> <<"/">> \o PercentDecode(parts[i].text)]))]
==============================================================================
