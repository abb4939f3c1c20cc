------------------------------ MODULE UrlParser ------------------------------
(****************************************************************************)
(* Parser (parser.rs) and the host parser (host.rs) as functions: from an   *)
(* input text and possibly a base URL to a Url value or an error.  The      *)
(* parser appends to one growing serialization; s below is that buffer, and *)
(* an operator that appends to it returns the new buffer together with the  *)
(* rest of the input.  Input drops tabs and newlines wherever they stand,   *)
(* so the entry points remove them once.                                    *)
(****************************************************************************)
EXTENDS UrlRecord, SequencesExt

Ok(u)  == [ok |-> TRUE, url |-> u]
Err(e) == [ok |-> FALSE, err |-> e]

\* The operator '?': go on with a result, return an error.
Try(result, Then(_)) == IF result.ok THEN Then(result) ELSE result

\* A context is "UrlParser", "Setter" or "PathSegmentSetter".
\* Input: tabs and newlines are skipped, Url::parse trims spaces as well.
SkipTabs(text) ==
    LET kept[i \in 0..Len(text)] ==
            IF i = 0 THEN <<>>
            ELSE IF text[i] = "TAB" THEN kept[i - 1] ELSE Append(kept[i - 1], text[i])
    IN  kept[Len(text)]

TrimSpaces(text) ==
    LET kept == {i \in 1..Len(text) : text[i] \notin {"SP", "TAB"}}
    IN  IF kept = {} THEN <<>> ELSE SubSeq(text, Min(kept), Max(kept))

\* What parse_url_full sees of a text.
Input(text) == SkipTabs(TrimSpaces(text))

StartsWith(text, prefix) == IsPrefix(prefix, text)
FirstIn(text, chars) == text # <<>> /\ text[1] \in chars

\* The offset of the first character of text in chars, or the length.
Find(text, chars) ==
    Min({i \in 1..Len(text) : text[i] \in chars} \union {Len(text) + 1}) - 1

\* rfind('/'): 0-based, None when there is no slash.
LastSlash(text) ==
    Max({i \in 1..Len(text) : text[i] = "/"} \union {None + 1}) - 1

Separators(type) == IF IsSpecialType(type) THEN {"/", "BSLASH"} ELSE {"/"}

(****************************************************************************)
(* Windows drive letters.                                                   *)
(****************************************************************************)
is_windows_drive_letter(segment) ==
    /\ Len(segment) = 2
    /\ segment[1] \in Letter
    /\ segment[2] \in {":", "|"}

is_normalized_windows_drive_letter(segment) ==
    is_windows_drive_letter(segment) /\ segment[2] = ":"

\* starts_with_windows_drive_letter_segment; with a slash in front of it,
\* path_starts_with_windows_drive_letter.
StartsWithDriveLetter(text) ==
    /\ Len(text) >= 2
    /\ is_windows_drive_letter(Take(text, 2))
    /\ Len(text) > 2 => text[3] \in {"/", "BSLASH", "?", "#"}

\* first_path_segment
FirstPathSegment(u) ==
    LET path == Path(u)
    IN  IF FirstIn(path, {"/"})
        THEN Take(Tail(path), Find(Tail(path), {"/"}))
        ELSE <<>>

(****************************************************************************)
(* Schemes and hosts.                                                       *)
(****************************************************************************)
Lower(text) == [i \in 1..Len(text) |-> IF text[i] \in Word
                                        THEN Lowercase[text[i]] ELSE text[i]]

\* parse_scheme: only a setter accepts a scheme that ends without its ':'.
ParseScheme(input, context) ==
    LET schemeChars == Word \union Digit \union {".", "+"}
        end == Find(input, Lexeme \ schemeChars)
    IN  IF ~FirstIn(input, Word) THEN Err("scheme")
        ELSE IF end < Len(input) /\ ByteAt(input, end) = ":"
        THEN [ok |-> TRUE, scheme |-> Lower(Take(input, end)),
              rest |-> Drop(input, end + 1)]
        ELSE IF end = Len(input) /\ context = "Setter"
        THEN [ok |-> TRUE, scheme |-> Lower(input), rest |-> <<>>]
        ELSE Err("scheme")

Host(kind, text) == [ok |-> TRUE, kind |-> kind, text |-> text]

\* Domain("") is stored as HostInternal::None.
DomainHost(text) == Host(IF text = <<>> THEN "None" ELSE "Domain", text)

BracketedHost(text) == IF text = <<"[v6]">> THEN Host("Ipv6", text)
                       ELSE Err("InvalidIpv6Address")

\* ends_in_a_number: the last label (a final dot aside) is a number.
EndsInNumber(domain) ==
    LET name  == IF Last(domain) = "." THEN Front(domain) ELSE domain
        label == Drop(name, Len(name) - Find(Reverse(name), {"."}))
    IN  label # <<>> /\ \A i \in 1..Len(label) : label[i] \in Digit \union {"v4"}

\* parse_ipv4addr accepts up to four numbers; every address is written "v4".
Ipv4Host(domain) ==
    LET dots == {i \in 1..Len(domain) : domain[i] = "."}
        number(i) == i \in 1..Len(domain) /\ domain[i] \in Digit
    IN  IF \/ domain \in {<<"v4">>, <<"v4", ".">>}
           \/ /\ \A i \in 1..Len(domain) : domain[i] \in Digit \union {"."}
              /\ \A i \in dots : number(i - 1) /\ (number(i + 1) \/ i = Len(domain))
              /\ Cardinality(dots \ {Len(domain)}) <= 3
        THEN Host("Ipv4", <<"v4">>)
        ELSE Err("InvalidIpv4Address")

\* Host::parse: percent-decode, lowercase and validate a domain; a domain
\* that ends in a number must be an IPv4 address.
ParseHost(text) ==
    LET domain == Lower(PercentDecode(text))
        allowed == Word \union Digit \union {".", "v4", "'", "&", "=", "+"}
    IN  IF FirstIn(text, {"[v6]"}) THEN BracketedHost(text)
        ELSE IF \E i \in 1..Len(domain) : domain[i] \notin allowed
        THEN Err("InvalidDomainCharacter")
        ELSE IF text = <<>> THEN Err("EmptyHost")
        ELSE IF EndsInNumber(domain) THEN Ipv4Host(domain)
        ELSE DomainHost(domain)

\* Host::parse_opaque: a restricted character set, nothing is decoded.
ParseOpaqueHost(text) ==
    LET refused == {"TAB", "SP", "#", "/", ":", "?", "@", "[v6]", "BSLASH", "|"}
    IN  IF FirstIn(text, {"[v6]"}) THEN BracketedHost(text)
        ELSE IF \E i \in 1..Len(text) : text[i] \in refused
        THEN Err("InvalidDomainCharacter")
        ELSE DomainHost(PercentEncode(text, CONTROLS))

HostParser(type, text) == IF IsSpecialType(type) THEN ParseHost(text)
                                                 ELSE ParseOpaqueHost(text)

(****************************************************************************)
(* Paths.                                                                   *)
(****************************************************************************)
\* Faulty variant of PathEncodeSet: a pushed segment is encoded like a path.
SameSetForSegments(type, context) == PATH

PathEncodeSet(type, context) ==
    IF context # "PathSegmentSetter" THEN PATH
    ELSE IF IsSpecialType(type) THEN SPECIAL_PATH_SEGMENT ELSE PATH_SEGMENT

\* Faulty variant of Dot: an escaped dot is not read as one.
PlainDot == {"."}

Dot == {".", "%2e"}
IsSingleDot(segment) == Len(segment) = 1 /\ segment[1] \in Dot
IsDoubleDot(segment) ==
    Len(segment) = 2 /\ segment[1] \in Dot /\ segment[2] \in Dot

last_slash_can_be_removed(s, path_start) ==
    LET i == LastSlash(Front(s))
    IN  /\ i # None
        /\ i >= path_start
        /\ ~StartsWithDriveLetter(Drop(s, i + 1))

pop_path(s, type, path_start) ==
    IF Len(s) <= path_start THEN s
    ELSE LET segment_start == path_start + LastSlash(Drop(s, path_start)) + 1
         IN  IF /\ type = "File"
                /\ is_normalized_windows_drive_letter(Drop(s, segment_start))
             THEN s ELSE Take(s, segment_start)

shorten_path(s, type, path_start) ==
    IF /\ type = "File"
       /\ is_normalized_windows_drive_letter(Drop(s, path_start))
    THEN s ELSE pop_path(s, type, path_start)

WithSlash(s) == IF EndsWith(s, "/") THEN s ELSE Append(s, "/")

\* One segment of parse_path, closed by a slash or not.  st is the buffer and
\* whether a file URL keeps its host.
PushSegment(st, segment, closed, type, path_start) ==
    LET s     == st.s
        slash == IF closed THEN <<"/">> ELSE <<>>
        up    == shorten_path(
                    IF EndsWith(s, "/") /\ last_slash_can_be_removed(s, path_start)
                    THEN Front(s) ELSE s,
                    type, path_start)
    IN  CASE IsDoubleDot(segment) ->
                [st EXCEPT !.s = IF closed THEN WithSlash(up) ELSE up]
          [] IsSingleDot(segment) -> [st EXCEPT !.s = WithSlash(s)]
          [] /\ type = "File"
             /\ Len(s) = path_start + 1
             /\ is_windows_drive_letter(segment) ->
                [s |-> s \o <<segment[1], ":">> \o slash, has_host |-> FALSE]
          [] OTHER -> [st EXCEPT !.s = s \o segment \o slash]

\* The segments of a path text, each with whether a slash closes it.
Segments(text, separators) ==
    LET cuts   == {i \in 1..Len(text) : text[i] \in separators}
        count  == Cardinality(cuts)
        cut(k) == CHOOSE i \in cuts : Cardinality({j \in cuts : j <= i}) = k
        from(k) == IF k = 1 THEN 1 ELSE cut(k - 1) + 1
        to(k)   == IF k > count THEN Len(text) ELSE cut(k) - 1
    IN  [k \in 1..(count + 1) |->
            [text |-> SubSeq(text, from(k), to(k)), closed |-> k <= count]]

\* A file path has exactly one leading slash.
FilePath(s, path_start) ==
    LET path  == Drop(s, path_start)
        other == {i \in 1..Len(path) : path[i] # "/"}
    IN  Take(s, path_start) \o <<"/">> \o
        (IF other = {} THEN <<>> ELSE Drop(path, Min(other) - 1))

\* A file path loses all but one of its leading slashes when it is complete.
ParsedPath(st, type, path_start, rest) ==
    [s |-> IF type = "File" THEN FilePath(st.s, path_start) ELSE st.s,
     has_host |-> st.has_host,
     rest |-> rest]

ParsePath(s, type, hasHost, path_start, input, context) ==
    LET end == IF context = "UrlParser" THEN Find(input, {"?", "#"})
                                        ELSE Len(input)
        cut == IF context = "PathSegmentSetter" THEN {} ELSE Separators(type)
        segments == Segments(Take(input, end), cut)
        push(st, seg) ==
            PushSegment(st, PercentEncode(seg.text, PathEncodeSet(type, context)),
                        seg.closed, type, path_start)
        pushed[k \in 0..Len(segments)] ==
            IF k = 0 THEN [s |-> s, has_host |-> hasHost]
            ELSE push(pushed[k - 1], segments[k])
    IN  ParsedPath(pushed[Len(segments)], type, path_start, Drop(input, end))

ParsePathStart(s, type, hasHost, input, context) ==
    LET special   == IsSpecialType(type)
        addsSlash == IF special THEN ~EndsWith(s, "/")
                     ELSE input # <<>> /\ ~FirstIn(input, {"/"})
        skips     == special /\ addsSlash /\ FirstIn(input, {"/", "BSLASH"})
    IN  IF ~special /\ FirstIn(input, {"?", "#"})
        THEN [s |-> s, has_host |-> hasHost, rest |-> input]
        ELSE ParsePath(IF addsSlash THEN Append(s, "/") ELSE s,
                       type, hasHost, Len(s),
                       IF skips THEN Tail(input) ELSE input, context)

ParseCannotBeABasePath(s, input, context) ==
    LET end == IF context = "UrlParser" THEN Find(input, {"?", "#"})
                                        ELSE Len(input)
    IN  [s |-> s \o PercentEncode(Take(input, end), CONTROLS),
         rest |-> Drop(input, end)]

(****************************************************************************)
(* Query and fragment.                                                      *)
(****************************************************************************)
QuerySet(type) == IF IsSpecialType(type) THEN SPECIAL_QUERY ELSE QUERY

\* parse_query_and_fragment: input is empty or starts with '?' or '#'.
WithQueryAndFragment(u, type, input) ==
    LET end   == IF FirstIn(input, {"?"}) THEN Find(input, {"#"}) ELSE 0
        query == IF end = 0 THEN <<>>
                 ELSE <<"?">> \o PercentEncode(Tail(Take(input, end)),
                                               QuerySet(type))
        hash  == Drop(input, end)
        fragment == IF hash = <<>> THEN <<>>
                    ELSE <<"#">> \o PercentEncode(Tail(hash), FRAGMENT)
    IN  [u EXCEPT
            !.ser = @ \o query \o fragment,
            !.query_start = IF query = <<>> THEN None ELSE Len(u.ser),
            !.fragment_start = IF fragment = <<>> THEN None
                               ELSE Len(u.ser \o query)]

(****************************************************************************)
(* Assembling the value.                                                    *)
(****************************************************************************)
\* The value at the point where its path starts.
UpToPath(s, scheme_end, username_end, host_start, host_end, host, port) ==
    [ser |-> s, scheme_end |-> scheme_end, username_end |-> username_end,
     host_start |-> host_start, host_end |-> host_end, host |-> host,
     port |-> port, path_start |-> Len(s),
     query_start |-> None, fragment_start |-> None]

\* Faulty variant of Finish: "//" is written after "scheme:" as it stands.
FinishAsWritten(u, input) == Ok(WithQueryAndFragment(u, TypeOf(u), input))

\* finish: a path that starts with "//" after "scheme:" gets "/." in front.
Finish(u, input) ==
    LET path == Drop(u.ser, u.path_start)
        safe == IF u.path_start = u.scheme_end + 1 /\ StartsWith(path, <<"/", "/">>)
                THEN [u EXCEPT !.ser = Take(@, u.path_start)
                                       \o <<"/", ".">> \o path,
                               !.path_start = @ + 2]
                ELSE u
    IN  Ok(WithQueryAndFragment(safe, TypeOf(u), input))

\* u with the path that was parsed behind it.
FinishPath(u, path) == Finish([u EXCEPT !.ser = path.s], path.rest)

(****************************************************************************)
(* Authority.                                                               *)
(****************************************************************************)
\* parse_userinfo: the userinfo ends at the last '@' before the path, query
\* or fragment.
ParseUserinfo(s, input, type) ==
    LET end == Find(input, Separators(type) \union {"?", "#"})
        ats == {i \in 1..end : input[i] = "@"}
        at  == Max(ats)
        info == Take(input, at - 1)
        rest == Drop(input, at)
        colon == Find(info, {":"})
        name == PercentEncode(Take(info, colon), USERINFO)
        \* a ':' with nothing after it is not written
        password == IF colon + 1 < Len(info)
                    THEN <<":">> \o PercentEncode(Drop(info, colon + 1), USERINFO)
                    ELSE <<>>
        written == name \o password
    IN  IF ats = {} THEN [ok |-> TRUE, s |-> s, username_end |-> Len(s),
                          rest |-> input]
        ELSE IF info = <<>> /\ FirstIn(rest, Separators(type) \union {"?", "#"})
        THEN Err("EmptyHost")
        ELSE [ok |-> TRUE,
              s  |-> s \o written \o (IF written = <<>> THEN <<>> ELSE <<"@">>),
              username_end |-> Len(s) + Len(name),
              rest |-> rest]

DigitValue(c) == CHOOSE d \in 0..9 : DigitLexeme(d) = c

\* The value of a run of digits, or MaxPort + 1 once it exceeds MaxPort.
PortValue(digits) ==
    LET value[i \in 0..Len(digits)] ==
            IF i = 0 THEN 0
            ELSE Min({10 * value[i - 1] + DigitValue(digits[i]), MaxPort + 1})
    IN  value[Len(digits)]

\* Faulty variant of ParsePort: the default port is kept.
ParseAnyPort(input, default) ==
    LET end  == Find(input, Lexeme \ Digit)
        port == PortValue(Take(input, end))
    IN  IF port > MaxPort THEN Err("InvalidPort")
        ELSE [ok |-> TRUE, rest |-> Drop(input, end),
              port |-> IF end = 0 THEN None ELSE port]

\* parse_port: the digits up to the path, query or fragment.
ParsePort(input, default) ==
    LET end  == Find(input, Lexeme \ Digit)
        port == PortValue(Take(input, end))
        rest == Drop(input, end)
    IN  IF \/ port > MaxPort
           \/ rest # <<>> /\ ~FirstIn(rest, {"/", "BSLASH", "?", "#"})
        THEN Err("InvalidPort")
        ELSE [ok |-> TRUE, rest |-> rest,
              port |-> IF end = 0 \/ port = default THEN None ELSE port]

HostBefore(host, rest) ==
    [ok |-> TRUE, kind |-> host.kind, text |-> host.text, rest |-> rest]

\* The host of a scheme type other than File, which ends at offset end.
HostUpTo(end, input, type) ==
    IF end = 0 /\ type = "SpecialNotFile" THEN Err("EmptyHost")
    ELSE Try(HostParser(type, Take(input, end)), LAMBDA host :
             IF host.text = <<>> /\ (HasByte(input, end, ":") \/ IsSpecialType(type))
             THEN Err("EmptyHost")
             ELSE HostBefore(host, Drop(input, end)))

OptionalPort(input, default) ==
    IF FirstIn(input, {":"}) THEN ParsePort(Tail(input), default)
    ELSE [ok |-> TRUE, port |-> None, rest |-> input]

ParseHostAndPort(s, input, scheme_end, type) ==
    Try(HostUpTo(Find(input, Separators(type) \union {":", "?", "#"}), input, type),
        LAMBDA host :
        Try(OptionalPort(host.rest, default_port(Take(s, scheme_end))),
            LAMBDA port :
            [ok |-> TRUE, rest |-> port.rest, host |-> host.kind, port |-> port.port,
             host_end |-> Len(s) + Len(host.text),
             s |-> s \o host.text
                     \o (IF port.port = None THEN <<>> ELSE PortSuffix(port.port))]))

\* after_double_slash: s ends with "scheme:".
AfterDoubleSlash(s, input, type, scheme_end) ==
    LET start == s \o <<"/", "/">>
    IN  Try(ParseUserinfo(start, input, type), LAMBDA user :
        Try(ParseHostAndPort(user.s, user.rest, scheme_end, type), LAMBDA host :
        IF host.host = "None" /\ Len(user.s) # Len(start) THEN Err("EmptyHost")
        ELSE FinishPath(
                UpToPath(host.s, scheme_end, user.username_end, Len(user.s),
                         host.host_end, host.host, host.port),
                ParsePathStart(host.s, type, TRUE, host.rest, "UrlParser"))))

ParseNonSpecial(scheme, input) ==
    LET s   == Append(scheme, ":")
        end == Len(s)
    IN  IF StartsWith(input, <<"/", "/">>)
        THEN AfterDoubleSlash(s, Drop(input, 2), "NotSpecial", Len(scheme))
        ELSE FinishPath(
                UpToPath(s, Len(scheme), end, end, end, "None", None),
                IF FirstIn(input, {"/"})
                THEN ParsePath(Append(s, "/"), "NotSpecial", FALSE, end,
                               Tail(input), "UrlParser")
                ELSE ParseCannotBeABasePath(s, input, "UrlParser"))

(****************************************************************************)
(* Resolving against a base URL.                                            *)
(****************************************************************************)
\* Faulty variant of WithoutFragmentOf: the fragment's offset survives.
WithoutFragmentText(base) == [base EXCEPT !.ser = Take(@, QueryEnd(base))]

\* The base with its fragment, or its query and fragment, cut off.
WithoutFragmentOf(base) ==
    [base EXCEPT !.ser = Take(@, QueryEnd(base)), !.fragment_start = None]

WithoutQueryOf(base) ==
    [base EXCEPT !.ser = Take(@, PathEnd(base)),
                 !.query_start = None, !.fragment_start = None]

\* fragment_only
WithFragmentOf(base, input) ==
    LET u == WithoutFragmentOf(base)
    IN  Ok([u EXCEPT !.ser = @ \o <<"#">> \o PercentEncode(Tail(input), FRAGMENT),
                     !.fragment_start = Len(u.ser)])

\* Faulty variant of ResolvePath: ".." stops at the end of the scheme.
ResolvePathBehindScheme(base, s, input) ==
    FinishPath(WithoutQueryOf(base),
               ParsePath(s, TypeOf(base), TRUE, base.scheme_end, input, "UrlParser"))

\* The base's authority with the path that input parses to after s.
ResolvePath(base, s, input) ==
    FinishPath(WithoutQueryOf(base),
               ParsePath(s, TypeOf(base), TRUE, base.path_start, input, "UrlParser"))

\* parse_relative
ParseRelative(input, base) ==
    LET type    == TypeOf(base)
        slashes == Find(input, Lexeme \ {"/", "BSLASH"})
        head    == Take(base.ser, base.path_start)
        popped  == pop_path(WithoutQueryOf(base).ser, type, base.path_start)
        parent  == IF /\ Len(popped) = base.path_start
                      /\ IsSpecialType(type) \/ input # <<>>
                   THEN Append(popped, "/") ELSE popped
    IN  CASE input = <<>>           -> Ok(WithoutFragmentOf(base))
          [] FirstIn(input, {"?"})  ->
                Ok(WithQueryAndFragment(WithoutQueryOf(base), type, input))
          [] FirstIn(input, {"#"})  -> WithFragmentOf(base, input)
          [] slashes >= 2           ->
                AfterDoubleSlash(Take(base.ser, base.scheme_end + 1),
                                 IF StartsWith(input, <<"/", "/">>)
                                 THEN Drop(input, 2) ELSE Drop(input, slashes),
                                 type, base.scheme_end)
          [] slashes = 1            -> ResolvePath(base, Append(head, "/"), Tail(input))
          [] OTHER                  -> ResolvePath(base, parent, input)

(****************************************************************************)
(* File URLs.                                                               *)
(****************************************************************************)
FileAuthority == FileScheme \o <<":", "/", "/">>

\* The value of a file URL whose host ends s.
UpToFilePath(s, host) ==
    LET host_start == Len(FileAuthority)
    IN  UpToPath(s, Len(FileScheme), host_start, host_start, Len(s), host, None)

FinishFile(u, path) ==
    Ok(WithQueryAndFragment([u EXCEPT !.ser = path.s], "File", path.rest))

\* file_host and parse_file_host: a drive letter is no host and localhost is
\* not written.
ParseFileHost(input) ==
    LET end  == Find(input, {"/", "BSLASH", "?", "#"})
        text == Take(input, end)
        none(rest) == [ok |-> TRUE, kind |-> "None", text |-> <<>>, rest |-> rest]
    IN  IF is_windows_drive_letter(text) \/ text = <<>> THEN none(input)
        ELSE Try(ParseHost(text), LAMBDA host :
                 IF host.text = <<"localhost">> THEN none(Drop(input, end))
                 ELSE HostBefore(host, Drop(input, end)))

\* The path decides whether the host stays.
KeepFileHost(s, kind, path) ==
    IF path.has_host THEN FinishFile(UpToFilePath(s, kind), path)
    ELSE FinishFile(UpToFilePath(FileAuthority, "None"),
                    [path EXCEPT !.s = FileAuthority \o Drop(@, Len(s))])

\* "file://"
ParseFileAuthority(input) ==
    Try(ParseFileHost(input), LAMBDA host :
        LET s == FileAuthority \o host.text
        IN  KeepFileHost(s, host.kind,
                IF host.kind # "None"
                THEN ParsePathStart(s, "File", TRUE, host.rest, "UrlParser")
                ELSE ParsePath(Append(s, "/"), "File", FALSE, Len(s), host.rest,
                               "UrlParser")))

\* A single slash: a drive letter or else the host is the base's.
ParseFileSlash(input, hasBase, base) ==
    LET first   == FirstPathSegment(base)
        inherit == hasBase /\ ~StartsWithDriveLetter(Tail(input))
        drive   == inherit /\ is_normalized_windows_drive_letter(first)
        host    == inherit /\ ~drive /\ has_host(base)
        start   == FileAuthority \o (IF host THEN HostText(base) ELSE <<>>)
        s       == start \o (IF drive THEN <<"/">> \o first ELSE <<>>)
    IN  FinishFile(UpToFilePath(start, IF host THEN base.host ELSE "None"),
                   ParsePath(s, "File", FALSE, Len(start), input, "UrlParser"))

\* No slash and nothing to resolve against, or a drive letter of its own.
ParseFilePath(input) ==
    FinishFile(UpToFilePath(FileAuthority, "None"),
               ParsePath(Append(FileAuthority, "/"), "File", FALSE,
                         Len(FileAuthority), input, "UrlParser"))

\* parse_file; base is only looked at when hasBase.
ParseFile(input, hasBase, base) ==
    LET slash == {"/", "BSLASH"}
    IN  CASE FirstIn(input, slash) /\ FirstIn(Tail(input), slash) ->
                ParseFileAuthority(Drop(input, 2))
          [] FirstIn(input, slash) /\ ~FirstIn(Tail(input), slash) ->
                ParseFileSlash(input, hasBase, base)
          [] ~FirstIn(input, slash) /\ ~hasBase -> ParseFilePath(input)
          [] OTHER ->
                IF input = <<>> THEN Ok(WithoutFragmentOf(base))
                ELSE IF FirstIn(input, {"?"})
                THEN Ok(WithQueryAndFragment(WithoutQueryOf(base), "File", input))
                ELSE IF FirstIn(input, {"#"}) THEN WithFragmentOf(base, input)
                ELSE IF StartsWithDriveLetter(input) THEN ParseFilePath(input)
                ELSE ResolvePath(base,
                                 shorten_path(WithoutQueryOf(base).ser, "File",
                                              base.path_start),
                                 input)

(****************************************************************************)
(* Entry points.                                                            *)
(****************************************************************************)
\* Faulty variant of IsRelative: of any scheme.
IsRelativeByScheme(type, same, input) ==
    same /\ Find(input, Lexeme \ {"/", "BSLASH"}) < 2

\* "scheme:" in front of less than two slashes, with the base's scheme.
IsRelative(type, same, input) ==
    /\ type = "SpecialNotFile"
    /\ same
    /\ Find(input, Lexeme \ {"/", "BSLASH"}) < 2

ParseWithScheme(scheme, input, hasBase, base) ==
    LET type    == SchemeType(scheme)
        slashes == Find(input, Lexeme \ {"/", "BSLASH"})
        same    == hasBase /\ Scheme(base) = scheme
    IN  CASE type = "File" -> ParseFile(input, same, base)
          [] IsRelative(type, same, input) -> ParseRelative(input, base)
          [] type = "NotSpecial" -> ParseNonSpecial(scheme, input)
          [] OTHER ->
                AfterDoubleSlash(Append(scheme, ":"), Drop(input, slashes), type,
                                 Len(scheme))

\* parse_url_full
ParseAgainst(text, hasBase, base) ==
    LET input  == Input(text)
        scheme == ParseScheme(input, "UrlParser")
    IN  IF scheme.ok
        THEN ParseWithScheme(scheme.scheme, scheme.rest, hasBase, base)
        ELSE IF ~hasBase THEN Err("RelativeUrlWithoutBase")
        ELSE IF FirstIn(input, {"#"}) THEN WithFragmentOf(base, input)
        ELSE IF cannot_be_a_base(base)
        THEN Err("RelativeUrlWithCannotBeABaseBase")
        ELSE IF TypeOf(base) = "File" THEN ParseFile(input, TRUE, base)
        ELSE ParseRelative(input, base)

\* A base that is never looked at.
NoBase == UpToPath(<<>>, 0, 0, 0, 0, "None", None)

\* Url::parse and Url::join
Parse(text)      == ParseAgainst(text, FALSE, NoBase)
Join(base, text) == ParseAgainst(text, TRUE, base)

\* A value that parsing its own serialization gives back.
RoundTrips(u) == Parse(u.ser) = Ok(u)

\* What the setters get for a text they parse.
SetterScheme(text) ==
    LET p == ParseScheme(SkipTabs(text), "Setter")
    IN  IF p.ok THEN [ok |-> TRUE, scheme |-> p.scheme, done |-> p.rest = <<>>]
                ELSE [ok |-> FALSE]
SetterUserinfo(text) == PercentEncode(text, USERINFO)
SetterPath(type, afterSlash, text) ==
    LET s == IF afterSlash THEN <<"/">> ELSE <<":">>
    IN  Drop(ParsePathStart(s, type, TRUE, SkipTabs(text), "Setter").s, 1)
SetterOpaquePath(text) ==
    ParseCannotBeABasePath(<<>>, SkipTabs(text), "Setter").s
SetterQuery(type, text) == PercentEncode(SkipTabs(text), QuerySet(type))
SetterFragment(text) == PercentEncode(SkipTabs(text), FRAGMENT)
==============================================================================
