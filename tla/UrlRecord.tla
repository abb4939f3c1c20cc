------------------------------ MODULE UrlRecord ------------------------------
(****************************************************************************)
(* The Url value (url.rs): a serialization and the offsets that cut it into *)
(* components, the accessors that read components off it, and the layout    *)
(* every operation relies on.  Offsets are 0-based, as in the code.         *)
(****************************************************************************)
EXTENDS Lexemes

HostKind == {"None", "Domain", "Ipv4", "Ipv6"}

OptOffset == Nat \union {None}

UrlSet == [ser            : Text,
           scheme_end     : Nat,
           username_end   : Nat,
           host_start     : Nat,
           host_end       : Nat,
           host           : HostKind,
           port           : PortNumber \union {None},
           path_start     : Nat,
           query_start    : OptOffset,
           fragment_start : OptOffset]

(****************************************************************************)
(* String slices: s[..n], s[n..], s[a..b], s.as_bytes()[i], starts_with,    *)
(* ends_with, and the splice every setter performs: s[..a] + mid + s[b..].  *)
(****************************************************************************)
Take(s, n)     == SubSeq(s, 1, n)
Drop(s, n)     == SubSeq(s, n + 1, Len(s))
Slice(s, a, b) == SubSeq(s, a + 1, b)
ByteAt(s, i)   == s[i + 1]

SliceInBounds(s, a, b) == 0 <= a /\ a <= b /\ b <= Len(s)

\* The byte at i exists and is c.
HasByte(s, i, c) == i < Len(s) /\ ByteAt(s, i) = c

NoByte(text, c) == \A i \in 1..Len(text) : text[i] # c

EndsWith(s, c) == Len(s) > 0 /\ s[Len(s)] = c

Splice(s, a, b, mid) == Take(s, a) \o mid \o Drop(s, b)

\* Faulty variant of ShiftOpt: an absent offset is moved as well.
ShiftOptAlways(offset, by) == offset + by

\* adjust(index) on an offset that may be absent.
ShiftOpt(offset, by) == IF offset = None THEN None ELSE offset + by

(****************************************************************************)
(* Accessors.  One whose slice is out of bounds panics: PasswordPanics.     *)
(****************************************************************************)
Scheme(u)    == Take(u.ser, u.scheme_end)
TypeOf(u)    == SchemeType(Scheme(u))
IsSpecial(u) == IsSpecialType(TypeOf(u))

StartsWithAuthority(s, scheme_end) ==
    /\ HasByte(s, scheme_end, ":")
    /\ HasByte(s, scheme_end + 1, "/")
    /\ HasByte(s, scheme_end + 2, "/")

has_authority(u) == StartsWithAuthority(u.ser, u.scheme_end)

cannot_be_a_base(u) == ~HasByte(u.ser, u.scheme_end + 1, "/")

has_host(u) == u.host # "None"

Username(u) ==
    IF has_authority(u) /\ u.username_end > u.scheme_end + 3
    THEN Slice(u.ser, u.scheme_end + 3, u.username_end)
    ELSE <<>>

HasPassword(u) == has_authority(u) /\ HasByte(u.ser, u.username_end, ":")

PasswordPanics(u) == HasPassword(u) /\ u.username_end + 1 > u.host_start - 1

Password(u) == IF HasPassword(u)
               THEN Slice(u.ser, u.username_end + 1, u.host_start - 1)
               ELSE <<>>

\* host_str, and the Domain text host() and domain() return.
HostText(u) == Slice(u.ser, u.host_start, u.host_end)

\* Faulty variant of TakesCredentials: any URL but a file URL takes them.
TakesCredentialsUnlessFile(u) == TypeOf(u) # "File"

\* has_host, host() != Domain("") and not file: what set_username,
\* set_password and set_port require.
TakesCredentials(u) ==
    /\ has_host(u)
    /\ ~(u.host = "Domain" /\ u.host_start = u.host_end)
    /\ TypeOf(u) # "File"

\* Where the path ends: at the query, else at the fragment, else at the end.
PathEnd(u) == CASE u.query_start # None    -> u.query_start
                [] u.query_start = None /\ u.fragment_start # None
                                           -> u.fragment_start
                [] OTHER                   -> Len(u.ser)

Path(u) == Slice(u.ser, u.path_start, PathEnd(u))

QueryEnd(u) == IF u.fragment_start # None THEN u.fragment_start
                                          ELSE Len(u.ser)

Query(u) == IF u.query_start = None THEN <<>>
            ELSE Slice(u.ser, u.query_start + 1, QueryEnd(u))

Fragment(u) == IF u.fragment_start = None THEN <<>>
               ELSE Drop(u.ser, u.fragment_start + 1)

(****************************************************************************)
(* The layout operations rely on when they slice by offset.                 *)
(****************************************************************************)
\* ':' ends the scheme; username, host and port follow in this order.
HeadCut(u) ==
    /\ u.scheme_end < u.username_end
    /\ u.username_end <= u.host_start
    /\ u.host_start <= u.host_end
    /\ u.host_end <= u.path_start
    /\ u.path_start <= Len(u.ser)
    /\ ByteAt(u.ser, u.scheme_end) = ":"

\* A query and a fragment start at their '?' and '#', after the path and in
\* this order.
TailCut(u) ==
    /\ u.query_start # None =>
          /\ u.path_start <= u.query_start
          /\ HasByte(u.ser, u.query_start, "?")
    /\ u.fragment_start # None =>
          /\ u.path_start <= u.fragment_start
          /\ HasByte(u.ser, u.fragment_start, "#")
          /\ u.query_start # None => u.query_start < u.fragment_start

\* Credentials and host stand after "://", or there are none.
AuthorityMarked(u) ==
    \/ /\ u.username_end = u.scheme_end + 1
       /\ u.host_start = u.username_end
       /\ u.host_end = u.username_end
    \/ u.username_end >= u.scheme_end + 3 /\ has_authority(u)

\* Special schemes always have an authority.
SpecialHasAuthority(u) == IsSpecial(u) => u.username_end >= u.scheme_end + 3

\* A username is closed by '@', a password stands between ':' and '@', and
\* without either nothing stands in front of the host.
CredentialsClosed(u) ==
    \/ u.username_end = u.host_start /\ u.username_end <= u.scheme_end + 3
    \/ /\ u.username_end > u.scheme_end + 3
       /\ u.host_start = u.username_end + 1
       /\ ByteAt(u.ser, u.username_end) = "@"
    \/ /\ u.host_start >= u.username_end + 3
       /\ ByteAt(u.ser, u.username_end) = ":"
       /\ ByteAt(u.ser, u.host_start - 1) = "@"

\* An address host is written, and no host starts like a port or an '@'.
HostWritten(u) ==
    /\ u.host \in {"Ipv4", "Ipv6"} => u.host_start < u.host_end
    /\ u.host_start < u.host_end => ByteAt(u.ser, u.host_start) \notin {":", "@"}

\* What stands between the host and the path: the port, or the "/." that
\* keeps a path from being read as an authority.
PortWritten(u) ==
    IF u.port # None
    THEN Slice(u.ser, u.host_end, u.path_start) = PortSuffix(u.port)
    ELSE Slice(u.ser, u.host_end, u.path_start) \in {<<>>, <<"/", ".">>}

\* No space stands before the path.
HeadHasNoSpace(u) == \A i \in 1..u.path_start : u.ser[i] # "SP"

AuthorityIntact(u) ==
    /\ AuthorityMarked(u)
    /\ SpecialHasAuthority(u)
    /\ CredentialsClosed(u)
    /\ HostWritten(u)
    /\ PortWritten(u)
    /\ HeadHasNoSpace(u)

WellFormed(u) == HeadCut(u) /\ TailCut(u) /\ AuthorityIntact(u)

Good(u) == u \in UrlSet /\ WellFormed(u)

\* A path that starts with '/', and one that starts with two.
Rooted(path) == path # <<>> /\ path[1] = "/"

StartsWithTwoSlashes(path) ==
    Len(path) >= 2 /\ path[1] = "/" /\ path[2] = "/"

\* "/." stands in front of the path.
DotPrefixed(u) == Slice(u.ser, u.host_end, u.path_start) = <<"/", ".">>

\* A component that may be absent, None or one text.
Optional(offset, text) == IF offset = None THEN <<>> ELSE <<text>>

\* The components can be told apart where they stand one behind another: no
\* credentials or port without a host, a port only where it says something, no
\* '/' in a host, and a path that starts with one.
ComponentsApart(u) ==
    /\ u.host = "None" => u.host_start = u.host_end
    /\ TypeOf(u) = "SpecialNotFile" => u.host_start < u.host_end
    /\ u.host_start = u.host_end => u.username_end = u.host_start /\ u.port = None
    /\ u.port # None => TypeOf(u) # "File" /\ u.port # default_port(Scheme(u))
    /\ NoByte(HostText(u), "/")
    /\ ~cannot_be_a_base(u) => Path(u) = <<>> \/ Rooted(Path(u))
    /\ IsSpecial(u) => Path(u) # <<>>
    /\ has_authority(u) => u.username_end >= u.scheme_end + 3

\* A network URL has a host, which origin.rs unwraps.
NetworkHasHost(u) == TypeOf(u) = "SpecialNotFile" => has_host(u)

(****************************************************************************)
(* What the setters rely on about the texts the parser and the host parser  *)
(* hand them: written into a good value, they leave a good value.           *)
(****************************************************************************)
GoodScheme(result) ==
    result.ok => /\ result.scheme \in Text
                 /\ result.scheme # <<>>
                 /\ NoByte(result.scheme, "SP")

\* A username or a password, and what is written for it.
GoodUserinfo(text, written) ==
    /\ written \in Text
    /\ text # <<>> => written # <<>>
    /\ NoByte(written, "SP")

\* Only a URL without a special scheme may have an empty host.
GoodHost(type, host) ==
    host.ok => /\ host.text \in Text
               /\ host.kind \in HostKind
               /\ host.kind = "None" <=> host.text = <<>>
               /\ type # "NotSpecial" => host.kind # "None"
               /\ \A c \in {"SP", "@", ":", "/"} : NoByte(host.text, c)

\* The path written behind a '/' or not.
GoodPath(type, afterSlash, path) ==
    /\ path \in Text
    /\ (type = "SpecialNotFile" => ~afterSlash) =>
          \/ Rooted(path)
          \/ type = "NotSpecial" /\ path = <<>>
==============================================================================
