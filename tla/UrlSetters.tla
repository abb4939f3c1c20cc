----------------------------- MODULE UrlSetters -----------------------------
(****************************************************************************)
(* The setters of Url (url.rs): each edits the serialization in place and   *)
(* moves the offsets after the edit.  A state is a Url value and the result *)
(* of the last call; an action is one call.  What the parser and the host   *)
(* parser write for a given text is a parameter of the module, together     *)
(* with what the setters rely on about it; UrlParser defines it.            *)
(****************************************************************************)
EXTENDS UrlRecord, FiniteSets

CONSTANTS
    InitUrls,          \* the values the program starts from: parser output
    Schemes, Usernames, Passwords, Hosts, Ports, Paths, Queries, Fragments,
    SchemeOf(_),       \* Parser::parse_scheme in Setter context
    UserinfoText(_),   \* utf8_percent_encode(_, USERINFO)
    HostOf(_, _),      \* Host::parse or Host::parse_opaque, by scheme type
    PathText(_, _, _), \* Parser::parse_path_start: type, after '/'?, path
    OpaqueText(_),     \* Parser::parse_cannot_be_a_base_path
    QueryText(_, _),   \* Parser::parse_query: type, query
    FragmentText(_)    \* Parser::parse_fragment

VARIABLES
    url,               \* the Url being edited
    ret                \* how the last call ended: "Ok", "Err" or "Panic"

vars == <<url, ret>>

\* Everything before the first ':', unless the host is a bracketed address.
HostSubstring(text) ==
    IF text # <<>> /\ text[1] = "[v6]" THEN text
    ELSE IF \E i \in 1..Len(text) : text[i] = ":"
         THEN LET colon == CHOOSE i \in 1..Len(text) :
                             text[i] = ":" /\ \A j \in 1..(i - 1) : text[j] # ":"
              IN  Take(text, colon - 1)
         ELSE text

\* An opaque path must not start with '/'.
OpaquePath(path) ==
    IF path # <<>> /\ path[1] = "/" THEN <<"%2F">> \o OpaqueText(Tail(path))
                                    ELSE OpaqueText(path)

\* What the setters rely on about the texts the parsers hand them.
ASSUME InputAssumption ==
    /\ Ports \subseteq PortNumber
    /\ Usernames \subseteq Text /\ Passwords \subseteq Text
    /\ Hosts \subseteq Text /\ Paths \subseteq Text

\* Parser output: ParserOutputWellFormed of UrlNavigation.
ASSUME InitAssumption ==
    \A u \in InitUrls : Good(u) /\ ComponentsApart(u) /\ NetworkHasHost(u)

ASSUME SchemeAssumption == \A s \in Schemes : GoodScheme(SchemeOf(s))

ASSUME UserinfoAssumption ==
    \A n \in Usernames \union Passwords : GoodUserinfo(n, UserinfoText(n))

ASSUME HostAssumption ==
    \A t \in SchemeTypes, h \in Hosts : GoodHost(t, HostOf(t, HostSubstring(h)))

ASSUME PathAssumption ==
    /\ \A t \in SchemeTypes, b \in BOOLEAN, p \in Paths :
          GoodPath(t, b, PathText(t, b, p))
    /\ \A p \in Paths : OpaquePath(p) \in Text

ASSUME TailAssumption ==
    /\ \A t \in SchemeTypes, q \in Queries : QueryText(t, q) \in Text
    /\ \A f \in Fragments : FragmentText(f) \in Text

Init == url \in InitUrls /\ ret = "Ok"

\* The call returns an error or panics before it changed anything.
Leave(result) == ret' = result /\ UNCHANGED url

Become(u) == ret' = "Ok" /\ url' = u

(****************************************************************************)
(* Moving the offsets that lie after an edit.                               *)
(****************************************************************************)
\* Faulty variant of ShiftAfterPath: the fragment's offset is forgotten.
ShiftQueryOnly(u, by) == [u EXCEPT !.query_start = ShiftOpt(@, by)]

ShiftAfterPath(u, by) ==
    [u EXCEPT !.query_start    = ShiftOpt(@, by),
              !.fragment_start = ShiftOpt(@, by)]

ShiftPath(u, by) == [ShiftAfterPath(u, by) EXCEPT !.path_start = @ + by]

ShiftHost(u, by) == [ShiftPath(u, by) EXCEPT !.host_start = @ + by,
                                             !.host_end   = @ + by]

(****************************************************************************)
(* Ports.                                                                   *)
(****************************************************************************)
\* set_port_internal
WithPort(u, port) ==
    IF port = u.port THEN u
    ELSE LET suffix == IF port = None THEN <<>> ELSE PortSuffix(port)
         IN  [ShiftPath(u, u.host_end + Len(suffix) - u.path_start) EXCEPT
                !.ser  = Splice(u.ser, u.host_end, u.path_start, suffix),
                !.port = port]

\* Faulty variant of Normalized: a default port is stored and written.
StoredAsGiven(u, port) == port

\* The port set_port stores: a scheme's default port is never written.
Normalized(u, port) == IF port = default_port(Scheme(u)) THEN None ELSE port

SetPort(port) ==
    \/ ~TakesCredentials(url) /\ Leave("Err")
    \/ TakesCredentials(url) /\ Become(WithPort(url, Normalized(url, port)))

(****************************************************************************)
(* Schemes.  set_scheme ends by storing the port again, whatever set_port   *)
(* answers.                                                                 *)
(****************************************************************************)
\* Faulty variant of SchemeChangeRefused: a file URL without a host may become
\* a network URL.
RefusedByTypeOnly(u, new) ==
    \/ IsSpecialType(SchemeType(new)) # IsSpecial(u)
    \/ SchemeType(new) = "File" /\ has_authority(u)

SchemeChangeRefused(u, new) ==
    \/ IsSpecialType(SchemeType(new)) # IsSpecial(u)
    \/ SchemeType(new) = "File" /\ has_authority(u)
    \/ IsSpecialType(SchemeType(new)) /\ ~has_host(u)

WithScheme(u, new) ==
    LET by == Len(new) - u.scheme_end
    IN  [ShiftHost(u, by) EXCEPT
            !.ser          = Splice(u.ser, 0, u.scheme_end, new),
            !.scheme_end   = Len(new),
            !.username_end = @ + by]

\* Faulty variant of Renormalized: set_scheme leaves the port alone.
PortLeftAlone(u) == u

Renormalized(u) ==
    IF TakesCredentials(u) THEN WithPort(u, Normalized(u, u.port)) ELSE u

SetScheme(text) ==
    LET new == SchemeOf(text)
    IN  \/ /\ ~new.ok \/ ~new.done \/ SchemeChangeRefused(url, new.scheme)
           /\ Leave("Err")
        \/ /\ new.ok /\ new.done /\ ~SchemeChangeRefused(url, new.scheme)
           /\ Become(Renormalized(WithScheme(url, new.scheme)))

(****************************************************************************)
(* Credentials.                                                             *)
(****************************************************************************)
WithUsername(u, name) ==
    LET start == u.scheme_end + 3
        next  == HasByte(u.ser, u.username_end, "@")
        drops == name = <<>> /\ next                      \* removes the '@'
        adds  == /\ name # <<>> /\ ~next                  \* writes an '@'
                 /\ ~HasByte(u.ser, u.username_end, ":")
        end   == u.username_end + (IF drops THEN 1 ELSE 0)
        mid   == name \o (IF adds THEN <<"@">> ELSE <<>>)
    IN  [ShiftHost(u, start + Len(mid) - end) EXCEPT
            !.ser          = Splice(u.ser, start, end, mid),
            !.username_end = start + Len(name)]

\* The comparison with the present username slices the serialization.
UsernameInBounds(u) == SliceInBounds(u.ser, u.scheme_end + 3, u.username_end)

SetUsername(name) ==
    \/ ~TakesCredentials(url) /\ Leave("Err")
    \/ TakesCredentials(url) /\ ~UsernameInBounds(url) /\ Leave("Panic")
    \/ /\ TakesCredentials(url) /\ UsernameInBounds(url)
       /\ IF Slice(url.ser, url.scheme_end + 3, url.username_end) = name
          THEN Leave("Ok")
          ELSE Become(WithUsername(url, UserinfoText(name)))

WithPassword(u, password) ==
    LET mid == <<":">> \o password \o <<"@">>
    IN  [ShiftHost(u, u.username_end + Len(mid) - u.host_start) EXCEPT
            !.ser = Splice(u.ser, u.username_end, u.host_start, mid)]

\* Faulty variant of PasswordEnd: the '@' goes whether or not a username is
\* left in front of it.
PasswordEndAtHost(u) == u.host_start

\* Where the drained ":password" ends: with no username its '@' goes as well.
PasswordEnd(u) == IF u.username_end = u.scheme_end + 3
                  THEN u.host_start ELSE u.host_start - 1

WithoutPassword(u) ==
    [ShiftHost(u, u.username_end - PasswordEnd(u)) EXCEPT
        !.ser = Splice(u.ser, u.username_end, PasswordEnd(u), <<>>)]

\* set_password(Some(password)); an empty password is removed, as with None.
SetPassword(password) ==
    \/ ~TakesCredentials(url) /\ Leave("Err")
    \/ /\ TakesCredentials(url) /\ password # <<>>
       /\ Become(WithPassword(url, UserinfoText(password)))
    \/ /\ TakesCredentials(url) /\ password = <<>>
       /\ HasByte(url.ser, url.username_end, ":")
       /\ url.username_end <= PasswordEnd(url)
       /\ Become(WithoutPassword(url))
    \/ /\ TakesCredentials(url) /\ password = <<>>
       /\ url.username_end < Len(url.ser)
       /\ ByteAt(url.ser, url.username_end) # ":"
       /\ Leave("Ok")
    \/ /\ TakesCredentials(url) /\ password = <<>>   \* byte_at or drain panics
       /\ \/ url.username_end >= Len(url.ser)
          \/ /\ HasByte(url.ser, url.username_end, ":")
             /\ url.username_end > PasswordEnd(url)
       /\ Leave("Panic")

(****************************************************************************)
(* Hosts.                                                                   *)
(****************************************************************************)
\* Faulty variant of WithHost: the "//" it writes is not counted.
WithHostUncounted(u, host) ==
    LET slashes == IF StartsWithAuthority(Take(u.ser, u.host_start),
                                          u.scheme_end)
                   THEN <<>> ELSE <<"/", "/">>
        mid     == slashes \o host.text
        by      == u.host_start + Len(mid) - u.host_end
    IN  [ShiftPath(u, by) EXCEPT
            !.ser      = Splice(u.ser, u.host_start, u.host_end, mid),
            !.host_end = @ + by,
            !.host     = host.kind]

\* set_host_internal; every caller keeps the port (opt_new_port is None).
WithHost(u, host) ==
    LET slashes == IF StartsWithAuthority(Take(u.ser, u.host_start),
                                          u.scheme_end)
                   THEN <<>> ELSE <<"/", "/">>
        mid     == slashes \o host.text
        by      == u.host_start + Len(mid) - u.host_end
    IN  [ShiftPath(u, by) EXCEPT
            !.ser          = Splice(u.ser, u.host_start, u.host_end, mid),
            !.username_end = @ + Len(slashes),
            !.host_start   = @ + Len(slashes),
            !.host_end     = @ + by,
            !.host         = host.kind]

\* Whether set_host(Some(text)) rejects the text before it parses a host.
HostTextRefused(type, text) ==
    \/ text = <<>> /\ type = "SpecialNotFile"
    \/ text # <<>> /\ text[1] = ":"

SetHost(text) ==
    LET host == HostOf(TypeOf(url), HostSubstring(text))
    IN  \/ /\ \/ cannot_be_a_base(url)
              \/ HostTextRefused(TypeOf(url), text)
              \/ ~host.ok
           /\ Leave("Err")
        \/ /\ ~cannot_be_a_base(url)
           /\ ~HostTextRefused(TypeOf(url), text) /\ host.ok
           /\ Become(WithHost(url, host))

Address == { [kind |-> "Ipv4", text |-> <<"v4">>],
             [kind |-> "Ipv6", text |-> <<"[v6]">>] }

SetIpHost(address) ==
    \/ cannot_be_a_base(url) /\ Leave("Err")
    \/ ~cannot_be_a_base(url) /\ Become(WithHost(url, address))

\* set_host(None) writes a path where there is none, and drops everything
\* between "scheme:" (or "file://") and the path.  The host field stays.
WithSomePath(u) ==
    IF Len(u.ser) = u.path_start THEN [u EXCEPT !.ser = @ \o <<"/">>] ELSE u

WithoutAuthority(u, start) ==
    [ShiftAfterPath(u, start - u.path_start) EXCEPT
        !.ser          = Splice(u.ser, start, u.path_start, <<>>),
        !.path_start   = start,
        !.username_end = start,
        !.host_start   = start,
        !.host_end     = start,
        !.port         = None]

WithoutHost(u) ==
    WithoutAuthority(WithSomePath(u),
                     u.scheme_end + (IF TypeOf(u) = "File" THEN 3 ELSE 1))

IsAddress(host) == host \in {"Ipv4", "Ipv6"}

RemoveHost ==
    \/ cannot_be_a_base(url) /\ Leave("Err")
    \/ ~cannot_be_a_base(url) /\ ~has_host(url) /\ Leave("Ok")
    \/ /\ ~cannot_be_a_base(url) /\ has_host(url)
       /\ TypeOf(url) = "SpecialNotFile"
       /\ Leave("Err")
    \/ /\ ~cannot_be_a_base(url)
       /\ TypeOf(url) # "SpecialNotFile"
       /\ url.host = "Domain"
       /\ Become(WithoutHost(url))

\* The same call when the host is an IP address.  The host field then claims
\* an address that is no longer written, and setters that trust it go astray.
RemoveAddressHost ==
    /\ ~cannot_be_a_base(url)
    /\ TypeOf(url) # "SpecialNotFile"
    /\ IsAddress(url.host)
    /\ Become(WithoutHost(url))

(****************************************************************************)
(* Path, query and fragment.                                                *)
(****************************************************************************)
\* strip_trailing_spaces_from_opaque_path, of a URL with neither query nor
\* fragment.
TrailingSpaces(s) ==
    Cardinality({n \in 1..Len(s) : \A i \in n..Len(s) : s[i] = "SP"})

Stripped(u) ==
    IF cannot_be_a_base(u)
    THEN [u EXCEPT !.ser = Take(@, Len(@) - TrailingSpaces(@))]
    ELSE u

\* What set_path writes for a text; it depends on whether what stands in front
\* of the path ends with '/'.
PathFor(opaque, type, afterSlash, path) ==
    IF opaque THEN OpaquePath(path) ELSE PathText(type, afterSlash, path)

NewPath(u, path) == PathFor(cannot_be_a_base(u), TypeOf(u),
                            EndsWith(Take(u.ser, u.path_start), "/"), path)

WithPath(u, text) ==
    [ShiftAfterPath(u, u.path_start + Len(text) - PathEnd(u)) EXCEPT
        !.ser = Splice(u.ser, u.path_start, PathEnd(u), text)]

SetPath(path) == Become(WithPath(url, NewPath(url, path)))

\* The fragment is taken off, the query replaced, the fragment put back.
WithQuery(u, text) ==
    LET tail == <<"?">> \o text
    IN  [u EXCEPT !.ser = Splice(@, PathEnd(u), QueryEnd(u), tail),
                  !.query_start = PathEnd(u),
                  !.fragment_start = ShiftOpt(@, PathEnd(u) + Len(tail)
                                                          - QueryEnd(u))]

WithoutQuery(u) ==
    [u EXCEPT !.ser = Splice(@, PathEnd(u), QueryEnd(u), <<>>),
              !.query_start = None,
              !.fragment_start = ShiftOpt(@, PathEnd(u) - QueryEnd(u))]

SetQuery(query) == Become(WithQuery(url, QueryText(TypeOf(url), query)))

RemoveQuery ==
    IF url.fragment_start = None THEN Become(Stripped(WithoutQuery(url)))
                                 ELSE Become(WithoutQuery(url))

WithFragment(u, text) ==
    [u EXCEPT !.ser = Splice(@, QueryEnd(u), Len(@), <<"#">> \o text),
              !.fragment_start = QueryEnd(u)]

WithoutFragment(u) ==
    [u EXCEPT !.ser = Splice(@, QueryEnd(u), Len(@), <<>>),
              !.fragment_start = None]

SetFragment(fragment) == Become(WithFragment(url, FragmentText(fragment)))

RemoveFragment ==
    IF url.query_start = None THEN Become(Stripped(WithoutFragment(url)))
                              ELSE Become(WithoutFragment(url))

-----------------------------------------------------------------------------
\* Every call but the removal of an address host.
OrdinaryCall ==
    \/ \E s \in Schemes             : SetScheme(s)
    \/ \E n \in Usernames           : SetUsername(n)
    \/ \E p \in Passwords           : SetPassword(p)
    \/ \E h \in Hosts               : SetHost(h)
    \/ \E a \in Address             : SetIpHost(a)
    \/ RemoveHost
    \/ \E p \in Ports \union {None} : SetPort(p)
    \/ \E p \in Paths               : SetPath(p)
    \/ \E q \in Queries             : SetQuery(q)
    \/ RemoveQuery
    \/ \E f \in Fragments           : SetFragment(f)
    \/ RemoveFragment

Next == OrdinaryCall \/ RemoveAddressHost

OrdinarySpec == Init /\ [][OrdinaryCall]_vars
Spec         == Init /\ [][Next]_vars

(****************************************************************************)
(* Properties.                                                              *)
(****************************************************************************)
TypeOK == url \in UrlSet /\ ret \in {"Ok", "Err", "Panic"}

\* The offsets stay in order and every component starts at its delimiter:
\* no setter moves an offset that lies before its edit, forgets one after
\* it, or moves one by a length other than that of the edit.
ComponentsCut == HeadCut(url) /\ TailCut(url)

\* What stands between "scheme:" and the path is what the username, host and
\* port fields say: credentials closed by '@', a host that is there, the
\* digits of the port; and nothing a setter trims is found there.
AuthorityStays == AuthorityIntact(url)

\* No sequence of calls makes a setter slice out of bounds.
NoPanic == ret # "Panic"

\* The host field claims an address that is not written; all else is right.
OnlyHostFieldWrong(u) == /\ IsAddress(u.host) /\ u.host_start = u.host_end
                         /\ u \in UrlSet /\ Good([u EXCEPT !.host = "Domain"])

\* With address hosts removed as well: on a value whose layout is right no call
\* panics, and no call leaves another layout but the removal of an address,
\* which leaves everything right but the host field.  (What the setters do to
\* the value after that is another matter: they slice where no "://" stands.)
OnlyRemovalBreaksLayout ==
    [][Good(url) => /\ ret' # "Panic"
                    /\ \/ url' = url \/ Good(url')
                       \/ RemoveAddressHost /\ OnlyHostFieldWrong(url')]_vars

\* Such a value is repaired by giving it a host again.
NewHostRepairs ==
    [][ret' = "Ok" /\ OnlyHostFieldWrong(url)
       /\ (\/ \E a \in Address : SetIpHost(a)
           \/ \E h \in Hosts : SetHost(h)) => Good(url')]_vars

\* origin.rs, url_origin: the host of a network URL is unwrapped, so no
\* sequence of calls may lead to such a URL without one: neither a change of
\* scheme nor the removal of a host.
OriginHasHost == NetworkHasHost(url)
=============================================================================
