------------------------------- MODULE UrlApi -------------------------------
(****************************************************************************)
(* The setters composed with the parser: their texts are what UrlParser     *)
(* writes, and a Url value is held against what parsing its serialization   *)
(* gives and against the component record of UrlComponents.                 *)
(****************************************************************************)
EXTENDS UrlSetters, UrlPosition

P == INSTANCE UrlParser

\* What the parameters of UrlSetters are in this code.
ApiSchemeOf(text)           == P!SetterScheme(text)
ApiUserinfoText(text)       == P!SetterUserinfo(text)
ApiHostOf(type, text)       == P!HostParser(type, text)
ApiPathText(type, b, text)  == P!SetterPath(type, b, text)
ApiOpaqueText(text)         == P!SetterOpaquePath(text)
ApiQueryText(type, text)    == P!SetterQuery(type, text)
ApiFragmentText(text)       == P!SetterFragment(text)

(****************************************************************************)
(* Validity: what url.rs calls "a parsed, always-valid URL".                *)
(****************************************************************************)
\* parsed is u; set_host(None) leaves an empty Domain where the parser would
\* store None, and that much is allowed.
SameUrl(u, parsed) ==
    /\ parsed.ok
    /\ parsed.url = [u EXCEPT !.host = parsed.url.host]
    /\ u.host # parsed.url.host => /\ u.host = "Domain"
                                   /\ parsed.url.host = "None"

\* Parsing the serialization gives the value back.
Valid(u) == SameUrl(u, P!Parse(u.ser))

(****************************************************************************)
(* Calls that keep a value valid.  Each guard names a trap: a call the code *)
(* accepts and whose result does not parse back.                            *)
(****************************************************************************)
HasDriveLetter(path) == path # <<>> /\ P!StartsWithDriveLetter(Tail(path))

HasCredentialsOrPort(u) == u.username_end # u.host_start \/ u.port # None

HostKeepsPath(u) ==
    /\ ~DotPrefixed(u)
    /\ ~(TypeOf(u) = "File" /\ HasDriveLetter(Path(u)))

\* What set_host(Some(text)) writes for a text, or that it refuses it.
HostFor(type, text) ==
    IF HostTextRefused(type, text) THEN [ok |-> FALSE]
                                   ELSE HostOf(type, HostSubstring(text))

SafeHost(u, text) ==
    /\ HostKeepsPath(u)
    /\ HostFor(TypeOf(u), text).ok /\ HostFor(TypeOf(u), text).text = <<>> =>
          ~HasCredentialsOrPort(u)
    /\ TypeOf(u) = "File" =>
          HostOf("File", HostSubstring(text)) # HostOf("File", <<"localhost">>)

SafeAddress(u, address) ==
    /\ HostKeepsPath(u)
    /\ address.kind = "Ipv4" => IsSpecial(u)

\* Without an authority the path has to start with '/', once.
SafeRemoval(u) ==
    has_host(u) /\ TypeOf(u) = "NotSpecial" =>
        /\ ~StartsWithTwoSlashes(Path(u))
        /\ Path(u) = <<>> => Len(u.ser) = u.path_start

SafePath(u, path) ==
    /\ ~DotPrefixed(u)
    /\ ~has_authority(u) /\ ~cannot_be_a_base(u) =>
          path # <<>> /\ ~StartsWithTwoSlashes(path)
    /\ cannot_be_a_base(u) =>
          NoByte(path, "?") /\ NoByte(path, "#") /\ ~Rooted(path)
    /\ cannot_be_a_base(u) /\ PathEnd(u) = Len(u.ser) => ~EndsWith(path, "SP")
    /\ u.host_start < u.host_end /\ TypeOf(u) = "File" => ~HasDriveLetter(path)

\* A file URL whose host was removed may not become http.
SafeScheme(u, text) ==
    u.host_start = u.host_end /\ SchemeOf(text).ok =>
        SchemeType(SchemeOf(text).scheme) # "SpecialNotFile"

CarefulCall ==
    \/ \E s \in Schemes   : SafeScheme(url, s) /\ SetScheme(s)
    \/ \E n \in Usernames : SetUsername(n)
    \/ \E p \in Passwords : SetPassword(p)
    \/ \E h \in Hosts     : SafeHost(url, h) /\ SetHost(h)
    \/ \E a \in Address   : SafeAddress(url, a) /\ SetIpHost(a)
    \/ SafeRemoval(url) /\ RemoveHost
    \/ \E p \in Ports \union {None} : SetPort(p)
    \/ \E p \in Paths     : SafePath(url, NewPath(url, p)) /\ SetPath(p)
    \/ \E q \in Queries   : SetQuery(q)
    \/ RemoveQuery
    \/ \E f \in Fragments : SetFragment(f)
    \/ RemoveFragment

CarefulSpec == Init /\ [][CarefulCall]_vars

\* Under careful calls no credentials and no port are left without a host, a
\* network URL keeps its host, no default port is stored, and a path starts
\* with '/': the components stay told apart by what stands between them.
ComponentsStayApart == ComponentsApart(url)

\* Positions, computed anew from the offsets, stand in their order and cut the
\* text where the accessors do after every sequence of careful calls: no setter
\* leaves an offset that only the accessors get along with.
PositionsStayRight == PositionsOrdered(url) /\ RangesAgree(url)

\* Careful calls never make a value whose serialization parses to anything
\* else: every setter leaves the text and the offsets the parser would.
AlwaysValid == Valid(url)

(****************************************************************************)
(* What the documentation says and the setters do not keep.  Each is        *)
(* refuted by a run of its own.                                             *)
(****************************************************************************)
\* url.rs, first line: "a parsed, always-valid URL".  set_host(Some(""))
\* leaves credentials or a port without a host, which no longer parses, and
\* in front of a port password() then slices out of bounds.
AlwaysParses == P!Parse(url.ser).ok /\ ~PasswordPanics(url)

\* parser.rs, finish: a URL without a host must not be read back "as though
\* it had an authority".  Only the parser guards against it: set_path("//x")
\* and set_host(None) in front of a path "//x" write exactly that.
NoHostFromPath ==
    \A parsed \in {P!Parse(url.ser)} :
        parsed.ok /\ HostText(url) = <<>> => HostText(parsed.url) = <<>>

(****************************************************************************)
(* Refinement: the component record a Url stands for.                       *)
(****************************************************************************)
\* What the accessors answer, as Debug lists it.
Components(u) ==
    [scheme   |-> Scheme(u),
     username |-> Username(u),
     password |-> Password(u),
     host     |-> HostText(u),
     port     |-> u.port,
     path     |-> Path(u),
     opaque   |-> cannot_be_a_base(u),
     query    |-> Optional(u.query_start, Query(u)),
     fragment |-> Optional(u.fragment_start, Fragment(u))]

WithoutTrailingSpaces(text) == Take(text, Len(text) - TrailingSpaces(text))

Promise == INSTANCE UrlComponents
               WITH c <- Components(url), ret <- ret,
                    Addresses <- {a.text : a \in Address},
                    Trimmed <- WithoutTrailingSpaces

\* Splicing text and moving offsets implements setting components: a call
\* changes the component it names and what the API says goes with it.
ImplementsComponents == Promise!Spec
=============================================================================
