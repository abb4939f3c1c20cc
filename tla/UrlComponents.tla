---------------------------- MODULE UrlComponents ----------------------------
(****************************************************************************)
(* What the setters of url.rs do as seen through the accessors: a URL is a  *)
(* record of components, and a setter refuses the call or stores in its own *)
(* component what the encoder or parser of that component makes of the      *)
(* text, and changes no other component but those named here.  No           *)
(* serialization and no offsets.  The scheme and the port are values, the   *)
(* query and the fragment <<>> when absent and <<text>> when present.       *)
(****************************************************************************)
EXTENDS Lexemes

CONSTANTS
    Schemes, Usernames, Passwords, Hosts, Ports, Paths, Queries, Fragments,
    Addresses,            \* the texts of IP addresses
    SchemeOf(_),          \* the scheme a text is parsed to
    UserinfoText(_),      \* a username or password, encoded
    HostFor(_, _),        \* the host a text is parsed to, by scheme type
    PathFor(_, _, _, _),  \* the path: opaque?, scheme type, after '/'?, text
    QueryText(_, _), FragmentText(_),
    Trimmed(_)            \* a text without its trailing spaces

VARIABLES
    c,    \* scheme, username, password, host, port, path, opaque, query, fragment
    ret   \* how the last call ended

Refuse == ret' = "Err" /\ c' = c

Accept(value) == ret' = "Ok" /\ c' = value

Type == SchemeType(c.scheme)

Special(scheme) == IsSpecialType(SchemeType(scheme))

\* Credentials and ports belong to a URL with a host that is not a file URL.
TakesCredentials == c.host # <<>> /\ c.scheme # FileScheme

NotDefault(port, scheme) == IF port = default_port(scheme) THEN None ELSE port

\* The scheme keeps its category, file URLs are not made this way, and a
\* network URL needs a host.
SchemeFits(new) ==
    /\ new.ok /\ new.done
    /\ Special(new.scheme) = Special(c.scheme)
    /\ new.scheme # FileScheme
    /\ Special(new.scheme) => c.host # <<>>

SetScheme(text) ==
    \/ Refuse /\ ~SchemeFits(SchemeOf(text))
    \/ /\ SchemeFits(SchemeOf(text))
       /\ Accept([c EXCEPT !.scheme = SchemeOf(text).scheme,
                           !.port   = NotDefault(@, SchemeOf(text).scheme)])

\* The present name is not encoded once more.
SetUsername(name) ==
    \/ ~TakesCredentials /\ Refuse
    \/ /\ TakesCredentials
       /\ Accept([c EXCEPT !.username =
                     IF c.username = name THEN name ELSE UserinfoText(name)])

SetPassword(password) ==
    \/ ~TakesCredentials /\ Refuse
    \/ /\ TakesCredentials
       /\ Accept([c EXCEPT !.password =
                     IF password = <<>> THEN <<>> ELSE UserinfoText(password)])

SetHost(text) ==
    \/ Refuse /\ (c.opaque \/ ~HostFor(Type, text).ok)
    \/ /\ ~c.opaque /\ HostFor(Type, text).ok
       /\ Accept([c EXCEPT !.host = HostFor(Type, text).text])

SetIpHost(address) ==
    \/ c.opaque /\ Refuse
    \/ ~c.opaque /\ Accept([c EXCEPT !.host = address])

\* set_host(None) takes the credentials and the port along, and leaves a path.
RemoveHost ==
    \/ (c.opaque \/ Type = "SpecialNotFile") /\ Refuse
    \/ /\ ~c.opaque /\ Type # "SpecialNotFile"
       /\ \/ c.host = <<>> /\ Accept(c)
          \/ Accept([c EXCEPT !.username = <<>>, !.password = <<>>,
                              !.host = <<>>, !.port = None,
                              !.path = IF @ = <<>> THEN <<"/">> ELSE @])

SetPort(port) ==
    \/ ~TakesCredentials /\ Refuse
    \/ TakesCredentials /\ Accept([c EXCEPT !.port = NotDefault(port, c.scheme)])

SetPath(text) ==
    \E afterSlash \in BOOLEAN :
        Accept([c EXCEPT !.path = PathFor(c.opaque, Type, afterSlash, text)])

SetQuery(text)    == Accept([c EXCEPT !.query = <<QueryText(Type, text)>>])
SetFragment(text) == Accept([c EXCEPT !.fragment = <<FragmentText(text)>>])

\* An opaque path loses its trailing spaces when nothing follows it any more.
ShownPath(followed) ==
    IF c.opaque /\ ~followed THEN Trimmed(c.path) ELSE c.path

RemoveQuery ==
    Accept([c EXCEPT !.query = <<>>, !.path = ShownPath(c.fragment # <<>>)])

RemoveFragment ==
    Accept([c EXCEPT !.fragment = <<>>, !.path = ShownPath(c.query # <<>>)])

\* Components that can be told apart once they are written one after another.
Consistent ==
    /\ c.host = <<>> => c.username = <<>> /\ c.password = <<>> /\ c.port = None
    /\ c.port # None => c.port # default_port(c.scheme) /\ c.scheme # FileScheme
    /\ Type = "SpecialNotFile" => c.host # <<>>
    /\ Special(c.scheme) => ~c.opaque /\ c.path # <<>>

Init == Consistent /\ ret = "Ok"

Next == \/ \E n \in Usernames           : SetUsername(n)
        \/ \E p \in Passwords           : SetPassword(p)
        \/ \E p \in Ports \union {None} : SetPort(p)
        \/ \E a \in Addresses           : SetIpHost(a)
        \/ RemoveHost
        \/ \E q \in Queries             : SetQuery(q)
        \/ RemoveQuery
        \/ \E f \in Fragments           : SetFragment(f)
        \/ RemoveFragment
        \/ \E s \in Schemes             : SetScheme(s)
        \/ \E h \in Hosts               : SetHost(h)
        \/ \E p \in Paths               : SetPath(p)

Spec == Init /\ [][Next]_<<c, ret>>
==============================================================================
