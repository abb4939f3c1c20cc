------------------------------ MODULE UrlOrigin ------------------------------
(****************************************************************************)
(* The origin of a URL (origin.rs): scheme, host and port of a network URL, *)
(* that of the URL in a blob URL's path, and for all else an identifier     *)
(* that is new each time, which here is only told apart from a tuple.       *)
(****************************************************************************)
EXTENDS UrlParser

Opaque == [kind |-> "Opaque"]

Tuple(scheme, host, port) ==
    [kind |-> "Tuple", scheme |-> scheme, host |-> host, port |-> port]

\* Faulty variant of KnownPort: an explicit port only.
ExplicitPort(u) == u.port

\* port_or_known_default
KnownPort(u) == IF u.port = None THEN default_port(Scheme(u)) ELSE u.port

\* url_origin: a blob URL may hold a blob URL.
url_origin ==
    LET origin[u \in UrlSet] ==
            CASE Scheme(u) = <<"blob">> ->
                    LET inner == Parse(Path(u))
                    IN  IF inner.ok THEN origin[inner.url] ELSE Opaque
              [] TypeOf(u) = "SpecialNotFile" ->
                    Tuple(Scheme(u), HostText(u), KnownPort(u))
              [] OTHER -> Opaque
    IN  origin

\* serialize_tuple, which ascii_serialization is for a tuple.
SerializeTuple(origin) ==
    origin.scheme \o <<":", "/", "/">> \o origin.host
        \o (IF default_port(origin.scheme) = origin.port THEN <<>>
            ELSE PortSuffix(origin.port))
==============================================================================
