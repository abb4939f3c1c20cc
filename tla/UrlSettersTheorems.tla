------------------------- MODULE UrlSettersTheorems -------------------------
(****************************************************************************)
(* The safety properties of UrlSetters, for all texts, hosts, ports and     *)
(* starting values the assumptions of that module allow, and for call       *)
(* sequences of any length.                                                 *)
(****************************************************************************)
EXTENDS UrlSettersProofs

\* The inductive invariant.  A setter slices by offset, so that it does not
\* panic follows from the layout, and that the layout is kept needs all of it.
Inv == Good(url) /\ ret \in {"Ok", "Err"}

\* A call that leaves or replaces the value.
LEMMA Left ==
    ASSUME Good(url), NEW result \in {"Ok", "Err"}, Leave(result)
    PROVE  Inv'
BY DEF Inv, Leave, Good, WellFormed

\* A call that stores a well-formed value.
LEMMA Became ==
    ASSUME NEW u, Good(u), Become(u)
    PROVE  Inv'
BY DEF Inv, Become

\* What the assumptions say about the texts a call writes.
LEMMA WrittenUserinfo ==
    ASSUME NEW n \in Usernames \union Passwords
    PROVE  /\ UserinfoText(n) \in Text /\ NoSpace(UserinfoText(n))
           /\ n # <<>> => UserinfoText(n) # <<>>
BY UserinfoAssumption DEF GoodUserinfo, NoByte, NoSpace

\* Whatever host the parsers accept for a text can be written.
LEMMA WrittenHost ==
    ASSUME NEW t \in SchemeTypes, NEW h \in Hosts,
           HostOf(t, HostSubstring(h)).ok
    PROVE  WritableHost(HostOf(t, HostSubstring(h)))
<1> DEFINE host == HostOf(t, HostSubstring(h))
<1>1. /\ host.text \in Text /\ host.kind \in HostKind
      /\ (host.kind = "None" <=> host.text = <<>>)
      /\ NoByte(host.text, "SP") /\ NoByte(host.text, "@")
      /\ NoByte(host.text, ":")
  BY HostAssumption DEF GoodHost
<1> HIDE DEF host
<1>2. NoSpace(host.text)  BY <1>1 DEF NoByte, NoSpace
<1>3. host.text # <<>> => host.text[1] \notin {":", "@"}
  <2> SUFFICES ASSUME host.text # <<>> PROVE host.text[1] \notin {":", "@"}
    OBVIOUS
  <2>1. 1 \in 1..Len(host.text)
    <3>1. Len(host.text) \in Nat /\ Len(host.text) # 0
      BY <1>1, LenProperties, EmptySeq DEF Text
    <3> QED  BY <3>1
  <2> QED  BY <1>1, <2>1 DEF NoByte
<1>4. IsAddress(host.kind) => host.text # <<>>
  BY <1>1 DEF IsAddress
<1> QED  BY <1>1, <1>2, <1>3, <1>4 DEF WritableHost, host

\* So can the addresses of set_ip_host.
LEMMA WrittenAddress ==
    ASSUME NEW a \in Address
    PROVE  WritableHost(a)
<1>1. "v4" \in Lexeme /\ "[v6]" \in Lexeme  BY DEF Lexeme, Mark
<1>2. <<"v4">> \in Text /\ <<"[v6]">> \in Text  BY <1>1 DEF Text
<1>3. NoSpace(<<"v4">>) /\ NoSpace(<<"[v6]">>)  BY DEF NoSpace
<1>4. <<"v4">> # <<>> /\ <<"[v6]">> # <<>>  OBVIOUS
<1>5. a.kind \in {"Ipv4", "Ipv6"}
      /\ (a.text = <<"v4">> \/ a.text = <<"[v6]">>)
  BY DEF Address
<1>6. a.text \in Text /\ NoSpace(a.text) /\ a.text # <<>>
  BY <1>2, <1>3, <1>4, <1>5
<1>7. a.text[1] \notin {":", "@"}  BY <1>5
<1> QED  BY <1>5, <1>6, <1>7 DEF WritableHost, HostKind

-----------------------------------------------------------------------------
\* set_scheme
LEMMA SetSchemeStep ==
    ASSUME Good(url), NEW s \in Schemes, SetScheme(s)
    PROVE  Inv'
<1> DEFINE new == SchemeOf(s)
           w   == WithScheme(url, new.scheme)
<1>1. CASE Leave("Err")  BY <1>1, Left
<1>2. CASE /\ new.ok /\ ~SchemeChangeRefused(url, new.scheme)
           /\ Become(Renormalized(w))
  <2>1. new.scheme \in Text /\ new.scheme # <<>> /\ NoSpace(new.scheme)
    BY <1>2, SchemeAssumption DEF GoodScheme, NoByte, NoSpace
  <2>2. IsSpecialType(SchemeType(new.scheme)) = IsSpecial(url)
    BY <1>2 DEF SchemeChangeRefused
  <2>3. Good(w)  BY <2>1, <2>2, WithSchemeGood
  <2> HIDE DEF w
  <2>4. w.port \in PortNumber \union {None}  BY <2>3, GoodFacts
  <2>5. Good(Renormalized(w))
    BY <2>3, <2>4, NormalizedPort, WithPortGood DEF Renormalized
  <2> QED  BY <1>2, <2>5, Became
<1> QED  BY <1>1, <1>2 DEF SetScheme

\* set_username.  The credentials lie before the host, so the comparison
\* with the present username is within the serialization.
LEMMA SetUsernameStep ==
    ASSUME Good(url), NEW n \in Usernames, SetUsername(n)
    PROVE  Inv'
<1>1. CASE \E result \in {"Ok", "Err"} : Leave(result)  BY <1>1, Left
<1>2. CASE TakesCredentials(url) /\ ~UsernameInBounds(url)
  <2> DEFINE a == url.scheme_end + 3
             x == url.username_end
             y == url.host_start
             m == Len(url.ser)
  <2>1. /\ x \in Nat /\ y \in Nat /\ x <= y /\ a \in Nat /\ a <= x
        /\ y < m /\ m \in Nat
    BY <1>2, CredentialsPlace
  <2>2. ~(0 <= a /\ a <= x /\ x <= m)
    BY <1>2 DEF UsernameInBounds, SliceInBounds
  <2> HIDE DEF a, x, y, m
  <2> QED  BY <2>1, <2>2
<1>3. CASE TakesCredentials(url) /\ Become(WithUsername(url, UserinfoText(n)))
  <2>1. UserinfoText(n) \in Text /\ NoSpace(UserinfoText(n))
    BY WrittenUserinfo
  <2>2. Good(WithUsername(url, UserinfoText(n)))
    BY <1>3, <2>1, WithUsernameGood
  <2> QED  BY <1>3, <2>2, Became
<1> QED  BY <1>1, <1>2, <1>3 DEF SetUsername

\* set_password.  What is drained starts at the ':' of a password and ends
\* behind it.
LEMMA SetPasswordStep ==
    ASSUME Good(url), NEW p \in Passwords, SetPassword(p)
    PROVE  Inv'
<1>1. CASE \E result \in {"Ok", "Err"} : Leave(result)  BY <1>1, Left
<1>2. CASE /\ TakesCredentials(url) /\ p # <<>>
           /\ Become(WithPassword(url, UserinfoText(p)))
  <2>1. /\ UserinfoText(p) \in Text /\ NoSpace(UserinfoText(p))
        /\ UserinfoText(p) # <<>>
    BY <1>2, WrittenUserinfo
  <2>2. Good(WithPassword(url, UserinfoText(p)))
    BY <1>2, <2>1, WithPasswordGood
  <2> QED  BY <1>2, <2>2, Became
<1>3. CASE /\ TakesCredentials(url) /\ HasByte(url.ser, url.username_end, ":")
           /\ Become(WithoutPassword(url))
  <2>1. Good(WithoutPassword(url))  BY <1>3, WithoutPasswordGood
  <2> QED  BY <1>3, <2>1, Became
<1>4. CASE TakesCredentials(url) /\ url.username_end >= Len(url.ser)
  <2> DEFINE x == url.username_end
             y == url.host_start
             m == Len(url.ser)
  <2>1. /\ x \in Nat /\ y \in Nat /\ x <= y /\ y < m /\ m \in Nat
    BY <1>4, CredentialsPlace
  <2>2. x >= m  BY <1>4
  <2> HIDE DEF x, y, m
  <2> QED  BY <2>1, <2>2
<1>5. CASE /\ TakesCredentials(url) /\ HasByte(url.ser, url.username_end, ":")
           /\ url.username_end > PasswordEnd(url)
  <2> DEFINE x == url.username_end
             e == PasswordEnd(url)
  <2>1. e \in Nat /\ x <= e /\ x \in Nat
    BY <1>5, PasswordDrained, GoodFacts
  <2>2. x > e  BY <1>5
  <2> HIDE DEF x, e
  <2> QED  BY <2>1, <2>2
<1> QED  BY <1>1, <1>2, <1>3, <1>4, <1>5 DEF SetPassword

\* set_host(Some(_))
LEMMA SetHostStep ==
    ASSUME Good(url), NEW h \in Hosts, SetHost(h)
    PROVE  Inv'
<1> DEFINE host == HostOf(TypeOf(url), HostSubstring(h))
<1>1. CASE Leave("Err")  BY <1>1, Left
<1>2. CASE host.ok /\ Become(WithHost(url, host))
  <2>1. TypeOf(url) \in SchemeTypes  BY DEF TypeOf, SchemeType, SchemeTypes
  <2>2. WritableHost(host)  BY <1>2, <2>1, WrittenHost
  <2> HIDE DEF host
  <2>3. Good(WithHost(url, host))  BY <2>2, WithHostGood
  <2> QED  BY <1>2, <2>3, Became
<1> QED  BY <1>1, <1>2 DEF SetHost

\* set_ip_host
LEMMA SetIpHostStep ==
    ASSUME Good(url), NEW a \in Address, SetIpHost(a)
    PROVE  Inv'
<1>1. CASE Leave("Err")  BY <1>1, Left
<1>2. CASE Become(WithHost(url, a))
  <2>1. Good(WithHost(url, a))  BY WrittenAddress, WithHostGood
  <2> QED  BY <1>2, <2>1, Became
<1> QED  BY <1>1, <1>2 DEF SetIpHost

\* set_host(None), of a host that is not an address.
LEMMA RemoveHostStep ==
    ASSUME Good(url), RemoveHost
    PROVE  Inv'
<1>1. CASE \E result \in {"Ok", "Err"} : Leave(result)  BY <1>1, Left
<1>2. CASE /\ url.host = "Domain" /\ TypeOf(url) # "SpecialNotFile"
           /\ Become(WithoutHost(url))
  <2>1. Good(WithoutHost(url))  BY <1>2, WithoutHostGood
  <2> QED  BY <1>2, <2>1, Became
<1> QED  BY <1>1, <1>2 DEF RemoveHost

\* set_port
LEMMA SetPortStep ==
    ASSUME Good(url), NEW p \in Ports \union {None}, SetPort(p)
    PROVE  Inv'
<1>1. CASE Leave("Err")  BY <1>1, Left
<1>2. CASE Become(WithPort(url, Normalized(url, p)))
  <2>1. p \in PortNumber \union {None}  BY InputAssumption
  <2>2. Good(WithPort(url, Normalized(url, p)))
    BY <2>1, NormalizedPort, WithPortGood
  <2> QED  BY <1>2, <2>2, Became
<1> QED  BY <1>1, <1>2 DEF SetPort

\* set_path
LEMMA SetPathStep ==
    ASSUME Good(url), NEW p \in Paths, SetPath(p)
    PROVE  Inv'
<1>1. NewPath(url, p) \in Text
  <2>1. TypeOf(url) \in SchemeTypes  BY DEF TypeOf, SchemeType, SchemeTypes
  <2>2. EndsWith(Take(url.ser, url.path_start), "/") \in BOOLEAN
    BY DEF EndsWith
  <2> QED  BY <2>1, <2>2, PathAssumption DEF NewPath, PathFor, GoodPath
<1>2. Good(WithPath(url, NewPath(url, p)))  BY <1>1, WithPathGood
<1> QED  BY <1>2, Became DEF SetPath

\* set_query(Some(_)) and set_fragment(Some(_))
LEMMA SetTailStep ==
    ASSUME Good(url),
           \/ \E q \in Queries : SetQuery(q)
           \/ \E f \in Fragments : SetFragment(f)
    PROVE  Inv'
<1>1. ASSUME NEW q \in Queries, SetQuery(q) PROVE Inv'
  <2>1. TypeOf(url) \in SchemeTypes  BY DEF TypeOf, SchemeType, SchemeTypes
  <2>2. QueryText(TypeOf(url), q) \in Text  BY <2>1, TailAssumption
  <2>3. Good(WithQuery(url, QueryText(TypeOf(url), q)))
    BY <2>2, WithQueryGood
  <2> QED  BY <1>1, <2>3, Became DEF SetQuery
<1>2. ASSUME NEW f \in Fragments, SetFragment(f) PROVE Inv'
  <2>1. FragmentText(f) \in Text  BY TailAssumption
  <2>2. Good(WithFragment(url, FragmentText(f)))
    BY <2>1, WithFragmentGood
  <2> QED  BY <1>2, <2>2, Became DEF SetFragment
<1> QED  BY <1>1, <1>2

\* set_query(None) and set_fragment(None).  Trailing spaces are stripped when
\* neither a query nor a fragment is left.
LEMMA RemoveTailStep ==
    ASSUME Good(url), RemoveQuery \/ RemoveFragment
    PROVE  Inv'
<1>1. CASE RemoveQuery
  <2> DEFINE w == WithoutQuery(url)
  <2>1. Good(w)  BY WithoutQueryGood
  <2>2. w.query_start = None /\ w.fragment_start
                                = ShiftOpt(url.fragment_start,
                                           PathEnd(url) - QueryEnd(url))
    BY DEF WithoutQuery, Good, UrlSet
  <2> HIDE DEF w
  <2>3. url.fragment_start = None => Good(Stripped(w))
    BY <2>1, <2>2, StrippedGood DEF ShiftOpt
  <2>4. Become(w) \/ (url.fragment_start = None /\ Become(Stripped(w)))
    BY <1>1 DEF RemoveQuery, w
  <2> QED  BY <2>1, <2>3, <2>4, Became
<1>2. CASE RemoveFragment
  <2> DEFINE w == WithoutFragment(url)
  <2>1. Good(w)  BY WithoutFragmentGood
  <2>2. w.fragment_start = None /\ w.query_start = url.query_start
    BY DEF WithoutFragment, Good, UrlSet
  <2> HIDE DEF w
  <2>3. url.query_start = None => Good(Stripped(w))
    BY <2>1, <2>2, StrippedGood
  <2>4. Become(w) \/ (url.query_start = None /\ Become(Stripped(w)))
    BY <1>2 DEF RemoveFragment, w
  <2> QED  BY <2>1, <2>3, <2>4, Became
<1> QED  BY <1>1, <1>2

-----------------------------------------------------------------------------
\* Every ordinary call takes a well-formed value to a well-formed value.
LEMMA CallKeepsGood ==
    ASSUME Good(url), OrdinaryCall
    PROVE  Inv'
<1>1. CASE \E s \in Schemes : SetScheme(s)  BY <1>1, SetSchemeStep
<1>2. CASE \E n \in Usernames : SetUsername(n)  BY <1>2, SetUsernameStep
<1>3. CASE \E p \in Passwords : SetPassword(p)  BY <1>3, SetPasswordStep
<1>4. CASE \E h \in Hosts : SetHost(h)  BY <1>4, SetHostStep
<1>5. CASE \E a \in Address : SetIpHost(a)  BY <1>5, SetIpHostStep
<1>6. CASE RemoveHost  BY <1>6, RemoveHostStep
<1>7. CASE \E p \in Ports \union {None} : SetPort(p)  BY <1>7, SetPortStep
<1>8. CASE \E p \in Paths : SetPath(p)  BY <1>8, SetPathStep
<1>9. CASE \/ \E q \in Queries : SetQuery(q)
           \/ \E f \in Fragments : SetFragment(f)
  BY <1>9, SetTailStep
<1>10. CASE RemoveQuery \/ RemoveFragment  BY <1>10, RemoveTailStep
<1> QED
  BY <1>1, <1>2, <1>3, <1>4, <1>5, <1>6, <1>7, <1>8, <1>9, <1>10
  DEF OrdinaryCall

\* Every call keeps the invariant.
THEOREM Invariance == OrdinarySpec => []Inv
<1>1. Init => Inv
  BY InitAssumption DEF Init, Inv, Good
<1>2. Inv /\ [OrdinaryCall]_vars => Inv'
  <2> SUFFICES ASSUME Inv, [OrdinaryCall]_vars PROVE Inv'
    OBVIOUS
  <2>1. CASE OrdinaryCall
    <3>1. Good(url)  BY DEF Inv
    <3> QED  BY <2>1, <3>1, CallKeepsGood
  <2>2. CASE UNCHANGED vars  BY <2>2 DEF Inv, vars, Good, WellFormed
  <2> QED  BY <2>1, <2>2
<1> QED  BY <1>1, <1>2, PTL DEF OrdinarySpec

\* The fields of a Url keep their types: no offset is taken below zero, and
\* a port stays a u16.
THEOREM TypeCorrect == OrdinarySpec => []TypeOK
<1>1. Inv => TypeOK  BY DEF Inv, TypeOK, Good
<1> QED  BY <1>1, Invariance, PTL

\* Offsets stay in order and at their delimiters, whatever is called.
THEOREM OffsetsCutComponents == OrdinarySpec => []ComponentsCut
<1>1. Inv => ComponentsCut  BY DEF Inv, ComponentsCut, Good, WellFormed
<1> QED  BY <1>1, Invariance, PTL

\* The text between the scheme and the path stays what the username, host and
\* port fields say it is.
THEOREM AuthorityKept == OrdinarySpec => []AuthorityStays
<1>1. Inv => AuthorityStays  BY DEF Inv, AuthorityStays, Good, WellFormed
<1> QED  BY <1>1, Invariance, PTL

\* As long as no address host is removed, no setter slices out of bounds.
THEOREM NeverPanics == OrdinarySpec => []NoPanic
<1>1. Inv => NoPanic  BY DEF Inv, NoPanic
<1> QED  BY <1>1, Invariance, PTL

-----------------------------------------------------------------------------
(****************************************************************************)
(* With address hosts removed as well.                                      *)
(****************************************************************************)
\* The value with its host field corrected.
Corrected(u) == [u EXCEPT !.host = "Domain"]

\* A good value may forget that its host is an address.
LEMMA CorrectedGood ==
    ASSUME NEW u, Good(u)
    PROVE  Good(Corrected(u)) /\ TypeOf(Corrected(u)) = TypeOf(u)
<1> DEFINE v == Corrected(u)
<1>1. /\ v \in UrlSet /\ v.host = "Domain" /\ v.ser = u.ser
      /\ v.scheme_end = u.scheme_end /\ v.username_end = u.username_end
      /\ v.host_start = u.host_start /\ v.host_end = u.host_end
      /\ v.port = u.port /\ v.path_start = u.path_start
      /\ v.query_start = u.query_start
      /\ v.fragment_start = u.fragment_start
  BY DEF Corrected, Good, UrlSet, HostKind
<1> HIDE DEF v
<1>2. TypeOf(v) = TypeOf(u)  BY <1>1 DEF TypeOf, Scheme
<1>3. HeadCut(v) /\ TailCut(v)
  BY <1>1 DEF Good, WellFormed, HeadCut, TailCut
<1>4. HostWritten(v)
  BY <1>1 DEF Good, WellFormed, AuthorityIntact, HostWritten
<1>5. /\ AuthorityMarked(v) /\ CredentialsClosed(v) /\ PortWritten(v)
      /\ HeadHasNoSpace(v)
  BY <1>1 DEF Good, WellFormed, AuthorityIntact, AuthorityMarked,
              has_authority, CredentialsClosed, PortWritten, HeadHasNoSpace
<1>6. SpecialHasAuthority(v)
  BY <1>1, <1>2 DEF Good, WellFormed, AuthorityIntact, SpecialHasAuthority,
                    IsSpecial
<1>7. Good(v)
  BY <1>1, <1>3, <1>4, <1>5, <1>6 DEF Good, WellFormed, AuthorityIntact
<1> QED  BY <1>2, <1>7 DEF v

\* set_host(None) of an address: what is left is what removing a domain leaves,
\* under the wrong host field.
LEMMA AddressRemoved ==
    ASSUME Good(url), RemoveAddressHost
    PROVE  ret' = "Ok" /\ OnlyHostFieldWrong(url')
<1> DEFINE start == url.scheme_end + (IF TypeOf(url) = "File" THEN 3 ELSE 1)
           v == WithoutHost(url)
           w == WithoutHost(Corrected(url))
<1>1. ret' = "Ok" /\ url' = v /\ IsAddress(url.host)
      /\ TypeOf(url) # "SpecialNotFile"
  BY DEF RemoveAddressHost, Become
<1>2. Good(Corrected(url)) /\ TypeOf(Corrected(url)) = TypeOf(url)
  BY CorrectedGood
<1>3. Corrected(url).host = "Domain"  BY DEF Corrected, Good, UrlSet
<1>4. Good(w)  BY <1>1, <1>2, <1>3, WithoutHostGood
<1>5. w = Corrected(v)
  <2>1. Corrected(url) = [url EXCEPT !.host = "Domain"]  BY DEF Corrected
  <2>2. url \in UrlSet  BY DEF Good
  <2>3. WithSomePath(Corrected(url)) = Corrected(WithSomePath(url))
    BY <2>2 DEF WithSomePath, Corrected, UrlSet
  <2>4. w = WithoutAuthority(Corrected(WithSomePath(url)), start)
    <3>1. Corrected(url).scheme_end = url.scheme_end
      BY <2>1, <2>2 DEF UrlSet
    <3> QED  BY <1>2, <2>3, <3>1 DEF WithoutHost
  <2> DEFINE y == WithSomePath(url)
  <2>5. y \in [{"ser", "scheme_end", "username_end", "host_start", "host_end",
               "host", "port", "path_start", "query_start", "fragment_start"}
                  -> {y[f] : f \in DOMAIN y}]
    BY <2>2 DEF WithSomePath, UrlSet
  <2>6. v = WithoutAuthority(y, start)  BY DEF WithoutHost
  <2> HIDE DEF y, v, w, start
  <2>7. WithoutAuthority(Corrected(y), start) = Corrected(WithoutAuthority(y, start))
    BY <2>5 DEF WithoutAuthority, ShiftAfterPath, Corrected
  <2> QED  BY <2>4, <2>6, <2>7 DEF y
<1>6. /\ v.host = url.host /\ v.host_start = start /\ v.host_end = start
  BY DEF WithoutHost, WithoutAuthority, ShiftAfterPath, WithSomePath, Good, UrlSet
<1>7. v \in UrlSet
  <2>1. url.host \in HostKind  BY GoodFacts
  <2>2. Corrected(v) \in UrlSet  BY <1>4, <1>5 DEF Good
  <2>3. v = [[v EXCEPT !.host = "Domain"] EXCEPT !.host = v.host]
    <3> DEFINE y == WithSomePath(url)
    <3>1. y = [f \in DOMAIN y |-> y[f]]
      BY DEF WithSomePath, Good, UrlSet
    <3>2. v = [f \in DOMAIN y |-> v[f]]
      <4>1. v = WithoutAuthority(y, start)  BY DEF WithoutHost
      <4> HIDE DEF y, v, start
      <4> QED  BY <3>1, <4>1 DEF WithoutAuthority, ShiftAfterPath
    <3> HIDE DEF y, v
    <3> QED  BY <3>2
  <2> HIDE DEF v
  <2>4. [[v EXCEPT !.host = "Domain"] EXCEPT !.host = v.host] \in UrlSet
    BY <2>1, <2>2, <1>6 DEF Corrected, UrlSet
  <2> QED  BY <2>3, <2>4
<1> HIDE DEF v, w, start
<1> QED  BY <1>1, <1>4, <1>5, <1>6, <1>7 DEF OnlyHostFieldWrong, Corrected

\* A value of which only the host field is wrong is made good by a new host.
LEMMA HostRepaired ==
    ASSUME OnlyHostFieldWrong(url), ret' = "Ok",
           \/ \E a \in Address : SetIpHost(a)
           \/ \E h \in Hosts : SetHost(h)
    PROVE  Good(url')
<1>1. Good(Corrected(url)) /\ url \in UrlSet
  BY DEF OnlyHostFieldWrong, Corrected
<1>2. ASSUME NEW host, WritableHost(host), url' = WithHost(url, host)
      PROVE  Good(url')
  <2>1. Good(WithHost(Corrected(url), host))  BY <1>1, <1>2, WithHostGood
  <2>2. WithHost(Corrected(url), host) = WithHost(url, host)
    <3> DEFINE slashes == IF StartsWithAuthority(Take(url.ser, url.host_start),
                                                 url.scheme_end)
                          THEN <<>> ELSE <<"/", "/">>
               by == url.host_start + Len(slashes \o host.text) - url.host_end
               n  == Len(slashes)
               r  == Splice(url.ser, url.host_start, url.host_end,
                            slashes \o host.text)
               Moved(u) == [ShiftPath(u, by) EXCEPT !.ser          = r,
                                                    !.username_end = @ + n,
                                                    !.host_start   = @ + n,
                                                    !.host_end     = @ + by,
                                                    !.host         = host.kind]
    <3>1. /\ Corrected(url).ser = url.ser
          /\ Corrected(url).scheme_end = url.scheme_end
          /\ Corrected(url).host_start = url.host_start
          /\ Corrected(url).host_end = url.host_end
      BY <1>1 DEF Corrected, UrlSet
    <3>2. WithHost(url, host) = Moved(url)  BY DEF WithHost
    <3>3. WithHost(Corrected(url), host) = Moved(Corrected(url))
      BY <3>1 DEF WithHost
    <3> HIDE DEF by, n, r
    <3>4. Moved(Corrected(url)) = Moved(url)
      BY <1>1 DEF ShiftPath, ShiftAfterPath, Corrected, UrlSet
    <3> QED  BY <3>2, <3>3, <3>4
  <2> QED  BY <1>2, <2>1, <2>2
<1>3. ASSUME NEW a \in Address, SetIpHost(a) PROVE Good(url')
  <2>1. url' = WithHost(url, a)  BY <1>3 DEF SetIpHost, Leave, Become
  <2> QED  BY <1>2, <2>1, WrittenAddress
<1>4. ASSUME NEW h \in Hosts, SetHost(h) PROVE Good(url')
  <2> DEFINE host == HostOf(TypeOf(url), HostSubstring(h))
  <2>1. host.ok /\ url' = WithHost(url, host)
    BY <1>4 DEF SetHost, Leave, Become
  <2>2. TypeOf(url) \in SchemeTypes  BY DEF TypeOf, SchemeType, SchemeTypes
  <2>3. WritableHost(host)  BY <2>1, <2>2, WrittenHost
  <2> QED  BY <1>2, <2>1, <2>3
<1> QED  BY <1>3, <1>4

\* Whatever is called in whatever order: a value whose layout is right keeps
\* it, and no setter panics on it; only set_host(None) of an address leaves
\* another value, which is right but for the host field.
THEOREM LayoutBreaksOnlyThere == Spec => OnlyRemovalBreaksLayout
<1>1. ASSUME Good(url), [Next]_vars, ~UNCHANGED vars
      PROVE  /\ ret' # "Panic"
             /\ \/ url' = url \/ Good(url')
                \/ RemoveAddressHost /\ OnlyHostFieldWrong(url')
  <2>1. CASE OrdinaryCall
    <3>1. Inv'  BY <1>1, <2>1, CallKeepsGood
    <3> QED  BY <3>1 DEF Inv
  <2>2. CASE RemoveAddressHost  BY <1>1, <2>2, AddressRemoved
  <2> QED  BY <1>1, <2>1, <2>2 DEF Next
<1>2. [Next]_vars => [Good(url) => /\ ret' # "Panic"
                    /\ \/ url' = url \/ Good(url')
                       \/ RemoveAddressHost /\ OnlyHostFieldWrong(url')]_vars
  BY <1>1
<1> QED  BY <1>2, PTL DEF Spec, OnlyRemovalBreaksLayout

\* And set_host(Some(_)) or set_ip_host puts that value right again.
THEOREM NewHostAlwaysRepairs == Spec => NewHostRepairs
<1>1. [Next]_vars =>
        [ret' = "Ok" /\ OnlyHostFieldWrong(url)
           /\ (\/ \E a \in Address : SetIpHost(a)
               \/ \E h \in Hosts : SetHost(h)) => Good(url')]_vars
  BY HostRepaired
<1> QED  BY <1>1, PTL DEF Spec, NewHostRepairs

-----------------------------------------------------------------------------
(****************************************************************************)
(* url_origin (origin.rs) unwraps the host of a network URL.  That there is *)
(* one is a fact about every sequence of setters: they keep the scheme, or  *)
(* refuse to make a network URL of one without a host; and they keep the    *)
(* host, or refuse to take it from a network URL.                           *)
(****************************************************************************)
\* An edit behind the scheme.
LEMMA SpliceKeepsType ==
    ASSUME NEW u, Good(u), NEW v, NEW a \in Nat, NEW b \in Nat, NEW mid \in Text,
           u.scheme_end <= a, a <= b, b <= Len(u.ser),
           v.ser = Splice(u.ser, a, b, mid), v.scheme_end = u.scheme_end
    PROVE  Scheme(v) = Scheme(u) /\ TypeOf(v) = TypeOf(u)
<1> DEFINE r == Splice(u.ser, a, b, mid)
           n == u.scheme_end
<1>1. u.ser \in Text /\ n \in Nat /\ Len(u.ser) \in Nat  BY GoodFacts
<1>2. /\ r \in Text /\ Len(r) = Len(u.ser) + (a + Len(mid) - b)
      /\ \A i \in 1..a : r[i] = u.ser[i]
  <2> DEFINE t == u.ser
  <2>1. t \in Text /\ b <= Len(t)  BY <1>1
  <2> HIDE DEF t
  <2>2. /\ Splice(t, a, b, mid) \in Text
        /\ Len(Splice(t, a, b, mid)) = Len(t) + (a + Len(mid) - b)
        /\ \A i \in 1..a : Splice(t, a, b, mid)[i] = t[i]
    BY <2>1, SpliceFacts
  <2> QED  BY <2>2 DEF t
<1>3. Len(mid) \in Nat  BY LenProperties DEF Text
<1> HIDE DEF r, n
<1>4. n <= a /\ n <= Len(u.ser) /\ n <= Len(r)
  <2> DEFINE k == Len(u.ser)
             l == Len(mid)
             m == Len(r)
  <2>1. n <= a /\ k \in Nat /\ n \in Nat /\ b <= k  BY <1>1 DEF n
  <2>2. m = k + (a + l - b) /\ l \in Nat  BY <1>2, <1>3
  <2> HIDE DEF n, k, l, m
  <2>3. n <= k /\ n <= m  BY <2>1, <2>2
  <2> QED  BY <2>1, <2>3 DEF k, m
<1>5. \A i \in 1..n : r[i] = u.ser[i]  BY <1>1, <1>2, <1>4
<1>6. Take(r, n) = Take(u.ser, n)  BY <1>1, <1>2, <1>4, <1>5, TakesEqual
<1> QED  BY <1>6 DEF Scheme, TypeOf, r, n

\* v has the scheme and the host of u.
Keeps(u, v) == TypeOf(v) = TypeOf(u) /\ v.host = u.host

\* Path, query and fragment setters keep scheme type and host field.
LEMMA TailKeeps ==
    ASSUME NEW u, Good(u), NEW text \in Text
    PROVE  /\ Keeps(u, WithPath(u, text))
           /\ Keeps(u, WithQuery(u, text)) /\ Keeps(u, WithFragment(u, text))
           /\ Keeps(u, WithoutQuery(u)) /\ Keeps(u, WithoutFragment(u))
<1> DEFINE query == <<"?">> \o text
           fragment == <<"#">> \o text
<1>1. query \in Text /\ fragment \in Text /\ <<>> \in Text
  BY Delimited, EmptySeq DEF Mark, Text
<1> HIDE DEF query, fragment
<1>2. Keeps(u, WithPath(u, text))
  <2>1. /\ WithPath(u, text).ser = Splice(u.ser, u.path_start, PathEnd(u), text)
        /\ WithPath(u, text).scheme_end = u.scheme_end
        /\ WithPath(u, text).host = u.host
    BY EditPlaces DEF WithPath, ShiftAfterPath, UrlSet
  <2>2. u.scheme_end <= u.path_start /\ PathEnd(u) <= Len(u.ser)  BY EditPlaces
  <2> QED  BY <2>1, <2>2, EditPlaces, SpliceKeepsType DEF Keeps
<1>3. Keeps(u, WithQuery(u, text))
  <2>1. /\ WithQuery(u, text).ser = Splice(u.ser, PathEnd(u), QueryEnd(u), query)
        /\ WithQuery(u, text).scheme_end = u.scheme_end
        /\ WithQuery(u, text).host = u.host
    BY EditPlaces DEF WithQuery, UrlSet, query
  <2>2. u.scheme_end <= PathEnd(u)  BY EditPlaces
  <2> QED  BY <1>1, <2>1, <2>2, EditPlaces, SpliceKeepsType DEF Keeps
<1>4. Keeps(u, WithFragment(u, text))
  <2>1. /\ WithFragment(u, text).ser
             = Splice(u.ser, QueryEnd(u), Len(u.ser), fragment)
        /\ WithFragment(u, text).scheme_end = u.scheme_end
        /\ WithFragment(u, text).host = u.host
    BY EditPlaces DEF WithFragment, UrlSet, fragment
  <2>2. u.scheme_end <= QueryEnd(u) /\ Len(u.ser) <= Len(u.ser)  BY EditPlaces
  <2> QED  BY <1>1, <2>1, <2>2, EditPlaces, SpliceKeepsType DEF Keeps
<1>5. Keeps(u, WithoutQuery(u))
  <2>1. /\ WithoutQuery(u).ser = Splice(u.ser, PathEnd(u), QueryEnd(u), <<>>)
        /\ WithoutQuery(u).scheme_end = u.scheme_end
        /\ WithoutQuery(u).host = u.host
    BY EditPlaces DEF WithoutQuery, UrlSet
  <2>2. u.scheme_end <= PathEnd(u)  BY EditPlaces
  <2> QED  BY <1>1, <2>1, <2>2, EditPlaces, SpliceKeepsType DEF Keeps
<1>6. Keeps(u, WithoutFragment(u))
  <2>1. /\ WithoutFragment(u).ser = Splice(u.ser, QueryEnd(u), Len(u.ser), <<>>)
        /\ WithoutFragment(u).scheme_end = u.scheme_end
        /\ WithoutFragment(u).host = u.host
    BY EditPlaces DEF WithoutFragment, UrlSet
  <2>2. u.scheme_end <= QueryEnd(u) /\ Len(u.ser) <= Len(u.ser)  BY EditPlaces
  <2> QED  BY <1>1, <2>1, <2>2, EditPlaces, SpliceKeepsType DEF Keeps
<1> QED  BY <1>2, <1>3, <1>4, <1>5, <1>6

\* strip_trailing_spaces_from_opaque_path
LEMMA StrippedKeeps ==
    ASSUME NEW u, Good(u)
    PROVE  Keeps(u, Stripped(u))
<1> DEFINE t == TrailingSpaces(u.ser)
           m == Len(u.ser)
           n == u.scheme_end
           r == Take(u.ser, m - t)
<1>1. /\ u \in UrlSet /\ u.ser \in Text /\ m \in Nat /\ n \in Nat
      /\ u.path_start \in Nat /\ n <= u.path_start /\ u.path_start <= m
  BY EditPlaces
<1>2. \A i \in 1..u.path_start : u.ser[i] # "SP"
  BY GoodFacts DEF AuthorityIntact, HeadHasNoSpace
<1>3. t \in Nat /\ t <= m - u.path_start
  BY <1>1, <1>2, TrailingSpacesBound
<1>4. /\ Stripped(u) = u \/ Stripped(u) = [u EXCEPT !.ser = r]
  BY DEF Stripped
<1> HIDE DEF t, m, n
<1>5. m - t \in Nat /\ m - t <= m /\ n <= m - t  BY <1>1, <1>3
<1>6. r \in Text /\ Len(r) = m - t /\ \A i \in 1..(m - t) : r[i] = u.ser[i]
  BY <1>1, <1>5, TakeFacts DEF m
<1> HIDE DEF r
<1>7. n <= Len(r) /\ n <= Len(u.ser) /\ \A i \in 1..n : r[i] = u.ser[i]
  BY <1>1, <1>5, <1>6 DEF m
<1>8. Take(r, n) = Take(u.ser, n)  BY <1>1, <1>6, <1>7, TakesEqual
<1> QED  BY <1>1, <1>4, <1>8 DEF Keeps, TypeOf, Scheme, UrlSet, n

-----------------------------------------------------------------------------
\* set_port, and the port set_scheme stores again.
LEMMA WithPortKeeps ==
    ASSUME NEW u, Good(u), NEW port \in PortNumber \union {None}
    PROVE  Keeps(u, WithPort(u, port))
<1> DEFINE mid == IF port = None THEN <<>> ELSE PortSuffix(port)
           v == WithPort(u, port)
<1>1. mid \in Text  BY EmptySeq, PortSuffixFacts DEF Text
<1>2. CASE port = u.port  BY <1>2 DEF WithPort, Keeps
<1>3. CASE port # u.port
  <2>1. /\ v.ser = Splice(u.ser, u.host_end, u.path_start, mid)
        /\ v.scheme_end = u.scheme_end /\ v.host = u.host
    BY <1>3, EditPlaces DEF WithPort, ShiftPath, ShiftAfterPath, UrlSet
  <2> HIDE DEF v, mid
  <2>2. u.scheme_end <= u.host_end /\ u.path_start <= Len(u.ser)
    BY EditPlaces
  <2>3. Keeps(u, v)
    BY <1>1, <2>1, <2>2, EditPlaces, SpliceKeepsType DEF Keeps
  <2> QED  BY <2>3 DEF v
<1> QED  BY <1>2, <1>3

\* set_username and set_password
LEMMA CredentialsKeep ==
    ASSUME NEW u, Good(u), TakesCredentials(u), NEW text \in Text
    PROVE  /\ Keeps(u, WithUsername(u, text))
           /\ Keeps(u, WithPassword(u, text))
           /\ HasByte(u.ser, u.username_end, ":") => Keeps(u, WithoutPassword(u))
<1>1. /\ u.scheme_end + 3 <= u.username_end /\ u.host_start < Len(u.ser)
  BY CredentialsPlace
<1>2. Keeps(u, WithUsername(u, text))
  <2> DEFINE next  == HasByte(u.ser, u.username_end, "@")
             drops == text = <<>> /\ next
             adds  == /\ text # <<>> /\ ~next
                      /\ ~HasByte(u.ser, u.username_end, ":")
             a     == u.scheme_end + 3
             b     == u.username_end + (IF drops THEN 1 ELSE 0)
             mid   == text \o (IF adds THEN <<"@">> ELSE <<>>)
             v     == WithUsername(u, text)
  <2>1. mid \in Text
    <3>1. <<"@">> \in Text /\ <<>> \in Text  BY EmptySeq DEF Text, Lexeme, Mark
    <3> QED  BY <3>1 DEF Text
  <2>2. /\ v.ser = Splice(u.ser, a, b, mid)
        /\ v.scheme_end = u.scheme_end /\ v.host = u.host
    BY EditPlaces
    DEF WithUsername, ShiftHost, ShiftPath, ShiftAfterPath, UrlSet
  <2>3. drops => u.username_end + 1 <= Len(u.ser)
    BY EditPlaces DEF HasByte
  <2> HIDE DEF v, mid, drops
  <2>4. /\ a \in Nat /\ b \in Nat /\ u.scheme_end <= a /\ a <= b
        /\ b <= Len(u.ser)
    BY <1>1, <2>3, EditPlaces
  <2> HIDE DEF a, b
  <2>5. Keeps(u, v)
    BY <2>1, <2>2, <2>4, SpliceKeepsType DEF Keeps
  <2> QED  BY <2>5 DEF v
<1>3. Keeps(u, WithPassword(u, text))
  <2> DEFINE mid == <<":">> \o text \o <<"@">>
             v   == WithPassword(u, text)
  <2>1. mid \in Text
    <3>1. <<":">> \in Text /\ <<"@">> \in Text  BY DEF Text, Lexeme, Mark
    <3> QED  BY <3>1 DEF Text
  <2>2. /\ v.ser = Splice(u.ser, u.username_end, u.host_start, mid)
        /\ v.scheme_end = u.scheme_end /\ v.host = u.host
    BY EditPlaces
    DEF WithPassword, ShiftHost, ShiftPath, ShiftAfterPath, UrlSet
  <2> HIDE DEF v, mid
  <2>3. u.scheme_end <= u.username_end /\ u.host_start <= Len(u.ser)
    BY <1>1, EditPlaces
  <2>4. Keeps(u, v)
    BY <2>1, <2>2, <2>3, EditPlaces, SpliceKeepsType DEF Keeps
  <2> QED  BY <2>4 DEF v
<1>4. ASSUME HasByte(u.ser, u.username_end, ":")
      PROVE  Keeps(u, WithoutPassword(u))
  <2> DEFINE v == WithoutPassword(u)
             e == PasswordEnd(u)
  <2>1. e \in Nat /\ u.username_end <= e /\ e <= u.host_start
    BY <1>4, PasswordDrained
  <2>2. /\ v.ser = Splice(u.ser, u.username_end, e, <<>>)
        /\ v.scheme_end = u.scheme_end /\ v.host = u.host
    BY EditPlaces
    DEF WithoutPassword, ShiftHost, ShiftPath, ShiftAfterPath, UrlSet
  <2> HIDE DEF v, e
  <2>3. u.scheme_end <= u.username_end /\ e <= Len(u.ser)
    BY <1>1, <2>1, EditPlaces
  <2>4. <<>> \in Text  BY EmptySeq DEF Text
  <2>5. Keeps(u, v)
    BY <2>1, <2>2, <2>3, <2>4, EditPlaces, SpliceKeepsType DEF Keeps
  <2> QED  BY <2>5 DEF v
<1> QED  BY <1>2, <1>3, <1>4

\* set_host(Some(_)) and set_ip_host keep the scheme and store the new host.
LEMMA WithHostStores ==
    ASSUME NEW u, Good(u), NEW host, WritableHost(host)
    PROVE  /\ TypeOf(WithHost(u, host)) = TypeOf(u)
           /\ WithHost(u, host).host = host.kind
<1> DEFINE slashes == IF StartsWithAuthority(Take(u.ser, u.host_start),
                                             u.scheme_end)
                      THEN <<>> ELSE <<"/", "/">>
           mid == slashes \o host.text
           v == WithHost(u, host)
<1>1. mid \in Text
  <2>1. <<>> \in Text  BY EmptySeq DEF Text
  <2>2. <<"/", "/">> \in Text  BY DEF Text, Lexeme, Mark
  <2>3. slashes \in Text  BY <2>1, <2>2
  <2>4. host.text \in Text  BY DEF WritableHost
  <2> QED  BY <2>3, <2>4, ConcatFacts
<1>2. /\ v.ser = Splice(u.ser, u.host_start, u.host_end, mid)
      /\ v.scheme_end = u.scheme_end /\ v.host = host.kind
  BY EditPlaces DEF WithHost, ShiftPath, ShiftAfterPath, UrlSet
<1> HIDE DEF v, mid
<1>3. u.scheme_end <= u.host_start /\ u.host_end <= Len(u.ser)
  BY EditPlaces
<1>4. TypeOf(v) = TypeOf(u)
  BY <1>1, <1>2, <1>3, EditPlaces, SpliceKeepsType
<1> QED  BY <1>2, <1>4 DEF v

\* set_host(None) keeps the scheme.
LEMMA WithoutHostKeeps ==
    ASSUME NEW u, Good(u)
    PROVE  TypeOf(WithoutHost(u)) = TypeOf(u)
<1> DEFINE start == u.scheme_end + (IF TypeOf(u) = "File" THEN 3 ELSE 1)
           w == WithSomePath(u)
           v == WithoutHost(u)
<1>1. /\ Good(w) /\ TypeOf(w) = TypeOf(u)
      /\ w.scheme_end = u.scheme_end /\ w.path_start = u.path_start
  <2>1. CASE Len(u.ser) = u.path_start
    <3> DEFINE z == [u EXCEPT !.ser = @ \o <<"/">>]
    <3>1. Good(z) /\ Scheme(z) = Scheme(u)  BY <2>1, SlashAppended
    <3>2. z.scheme_end = u.scheme_end /\ z.path_start = u.path_start
      BY EditPlaces DEF UrlSet
    <3>3. w = z  BY <2>1 DEF WithSomePath
    <3> HIDE DEF w, z
    <3> QED  BY <3>1, <3>2, <3>3 DEF TypeOf
  <2>2. CASE Len(u.ser) # u.path_start
    <3>1. w = u  BY <2>2 DEF WithSomePath
    <3> QED  BY <3>1
  <2> QED  BY <2>1, <2>2
<1>2. start \in Nat /\ u.scheme_end <= start /\ start <= u.path_start
  <2>1. TypeOf(u) = "File" => u.username_end >= u.scheme_end + 3
    BY GoodFacts DEF AuthorityIntact, SpecialHasAuthority, IsSpecial, IsSpecialType
  <2> QED  BY <2>1, EditPlaces
<1> HIDE DEF w
<1>3. /\ v.ser = Splice(w.ser, start, w.path_start, <<>>)
      /\ v.scheme_end = w.scheme_end
  <2>1. w \in UrlSet  BY <1>1 DEF Good
  <2> QED
    BY <2>1 DEF WithoutHost, WithoutAuthority, ShiftAfterPath, UrlSet, w
<1> HIDE DEF v, start
<1>4. w.path_start \in Nat /\ w.path_start <= Len(w.ser)
  BY <1>1, EditPlaces
<1>5. <<>> \in Text  BY EmptySeq DEF Text
<1>6. TypeOf(v) = TypeOf(w)
  BY <1>1, <1>2, <1>3, <1>4, <1>5, SpliceKeepsType
<1> QED  BY <1>1, <1>6 DEF v

\* set_scheme writes the new scheme and keeps the host.
LEMMA WithSchemeStores ==
    ASSUME NEW u, Good(u), NEW new \in Text
    PROVE  /\ TypeOf(WithScheme(u, new)) = SchemeType(new)
           /\ WithScheme(u, new).host = u.host
<1> DEFINE v == WithScheme(u, new)
           n == Len(new)
           m == u.scheme_end
           r == Splice(u.ser, 0, m, new)
<1>1. /\ v.ser = r /\ v.scheme_end = n /\ v.host = u.host
  BY EditPlaces DEF WithScheme, ShiftHost, ShiftPath, ShiftAfterPath, UrlSet
<1>2. n \in Nat /\ m \in Nat /\ m <= Len(u.ser) /\ u.ser \in Text
      /\ Len(u.ser) \in Nat /\ 0 <= m
  BY EditPlaces, LenProperties DEF Text
<1>3. /\ r \in Text /\ Len(r) = Len(u.ser) + (0 + n - m)
      /\ \A i \in 1..n : r[0 + i] = new[i]
  <2> DEFINE t == u.ser
  <2> HIDE DEF t, m
  <2>1. t \in Text /\ m \in Nat /\ 0 <= m /\ m <= Len(t) /\ 0 \in Nat
    BY <1>2 DEF t
  <2>2. /\ Splice(t, 0, m, new) \in Text
        /\ Len(Splice(t, 0, m, new)) = Len(t) + (0 + Len(new) - m)
        /\ \A i \in 1..Len(new) : Splice(t, 0, m, new)[0 + i] = new[i]
    BY <2>1, SpliceFacts
  <2> QED  BY <2>2 DEF t
<1> HIDE DEF r, m, v
<1>4. n <= Len(r) /\ n <= Len(new) /\ \A i \in 1..n : r[i] = new[i]
  BY <1>2, <1>3
<1>5. Take(r, n) = Take(new, n)
  <2> HIDE DEF n
  <2> QED  BY <1>2, <1>3, <1>4, TakesEqual
<1>6. Take(new, n) = new
  <2> DEFINE x == Take(new, n)
  <2>1. x \in Text /\ Len(x) = n /\ \A i \in 1..n : x[i] = new[i]
    BY <1>2, TakeFacts
  <2> HIDE DEF x
  <2>2. x = new  BY <2>1, SeqEqual DEF Text
  <2> QED  BY <2>2 DEF x
<1> QED  BY <1>1, <1>5, <1>6 DEF TypeOf, Scheme, v

-----------------------------------------------------------------------------
\* A call that leaves the value, or keeps its scheme and host.
LEMMA LeftOrKept ==
    ASSUME OriginHasHost,
           \/ \E result : Leave(result)
           \/ \E v : Keeps(url, v) /\ Become(v)
    PROVE  OriginHasHost'
<1>1. ASSUME NEW result, Leave(result) PROVE OriginHasHost'
  BY <1>1 DEF Leave, OriginHasHost, NetworkHasHost
<1>2. ASSUME NEW v, Keeps(url, v), Become(v) PROVE OriginHasHost'
  <2>1. url' = v  BY <1>2 DEF Become
  <2>2. OriginHasHost' <=> NetworkHasHost(v)
    BY <2>1 DEF OriginHasHost, NetworkHasHost, TypeOf, Scheme, has_host
  <2> QED  BY <1>2, <2>2 DEF OriginHasHost, NetworkHasHost, Keeps, has_host
<1> QED  BY <1>1, <1>2

\* Keeping twice is keeping.
LEMMA KeepsTwice ==
    ASSUME NEW u, NEW v, NEW w, Keeps(u, v), Keeps(v, w)
    PROVE  Keeps(u, w)
BY DEF Keeps

\* A value that is stored: the property of the state is that of the value.
LEMMA Stored ==
    ASSUME NEW v, Become(v), NetworkHasHost(v)
    PROVE  OriginHasHost'
<1>1. url' = v  BY DEF Become
<1> QED  BY <1>1 DEF OriginHasHost, NetworkHasHost, TypeOf, Scheme, has_host

\* set_scheme: a network URL still has a host behind it.
LEMMA SchemeHasHost ==
    ASSUME Good(url), NEW s \in Schemes, SetScheme(s), OriginHasHost
    PROVE  OriginHasHost'
<1> DEFINE new == SchemeOf(s)
           w   == WithScheme(url, new.scheme)
<1>1. CASE Leave("Err")  BY <1>1, LeftOrKept
<1>2. CASE /\ new.ok /\ ~SchemeChangeRefused(url, new.scheme)
           /\ Become(Renormalized(w))
  <2>1. new.scheme \in Text /\ new.scheme # <<>> /\ NoSpace(new.scheme)
    BY <1>2, SchemeAssumption DEF GoodScheme, NoByte, NoSpace
  <2>2. /\ IsSpecialType(SchemeType(new.scheme)) = IsSpecial(url)
        /\ IsSpecialType(SchemeType(new.scheme)) => has_host(url)
    BY <1>2 DEF SchemeChangeRefused
  <2>3. Good(w)  BY <2>1, <2>2, WithSchemeGood
  <2>4. TypeOf(w) = SchemeType(new.scheme) /\ w.host = url.host
    BY <2>1, WithSchemeStores
  <2> HIDE DEF w
  <2>5. Keeps(w, Renormalized(w))
    <3>1. w.port \in PortNumber \union {None}  BY <2>3, GoodFacts
    <3> QED
      BY <2>3, <3>1, NormalizedPort, WithPortKeeps DEF Renormalized, Keeps
  <2>6. NetworkHasHost(Renormalized(w))
    BY <2>2, <2>4, <2>5 DEF NetworkHasHost, Keeps, has_host, IsSpecialType
  <2> QED  BY <1>2, <2>6, Stored
<1> QED  BY <1>1, <1>2 DEF SetScheme

\* set_username, set_password and set_port leave the host field alone.
LEMMA CredentialsHaveHost ==
    ASSUME Good(url), OriginHasHost,
           \/ \E n \in Usernames : SetUsername(n)
           \/ \E p \in Passwords : SetPassword(p)
           \/ \E p \in Ports \union {None} : SetPort(p)
    PROVE  OriginHasHost'
<1>1. ASSUME NEW n \in Usernames, SetUsername(n) PROVE OriginHasHost'
  <2>1. CASE \E result : Leave(result)  BY <2>1, LeftOrKept
  <2>2. CASE TakesCredentials(url) /\ Become(WithUsername(url, UserinfoText(n)))
    <3>1. UserinfoText(n) \in Text  BY WrittenUserinfo
    <3> QED  BY <2>2, <3>1, CredentialsKeep, LeftOrKept
  <2> QED  BY <1>1, <2>1, <2>2 DEF SetUsername
<1>2. ASSUME NEW p \in Passwords, SetPassword(p) PROVE OriginHasHost'
  <2>1. UserinfoText(p) \in Text  BY WrittenUserinfo
  <2>2. CASE \E result : Leave(result)  BY <2>2, LeftOrKept
  <2>3. CASE TakesCredentials(url) /\ Become(WithPassword(url, UserinfoText(p)))
    BY <2>1, <2>3, CredentialsKeep, LeftOrKept
  <2>4. CASE /\ TakesCredentials(url) /\ HasByte(url.ser, url.username_end, ":")
             /\ Become(WithoutPassword(url))
    BY <2>1, <2>4, CredentialsKeep, LeftOrKept
  <2> QED  BY <1>2, <2>2, <2>3, <2>4 DEF SetPassword
<1>3. ASSUME NEW p \in Ports \union {None}, SetPort(p) PROVE OriginHasHost'
  <2>1. CASE \E result : Leave(result)  BY <2>1, LeftOrKept
  <2>2. CASE Become(WithPort(url, Normalized(url, p)))
    <3>1. p \in PortNumber \union {None}  BY InputAssumption
    <3>2. Keeps(url, WithPort(url, Normalized(url, p)))
      BY <3>1, NormalizedPort, WithPortKeeps
    <3> QED  BY <2>2, <3>2, LeftOrKept
  <2> QED  BY <1>3, <2>1, <2>2 DEF SetPort
<1> QED  BY <1>1, <1>2, <1>3

\* set_host and set_ip_host: a network URL refuses to lose its host.
LEMMA HostHasHost ==
    ASSUME Good(url), OriginHasHost,
           \/ \E h \in Hosts : SetHost(h)
           \/ \E a \in Address : SetIpHost(a)
           \/ RemoveHost
    PROVE  OriginHasHost'
<1>1. ASSUME NEW h \in Hosts, SetHost(h) PROVE OriginHasHost'
  <2> DEFINE host == HostOf(TypeOf(url), HostSubstring(h))
  <2>1. TypeOf(url) \in SchemeTypes  BY DEF TypeOf, SchemeType, SchemeTypes
  <2>2. CASE Leave("Err")  BY <2>2, LeftOrKept
  <2>3. CASE host.ok /\ Become(WithHost(url, host))
    <3>1. WritableHost(host)  BY <2>1, <2>3, WrittenHost
    <3>2. TypeOf(url) # "NotSpecial" => host.kind # "None"
      BY <2>1, <2>3, HostAssumption DEF GoodHost
    <3> HIDE DEF host
    <3>3. NetworkHasHost(WithHost(url, host))
      BY <3>1, <3>2, WithHostStores DEF NetworkHasHost, has_host
    <3> QED  BY <2>3, <3>3, Stored
  <2> QED  BY <1>1, <2>2, <2>3 DEF SetHost
<1>2. ASSUME NEW a \in Address, SetIpHost(a) PROVE OriginHasHost'
  <2>1. CASE Leave("Err")  BY <2>1, LeftOrKept
  <2>2. CASE Become(WithHost(url, a))
    <3>1. WritableHost(a) /\ a.kind # "None"
      BY WrittenAddress DEF Address
    <3>2. NetworkHasHost(WithHost(url, a))
      BY <3>1, WithHostStores DEF NetworkHasHost, has_host
    <3> QED  BY <2>2, <3>2, Stored
  <2> QED  BY <1>2, <2>1, <2>2 DEF SetIpHost
<1>3. CASE RemoveHost
  <2>1. CASE \E result : Leave(result)  BY <2>1, LeftOrKept
  <2>2. CASE TypeOf(url) # "SpecialNotFile" /\ Become(WithoutHost(url))
    <3>1. NetworkHasHost(WithoutHost(url))
      BY <2>2, WithoutHostKeeps DEF NetworkHasHost
    <3> QED  BY <2>2, <3>1, Stored
  <2> QED  BY <1>3, <2>1, <2>2 DEF RemoveHost
<1> QED  BY <1>1, <1>2, <1>3

\* Setters of path, query and fragment leave the host field alone.
LEMMA TailHasHost ==
    ASSUME Good(url), OriginHasHost,
           \/ \E p \in Paths : SetPath(p)
           \/ \E q \in Queries : SetQuery(q)
           \/ \E f \in Fragments : SetFragment(f)
           \/ RemoveQuery \/ RemoveFragment
    PROVE  OriginHasHost'
<1>1. TypeOf(url) \in SchemeTypes  BY DEF TypeOf, SchemeType, SchemeTypes
<1>2. ASSUME NEW p \in Paths, SetPath(p) PROVE OriginHasHost'
  <2>1. EndsWith(Take(url.ser, url.path_start), "/") \in BOOLEAN
    BY DEF EndsWith
  <2>2. NewPath(url, p) \in Text
    BY <1>1, <2>1, PathAssumption DEF NewPath, PathFor, GoodPath
  <2> QED  BY <1>2, <2>2, TailKeeps, LeftOrKept DEF SetPath
<1>3. ASSUME NEW q \in Queries, SetQuery(q) PROVE OriginHasHost'
  <2>1. QueryText(TypeOf(url), q) \in Text  BY <1>1, TailAssumption
  <2> QED  BY <1>3, <2>1, TailKeeps, LeftOrKept DEF SetQuery
<1>4. ASSUME NEW f \in Fragments, SetFragment(f) PROVE OriginHasHost'
  <2>1. FragmentText(f) \in Text  BY TailAssumption
  <2> QED  BY <1>4, <2>1, TailKeeps, LeftOrKept DEF SetFragment
<1>5. <<>> \in Text  BY EmptySeq DEF Text
<1>6. CASE RemoveQuery
  <2> DEFINE v == WithoutQuery(url)
  <2>1. Good(v) /\ Keeps(url, v)  BY <1>5, WithoutQueryGood, TailKeeps
  <2>2. Become(v) \/ Become(Stripped(v))  BY <1>6 DEF RemoveQuery
  <2> HIDE DEF v
  <2>3. Keeps(url, Stripped(v))  BY <2>1, StrippedKeeps, KeepsTwice
  <2> QED  BY <2>1, <2>2, <2>3, LeftOrKept
<1>7. CASE RemoveFragment
  <2> DEFINE v == WithoutFragment(url)
  <2>1. Good(v) /\ Keeps(url, v)  BY <1>5, WithoutFragmentGood, TailKeeps
  <2>2. Become(v) \/ Become(Stripped(v))  BY <1>7 DEF RemoveFragment
  <2> HIDE DEF v
  <2>3. Keeps(url, Stripped(v))  BY <2>1, StrippedKeeps, KeepsTwice
  <2> QED  BY <2>1, <2>2, <2>3, LeftOrKept
<1> QED  BY <1>2, <1>3, <1>4, <1>6, <1>7

\* As long as no address host is removed, the host origin() unwraps is there.
THEOREM OriginNeverPanics == OrdinarySpec => []OriginHasHost
<1>1. Init => OriginHasHost
  BY InitAssumption DEF Init, OriginHasHost
<1>2. Inv /\ OriginHasHost /\ [OrdinaryCall]_vars => OriginHasHost'
  <2> SUFFICES ASSUME Inv, OriginHasHost, [OrdinaryCall]_vars
               PROVE  OriginHasHost'
    OBVIOUS
  <2>1. Good(url)  BY DEF Inv
  <2>2. CASE \E s \in Schemes : SetScheme(s)  BY <2>1, <2>2, SchemeHasHost
  <2>3. CASE \/ \E n \in Usernames : SetUsername(n)
             \/ \E p \in Passwords : SetPassword(p)
             \/ \E p \in Ports \union {None} : SetPort(p)
    BY <2>1, <2>3, CredentialsHaveHost
  <2>4. CASE \/ \E h \in Hosts : SetHost(h)
             \/ \E a \in Address : SetIpHost(a)
             \/ RemoveHost
    BY <2>1, <2>4, HostHasHost
  <2>5. CASE \/ \E p \in Paths : SetPath(p)
             \/ \E q \in Queries : SetQuery(q)
             \/ \E f \in Fragments : SetFragment(f)
             \/ RemoveQuery \/ RemoveFragment
    BY <2>1, <2>5, TailHasHost
  <2>6. CASE UNCHANGED vars
    BY <2>6 DEF vars, OriginHasHost, NetworkHasHost
  <2> QED  BY <2>2, <2>3, <2>4, <2>5, <2>6 DEF OrdinaryCall
<1> QED  BY <1>1, <1>2, Invariance, PTL DEF OrdinarySpec
=============================================================================
