-------------------------- MODULE UrlPartsTheorems --------------------------
(****************************************************************************)
(* A value is cut into its parts, the texts between its offsets.  Where     *)
(* ComponentsApart holds, the components read off a value are its parts,    *)
(* and so is what its positions delimit.  An edit of the serialization      *)
(* exchanges the parts it touches and keeps the others.                     *)
(****************************************************************************)
EXTENDS UrlPosition, UrlLayoutTheorems

(****************************************************************************)
(* Slices.                                                                  *)
(****************************************************************************)
\* s[a..a] is empty, and nothing else is.
LEMMA SliceEmpty ==
    ASSUME NEW s \in Text, NEW a \in Nat, NEW b \in Nat, a <= b, b <= Len(s)
    PROVE  Slice(s, a, b) = <<>> <=> a = b
<1> DEFINE x == Slice(s, a, b)
<1>1. x \in Seq(Lexeme) /\ Len(x) = b - a  BY SliceFacts DEF Text
<1> HIDE DEF x
<1>2. x = <<>> <=> Len(x) = 0  BY <1>1, EmptySeq
<1>3. x = <<>> <=> a = b  BY <1>1, <1>2
<1> QED  BY <1>3 DEF x

\* s[0..len] is s.
LEMMA SliceWhole ==
    ASSUME NEW s \in Text
    PROVE  Slice(s, 0, Len(s)) = s /\ Len(s) \in Nat
BY SubSeqFull, LenProperties DEF Slice, Text

\* What a splice leaves in place, moves and inserts, as slices.
LEMMA SpliceSlices ==
    ASSUME NEW s \in Text, NEW mid \in Text, NEW a \in Nat, NEW b \in Nat,
           a <= b, b <= Len(s), NEW r, r = Splice(s, a, b, mid),
           NEW d, d = a + Len(mid) - b
    PROVE  /\ r \in Text /\ Len(r) = Len(s) + d /\ d \in Int
           /\ Len(s) \in Nat /\ Len(mid) \in Nat
           /\ \A k \in Nat, m \in Nat : k <= m /\ m <= a =>
                 Slice(r, k, m) = Slice(s, k, m)
           /\ \A k \in Nat, m \in Nat : b <= k /\ k <= m /\ m <= Len(s) =>
                 /\ k + d \in Nat /\ m + d \in Nat /\ m + d <= Len(r)
                 /\ Slice(r, k + d, m + d) = Slice(s, k, m)
           /\ \A k \in Nat, m \in Nat : k <= m /\ m <= Len(mid) =>
                 Slice(r, a + k, a + m) = Slice(mid, k, m)
<1>1. Len(s) \in Nat /\ Len(mid) \in Nat  BY LenProperties DEF Text
<1>2. d \in Int  BY <1>1
<1>3. /\ r \in Text
      /\ Len(r) = Len(s) + d
      /\ \A i \in 1..a : r[i] = s[i]
      /\ \A i \in 1..Len(mid) : r[a + i] = mid[i]
      /\ \A i \in (b + 1)..Len(s) : r[i + d] = s[i]
  <2>1. /\ Splice(s, a, b, mid) \in Text
        /\ Len(Splice(s, a, b, mid)) = Len(s) + (a + Len(mid) - b)
        /\ \A i \in 1..a : Splice(s, a, b, mid)[i] = s[i]
        /\ \A i \in 1..Len(mid) : Splice(s, a, b, mid)[a + i] = mid[i]
        /\ \A i \in (b + 1)..Len(s) :
                 Splice(s, a, b, mid)[i + (a + Len(mid) - b)] = s[i]
    BY SpliceFacts, ZenonT(40)
  <2> QED  BY <2>1
<1> DEFINE n == Len(s)
           l == Len(mid)
           z == Len(r)
<1>4. n \in Nat /\ l \in Nat /\ z = n + d /\ b <= n /\ d = a + l - b
  BY <1>1, <1>3
<1> HIDE DEF n, l, z
<1>5. ASSUME NEW k \in Nat, NEW m \in Nat, k <= m, m <= a
      PROVE  Slice(r, k, m) = Slice(s, k, m)
  <2>1. m <= n /\ m <= z  BY <1>4, <1>5
  <2>2. \A i \in 1..(m - k) : r[k + i] = s[k + i]
    <3> SUFFICES ASSUME NEW i \in 1..(m - k) PROVE r[k + i] = s[k + i]
      OBVIOUS
    <3>1. k + i \in 1..a  BY <1>5
    <3> QED  BY <1>3, <3>1
  <2>3. SameElements(r, k, m, s, k, m)
    BY <1>3, <1>5, <2>1, <2>2 DEF SameElements, n, z
  <2> QED  BY <2>3, SlicesEqual
<1>6. ASSUME NEW k \in Nat, NEW m \in Nat, b <= k, k <= m, m <= Len(s)
      PROVE  /\ k + d \in Nat /\ m + d \in Nat /\ m + d <= Len(r)
             /\ Slice(r, k + d, m + d) = Slice(s, k, m)
  <2>1. /\ k + d \in Nat /\ m + d \in Nat /\ m + d <= z /\ k + d <= m + d
        /\ (m + d) - (k + d) = m - k
    <3>1. m <= n  BY <1>6 DEF n
    <3> QED  BY <1>2, <1>4, <1>6, <3>1
  <2>2. \A i \in 1..(m - k) : r[(k + d) + i] = s[k + i]
    <3> SUFFICES ASSUME NEW i \in 1..(m - k) PROVE r[(k + d) + i] = s[k + i]
      OBVIOUS
    <3>1. k + i \in (b + 1)..n /\ (k + i) + d = (k + d) + i
      <4>1. m <= n  BY <1>6 DEF n
      <4> QED  BY <1>2, <1>4, <1>6, <4>1
    <3>2. r[(k + i) + d] = s[k + i]  BY <1>3, <3>1 DEF n
    <3> QED  BY <3>1, <3>2
  <2>3. SameElements(r, k + d, m + d, s, k, m)
    BY <1>3, <1>6, <2>1, <2>2 DEF SameElements, z
  <2> QED  BY <2>1, <2>3, SlicesEqual DEF z
<1>7. ASSUME NEW k \in Nat, NEW m \in Nat, k <= m, m <= Len(mid)
      PROVE  Slice(r, a + k, a + m) = Slice(mid, k, m)
  <2>1. /\ a + k \in Nat /\ a + m \in Nat /\ a + k <= a + m /\ a + m <= z
        /\ (a + m) - (a + k) = m - k
    <3>1. m <= l  BY <1>7 DEF l
    <3> QED  BY <1>4, <1>7, <3>1
  <2>2. \A i \in 1..(m - k) : r[(a + k) + i] = mid[k + i]
    <3> SUFFICES ASSUME NEW i \in 1..(m - k) PROVE r[(a + k) + i] = mid[k + i]
      OBVIOUS
    <3>1. k + i \in 1..l /\ a + (k + i) = (a + k) + i
      <4>1. m <= l  BY <1>7 DEF l
      <4> QED  BY <1>4, <1>7, <4>1
    <3>2. r[a + (k + i)] = mid[k + i]  BY <1>3, <3>1 DEF l
    <3> QED  BY <3>1, <3>2
  <2>3. SameElements(r, a + k, a + m, mid, k, m)
    BY <1>3, <1>7, <2>1, <2>2 DEF SameElements, z
  <2> QED  BY <2>3, SlicesEqual
<1> QED  BY <1>1, <1>2, <1>3, <1>5, <1>6, <1>7

(****************************************************************************)
(* The parts of a value: the texts its offsets mark, whatever they are.     *)
(****************************************************************************)
\* An authority is written, with or without credentials.
Written(u) == u.username_end >= u.scheme_end + 3

UsernamePart(u) == IF Written(u)
                   THEN Slice(u.ser, u.scheme_end + 3, u.username_end)
                   ELSE <<>>

PasswordPart(u) == IF u.host_start > u.username_end + 1
                   THEN Slice(u.ser, u.username_end + 1, u.host_start - 1)
                   ELSE <<>>

\* The path stands right behind the scheme.
Bare(u) == ~Written(u) /\ ~DotPrefixed(u)

QueryPart(u)    == Optional(u.query_start, Query(u))
FragmentPart(u) == Optional(u.fragment_start, Fragment(u))

Parts(u) ==
    [scheme   |-> Scheme(u),
     username |-> UsernamePart(u),
     password |-> PasswordPart(u),
     host     |-> HostText(u),
     kind     |-> u.host,
     port     |-> u.port,
     bare     |-> Bare(u),
     path     |-> Path(u),
     query    |-> QueryPart(u),
     fragment |-> FragmentPart(u)]

\* ComponentsApart of a value with these parts.
PartsApart(p) ==
    /\ p.kind = "None" => p.host = <<>>
    /\ SchemeType(p.scheme) = "SpecialNotFile" => p.host # <<>>
    /\ p.host = <<>> => p.username = <<>> /\ p.password = <<>> /\ p.port = None
    /\ p.port # None => SchemeType(p.scheme) # "File"
                        /\ p.port # default_port(p.scheme)
    /\ NoByte(p.host, "/")
    /\ ~p.bare => p.path = <<>> \/ Rooted(p.path)
    /\ IsSpecialType(SchemeType(p.scheme)) => p.path # <<>>
    /\ p.bare => ~StartsWithTwoSlashes(p.path)

-----------------------------------------------------------------------------
(****************************************************************************)
(* What the accessors read off the parts.                                   *)
(****************************************************************************)
\* Either "://" stands in front of the host, or there is neither.
LEMMA AuthorityOrNone ==
    ASSUME NEW u, Good(u)
    PROVE  \/ Written(u) /\ has_authority(u)
           \/ /\ ~Written(u) /\ u.username_end = u.scheme_end + 1
              /\ u.host_start = u.scheme_end + 1
              /\ u.host_end = u.scheme_end + 1
BY GoodFacts DEF AuthorityIntact, AuthorityMarked, Written

\* The path ends at a '?', at a '#', or with the serialization.
LEMMA PathClosed ==
    ASSUME NEW u, Good(u), NEW c, HasByte(u.ser, PathEnd(u), c)
    PROVE  c \in {"?", "#"}
<1>1. CASE u.query_start # None
  <2>1. HasByte(u.ser, PathEnd(u), "?")  BY <1>1, TailFacts
  <2> QED  BY <2>1 DEF HasByte
<1>2. CASE u.query_start = None /\ u.fragment_start # None
  <2>1. PathEnd(u) = QueryEnd(u)  BY <1>2 DEF PathEnd, QueryEnd
  <2>2. HasByte(u.ser, QueryEnd(u), "#")  BY <1>2, TailFacts
  <2> QED  BY <2>1, <2>2 DEF HasByte
<1>3. CASE u.query_start = None /\ u.fragment_start = None
  <2>1. PathEnd(u) = Len(u.ser)  BY <1>3 DEF PathEnd
  <2>2. Len(u.ser) \in Nat  BY GoodFacts
  <2> QED  BY <2>1, <2>2 DEF HasByte
<1> QED  BY <1>1, <1>2, <1>3

\* The path as a slice.
LEMMA PathFacts ==
    ASSUME NEW u, Good(u)
    PROVE  /\ Path(u) \in Text /\ Len(Path(u)) = PathEnd(u) - u.path_start
           /\ \A i \in 1..(PathEnd(u) - u.path_start) :
                 Path(u)[i] = u.ser[u.path_start + i]
           /\ Path(u) = <<>> <=> u.path_start = PathEnd(u)
<1>1. /\ u.ser \in Text /\ u.path_start \in Nat /\ PathEnd(u) \in Nat
      /\ u.path_start <= PathEnd(u) /\ PathEnd(u) <= Len(u.ser)
  BY EditPlaces
<1> DEFINE s == u.ser
           p == u.path_start
           e == PathEnd(u)
<1>2. Path(u) = Slice(s, p, e)  BY DEF Path
<1>3. s \in Text /\ p \in Nat /\ e \in Nat /\ p <= e /\ e <= Len(s)
  BY <1>1
<1> HIDE DEF s, p, e
<1>4. /\ Slice(s, p, e) \in Text /\ Len(Slice(s, p, e)) = e - p
      /\ \A i \in 1..(e - p) : Slice(s, p, e)[i] = s[p + i]
  BY <1>3, SliceFacts
<1>5. Slice(s, p, e) = <<>> <=> p = e  BY <1>3, SliceEmpty
<1> QED  BY <1>2, <1>4, <1>5 DEF s, p, e

\* A slash where the path starts is the path's, and so is one behind it.
LEMMA PathSlashes ==
    ASSUME NEW u, Good(u)
    PROVE  /\ HasByte(u.ser, u.path_start, "/") <=> Rooted(Path(u))
           /\ (/\ HasByte(u.ser, u.path_start, "/")
               /\ HasByte(u.ser, u.path_start + 1, "/"))
              <=> StartsWithTwoSlashes(Path(u))
<1> DEFINE s == u.ser
           n == Len(s)
           p == u.path_start
           e == PathEnd(u)
           x == Path(u)
           l == Len(x)
<1>1. n \in Nat /\ p \in Nat /\ e \in Nat /\ p <= e /\ e <= n  BY EditPlaces
<1>2. /\ l = e - p /\ (x = <<>> <=> p = e)
      /\ \A i \in 1..(e - p) : x[i] = s[p + i]
  BY PathFacts
<1>3. ~HasByte(s, e, "/")  BY PathClosed
<1>4. \A i : HasByte(s, i, "/") <=> i < n /\ s[i + 1] = "/"
  BY DEF HasByte, ByteAt
<1>5. /\ Rooted(x) <=> x # <<>> /\ x[1] = "/"
      /\ StartsWithTwoSlashes(x) <=> l >= 2 /\ x[1] = "/" /\ x[2] = "/"
  BY DEF Rooted, StartsWithTwoSlashes
<1> SUFFICES (HasByte(s, p, "/") <=> Rooted(x))
             /\ ((HasByte(s, p, "/") /\ HasByte(s, p + 1, "/"))
                    <=> StartsWithTwoSlashes(x))
  OBVIOUS
<1> HIDE DEF s, n, p, e, x, l
<1>6. e < n => s[e + 1] # "/"  BY <1>3, <1>4
<1>7. CASE p = e  BY <1>1, <1>2, <1>4, <1>5, <1>6, <1>7
<1>8. CASE p + 1 = e
  <2>1. x[1] = s[p + 1] /\ x # <<>> /\ l = 1 /\ p < n
    BY <1>1, <1>2, <1>8
  <2>2. ~(p + 1 < n /\ s[(p + 1) + 1] = "/")  BY <1>6, <1>8
  <2> QED  BY <1>4, <1>5, <2>1, <2>2
<1>9. CASE p + 1 < e
  <2>1. /\ x[1] = s[p + 1] /\ x[2] = s[p + 2] /\ x # <<>> /\ l >= 2
        /\ p < n /\ p + 1 < n /\ (p + 1) + 1 = p + 2
    BY <1>1, <1>2, <1>9
  <2> QED  BY <1>4, <1>5, <2>1
<1>10. p = e \/ p + 1 = e \/ p + 1 < e  BY <1>1
<1> QED  BY <1>7, <1>8, <1>9, <1>10

\* Without an authority, whether a URL is opaque, and whether it looks as if it
\* had one, is a matter of its path.
LEMMA WithoutAuthorityRead ==
    ASSUME NEW u, Good(u), ~Written(u), u.port = None
    PROVE  /\ cannot_be_a_base(u) <=> Bare(u) /\ ~Rooted(Path(u))
           /\ has_authority(u) <=> Bare(u) /\ StartsWithTwoSlashes(Path(u))
<1> DEFINE s == u.ser
           n == Len(s)
           e == u.scheme_end
           p == u.path_start
           y == Slice(s, e + 1, p)
<1>1. /\ s \in Text /\ n \in Nat /\ e \in Nat /\ p \in Nat /\ p <= n
      /\ e + 1 <= p
  BY EditPlaces
<1>2. u.host_end = e + 1  BY AuthorityOrNone
<1>3. y \in {<<>>, <<"/", ".">>}
  BY <1>2, GoodFacts DEF AuthorityIntact, PortWritten
<1>4. HasByte(s, e, ":")
  <2>1. ByteAt(s, e) = ":"  BY GoodFacts DEF HeadCut
  <2>2. e < n
    <3> HIDE DEF s, n, e, p
    <3> QED  BY <1>1
  <2> QED  BY <2>1, <2>2 DEF HasByte
<1>5. /\ cannot_be_a_base(u) <=> ~HasByte(s, e + 1, "/")
      /\ has_authority(u) <=> HasByte(s, e + 1, "/") /\ HasByte(s, e + 2, "/")
  BY <1>4 DEF cannot_be_a_base, has_authority, StartsWithAuthority
<1>6. Bare(u) <=> y # <<"/", ".">>  BY <1>2 DEF Bare, DotPrefixed
<1>7. CASE y = <<>>
  <2>1. p = e + 1
    <3>1. e + 1 \in Nat  BY <1>1
    <3>2. e + 1 = p  BY <1>1, <1>7, <3>1, SliceEmpty
    <3> QED  BY <3>2
  <2>2. y # <<"/", ".">>  BY <1>7
  <2>3. e + 2 = p + 1  BY <1>1, <2>1
  <2>4. /\ HasByte(s, p, "/") <=> Rooted(Path(u))
        /\ (HasByte(s, p, "/") /\ HasByte(s, p + 1, "/"))
              <=> StartsWithTwoSlashes(Path(u))
    BY PathSlashes
  <2>5. /\ cannot_be_a_base(u) <=> ~HasByte(s, p, "/")
        /\ has_authority(u) <=> HasByte(s, p, "/") /\ HasByte(s, p + 1, "/")
    BY <1>5, <2>1, <2>3
  <2> HIDE DEF s, p, y, n, e
  <2> QED  BY <1>6, <2>2, <2>4, <2>5
<1>8. CASE y = <<"/", ".">>
  <2>1. e + 1 \in Nat  BY <1>1
  <2>2. /\ Len(y) = p - (e + 1)
        /\ \A i \in 1..(p - (e + 1)) : y[i] = s[(e + 1) + i]
    BY <1>1, <2>1, SliceFacts
  <2>3. Len(y) = 2 /\ y[1] = "/" /\ y[2] = "."  BY <1>8
  <2> HIDE DEF s, p, y, n, e
  <2> DEFINE l == Len(y)
  <2>l. l = p - (e + 1) /\ l = 2  BY <2>2, <2>3
  <2> HIDE DEF l
  <2>4. p - (e + 1) = 2 /\ e + 1 < n  BY <1>1, <2>l
  <2>5. s[(e + 1) + 1] = "/" /\ s[(e + 1) + 2] = "."
    <3>1. 1 \in 1..(p - (e + 1)) /\ 2 \in 1..(p - (e + 1))  BY <2>4
    <3> QED  BY <2>2, <2>3, <3>1
  <2>6. (e + 1) + 2 = (e + 2) + 1  BY <1>1
  <2>7. HasByte(s, e + 1, "/") /\ ~HasByte(s, e + 2, "/")
    BY <2>4, <2>5, <2>6 DEF HasByte, ByteAt, n
  <2> QED  BY <1>5, <1>6, <1>8, <2>7
<1> QED  BY <1>3, <1>7, <1>8

\* The host lies within the serialization.
LEMMA HostPlace ==
    ASSUME NEW u, Good(u)
    PROVE  u.host_end \in Nat /\ u.host_end <= Len(u.ser)
<1> DEFINE n == Len(u.ser)
           h == u.host_end
           p == u.path_start
<1>1. n \in Nat /\ h \in Nat /\ p \in Nat /\ h <= p /\ p <= n
  BY GoodFacts DEF HeadCut
<1> HIDE DEF n, h, p
<1>2. h <= n  BY <1>1
<1> QED  BY <1>1, <1>2 DEF h, n

\* The host is a slice, empty where its offsets coincide.
LEMMA HostFacts ==
    ASSUME NEW u, Good(u)
    PROVE  /\ HostText(u) \in Text
           /\ HostText(u) = <<>> <=> u.host_start = u.host_end
<1>1. /\ u.ser \in Text /\ u.host_start \in Nat /\ u.host_end \in Nat
      /\ u.host_start <= u.host_end /\ u.host_end <= Len(u.ser)
  <2> DEFINE n == Len(u.ser)
             h == u.host_end
             p == u.path_start
             e == PathEnd(u)
             q == QueryEnd(u)
  <2>1. /\ u.ser \in Text /\ u.host_start \in Nat /\ h \in Nat
        /\ u.host_start <= h
    BY EditPlaces
  <2>2. /\ n \in Nat /\ h \in Nat /\ p \in Nat /\ e \in Nat /\ q \in Nat
        /\ h <= p /\ p <= e /\ e <= q /\ q <= n
    BY EditPlaces
  <2> HIDE DEF n, h, p, e, q
  <2>3. h <= n  BY <2>2
  <2> QED  BY <2>1, <2>3 DEF h, n
<1>2. HostText(u) = Slice(u.ser, u.host_start, u.host_end)  BY DEF HostText
<1> DEFINE s == u.ser
           a == u.host_start
           h == u.host_end
<1>3. s \in Text /\ a \in Nat /\ h \in Nat /\ a <= h /\ h <= Len(s)
  BY <1>1
<1> HIDE DEF s, a, h
<1>4. Slice(s, a, h) \in Text  BY <1>3, SliceFacts
<1>5. Slice(s, a, h) = <<>> <=> a = h  BY <1>3, SliceEmpty
<1> QED  BY <1>2, <1>4, <1>5 DEF s, a, h

\* Offsets of the head, as numbers.
LEMMA HeadPlaces ==
    ASSUME NEW u, Good(u)
    PROVE  /\ u.ser \in Text /\ Len(u.ser) \in Nat
           /\ u.scheme_end \in Nat /\ u.username_end \in Nat
           /\ u.host_start \in Nat /\ u.host_end \in Nat /\ u.path_start \in Nat
           /\ u.scheme_end < u.username_end /\ u.username_end <= u.host_start
           /\ u.host_start <= u.host_end /\ u.host_end <= u.path_start
           /\ u.path_start <= Len(u.ser)
           /\ u.host_start <= Len(u.ser) /\ u.username_end <= Len(u.ser)
<1> DEFINE n == Len(u.ser)
<1>1. /\ u.ser \in Text /\ n \in Nat
      /\ u.scheme_end \in Nat /\ u.username_end \in Nat
      /\ u.host_start \in Nat /\ u.host_end \in Nat /\ u.path_start \in Nat
      /\ u.scheme_end < u.username_end /\ u.username_end <= u.host_start
      /\ u.host_start <= u.host_end /\ u.host_end <= u.path_start
      /\ u.path_start <= n
  BY GoodFacts DEF HeadCut
<1> HIDE DEF n
<1>2. u.host_start <= n /\ u.username_end <= n  BY <1>1
<1> QED  BY <1>1, <1>2 DEF n

\* There are no credentials exactly where the username ends at the host.
LEMMA CredentialParts ==
    ASSUME NEW u, Good(u)
    PROVE  /\ UsernamePart(u) = <<>> /\ PasswordPart(u) = <<>>
              <=> u.username_end = u.host_start
           /\ u.host_start <= u.username_end + 1 => PasswordPart(u) = <<>>
           /\ ~Written(u) => UsernamePart(u) = <<>> /\ PasswordPart(u) = <<>>
<1> DEFINE s == u.ser
           a == u.scheme_end + 3
           x == u.username_end
           y == u.host_start
           n == Len(s)
<1>1. /\ s \in Text /\ n \in Nat /\ a \in Nat /\ x \in Nat /\ y \in Nat
      /\ x <= y /\ y <= n
  BY HeadPlaces
<1>2. \/ x = y /\ x <= a
      \/ x > a /\ y = x + 1
      \/ y >= x + 3
  BY GoodFacts DEF AuthorityIntact, CredentialsClosed
<1>3. /\ Written(u) <=> x >= a
      /\ UsernamePart(u) = IF x >= a THEN Slice(s, a, x) ELSE <<>>
      /\ PasswordPart(u) = IF y > x + 1 THEN Slice(s, x + 1, y - 1) ELSE <<>>
  BY DEF Written, UsernamePart, PasswordPart
<1>4. ~Written(u) => x = y
  BY AuthorityOrNone
<1> HIDE DEF s, a, x, y
<1>5. x >= a => (Slice(s, a, x) = <<>> <=> a = x)
  <2>1. x <= Len(s)  BY <1>1 DEF n
  <2> QED  BY <1>1, <2>1, SliceEmpty
<1>6. y >= x + 3 => Slice(s, x + 1, y - 1) # <<>>
  <2> SUFFICES ASSUME y >= x + 3 PROVE Slice(s, x + 1, y - 1) # <<>>
    OBVIOUS
  <2>1. /\ x + 1 \in Nat /\ y - 1 \in Nat /\ x + 1 <= y - 1 /\ y - 1 <= n
        /\ x + 1 # y - 1
    BY <1>1
  <2>2. y - 1 <= Len(s)  BY <2>1 DEF n
  <2> QED  BY <1>1, <2>1, <2>2, SliceEmpty
<1> HIDE DEF n
<1>7. y <= x + 1 => PasswordPart(u) = <<>>  BY <1>1, <1>3
<1>8. UsernamePart(u) = <<>> /\ PasswordPart(u) = <<>> <=> x = y
  <2>1. CASE x = y /\ x <= a
    <3>1. UsernamePart(u) = <<>>  BY <1>1, <1>3, <1>5, <2>1
    <3>2. PasswordPart(u) = <<>>  BY <1>1, <1>7, <2>1
    <3> QED  BY <2>1, <3>1, <3>2
  <2>2. CASE x > a /\ y = x + 1
    <3>1. UsernamePart(u) # <<>> /\ x # y  BY <1>1, <1>3, <1>5, <2>2
    <3> QED  BY <3>1
  <2>3. CASE y >= x + 3
    <3>1. PasswordPart(u) # <<>> /\ x # y  BY <1>1, <1>3, <1>6, <2>3
    <3> QED  BY <3>1
  <2> QED  BY <1>2, <2>1, <2>2, <2>3
<1> QED  BY <1>4, <1>7, <1>8 DEF x, y

\* The username is the text between "://" and its end.
LEMMA UsernameRead ==
    ASSUME NEW u, Good(u)
    PROVE  Username(u) = UsernamePart(u)
<1>1. CASE Written(u)
  <2>1. has_authority(u)  BY <1>1, AuthorityOrNone
  <2>2. CASE u.username_end > u.scheme_end + 3
    BY <1>1, <2>1, <2>2 DEF Username, UsernamePart
  <2>3. CASE ~(u.username_end > u.scheme_end + 3)
    <3> DEFINE a == u.scheme_end + 3
               x == u.username_end
    <3>1. a \in Nat /\ x \in Nat /\ x <= Len(u.ser) /\ u.ser \in Text
      BY HeadPlaces
    <3>2. x >= a /\ ~(x > a)  BY <1>1, <2>3 DEF Written
    <3>3. Username(u) = <<>> /\ UsernamePart(u) = Slice(u.ser, a, x)
      BY <1>1, <2>3 DEF Username, UsernamePart
    <3> HIDE DEF a, x
    <3>4. a = x /\ a <= x  BY <3>1, <3>2
    <3>5. Slice(u.ser, a, x) = <<>>  BY <3>1, <3>4, SliceEmpty
    <3> QED  BY <3>3, <3>5
  <2> QED  BY <2>2, <2>3
<1>2. CASE ~Written(u)
  <2>1. ~(u.username_end > u.scheme_end + 3)
    BY <1>2, HeadPlaces DEF Written
  <2> QED  BY <1>2, <2>1 DEF Username, UsernamePart
<1> QED  BY <1>1, <1>2

\* Nothing that stands behind a username that ends at the host is taken for a
\* password: not the host, not the path.
LEMMA NoPasswordRead ==
    ASSUME NEW u, Good(u), ComponentsApart(u), u.username_end = u.host_start
    PROVE  ~HasPassword(u)
<1> SUFFICES ASSUME has_authority(u), HasByte(u.ser, u.username_end, ":")
             PROVE  FALSE
  BY DEF HasPassword
<1>1. CASE u.host_start < u.host_end
  <2>1. ByteAt(u.ser, u.host_start) # ":"
    BY <1>1, GoodFacts DEF AuthorityIntact, HostWritten
  <2> QED  BY <2>1 DEF HasByte
<1>2. CASE ~(u.host_start < u.host_end)
  <2> DEFINE s == u.ser
             h == u.host_end
             p == u.path_start
  <2>1. u.host_start = h /\ s \in Text /\ h \in Nat /\ p \in Nat /\ h <= p
        /\ p <= Len(s)
    BY <1>2, HeadPlaces
  <2>2. u.port = None  BY <2>1 DEF ComponentsApart
  <2>3. Slice(s, h, p) \in {<<>>, <<"/", ".">>}
    BY <2>2, GoodFacts DEF AuthorityIntact, PortWritten
  <2>4. HasByte(s, h, ":")  BY <2>1
  <2>5. CASE Slice(s, h, p) = <<"/", ".">>
    <3>1. /\ Len(Slice(s, h, p)) = p - h
          /\ \A i \in 1..(p - h) : Slice(s, h, p)[i] = s[h + i]
      BY <2>1, SliceFacts
    <3>2. Len(<<"/", ".">>) = 2  OBVIOUS
    <3> HIDE DEF s, h, p
    <3>3. 1 \in 1..(p - h)  BY <2>1, <2>5, <3>1, <3>2
    <3>4. s[h + 1] = "/"  BY <2>5, <3>1, <3>3
    <3> QED  BY <2>4, <3>4 DEF HasByte, ByteAt
  <2>6. CASE Slice(s, h, p) = <<>>
    <3>1. h = p  BY <2>1, <2>6, SliceEmpty
    <3>2. HasByte(u.ser, u.path_start, ":")  BY <2>4, <3>1
    <3>3. Path(u) = <<>> \/ Rooted(Path(u))
      <4>1. ~cannot_be_a_base(u)
        BY DEF has_authority, StartsWithAuthority, cannot_be_a_base
      <4> QED  BY <4>1 DEF ComponentsApart
    <3>4. ~Rooted(Path(u))
      <4>1. ~HasByte(u.ser, u.path_start, "/")  BY <3>2 DEF HasByte
      <4> QED  BY <4>1, PathSlashes
    <3>5. u.path_start = PathEnd(u)  BY <3>3, <3>4, PathFacts
    <3> QED  BY <3>2, <3>5, PathClosed
  <2> QED  BY <2>3, <2>5, <2>6
<1> QED  BY <1>1, <1>2

\* The password is the text between its ':' and the '@'.
LEMMA PasswordRead ==
    ASSUME NEW u, Good(u), ComponentsApart(u)
    PROVE  Password(u) = PasswordPart(u)
<1> DEFINE x == u.username_end
           y == u.host_start
           n == Len(u.ser)
<1>1. /\ n \in Nat /\ x \in Nat /\ y \in Nat /\ x <= y /\ y <= n
  BY HeadPlaces
<1>2. \/ x = y
      \/ y = x + 1 /\ ByteAt(u.ser, x) = "@"
      \/ y >= x + 3 /\ ByteAt(u.ser, x) = ":"
  BY GoodFacts DEF AuthorityIntact, CredentialsClosed
<1>3. CASE x = y
  <2>1. ~HasPassword(u)  BY <1>3, NoPasswordRead
  <2>2. y <= x + 1  BY <1>1, <1>3
  <2> QED  BY <2>1, <2>2, CredentialParts DEF Password
<1>4. CASE y = x + 1 /\ ByteAt(u.ser, x) = "@"
  <2>1. ~HasPassword(u)  BY <1>4 DEF HasPassword, HasByte
  <2>2. y <= x + 1  BY <1>1, <1>4
  <2> QED  BY <2>1, <2>2, CredentialParts DEF Password
<1>5. CASE y >= x + 3 /\ ByteAt(u.ser, x) = ":"
  <2> HIDE DEF x, y, n
  <2>1. x < n /\ x # y /\ y > x + 1  BY <1>1, <1>5
  <2>2. HasByte(u.ser, x, ":")  BY <1>5, <2>1 DEF HasByte, n
  <2>3. has_authority(u)
    <3>1. u.username_end # u.host_start  BY <2>1 DEF x, y
    <3>2. CASE Written(u)  BY <3>2, AuthorityOrNone
    <3>3. CASE ~Written(u)  BY <3>1, <3>3, AuthorityOrNone
    <3> QED  BY <3>2, <3>3
  <2>4. HasPassword(u)  BY <2>2, <2>3 DEF HasPassword, x
  <2> QED  BY <2>1, <2>4 DEF Password, PasswordPart, x, y
<1> QED  BY <1>2, <1>3, <1>4, <1>5

\* That the components are told apart is a matter of the parts.
LEMMA ApartRead ==
    ASSUME NEW u, Good(u)
    PROVE  ComponentsApart(u) <=> PartsApart(Parts(u))
<1>1. /\ HostText(u) = <<>> <=> u.host_start = u.host_end
      /\ HostText(u) # <<>> <=> u.host_start < u.host_end
  BY HostFacts, HeadPlaces
<1>2. UsernamePart(u) = <<>> /\ PasswordPart(u) = <<>>
         <=> u.username_end = u.host_start
  BY CredentialParts
<1>3. PartsApart(Parts(u)) <=>
        /\ u.host = "None" => HostText(u) = <<>>
        /\ TypeOf(u) = "SpecialNotFile" => HostText(u) # <<>>
        /\ HostText(u) = <<>> =>
              UsernamePart(u) = <<>> /\ PasswordPart(u) = <<>> /\ u.port = None
        /\ u.port # None => TypeOf(u) # "File"
                            /\ u.port # default_port(Scheme(u))
        /\ NoByte(HostText(u), "/")
        /\ ~Bare(u) => Path(u) = <<>> \/ Rooted(Path(u))
        /\ IsSpecial(u) => Path(u) # <<>>
        /\ Bare(u) => ~StartsWithTwoSlashes(Path(u))
  BY DEF PartsApart, Parts, TypeOf, IsSpecial
<1>4. CASE Written(u)
  <2>1. has_authority(u) /\ ~Bare(u) /\ ~cannot_be_a_base(u)
    BY <1>4, AuthorityOrNone
    DEF Bare, has_authority, StartsWithAuthority, cannot_be_a_base
  <2>2. u.username_end >= u.scheme_end + 3  BY <1>4 DEF Written
  <2> QED  BY <1>1, <1>2, <1>3, <2>1, <2>2 DEF ComponentsApart
<1>5. CASE ~Written(u)
  <2>1. HostText(u) = <<>>  BY <1>1, <1>5, AuthorityOrNone
  <2>2. CASE u.port # None
    BY <1>1, <1>3, <2>1, <2>2 DEF ComponentsApart
  <2>3. CASE u.port = None
    <3>1. /\ cannot_be_a_base(u) <=> Bare(u) /\ ~Rooted(Path(u))
          /\ has_authority(u) <=> Bare(u) /\ StartsWithTwoSlashes(Path(u))
      BY <1>5, <2>3, WithoutAuthorityRead
    <3>2. ~(u.username_end >= u.scheme_end + 3)  BY <1>5 DEF Written
    <3> QED  BY <1>1, <1>2, <1>3, <3>1, <3>2 DEF ComponentsApart
  <2> QED  BY <2>2, <2>3
<1> QED  BY <1>4, <1>5


-----------------------------------------------------------------------------
(****************************************************************************)
(* Edits in front of the path keep what is behind it, and conversely.       *)
(****************************************************************************)
\* Query and fragment as slices.
LEMMA TailParts ==
    ASSUME NEW u, Good(u)
    PROVE  /\ QueryPart(u) = IF u.query_start = None THEN <<>>
                             ELSE <<Slice(u.ser, PathEnd(u) + 1, QueryEnd(u))>>
           /\ FragmentPart(u) =
                 IF u.fragment_start = None THEN <<>>
                 ELSE <<Slice(u.ser, QueryEnd(u) + 1, Len(u.ser))>>
<1>1. u.query_start = None => QueryPart(u) = <<>>  BY DEF QueryPart, Optional
<1>2. u.fragment_start = None => FragmentPart(u) = <<>>
  BY DEF FragmentPart, Optional
<1>3. QueryPart(u) = IF u.query_start = None THEN <<>>
                     ELSE <<Slice(u.ser, PathEnd(u) + 1, QueryEnd(u))>>
  <2>1. CASE u.query_start # None
    <3>1. u.query_start = PathEnd(u)  BY <2>1, TailFacts
    <3> QED  BY <2>1, <3>1 DEF QueryPart, Optional, Query
  <2> QED  BY <1>1, <2>1
<1>4. FragmentPart(u) = IF u.fragment_start = None THEN <<>>
                        ELSE <<Slice(u.ser, QueryEnd(u) + 1, Len(u.ser))>>
  <2>1. CASE u.fragment_start # None
    <3>1. u.fragment_start = QueryEnd(u)  BY <2>1, TailFacts
    <3> QED  BY <2>1, <3>1 DEF FragmentPart, Optional, Fragment, Drop, Slice
  <2> QED  BY <1>2, <2>1
<1> QED  BY <1>3, <1>4

\* An edit in front of a query and a fragment moves their offsets, absent ones
\* excepted.
LEMMA TailMoves ==
    ASSUME NEW u, Good(u), NEW v, NEW d \in Int, PathEnd(u) + d \in Nat,
           v.query_start = ShiftOpt(u.query_start, d),
           v.fragment_start = ShiftOpt(u.fragment_start, d),
           Len(v.ser) = Len(u.ser) + d
    PROVE  /\ v.query_start = None <=> u.query_start = None
           /\ v.fragment_start = None <=> u.fragment_start = None
           /\ PathEnd(v) = PathEnd(u) + d /\ QueryEnd(v) = QueryEnd(u) + d
<1> DEFINE p == PathEnd(u)
           q == u.query_start
           f == u.fragment_start
           n == Len(u.ser)
           m == Len(v.ser)
<1>1. p \in Nat /\ p + d \in Nat /\ m = n + d  BY TailFacts
<1>2. q \in OptOffset /\ f \in OptOffset  BY GoodFacts
<1>3. v.query_start = ShiftOpt(q, d) /\ v.fragment_start = ShiftOpt(f, d)
  OBVIOUS
<1>4. (q # None => p <= q) /\ (f # None => p <= f)
  BY TailFacts
<1> HIDE DEF p, q, f, n, m
<1>5. ASSUME NEW o \in OptOffset, o # None => p <= o
      PROVE  /\ o # None => ShiftOpt(o, d) = o + d /\ o + d \in Nat
             /\ ShiftOpt(o, d) = None <=> o = None
  <2>1. CASE o = None  BY <2>1 DEF ShiftOpt
  <2>2. CASE o # None
    <3>1. o \in Nat  BY <2>2 DEF OptOffset
    <3>2. o + d \in Nat  BY <1>1, <1>5, <2>2, <3>1
    <3>3. o + d # None  BY <3>2 DEF None
    <3> QED  BY <2>2, <3>2, <3>3 DEF ShiftOpt
  <2> QED  BY <2>1, <2>2
<1>6. /\ v.query_start = None <=> q = None
      /\ v.fragment_start = None <=> f = None
      /\ q # None => v.query_start = q + d
      /\ f # None => v.fragment_start = f + d
  BY <1>2, <1>3, <1>4, <1>5
<1>7. PathEnd(v) = PathEnd(u) + d
  BY <1>1, <1>6 DEF PathEnd, q, f, n, m
<1>8. QueryEnd(v) = QueryEnd(u) + d
  BY <1>1, <1>6 DEF QueryEnd, f, n, m
<1> QED  BY <1>6, <1>7, <1>8 DEF q, f

\* What an edit keeps, moves and writes, as slices.
LEMMA EditSlices ==
    ASSUME NEW u, Good(u), NEW v, NEW a, NEW b, NEW mid, NEW d,
           Edit(u, v, a, b, mid, d)
    PROVE  /\ \A k \in Nat, m \in Nat : k <= m /\ m <= a =>
                 Slice(v.ser, k, m) = Slice(u.ser, k, m)
           /\ \A k \in Nat, m \in Nat : b <= k /\ k <= m /\ m <= Len(u.ser) =>
                 Slice(v.ser, k + d, m + d) = Slice(u.ser, k, m)
           /\ \A k \in Nat, m \in Nat : k <= m /\ m <= Len(mid) =>
                 Slice(v.ser, a + k, a + m) = Slice(mid, k, m)
<1> DEFINE s == u.ser
           r == v.ser
<1>1. /\ s \in Text /\ mid \in Text /\ a \in Nat /\ b \in Nat /\ a <= b
      /\ b <= Len(s) /\ r = Splice(s, a, b, mid) /\ d = a + Len(mid) - b
  <2>1. s \in Text  BY GoodFacts
  <2>2. b <= Len(s)  BY EditLengths
  <2>3. /\ mid \in Text /\ a \in Nat /\ b \in Nat /\ a <= b
        /\ r = Splice(s, a, b, mid) /\ d = a + Len(mid) - b
    BY DEF Edit
  <2> QED  BY <2>1, <2>2, <2>3
<1> HIDE DEF s, r
<1>2. /\ \A k \in Nat, m \in Nat : k <= m /\ m <= a =>
            Slice(r, k, m) = Slice(s, k, m)
      /\ \A k \in Nat, m \in Nat : b <= k /\ k <= m /\ m <= Len(s) =>
            Slice(r, k + d, m + d) = Slice(s, k, m)
      /\ \A k \in Nat, m \in Nat : k <= m /\ m <= Len(mid) =>
            Slice(r, a + k, a + m) = Slice(mid, k, m)
  BY <1>1, SpliceSlices, SMTT(60)
<1> QED  BY <1>2 DEF s, r

\* The parts that stand in front of the path, and those from the path on.
SameFrontParts(u, v) ==
    /\ Scheme(v) = Scheme(u)
    /\ UsernamePart(v) = UsernamePart(u) /\ PasswordPart(v) = PasswordPart(u)
    /\ HostText(v) = HostText(u) /\ v.host = u.host /\ v.port = u.port
    /\ Bare(v) = Bare(u)

SameTailParts(u, v) ==
    /\ Path(v) = Path(u) /\ QueryPart(v) = QueryPart(u)
    /\ FragmentPart(v) = FragmentPart(u)

\* An edit of the front keeps path, query and fragment.
LEMMA TailPartsKept ==
    ASSUME NEW u, Good(u), NEW v, Good(v), NEW a, NEW b, NEW mid, NEW d,
           Edit(u, v, a, b, mid, d)
    PROVE  SameTailParts(u, v)
<1> DEFINE s == u.ser
           r == v.ser
           n == Len(s)
           p == u.path_start
           e == PathEnd(u)
           q == QueryEnd(u)
<1>1. /\ p \in Nat /\ e \in Nat /\ q \in Nat /\ n \in Nat
      /\ p <= e /\ e <= q /\ q <= n
  BY EditPlaces
<1>2. /\ b \in Nat /\ b <= p /\ d \in Int /\ v.path_start = p + d
  BY EditLengths
<1>3. /\ v.query_start = None <=> u.query_start = None
      /\ v.fragment_start = None <=> u.fragment_start = None
      /\ PathEnd(v) = e + d /\ QueryEnd(v) = q + d /\ Len(r) = n + d
  <2>1. Len(r) = n + d /\ v.path_start \in Nat  BY EditLengths
  <2>2. /\ v.query_start = ShiftOpt(u.query_start, d)
        /\ v.fragment_start = ShiftOpt(u.fragment_start, d)
    BY DEF Edit
  <2>3. e + d \in Nat
    <3> HIDE DEF p, e
    <3> QED  BY <1>1, <1>2, <2>1
  <2> QED  BY <1>2, <2>1, <2>2, <2>3, TailMoves
<1>4. /\ u.query_start # None => e < q
      /\ u.fragment_start # None => q < n
  BY TailFacts
<1>5. \A k \in Nat, m \in Nat : b <= k /\ k <= m /\ m <= n =>
         Slice(r, k + d, m + d) = Slice(s, k, m)
  BY EditSlices
<1>6. /\ Path(u) = Slice(s, p, e) /\ Path(v) = Slice(r, p + d, e + d)
  BY <1>2, <1>3 DEF Path
<1>7. /\ QueryPart(u) = IF u.query_start = None THEN <<>>
                        ELSE <<Slice(s, e + 1, q)>>
      /\ FragmentPart(u) = IF u.fragment_start = None THEN <<>>
                           ELSE <<Slice(s, q + 1, n)>>
  BY TailParts
<1>8. /\ QueryPart(v) = IF u.query_start = None THEN <<>>
                        ELSE <<Slice(r, (e + d) + 1, q + d)>>
      /\ FragmentPart(v) = IF u.fragment_start = None THEN <<>>
                           ELSE <<Slice(r, (q + d) + 1, n + d)>>
  BY <1>3, TailParts
<1> HIDE DEF s, r, n, p, e, q
<1>9. Slice(r, p + d, e + d) = Slice(s, p, e)
  <2>1. b <= p /\ p <= e /\ e <= n  BY <1>1, <1>2
  <2> QED  BY <1>1, <1>5, <2>1
<1>10. e < q => Slice(r, (e + d) + 1, q + d) = Slice(s, e + 1, q)
  <2> SUFFICES ASSUME e < q
               PROVE  Slice(r, (e + d) + 1, q + d) = Slice(s, e + 1, q)
    OBVIOUS
  <2>1. /\ e + 1 \in Nat /\ b <= e + 1 /\ e + 1 <= q /\ q <= n
        /\ (e + d) + 1 = (e + 1) + d
    BY <1>1, <1>2
  <2>2. Slice(r, (e + 1) + d, q + d) = Slice(s, e + 1, q)
    BY <1>1, <1>5, <2>1
  <2> QED  BY <2>1, <2>2
<1>11. q < n => Slice(r, (q + d) + 1, n + d) = Slice(s, q + 1, n)
  <2> SUFFICES ASSUME q < n
               PROVE  Slice(r, (q + d) + 1, n + d) = Slice(s, q + 1, n)
    OBVIOUS
  <2>1. /\ q + 1 \in Nat /\ b <= q + 1 /\ q + 1 <= n /\ n <= n
        /\ (q + d) + 1 = (q + 1) + d
    BY <1>1, <1>2
  <2>2. Slice(r, (q + 1) + d, n + d) = Slice(s, q + 1, n)
    BY <1>1, <1>5, <2>1
  <2> QED  BY <2>1, <2>2
<1>12. Path(v) = Path(u)  BY <1>6, <1>9
<1>13. QueryPart(v) = QueryPart(u)
  <2>1. CASE u.query_start = None  BY <1>7, <1>8, <2>1
  <2>2. CASE u.query_start # None  BY <1>4, <1>7, <1>8, <1>10, <2>2
  <2> QED  BY <2>1, <2>2
<1>14. FragmentPart(v) = FragmentPart(u)
  <2>1. CASE u.fragment_start = None  BY <1>7, <1>8, <2>1
  <2>2. CASE u.fragment_start # None  BY <1>4, <1>7, <1>8, <1>11, <2>2
  <2> QED  BY <2>1, <2>2
<1> QED  BY <1>12, <1>13, <1>14 DEF SameTailParts

\* What stands in front of the path is kept where the path and what follows are
\* exchanged.
LEMMA HeadPartsKept ==
    ASSUME NEW u, Good(u), NEW v, Good(v), SameHead(u, v)
    PROVE  SameFrontParts(u, v)
<1> DEFINE s == u.ser
           r == v.ser
           p == u.path_start
           e == u.scheme_end
           x == u.username_end
           y == u.host_start
           h == u.host_end
<1>1. /\ s \in Text /\ r \in Text /\ p \in Nat /\ p <= Len(s) /\ p <= Len(r)
      /\ e \in Nat /\ x \in Nat /\ y \in Nat /\ h \in Nat
      /\ e < x /\ x <= y /\ y <= h /\ h <= p
  <2>1. r \in Text  BY GoodFacts
  <2>2. p <= Len(r)  BY DEF SameHead
  <2> QED  BY <2>1, <2>2, HeadPlaces
<1>2. \A i \in 1..p : r[i] = s[i]  BY DEF SameHead
<1>3. /\ v.scheme_end = e /\ v.username_end = x /\ v.host_start = y
      /\ v.host_end = h /\ v.host = u.host /\ v.port = u.port
      /\ v.path_start = p
  BY DEF SameHead
<1>4. ASSUME NEW k \in Nat, NEW m \in Nat, k <= m, m <= p
      PROVE  Slice(r, k, m) = Slice(s, k, m)
  <2> HIDE DEF s, r, p
  <2>1. \A i \in 1..(m - k) : r[k + i] = s[k + i]
    <3> SUFFICES ASSUME NEW i \in 1..(m - k) PROVE r[k + i] = s[k + i]
      OBVIOUS
    <3>1. k + i \in 1..p  BY <1>1, <1>4
    <3> QED  BY <1>2, <3>1
  <2> DEFINE i == Len(s)
             j == Len(r)
  <2>2. i \in Nat /\ j \in Nat /\ p <= i /\ p <= j
    BY <1>1, LenProperties DEF Text
  <2> HIDE DEF i, j
  <2>3. m <= i /\ m <= j  BY <1>1, <1>4, <2>2
  <2>4. SameElements(r, k, m, s, k, m)
    BY <1>1, <1>4, <2>1, <2>3 DEF SameElements, i, j
  <2> QED  BY <2>4, SlicesEqual
<1>5. Scheme(v) = Scheme(u)
  <2>1. Take(r, e) = Slice(r, 0, e) /\ Take(s, e) = Slice(s, 0, e)
    BY DEF Take, Slice
  <2>2. 0 <= e /\ e <= p
    <3> HIDE DEF s, r, p, e, x, y, h
    <3> QED  BY <1>1
  <2>3. Slice(r, 0, e) = Slice(s, 0, e)  BY <1>1, <1>4, <2>2
  <2> QED  BY <1>3, <2>1, <2>3 DEF Scheme
<1>6. UsernamePart(v) = UsernamePart(u) /\ (Written(v) <=> Written(u))
  <2>1. Written(v) <=> Written(u)  BY <1>3 DEF Written
  <2>2. CASE Written(u)
    <3>1. e + 3 <= x  BY <1>1, <2>2 DEF Written
    <3>2. e + 3 \in Nat /\ x <= p
      <4> HIDE DEF s, r, p, e, x, y, h
      <4> QED  BY <1>1
    <3>3. Slice(r, e + 3, x) = Slice(s, e + 3, x)  BY <1>1, <1>4, <3>1, <3>2
    <3> QED  BY <1>3, <2>1, <2>2, <3>3 DEF UsernamePart
  <2>3. CASE ~Written(u)  BY <2>1, <2>3 DEF UsernamePart
  <2> QED  BY <2>1, <2>2, <2>3
<1>7. PasswordPart(v) = PasswordPart(u)
  <2>1. CASE y > x + 1
    <3>1. x + 1 \in Nat /\ y - 1 \in Nat /\ x + 1 <= y - 1 /\ y - 1 <= p
      <4> HIDE DEF s, r, p, e, x, y, h
      <4> QED  BY <1>1, <2>1
    <3>2. Slice(r, x + 1, y - 1) = Slice(s, x + 1, y - 1)  BY <1>4, <3>1
    <3> QED  BY <1>3, <2>1, <3>2 DEF PasswordPart
  <2>2. CASE ~(y > x + 1)  BY <1>3, <2>2 DEF PasswordPart
  <2> QED  BY <2>1, <2>2
<1>8. HostText(v) = HostText(u)  BY <1>1, <1>3, <1>4 DEF HostText
<1>9. Bare(v) = Bare(u)
  <2>1. Slice(r, h, p) = Slice(s, h, p)  BY <1>1, <1>4
  <2> QED  BY <1>3, <1>6, <2>1 DEF Bare, DotPrefixed
<1> QED  BY <1>3, <1>5, <1>6, <1>7, <1>8, <1>9 DEF SameFrontParts

\* What lies behind an edit keeps its text and moves; what lies in front of it
\* keeps text and place.
LEMMA SliceMoved ==
    ASSUME NEW u, Good(u), NEW v, NEW a, NEW b, NEW mid, NEW d,
           Edit(u, v, a, b, mid, d),
           NEW k \in Nat, NEW m \in Nat, k <= m, m <= Len(u.ser)
    PROVE  /\ b <= k => Slice(v.ser, k + d, m + d) = Slice(u.ser, k, m)
           /\ m <= a => Slice(v.ser, k, m) = Slice(u.ser, k, m)
BY EditSlices

\* The host when what stands in front of it was edited.
LEMMA HostMovedPart ==
    ASSUME NEW u, Good(u), NEW v, NEW a, NEW b, NEW mid, NEW d,
           Edit(u, v, a, b, mid, d), b <= u.host_start,
           v.host_start = u.host_start + d, v.host_end = u.host_end + d
    PROVE  HostText(v) = HostText(u)
<1>1. /\ u.host_start \in Nat /\ u.host_end \in Nat
      /\ u.host_start <= u.host_end /\ u.host_end <= Len(u.ser)
  BY HeadPlaces, HostPlace
<1>2. Slice(v.ser, u.host_start + d, u.host_end + d)
         = Slice(u.ser, u.host_start, u.host_end)
  BY <1>1, SliceMoved
<1> QED  BY <1>2 DEF HostText

\* The host when what stands behind it was edited.
LEMMA HostKeptPart ==
    ASSUME NEW u, Good(u), NEW v, NEW a, NEW b, NEW mid, NEW d,
           Edit(u, v, a, b, mid, d), u.host_end <= a,
           v.host_start = u.host_start, v.host_end = u.host_end
    PROVE  HostText(v) = HostText(u)
<1>1. /\ u.host_start \in Nat /\ u.host_end \in Nat
      /\ u.host_start <= u.host_end /\ u.host_end <= Len(u.ser)
  BY HeadPlaces, HostPlace
<1>2. Slice(v.ser, u.host_start, u.host_end)
         = Slice(u.ser, u.host_start, u.host_end)
  BY <1>1, SliceMoved
<1> QED  BY <1>2 DEF HostText

\* The username when what stands behind it was edited.
LEMMA UsernameKeptPart ==
    ASSUME NEW u, Good(u), NEW v, NEW a, NEW b, NEW mid, NEW d,
           Edit(u, v, a, b, mid, d), u.username_end <= a,
           v.scheme_end = u.scheme_end, v.username_end = u.username_end
    PROVE  UsernamePart(v) = UsernamePart(u) /\ (Written(v) <=> Written(u))
<1>1. Written(v) <=> Written(u)  BY DEF Written
<1>2. CASE Written(u)
  <2>1. /\ u.scheme_end + 3 \in Nat /\ u.username_end \in Nat
        /\ u.scheme_end + 3 <= u.username_end /\ u.username_end <= Len(u.ser)
    BY <1>2, HeadPlaces DEF Written
  <2>2. Slice(v.ser, u.scheme_end + 3, u.username_end)
           = Slice(u.ser, u.scheme_end + 3, u.username_end)
    BY <2>1, SliceMoved
  <2> QED  BY <1>1, <1>2, <2>2 DEF UsernamePart
<1>3. CASE ~Written(u)  BY <1>1, <1>3 DEF UsernamePart
<1> QED  BY <1>1, <1>2, <1>3

\* The password when what stands in front of it was edited.
LEMMA PasswordMovedPart ==
    ASSUME NEW u, Good(u), NEW v, NEW a, NEW b, NEW mid, NEW d,
           Edit(u, v, a, b, mid, d), b <= u.username_end,
           v.username_end = u.username_end + d,
           v.host_start = u.host_start + d
    PROVE  PasswordPart(v) = PasswordPart(u)
<1> DEFINE x == u.username_end
           y == u.host_start
           n == Len(u.ser)
<1>1. x \in Nat /\ y \in Nat /\ n \in Nat /\ x <= y /\ y <= n  BY HeadPlaces
<1>2. b \in Nat /\ b <= x /\ d \in Int  BY EditLengths
<1>3. v.username_end = x + d /\ v.host_start = y + d  OBVIOUS
<1>4. CASE y > x + 1
  <2> HIDE DEF x, y, n
  <2>1. /\ x + 1 \in Nat /\ y - 1 \in Nat /\ x + 1 <= y - 1 /\ y - 1 <= n
        /\ b <= x + 1
    BY <1>1, <1>2, <1>4
  <2>2. Slice(v.ser, (x + 1) + d, (y - 1) + d) = Slice(u.ser, x + 1, y - 1)
    BY <2>1, SliceMoved DEF n
  <2>3. (x + 1) + d = (x + d) + 1 /\ (y - 1) + d = (y + d) - 1
        /\ y + d > (x + d) + 1
    BY <1>1, <1>2, <1>4
  <2>4. PasswordPart(v) = Slice(v.ser, (x + d) + 1, (y + d) - 1)
    BY <1>3, <2>3 DEF PasswordPart
  <2>5. PasswordPart(u) = Slice(u.ser, x + 1, y - 1)
    BY <1>4 DEF PasswordPart, x, y
  <2> QED  BY <2>2, <2>3, <2>4, <2>5
<1>5. CASE ~(y > x + 1)
  <2> HIDE DEF x, y, n
  <2>1. ~(y + d > (x + d) + 1)  BY <1>1, <1>2, <1>5
  <2>2. PasswordPart(v) = <<>>  BY <1>3, <2>1 DEF PasswordPart
  <2>3. PasswordPart(u) = <<>>  BY <1>5 DEF PasswordPart, x, y
  <2> QED  BY <2>2, <2>3
<1> QED  BY <1>4, <1>5

\* The password when what stands behind it was edited.
LEMMA PasswordKeptPart ==
    ASSUME NEW u, Good(u), NEW v, NEW a, NEW b, NEW mid, NEW d,
           Edit(u, v, a, b, mid, d), u.host_start <= a,
           v.username_end = u.username_end, v.host_start = u.host_start
    PROVE  PasswordPart(v) = PasswordPart(u)
<1> DEFINE x == u.username_end
           y == u.host_start
           n == Len(u.ser)
<1>1. x \in Nat /\ y \in Nat /\ n \in Nat /\ x <= y /\ y <= n  BY HeadPlaces
<1>2. a \in Nat /\ y <= a  BY EditLengths
<1>3. CASE y > x + 1
  <2> HIDE DEF x, y, n
  <2>1. /\ x + 1 \in Nat /\ y - 1 \in Nat /\ x + 1 <= y - 1 /\ y - 1 <= n
        /\ y - 1 <= a
    BY <1>1, <1>2, <1>3
  <2>2. Slice(v.ser, x + 1, y - 1) = Slice(u.ser, x + 1, y - 1)
    BY <2>1, SliceMoved DEF n
  <2> QED  BY <1>3, <2>2 DEF PasswordPart, x, y
<1>4. CASE ~(y > x + 1)  BY <1>4 DEF PasswordPart
<1> QED  BY <1>3, <1>4

\* Whether the path stands bare when what stands in front of the host's end was
\* edited.
LEMMA BareKept ==
    ASSUME NEW u, Good(u), NEW v, NEW a, NEW b, NEW mid, NEW d,
           Edit(u, v, a, b, mid, d), b <= u.host_end,
           v.host_end = u.host_end + d, Written(v) <=> Written(u)
    PROVE  Bare(v) = Bare(u)
<1>1. /\ u.host_end \in Nat /\ u.path_start \in Nat
      /\ u.host_end <= u.path_start /\ u.path_start <= Len(u.ser)
  BY HeadPlaces
<1>2. v.path_start = u.path_start + d  BY DEF Edit
<1>3. Slice(v.ser, u.host_end + d, u.path_start + d)
         = Slice(u.ser, u.host_end, u.path_start)
  BY <1>1, SliceMoved
<1> QED  BY <1>2, <1>3 DEF Bare, DotPrefixed

-----------------------------------------------------------------------------
(****************************************************************************)
(* Positions.                                                               *)
(****************************************************************************)
\* Credentials and host stand behind "://" exactly if there is an authority.
LEMMA AuthorityWritten ==
    ASSUME NEW u, Good(u), ComponentsApart(u)
    PROVE  /\ Written(u) <=> has_authority(u)
           /\ ~Written(u) => /\ u.username_end = u.scheme_end + 1
                             /\ u.host_start = u.scheme_end + 1
                             /\ u.host_end = u.scheme_end + 1
                             /\ u.port = None
<1>1. Written(u) => has_authority(u)  BY AuthorityOrNone
<1>2. has_authority(u) => Written(u)  BY DEF ComponentsApart, Written
<1>3. ~Written(u) => /\ u.username_end = u.scheme_end + 1
                     /\ u.host_start = u.scheme_end + 1
                     /\ u.host_end = u.scheme_end + 1
  BY AuthorityOrNone
<1>4. u.host_start = u.host_end => u.port = None  BY DEF ComponentsApart
<1> QED  BY <1>1, <1>2, <1>3, <1>4

\* A password stands between ':' and '@'; without one, and but for a username
\* on its own, nothing stands between the username and the host.
LEMMA PasswordPlace ==
    ASSUME NEW u, Good(u), ComponentsApart(u)
    PROVE  /\ HasPassword(u) => u.username_end + 1 <= u.host_start - 1
           /\ ~HasPassword(u) /\ ~UsernameAlone(u) =>
                 u.username_end = u.host_start
<1>1. /\ u.scheme_end \in Nat /\ u.username_end \in Nat /\ u.host_start \in Nat
      /\ Len(u.ser) \in Nat
      /\ u.scheme_end < u.username_end /\ u.username_end <= u.host_start
      /\ u.host_start <= Len(u.ser)
  BY HeadPlaces
<1>2. u.username_end = u.host_start => ~HasPassword(u)  BY NoPasswordRead
<1>3. CredentialsClosed(u)  BY DEF Good, WellFormed, AuthorityIntact
<1>4. Written(u) <=> has_authority(u)  BY AuthorityWritten
<1>5. CASE u.username_end = u.host_start  BY <1>2, <1>5
<1>6. CASE /\ u.username_end > u.scheme_end + 3
           /\ u.host_start = u.username_end + 1
           /\ ByteAt(u.ser, u.username_end) = "@"
  <2>1. HasByte(u.ser, u.username_end, "@") /\ has_authority(u)
    BY <1>1, <1>4, <1>6 DEF HasByte, Written
  <2>2. ~HasByte(u.ser, u.username_end, ":")  BY <2>1 DEF HasByte
  <2> QED  BY <2>1, <2>2 DEF HasPassword, UsernameAlone
<1>7. CASE /\ u.host_start >= u.username_end + 3
           /\ ByteAt(u.ser, u.username_end) = ":"
           /\ ByteAt(u.ser, u.host_start - 1) = "@"
  <2>1. HasByte(u.ser, u.username_end, ":")  BY <1>1, <1>7 DEF HasByte
  <2>2. has_authority(u)  BY <1>1, <1>7, AuthorityWritten
  <2>3. HasPassword(u)  BY <2>1, <2>2 DEF HasPassword
  <2> QED  BY <1>1, <1>7, <2>3
<1> QED  BY <1>3, <1>5, <1>6, <1>7 DEF CredentialsClosed

\* The port's digits stand between the host's ':' and the path.
LEMMA PortPlace ==
    ASSUME NEW u, Good(u), u.port # None
    PROVE  /\ Len(Decimal(u.port)) \in Nat
           /\ u.path_start = u.host_end + 1 + Len(Decimal(u.port))
           /\ Slice(u.ser, u.host_end + 1, u.path_start) = Decimal(u.port)
<1> DEFINE s == u.ser
           digits == Decimal(u.port)
           n == Len(digits)
           y == PortSuffix(u.port)
<1>1. /\ s \in Text /\ Len(s) \in Nat /\ u.host_end \in Nat
      /\ u.path_start \in Nat /\ u.host_end <= u.path_start
      /\ u.path_start <= Len(s)
  BY HeadPlaces
<1>2. y \in Text  BY PortSuffixFacts
<1>3. digits \in Seq(Digit)
  <2>1. \A d : DigitLexeme(d) \in Digit  BY DEF DigitLexeme, Digit
  <2> QED  BY <2>1, DecimalType
<1>4. n \in Nat  BY <1>3, LenProperties
<1>5. digits \in Text
  <2>1. Digit \subseteq Lexeme  BY DEF Digit, Lexeme, Mark
  <2> QED  BY <1>3, <2>1 DEF Text
<1>6. y = <<":">> \o digits  BY DEF PortSuffix
<1>7. Len(y) = 1 + n /\ \A i \in 1..n : y[1 + i] = digits[i]
  <2> DEFINE colon == <<":">>
  <2>1. colon \in Seq({":"}) /\ Len(colon) = 1  OBVIOUS
  <2> HIDE DEF colon, digits
  <2> QED  BY <1>3, <1>4, <1>6, <2>1 DEF colon
<1>8. Slice(s, u.host_end, u.path_start) = y
  BY DEF Good, WellFormed, AuthorityIntact, PortWritten
<1> HIDE DEF s, digits, y
<1>9. /\ Len(y) = u.path_start - u.host_end
      /\ \A i \in 1..(u.path_start - u.host_end) : y[i] = s[u.host_end + i]
  BY <1>1, <1>8, SliceFacts
<1> HIDE DEF n
<1>10. u.path_start = u.host_end + 1 + n  BY <1>1, <1>4, <1>7, <1>9
<1>11. \A i \in 1..n : s[(u.host_end + 1) + i] = digits[i]
  <2> SUFFICES ASSUME NEW i \in 1..n
               PROVE  s[(u.host_end + 1) + i] = digits[i]
    OBVIOUS
  <2>1. 1 + i \in 1..(u.path_start - u.host_end)  BY <1>1, <1>4, <1>10
  <2>2. y[1 + i] = s[u.host_end + (1 + i)]  BY <1>9, <2>1
  <2>3. u.host_end + (1 + i) = (u.host_end + 1) + i  BY <1>1, <1>4
  <2> QED  BY <1>7, <2>2, <2>3
<1>12. Slice(digits, 0, n) = digits  BY <1>5, SliceWhole DEF n
<1>13. SameElements(s, u.host_end + 1, u.path_start, digits, 0, n)
  <2>1. \A i \in 1..(n - 0) : s[(u.host_end + 1) + i] = digits[0 + i]
    BY <1>4, <1>11
  <2>2. n <= Len(digits)  BY <1>4 DEF n
  <2> QED  BY <1>1, <1>4, <1>5, <1>10, <2>1, <2>2 DEF SameElements
<1>14. Slice(s, u.host_end + 1, u.path_start) = digits
  BY <1>12, <1>13, SlicesEqual
<1> QED  BY <1>4, <1>10, <1>14 DEF s, digits, n

\* Looking for a password's ':' and reading a password agree.
ColonPlace(u) == IF HasPassword(u) THEN 1 ELSE 0

PortPlaces(u) == IF u.port # None THEN 1 + Len(Decimal(u.port)) ELSE 0

\* The sixteen positions, one by one.
LEMMA PositionPlaces ==
    ASSUME NEW u
    PROVE  /\ position_index(u, "BeforeScheme")   = 0
           /\ position_index(u, "AfterScheme")    = u.scheme_end
           /\ position_index(u, "BeforeUsername") =
                 u.scheme_end + (IF has_authority(u) THEN 3 ELSE 1)
           /\ position_index(u, "AfterUsername")  = u.username_end
           /\ position_index(u, "BeforePassword") = u.username_end + ColonPlace(u)
           /\ position_index(u, "AfterPassword")  = u.host_start - ColonPlace(u)
           /\ position_index(u, "BeforeHost")     = u.host_start
           /\ position_index(u, "AfterHost")      = u.host_end
           /\ position_index(u, "BeforePort")     =
                 u.host_end + (IF u.port # None THEN 1 ELSE 0)
           /\ position_index(u, "AfterPort")      = u.host_end + PortPlaces(u)
           /\ position_index(u, "BeforePath")     = u.path_start
           /\ position_index(u, "AfterPath")      = PathEnd(u)
           /\ position_index(u, "BeforeQuery")    =
                 PathEnd(u) + (IF u.query_start # None THEN 1 ELSE 0)
           /\ position_index(u, "AfterQuery")     = QueryEnd(u)
           /\ position_index(u, "BeforeFragment") =
                 QueryEnd(u) + (IF u.fragment_start # None THEN 1 ELSE 0)
           /\ position_index(u, "AfterFragment")  = Len(u.ser)
BY DEF position_index, ColonPlace, PortPlaces, HasPassword, count_digits

\* Each position is at or behind the one declared before it.
LEMMA PositionSteps ==
    ASSUME NEW u, Good(u), ComponentsApart(u)
    PROVE  /\ \A i \in 1..16 : position_index(u, Positions[i]) \in Nat
           /\ \A i \in 1..15 : position_index(u, Positions[i])
                                  <= position_index(u, Positions[i + 1])
<1> DEFINE at(i) == position_index(u, Positions[i])
           colon == ColonPlace(u)
           port == PortPlaces(u)
           start == IF has_authority(u) THEN 3 ELSE 1
           one == IF u.port # None THEN 1 ELSE 0
           question == IF u.query_start # None THEN 1 ELSE 0
           hash == IF u.fragment_start # None THEN 1 ELSE 0
           p == PathEnd(u)
           q == QueryEnd(u)
           n == Len(u.ser)
<1>1. /\ n \in Nat
      /\ u.scheme_end \in Nat /\ u.username_end \in Nat
      /\ u.host_start \in Nat /\ u.host_end \in Nat /\ u.path_start \in Nat
      /\ u.scheme_end < u.username_end /\ u.username_end <= u.host_start
      /\ u.host_start <= u.host_end /\ u.host_end <= u.path_start
  BY HeadPlaces
<1>2. /\ p \in Nat /\ q \in Nat /\ u.path_start <= p /\ p <= q /\ q <= n
      /\ question \in {0, 1} /\ p + question <= q
      /\ hash \in {0, 1} /\ q + hash <= n
  BY TailFacts, <1>1
<1>3. start \in {1, 3} /\ u.scheme_end + start <= u.username_end
  BY <1>1, AuthorityWritten DEF Written
<1>4. colon \in {0, 1} /\ u.username_end + colon <= u.host_start - colon
  BY <1>1, PasswordPlace DEF ColonPlace
<1>5. /\ one \in {0, 1} /\ port \in Nat /\ one <= port
      /\ u.host_end + port <= u.path_start
  BY <1>1, PortPlace DEF PortPlaces
<1>6. /\ at(1) = 0               /\ at(2) = u.scheme_end
      /\ at(3) = u.scheme_end + start
      /\ at(4) = u.username_end  /\ at(5) = u.username_end + colon
      /\ at(6) = u.host_start - colon
      /\ at(7) = u.host_start    /\ at(8) = u.host_end
      /\ at(9) = u.host_end + one
      /\ at(10) = u.host_end + port
      /\ at(11) = u.path_start   /\ at(12) = p
      /\ at(13) = p + question   /\ at(14) = q
      /\ at(15) = q + hash       /\ at(16) = n
  BY PositionPlaces DEF Positions
<1> HIDE DEF at, colon, port, start, one, question, hash, p, q, n
<1>7. \A i \in 1..16 : at(i) \in Nat
  BY <1>1, <1>2, <1>3, <1>4, <1>5, <1>6
<1>8. \A i \in 1..15 : at(i) <= at(i + 1)
  <2> SUFFICES ASSUME NEW i \in 1..15 PROVE at(i) <= at(i + 1)
    OBVIOUS
  <2>1. \/ i = 1 \/ i = 2 \/ i = 3 \/ i = 4 \/ i = 5 \/ i = 6 \/ i = 7 \/ i = 8
        \/ i = 9 \/ i = 10 \/ i = 11 \/ i = 12 \/ i = 13 \/ i = 14 \/ i = 15
    OBVIOUS
  <2> QED  BY <1>1, <1>2, <1>3, <1>4, <1>5, <1>6, <2>1
<1> QED  BY <1>7, <1>8 DEF at

\* Sixteen numbers none of which is below the one before it are in order.
LEMMA OrderedBySteps ==
    ASSUME NEW at, \A i \in 1..16 : at[i] \in Nat,
           \A i \in 1..15 : at[i] <= at[i + 1]
    PROVE  \A i, j \in 1..16 : i <= j => at[i] <= at[j]
<1>1. /\ at[1] <= at[2]   /\ at[2] <= at[3]   /\ at[3] <= at[4]
      /\ at[4] <= at[5]   /\ at[5] <= at[6]   /\ at[6] <= at[7]
      /\ at[7] <= at[8]   /\ at[8] <= at[9]   /\ at[9] <= at[10]
      /\ at[10] <= at[11] /\ at[11] <= at[12] /\ at[12] <= at[13]
      /\ at[13] <= at[14] /\ at[14] <= at[15] /\ at[15] <= at[16]
  OBVIOUS
<1> QED  BY <1>1

\* The positions of such a value stand in the order they are declared in.
LEMMA PositionsInOrder ==
    ASSUME NEW u, Good(u), ComponentsApart(u)
    PROVE  PositionsOrdered(u)
<1> DEFINE at == [i \in 1..16 |-> position_index(u, Positions[i])]
<1>1. \A i \in 1..16 : at[i] \in Nat  BY PositionSteps
<1>2. \A i \in 1..15 : at[i] <= at[i + 1]  BY PositionSteps
<1> HIDE DEF at
<1>3. \A i, j \in 1..16 : i <= j => at[i] <= at[j]
  BY <1>1, <1>2, OrderedBySteps
<1>4. Placed(u) \subseteq 1..16  BY DEF Placed, Positions
<1> QED  BY <1>3, <1>4 DEF PositionsOrdered, at

\* Between the positions of a component stands what its accessor returns.
LEMMA RangesRead ==
    ASSUME NEW u, Good(u), ComponentsApart(u)
    PROVE  RangesAgree(u)
<1> DEFINE s == u.ser
           n == Len(s)
           p == PathEnd(u)
           q == QueryEnd(u)
<1>1. /\ s \in Text /\ n \in Nat
      /\ u.scheme_end \in Nat /\ u.username_end \in Nat
      /\ u.host_start \in Nat /\ u.host_end \in Nat /\ u.path_start \in Nat
      /\ u.scheme_end < u.username_end /\ u.username_end <= u.host_start
      /\ u.host_start <= u.host_end /\ u.host_end <= u.path_start
      /\ u.path_start <= n
  BY HeadPlaces
<1>2. /\ p \in Nat /\ q \in Nat /\ p <= q /\ q <= n
      /\ u.query_start # None => u.query_start = p
      /\ u.fragment_start # None => u.fragment_start = q
  BY TailFacts
<1>3. \A a \in Nat : a <= n => Slice(s, a, a) = <<>>
  BY <1>1, SliceEmpty
<1>4. Between(u, "BeforeScheme", "AfterScheme") = Scheme(u)
  <2>1. Between(u, "BeforeScheme", "AfterScheme") = Slice(s, 0, u.scheme_end)
    BY PositionPlaces DEF Between
  <2>2. Slice(s, 0, u.scheme_end) = Take(s, u.scheme_end)  BY DEF Slice, Take
  <2> QED  BY <2>1, <2>2 DEF Scheme
<1>5. Between(u, "BeforeUsername", "AfterUsername") = Username(u)
  <2> DEFINE start == u.scheme_end + (IF has_authority(u) THEN 3 ELSE 1)
  <2>1. Between(u, "BeforeUsername", "AfterUsername")
           = Slice(s, start, u.username_end)
    BY PositionPlaces DEF Between
  <2>2. CASE has_authority(u) /\ u.username_end > u.scheme_end + 3
    BY <2>1, <2>2 DEF Username
  <2>3. CASE ~(has_authority(u) /\ u.username_end > u.scheme_end + 3)
    <3>1. start = u.username_end  BY <1>1, <2>3, AuthorityWritten DEF Written
    <3> HIDE DEF start
    <3>2. u.username_end <= n  BY <1>1
    <3>3. Slice(s, start, u.username_end) = <<>>  BY <1>1, <1>3, <3>1, <3>2
    <3> QED  BY <2>1, <2>3, <3>3 DEF Username
  <2> QED  BY <2>2, <2>3
<1>6. ~UsernameAlone(u) =>
         Between(u, "BeforePassword", "AfterPassword") = Password(u)
  <2> SUFFICES ASSUME ~UsernameAlone(u)
               PROVE  Between(u, "BeforePassword", "AfterPassword") = Password(u)
    OBVIOUS
  <2>1. Between(u, "BeforePassword", "AfterPassword")
           = Slice(s, u.username_end + ColonPlace(u), u.host_start - ColonPlace(u))
    BY PositionPlaces DEF Between
  <2>2. CASE HasPassword(u)  BY <2>1, <2>2 DEF ColonPlace, Password
  <2>3. CASE ~HasPassword(u)
    <3>1. u.username_end = u.host_start  BY <2>3, PasswordPlace
    <3>2. Slice(s, u.username_end + ColonPlace(u), u.host_start - ColonPlace(u))
             = Slice(s, u.host_start, u.host_start)
      BY <1>1, <2>3, <3>1 DEF ColonPlace
    <3>3. u.host_start <= n  BY <1>1
    <3> QED  BY <1>1, <1>3, <2>1, <2>3, <3>2, <3>3 DEF Password
  <2> QED  BY <2>2, <2>3
<1>7. Between(u, "BeforeHost", "AfterHost") = HostText(u)
  BY PositionPlaces DEF Between, HostText
<1>8. Between(u, "BeforePort", "AfterPort")
         = (IF u.port = None THEN <<>> ELSE Decimal(u.port))
  <2>1. Between(u, "BeforePort", "AfterPort")
           = Slice(s, u.host_end + (IF u.port # None THEN 1 ELSE 0),
                      u.host_end + PortPlaces(u))
    BY PositionPlaces DEF Between
  <2>2. CASE u.port = None
    <3>1. u.host_end + 0 = u.host_end /\ u.host_end <= n  BY <1>1
    <3> QED  BY <1>1, <1>3, <2>1, <2>2, <3>1 DEF PortPlaces
  <2>3. CASE u.port # None
    <3>1. u.host_end + PortPlaces(u) = u.path_start
      BY <1>1, <2>3, PortPlace DEF PortPlaces
    <3> QED  BY <2>1, <2>3, <3>1, PortPlace
  <2> QED  BY <2>2, <2>3
<1>9. Between(u, "BeforePath", "AfterPath") = Path(u)
  BY PositionPlaces DEF Between, Path
<1>10. Between(u, "BeforeQuery", "AfterQuery") = Query(u)
  <2>1. Between(u, "BeforeQuery", "AfterQuery")
           = Slice(s, p + (IF u.query_start # None THEN 1 ELSE 0), q)
    BY PositionPlaces DEF Between
  <2>2. CASE u.query_start # None  BY <1>2, <2>1, <2>2 DEF Query
  <2>3. CASE u.query_start = None
    <3>1. p = q  BY <2>3 DEF PathEnd, QueryEnd
    <3> HIDE DEF p, q
    <3>2. p + 0 = p  BY <1>2
    <3>3. Slice(s, p + 0, q) = <<>>  BY <1>2, <1>3, <3>1, <3>2
    <3> QED  BY <2>1, <2>3, <3>3 DEF Query
  <2> QED  BY <2>2, <2>3
<1>11. Between(u, "BeforeFragment", "AfterFragment") = Fragment(u)
  <2>1. Between(u, "BeforeFragment", "AfterFragment")
           = Slice(s, q + (IF u.fragment_start # None THEN 1 ELSE 0), n)
    BY PositionPlaces DEF Between
  <2>2. CASE u.fragment_start # None
    BY <1>2, <2>1, <2>2 DEF Fragment, Slice, Drop
  <2>3. CASE u.fragment_start = None
    <3>1. q = n  BY <2>3 DEF QueryEnd
    <3> HIDE DEF q, n
    <3>2. q + 0 = q  BY <1>2
    <3>3. Slice(s, q + 0, n) = <<>>  BY <1>1, <1>3, <3>1, <3>2
    <3> QED  BY <2>1, <2>3, <3>3 DEF Fragment
  <2> QED  BY <2>2, <2>3
<1> QED
  BY <1>4, <1>5, <1>6, <1>7, <1>8, <1>9, <1>10, <1>11 DEF RangesAgree

\* Of every value that is laid out and whose components can be told apart, a
\* parsed one among them, the positions are in their order and cut the text
\* where the accessors do, though each is computed anew from the offsets.
THEOREM PositionsOfWellFormed ==
    \A u : Good(u) /\ ComponentsApart(u)
              => PositionsOrdered(u) /\ RangesAgree(u)
  BY PositionsInOrder, RangesRead
==============================================================================
