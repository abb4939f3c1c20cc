-------------------------- MODULE UrlSettersProofs --------------------------
(****************************************************************************)
(* Proofs about UrlSetters.  The inductive invariant says that the value is *)
(* well formed and that the last call did not panic; each setter is an edit *)
(* in the sense of UrlLayoutTheorems, and the lemma about it says that the  *)
(* edit leaves a well-formed value.                                         *)
(****************************************************************************)
EXTENDS UrlSetters, UrlLayoutTheorems, FiniteSetTheorems

(****************************************************************************)
(* Behind the authority: path, query and fragment.                          *)
(****************************************************************************)
\* v is u with other text behind the path start, and other tail offsets.
SameFront(u, v, r) ==
    /\ v = [u EXCEPT !.ser = r, !.query_start = v.query_start,
                     !.fragment_start = v.fragment_start]
    /\ v.query_start \in OptOffset /\ v.fragment_start \in OptOffset
    /\ r \in Text /\ u.path_start <= Len(r)
    /\ \A i \in 1..u.path_start : r[i] = u.ser[i]

\* A value whose head is untouched is well formed if its tail is.
LEMMA TailEdited ==
    ASSUME NEW u, Good(u), NEW v, NEW r, SameFront(u, v, r), TailCut(v)
    PROVE  Good(v)
<1>1. v \in UrlSet /\ v.ser = r
  BY DEF Good, UrlSet, SameFront
<1>2. SameHead(u, v)
  BY <1>1 DEF Good, UrlSet, SameFront, SameHead
<1> QED  BY <1>1, <1>2, HeadKept DEF Good, WellFormed

\* set_path
LEMMA WithPathGood ==
    ASSUME NEW u, Good(u), NEW text \in Text
    PROVE  Good(WithPath(u, text))
<1> DEFINE a == u.path_start
           b == PathEnd(u)
           d == a + Len(text) - b
           r == Splice(u.ser, a, b, text)
           v == WithPath(u, text)
<1>1. BehindPath(u, a, b, text, d)
  BY GoodFacts, TailFacts DEF BehindPath, HeadCut
<1> HIDE DEF d
<1>2. /\ r \in Text /\ d \in Int /\ u.path_start <= Len(r)
      /\ \A i \in 1..u.path_start : r[i] = u.ser[i]
      /\ \A n \in Nat : \A c : b <= n /\ HasByte(u.ser, n, c) =>
            n + d \in Nat /\ a <= n + d /\ HasByte(r, n + d, c)
  <2> HIDE DEF a, b
  <2>1. r = Splice(u.ser, a, b, text)  OBVIOUS
  <2> HIDE DEF r
  <2>2. /\ r \in Text /\ d \in Int /\ u.path_start <= Len(r)
        /\ \A i \in 1..u.path_start : r[i] = u.ser[i]
    BY <1>1, <2>1, BehindPathFacts
  <2>3. \A n \in Nat : \A c : b <= n /\ HasByte(u.ser, n, c) =>
           n + d \in Nat /\ a <= n + d /\ HasByte(r, n + d, c)
    BY <1>1, <2>1, BehindPathFacts
  <2> QED  BY <2>2, <2>3
<1>3. /\ v.query_start = ShiftOpt(u.query_start, d)
      /\ v.fragment_start = ShiftOpt(u.fragment_start, d)
      /\ v.path_start = a /\ v.ser = r
      /\ v = [u EXCEPT !.ser = r, !.query_start = v.query_start,
                       !.fragment_start = v.fragment_start]
  BY DEF WithPath, ShiftAfterPath, Good, UrlSet, d
<1>4. u.query_start \in OptOffset /\ u.fragment_start \in OptOffset
  BY GoodFacts
<1> HIDE DEF v, r
<1>5. u.query_start # None =>
         /\ v.query_start \in Nat /\ v.path_start <= v.query_start
         /\ HasByte(v.ser, v.query_start, "?")
  <2>1. u.query_start # None =>
           /\ u.query_start \in Nat /\ b <= u.query_start
           /\ HasByte(u.ser, u.query_start, "?")
    BY TailFacts
  <2> QED  BY <1>2, <1>3, <2>1 DEF ShiftOpt
<1>6. u.fragment_start # None =>
         /\ v.fragment_start \in Nat /\ v.path_start <= v.fragment_start
         /\ HasByte(v.ser, v.fragment_start, "#")
  <2>1. u.fragment_start # None =>
           /\ u.fragment_start \in Nat /\ b <= u.fragment_start
           /\ HasByte(u.ser, u.fragment_start, "#")
    BY TailFacts
  <2> QED  BY <1>2, <1>3, <2>1 DEF ShiftOpt
<1>7. /\ u.query_start = None => v.query_start = None
      /\ u.fragment_start = None => v.fragment_start = None
      /\ u.query_start # None /\ u.fragment_start # None =>
            v.query_start < v.fragment_start
  <2>1. u.query_start # None /\ u.fragment_start # None =>
           /\ u.query_start \in Nat /\ u.fragment_start \in Nat
           /\ u.query_start < u.fragment_start
    BY TailFacts
  <2> QED  BY <1>2, <1>3, <2>1 DEF ShiftOpt
<1>8. TailCut(v)  BY <1>5, <1>6, <1>7 DEF TailCut
<1>9. v.query_start \in OptOffset /\ v.fragment_start \in OptOffset
  BY <1>5, <1>6, <1>7 DEF OptOffset
<1>10. SameFront(u, v, r)  BY <1>2, <1>3, <1>9 DEF SameFront
<1>11. Good(v)  BY <1>8, <1>10, TailEdited
<1> QED  BY <1>11 DEF v

\* set_fragment
LEMMA WithFragmentGood ==
    ASSUME NEW u, Good(u), NEW text \in Text
    PROVE  Good(WithFragment(u, text))
<1> DEFINE a == QueryEnd(u)
           b == Len(u.ser)
           mid == <<"#">> \o text
           d == a + Len(mid) - b
           r == Splice(u.ser, a, b, mid)
           v == WithFragment(u, text)
<1>1. mid \in Text /\ mid # <<>> /\ mid[1] = "#"
  BY Delimited DEF Mark
<1> HIDE DEF mid
<1>2. BehindPath(u, a, b, mid, d)
  BY <1>1, GoodFacts, TailFacts DEF BehindPath, HeadCut
<1> HIDE DEF d
<1>3. /\ r \in Text /\ d \in Int /\ u.path_start <= Len(r)
      /\ \A i \in 1..u.path_start : r[i] = u.ser[i]
      /\ \A n \in Nat : \A c : n < a /\ HasByte(u.ser, n, c) => HasByte(r, n, c)
      /\ HasByte(r, a, "#")
  <2> HIDE DEF a, b
  <2>1. r = Splice(u.ser, a, b, mid)  OBVIOUS
  <2> HIDE DEF r
  <2>2. /\ r \in Text /\ d \in Int /\ u.path_start <= Len(r)
        /\ \A i \in 1..u.path_start : r[i] = u.ser[i]
    BY <1>2, <2>1, BehindPathFacts
  <2>3. \A n \in Nat : \A c : n < a /\ HasByte(u.ser, n, c) => HasByte(r, n, c)
    BY <1>2, <2>1, BehindPathFacts
  <2>4. HasByte(r, a, "#")
    BY <1>1, <1>2, <2>1, BehindPathFacts
  <2> QED  BY <2>2, <2>3, <2>4
<1>4. /\ v.query_start = u.query_start /\ v.fragment_start = a
      /\ v.path_start = u.path_start /\ v.ser = r
      /\ v = [u EXCEPT !.ser = r, !.query_start = v.query_start,
                       !.fragment_start = v.fragment_start]
  BY DEF WithFragment, Good, UrlSet, mid
<1> HIDE DEF v, r
<1>5. a \in Nat /\ u.path_start <= a /\ u.path_start \in Nat
  BY TailFacts, GoodFacts
<1>6. u.query_start # None =>
         /\ u.query_start \in Nat /\ u.path_start <= u.query_start
         /\ u.query_start < a /\ HasByte(u.ser, u.query_start, "?")
  BY TailFacts
<1>7. TailCut(v)
  BY <1>3, <1>4, <1>5, <1>6 DEF TailCut
<1>8. v.query_start \in OptOffset /\ v.fragment_start \in OptOffset
  BY <1>4, <1>5, <1>6 DEF OptOffset
<1>9. SameFront(u, v, r)  BY <1>3, <1>4, <1>8 DEF SameFront
<1>10. Good(v)  BY <1>7, <1>9, TailEdited
<1> QED  BY <1>10 DEF v

\* set_fragment(None), before trailing spaces are stripped
LEMMA WithoutFragmentGood ==
    ASSUME NEW u, Good(u)
    PROVE  Good(WithoutFragment(u))
<1> DEFINE a == QueryEnd(u)
           b == Len(u.ser)
           d == a + Len(<< >>) - b
           r == Splice(u.ser, a, b, << >>)
           v == WithoutFragment(u)
<1>2. BehindPath(u, a, b, << >>, d)
  BY GoodFacts, TailFacts, EmptySeq DEF BehindPath, HeadCut, Text
<1> HIDE DEF d
<1>3. /\ r \in Text /\ d \in Int /\ u.path_start <= Len(r)
      /\ \A i \in 1..u.path_start : r[i] = u.ser[i]
      /\ \A n \in Nat : \A c : n < a /\ HasByte(u.ser, n, c) => HasByte(r, n, c)
  <2> HIDE DEF a, b
  <2>1. r = Splice(u.ser, a, b, << >>)  OBVIOUS
  <2> HIDE DEF r
  <2>2. /\ r \in Text /\ d \in Int /\ u.path_start <= Len(r)
        /\ \A i \in 1..u.path_start : r[i] = u.ser[i]
    BY <1>2, <2>1, BehindPathFacts
  <2>3. \A n \in Nat : \A c : n < a /\ HasByte(u.ser, n, c) => HasByte(r, n, c)
    BY <1>2, <2>1, BehindPathFacts
  <2> QED  BY <2>2, <2>3
<1>4. /\ v.query_start = u.query_start /\ v.fragment_start = None
      /\ v.path_start = u.path_start /\ v.ser = r
      /\ v = [u EXCEPT !.ser = r, !.query_start = v.query_start,
                       !.fragment_start = v.fragment_start]
  BY DEF WithoutFragment, Good, UrlSet
<1> HIDE DEF v, r
<1>5. a \in Nat /\ u.path_start <= a /\ u.path_start \in Nat
  BY TailFacts, GoodFacts
<1>6. u.query_start # None =>
         /\ u.query_start \in Nat /\ u.path_start <= u.query_start
         /\ u.query_start < a /\ HasByte(u.ser, u.query_start, "?")
  BY TailFacts
<1>7. TailCut(v)
  BY <1>3, <1>4, <1>5, <1>6 DEF TailCut
<1>8. v.query_start \in OptOffset /\ v.fragment_start \in OptOffset
  BY <1>4, <1>5, <1>6 DEF OptOffset
<1>9. SameFront(u, v, r)  BY <1>3, <1>4, <1>8 DEF SameFront
<1>10. Good(v)  BY <1>7, <1>9, TailEdited
<1> QED  BY <1>10 DEF v

\* What replacing the query does to the fragment behind it.
LEMMA FragmentMoves ==
    ASSUME NEW u, Good(u), NEW d,
           NEW r, NEW a \in Nat, a = PathEnd(u),
           \A n \in Nat : \A c : QueryEnd(u) <= n /\ HasByte(u.ser, n, c) =>
                 n + d \in Nat /\ a <= n + d /\ HasByte(r, n + d, c)
    PROVE  /\ ShiftOpt(u.fragment_start, d) \in OptOffset
           /\ ShiftOpt(u.fragment_start, d) # None =>
                 /\ u.path_start <= ShiftOpt(u.fragment_start, d)
                 /\ ShiftOpt(u.fragment_start, d) = QueryEnd(u) + d
                 /\ HasByte(r, ShiftOpt(u.fragment_start, d), "#")
<1>1. CASE u.fragment_start = None
  BY <1>1 DEF ShiftOpt, OptOffset
<1>2. CASE u.fragment_start # None
  <2>1. /\ u.fragment_start = QueryEnd(u) /\ QueryEnd(u) \in Nat
        /\ HasByte(u.ser, QueryEnd(u), "#")
        /\ u.path_start <= a /\ u.path_start \in Nat
    BY <1>2, TailFacts, GoodFacts
  <2>2. /\ QueryEnd(u) + d \in Nat /\ a <= QueryEnd(u) + d
        /\ HasByte(r, QueryEnd(u) + d, "#")
    BY <2>1
  <2>3. ShiftOpt(u.fragment_start, d) = QueryEnd(u) + d
    BY <1>2, <2>1 DEF ShiftOpt
  <2> QED  BY <2>1, <2>2, <2>3 DEF OptOffset
<1> QED  BY <1>1, <1>2

\* set_query
LEMMA WithQueryGood ==
    ASSUME NEW u, Good(u), NEW text \in Text
    PROVE  Good(WithQuery(u, text))
<1> DEFINE a == PathEnd(u)
           b == QueryEnd(u)
           mid == <<"?">> \o text
           d == a + Len(mid) - b
           r == Splice(u.ser, a, b, mid)
           v == WithQuery(u, text)
<1>1. mid \in Text /\ mid # <<>> /\ mid[1] = "?" /\ Len(mid) = 1 + Len(text)
      /\ Len(text) \in Nat
  BY Delimited DEF Mark
<1>2. v.fragment_start = ShiftOpt(u.fragment_start, d)
  BY DEF WithQuery, Good, UrlSet
<1> HIDE DEF mid
<1>3. BehindPath(u, a, b, mid, d)
  BY <1>1, GoodFacts, TailFacts DEF BehindPath, HeadCut
<1>4. a \in Nat /\ b \in Nat /\ b + d = a + Len(mid) /\ Len(mid) > 0
      /\ u.path_start <= a /\ Len(mid) \in Nat
  BY <1>1, TailFacts
<1> HIDE DEF d
<1>5. /\ r \in Text /\ d \in Int /\ u.path_start <= Len(r)
      /\ \A i \in 1..u.path_start : r[i] = u.ser[i]
      /\ HasByte(r, a, "?")
  <2> HIDE DEF a, b
  <2>1. r = Splice(u.ser, a, b, mid)  OBVIOUS
  <2> HIDE DEF r
  <2> QED  BY <1>1, <1>3, <2>1, BehindPathFacts
<1>6. \A n \in Nat : \A c : b <= n /\ HasByte(u.ser, n, c) =>
         n + d \in Nat /\ a <= n + d /\ HasByte(r, n + d, c)
  <2> HIDE DEF a, b
  <2>1. r = Splice(u.ser, a, b, mid)  OBVIOUS
  <2> HIDE DEF r
  <2> QED  BY <1>3, <2>1, BehindPathFacts
<1>7. /\ v.query_start = a
      /\ v.path_start = u.path_start /\ v.ser = r
      /\ v = [u EXCEPT !.ser = r, !.query_start = v.query_start,
                       !.fragment_start = v.fragment_start]
  BY DEF WithQuery, Good, UrlSet, mid
<1> HIDE DEF v, r
<1>8. /\ v.fragment_start \in OptOffset
      /\ v.fragment_start # None =>
            /\ u.path_start <= v.fragment_start
            /\ v.fragment_start = b + d
            /\ HasByte(r, v.fragment_start, "#")
  BY <1>2, <1>4, <1>6, FragmentMoves
<1> HIDE DEF a, b
<1>9. TailCut(v)
  BY <1>4, <1>5, <1>7, <1>8 DEF TailCut
<1>10. SameFront(u, v, r)
  BY <1>4, <1>5, <1>7, <1>8 DEF SameFront, OptOffset
<1>11. Good(v)  BY <1>9, <1>10, TailEdited
<1> QED  BY <1>11 DEF v

\* set_query(None), before trailing spaces are stripped
LEMMA WithoutQueryGood ==
    ASSUME NEW u, Good(u)
    PROVE  Good(WithoutQuery(u))
<1> DEFINE a == PathEnd(u)
           b == QueryEnd(u)
           d == a - b
           r == Splice(u.ser, a, b, << >>)
           v == WithoutQuery(u)
<1>2. v.fragment_start = ShiftOpt(u.fragment_start, d)
  BY DEF WithoutQuery, Good, UrlSet
<1>3. BehindPath(u, a, b, << >>, d)
  BY GoodFacts, TailFacts, EmptySeq DEF BehindPath, HeadCut, Text
<1>4. a \in Nat /\ b \in Nat /\ u.path_start <= a
  BY TailFacts
<1> HIDE DEF d
<1>5. /\ r \in Text /\ d \in Int /\ u.path_start <= Len(r)
      /\ \A i \in 1..u.path_start : r[i] = u.ser[i]
  <2> HIDE DEF a, b
  <2>1. r = Splice(u.ser, a, b, << >>)  OBVIOUS
  <2> HIDE DEF r
  <2> QED  BY <1>3, <2>1, BehindPathFacts
<1>6. \A n \in Nat : \A c : b <= n /\ HasByte(u.ser, n, c) =>
         n + d \in Nat /\ a <= n + d /\ HasByte(r, n + d, c)
  <2> HIDE DEF a, b
  <2>1. r = Splice(u.ser, a, b, << >>)  OBVIOUS
  <2> HIDE DEF r
  <2> QED  BY <1>3, <2>1, BehindPathFacts
<1>7. /\ v.query_start = None
      /\ v.path_start = u.path_start /\ v.ser = r
      /\ v = [u EXCEPT !.ser = r, !.query_start = v.query_start,
                       !.fragment_start = v.fragment_start]
  BY DEF WithoutQuery, Good, UrlSet
<1> HIDE DEF v, r
<1>8. /\ v.fragment_start \in OptOffset
      /\ v.fragment_start # None =>
            /\ u.path_start <= v.fragment_start
            /\ HasByte(r, v.fragment_start, "#")
  BY <1>2, <1>4, <1>6, FragmentMoves
<1> HIDE DEF a, b
<1>9. TailCut(v)
  BY <1>7, <1>8 DEF TailCut
<1>10. SameFront(u, v, r)
  BY <1>5, <1>7, <1>8 DEF SameFront, OptOffset
<1>11. Good(v)  BY <1>9, <1>10, TailEdited
<1> QED  BY <1>11 DEF v

\* A text whose first p elements are no spaces has at most Len(s) - p
\* trailing ones.
LEMMA TrailingSpacesBound ==
    ASSUME NEW s \in Text, NEW n \in Nat, Len(s) = n, NEW p \in Nat, p <= n,
           \A i \in 1..p : s[i] # "SP"
    PROVE  TrailingSpaces(s) \in Nat /\ TrailingSpaces(s) <= n - p
<1> DEFINE S == {m \in 1..n : \A i \in m..n : s[i] = "SP"}
           B == (p + 1)..n
<1>1. S \subseteq B
  <2> SUFFICES ASSUME NEW m \in 1..n, \A i \in m..n : s[i] = "SP"
               PROVE  m \in (p + 1)..n
    OBVIOUS
  <2>1. m \in m..n  OBVIOUS
  <2>2. s[m] = "SP"  BY <2>1
  <2>3. m \notin 1..p  BY <2>2
  <2> QED  BY <2>3
<1>2. /\ IsFiniteSet(B)
      /\ Cardinality(B) = IF p + 1 > n THEN 0 ELSE n - (p + 1) + 1
  <2>1. p + 1 \in Int /\ n \in Int  OBVIOUS
  <2> QED  BY <2>1, FS_Interval
<1>3. Cardinality(B) = n - p  BY <1>2
<1>4. TrailingSpaces(s) = Cardinality(S)  BY DEF TrailingSpaces
<1> HIDE DEF S, B
<1>5. S \in SUBSET B  BY <1>1
<1>6. IsFiniteSet(S) /\ Cardinality(S) <= Cardinality(B)
  BY <1>2, <1>5, FS_Subset
<1>7. Cardinality(S) \in Nat  BY <1>6, FS_CardinalityType
<1> QED  BY <1>3, <1>4, <1>6, <1>7

\* Trailing spaces lie behind the path start, as no space stands before it.
LEMMA StrippedGood ==
    ASSUME NEW u, Good(u), u.query_start = None, u.fragment_start = None
    PROVE  Good(Stripped(u))
<1> DEFINE s == u.ser
           p == u.path_start
           n == Len(s) - TrailingSpaces(s)
           r == Take(s, n)
           v == [u EXCEPT !.ser = r]
<1>1. /\ s \in Text /\ Len(s) \in Nat /\ p \in Nat /\ p <= Len(s)
      /\ \A i \in 1..p : s[i] # "SP"
  BY GoodFacts DEF HeadCut, AuthorityIntact, HeadHasNoSpace
<1> HIDE DEF s, p
<1>2. TrailingSpaces(s) \in Nat /\ TrailingSpaces(s) <= Len(s) - p
  BY <1>1, TrailingSpacesBound
<1>3. n \in Nat /\ n <= Len(s) /\ p <= n
  BY <1>1, <1>2
<1> HIDE DEF n
<1>4. /\ r \in Text /\ Len(r) = n
      /\ \A i \in 1..n : r[i] = s[i]
  BY <1>1, <1>3, TakeFacts
<1>5. \A i \in 1..p : i \in 1..n  BY <1>1, <1>3
<1> HIDE DEF r
<1>6. /\ v.query_start = None /\ v.fragment_start = None
      /\ v = [u EXCEPT !.ser = r, !.query_start = v.query_start,
                       !.fragment_start = v.fragment_start]
  BY DEF Good, UrlSet
<1>7. Stripped(u) = v \/ Stripped(u) = u
  BY DEF Stripped, r, n, s
<1> HIDE DEF v
<1>8. TailCut(v)  BY <1>6 DEF TailCut
<1>9. SameFront(u, v, r)
  BY <1>3, <1>4, <1>5, <1>6 DEF SameFront, OptOffset, s, p
<1>10. Good(v)  BY <1>8, <1>9, TailEdited
<1> QED  BY <1>7, <1>10

(****************************************************************************)
(* The port.                                                                *)
(****************************************************************************)
\* set_port_internal
LEMMA WithPortGood ==
    ASSUME NEW u, Good(u), NEW port \in PortNumber \union {None}
    PROVE  Good(WithPort(u, port))
<1> DEFINE mid == IF port = None THEN <<>> ELSE PortSuffix(port)
           a == u.host_end
           b == u.path_start
           d == a + Len(mid) - b
           v == WithPort(u, port)
<1>1. CASE port = u.port
  BY <1>1 DEF WithPort
<1>2. CASE port # u.port
  <2>1. mid \in Text /\ NoSpace(mid)
    <3>1. << >> \in Text /\ NoSpace(<< >>)  BY EmptySeq DEF Text, NoSpace
    <3> QED  BY <3>1, PortSuffixFacts
  <2>2. /\ a \in Nat /\ b \in Nat /\ a <= b /\ b <= u.path_start
        /\ u.host_start <= a /\ u.scheme_end < u.username_end
        /\ u.username_end <= u.host_start
        /\ u.scheme_end \in Nat /\ u.username_end \in Nat
        /\ u.host_start \in Nat
    BY GoodFacts DEF HeadCut
  <2>3. /\ v.ser = Splice(u.ser, a, b, mid) /\ v.port = port
        /\ v.scheme_end = u.scheme_end /\ v.username_end = u.username_end
        /\ v.host_start = u.host_start /\ v.host_end = u.host_end
        /\ v.host = u.host /\ v.path_start = u.path_start + d
        /\ v.query_start = ShiftOpt(u.query_start, d)
        /\ v.fragment_start = ShiftOpt(u.fragment_start, d)
    BY <1>2 DEF WithPort, ShiftPath, ShiftAfterPath, Good, UrlSet
  <2> HIDE DEF mid
  <2>4. /\ d \in Int
        /\ Splice(u.ser, a, b, mid) \in Text
        /\ u.path_start + d \in Nat
        /\ ShiftOpt(u.query_start, d) \in OptOffset
        /\ ShiftOpt(u.fragment_start, d) \in OptOffset
    <3> DEFINE e == d
    <3>1. e = a + Len(mid) - b  OBVIOUS
    <3> HIDE DEF a, b, e
    <3> QED  BY <2>1, <2>2, <3>1, MovedOffsets DEF e
  <2>5. v \in UrlSet
    <3> HIDE DEF a, b, d
    <3> QED
      BY <1>2, <2>4 DEF WithPort, ShiftPath, ShiftAfterPath, Good, UrlSet, mid, a, b, d
  <2> HIDE DEF v
  <2>6. Edit(u, v, a, b, mid, d)
    BY <2>1, <2>2, <2>3, <2>5 DEF Edit
  <2>7. HeadOrder(v)
    <3>1. v.path_start >= a
      <4>1. Len(mid) \in Nat  BY <2>1, LenProperties DEF Text
      <4> QED  BY <2>2, <2>3, <4>1
    <3> QED  BY <2>2, <2>3, <3>1 DEF HeadOrder
  <2> HIDE DEF d
  <2>8. Scheme(v) = Scheme(u) /\ ByteAt(v.ser, v.scheme_end) = ":"
    <3>1. u.scheme_end < a  BY <2>2
    <3> QED  BY <2>3, <2>6, <3>1, EditKeepsScheme
  <2>9. AuthorityMarked(v)
    <3>1. AuthorityMarked(u)  BY GoodFacts DEF AuthorityIntact
    <3>2. CASE u.username_end >= u.scheme_end + 3 /\ has_authority(u)
      <4>1. u.scheme_end + 3 <= a  BY <2>2, <3>2
      <4>2. has_authority(v)  BY <2>3, <2>6, <3>2, <4>1, EditKeepsAuthority
      <4> QED  BY <2>3, <3>2, <4>2 DEF AuthorityMarked
    <3> QED  BY <2>3, <3>1, <3>2 DEF AuthorityMarked
  <2>10. SpecialHasAuthority(v)  BY <2>3, <2>8, SchemeKeepsAuthority
  <2>11. CredentialsClosed(v)  BY <2>2, <2>3, <2>6, EditKeepsCredentials
  <2>12. HostWritten(v)
    <3>1. u.host_end <= a  BY <2>2
    <3> QED  BY <2>3, <2>6, <3>1, EditBehindHost
  <2>13. PortWritten(v)
    <3>1. /\ v.ser \in Text /\ v.path_start <= Len(v.ser)
          /\ Len(mid) \in Nat /\ d \in Int
          /\ \A i \in 1..Len(mid) : v.ser[a + i] = mid[i]
      BY <2>6, EditFacts
    <3>2. a + Len(mid) = v.path_start
      BY <2>2, <2>3, <3>1 DEF d
    <3>3. SameElements(v.ser, a, v.path_start, mid, 0, Len(mid))
      BY <2>1, <2>2, <3>1, <3>2 DEF SameElements
    <3>4. Slice(v.ser, a, v.path_start) = Slice(mid, 0, Len(mid))
      BY <3>3, SlicesEqual
    <3>5. Slice(mid, 0, Len(mid)) = mid
      <4>1. Slice(mid, 0, Len(mid)) = SubSeq(mid, 1, Len(mid))
        BY DEF Slice
      <4> QED  BY <2>1, <4>1, SubSeqFull DEF Text
    <3> QED  BY <2>3, <3>4, <3>5 DEF PortWritten, mid
  <2>14. Good(v)
    BY <2>1, <2>6, <2>7, <2>8, <2>9, <2>10, <2>11, <2>12, <2>13, Edited
  <2> QED  BY <2>14 DEF v
<1> QED  BY <1>1, <1>2

\* The port set_port stores is a port.
LEMMA NormalizedPort ==
    ASSUME NEW u, NEW port \in PortNumber \union {None}
    PROVE  Normalized(u, port) \in PortNumber \union {None}
BY DEF Normalized

(****************************************************************************)
(* Before the host.                                                         *)
(****************************************************************************)
\* ShiftHost moves the host, the path, the query and the fragment.
LEMMA ShiftHostFacts ==
    ASSUME NEW u, u \in UrlSet, NEW d
    PROVE  LET v == ShiftHost(u, d)
           IN  /\ v = [u EXCEPT !.host_start = u.host_start + d,
                                !.host_end = u.host_end + d,
                                !.path_start = u.path_start + d,
                                !.query_start = ShiftOpt(u.query_start, d),
                                !.fragment_start = ShiftOpt(u.fragment_start, d)]
BY DEF ShiftHost, ShiftPath, ShiftAfterPath, UrlSet

\* v is u with the host and what follows it moved by d behind other text.
HostMoved(u, v, d, ser, scheme_end, username_end) ==
    /\ v.ser = ser
    /\ v.scheme_end = scheme_end /\ v.username_end = username_end
    /\ v.host_start = u.host_start + d /\ v.host_end = u.host_end + d
    /\ v.host = u.host /\ v.port = u.port /\ v.path_start = u.path_start + d
    /\ v.query_start = ShiftOpt(u.query_start, d)
    /\ v.fragment_start = ShiftOpt(u.fragment_start, d)

\* What moving the host computes.
LEMMA ShiftHostMoves ==
    ASSUME NEW u, Good(u), NEW a \in Nat, NEW b \in Nat,
           NEW mid \in Text, a <= b, b <= u.host_start,
           NEW d, d = a + Len(mid) - b
    PROVE  LET w == ShiftHost(u, d)
           IN  /\ w \in UrlSet
               /\ HostMoved(u, w, d, u.ser, u.scheme_end, u.username_end)
               /\ b <= u.path_start
               /\ Splice(u.ser, a, b, mid) \in Text
<1>1. /\ u.host_start \in Nat /\ u.host_end \in Nat /\ u.path_start \in Nat
      /\ u.host_start <= u.host_end /\ u.host_end <= u.path_start
  BY GoodFacts DEF HeadCut
<1>2. b <= u.path_start  BY <1>1
<1>3. /\ d \in Int
      /\ Splice(u.ser, a, b, mid) \in Text
      /\ u.path_start + d \in Nat
      /\ ShiftOpt(u.query_start, d) \in OptOffset
      /\ ShiftOpt(u.fragment_start, d) \in OptOffset
  BY <1>2, MovedOffsets
<1>4. u.host_start + d \in Nat /\ u.host_end + d \in Nat
  <2>1. Len(mid) \in Nat  BY LenProperties DEF Text
  <2> QED  BY <1>1, <2>1
<1> DEFINE w == [u EXCEPT !.host_start = u.host_start + d,
                          !.host_end = u.host_end + d,
                          !.path_start = u.path_start + d,
                          !.query_start = ShiftOpt(u.query_start, d),
                          !.fragment_start = ShiftOpt(u.fragment_start, d)]
<1>5. ShiftHost(u, d) = w  BY ShiftHostFacts DEF Good
<1>6. w \in UrlSet /\ HostMoved(u, w, d, u.ser, u.scheme_end, u.username_end)
  BY <1>3, <1>4 DEF Good, UrlSet, HostMoved
<1> QED  BY <1>2, <1>3, <1>5, <1>6

\* Moving the host is an edit.
LEMMA HostMovedEdit ==
    ASSUME NEW u, Good(u), NEW v, NEW a \in Nat, NEW b \in Nat,
           NEW mid \in Text, a <= b, b <= u.host_start,
           NEW d, d = a + Len(mid) - b,
           NEW scheme_end \in Nat, NEW username_end \in Nat,
           v = [ShiftHost(u, d) EXCEPT !.ser = Splice(u.ser, a, b, mid),
                                       !.scheme_end = scheme_end,
                                       !.username_end = username_end]
    PROVE  /\ Edit(u, v, a, b, mid, d)
           /\ HostMoved(u, v, d, Splice(u.ser, a, b, mid), scheme_end,
                        username_end)
<1> DEFINE w == ShiftHost(u, d)
           r == Splice(u.ser, a, b, mid)
<1>1. /\ w \in UrlSet /\ r \in Text /\ b <= u.path_start
      /\ HostMoved(u, w, d, u.ser, u.scheme_end, u.username_end)
  BY ShiftHostMoves
<1>2. v = [w EXCEPT !.ser = r, !.scheme_end = scheme_end,
                    !.username_end = username_end]
  OBVIOUS
<1> HIDE DEF w, r
<1>3. v \in UrlSet /\ HostMoved(u, v, d, r, scheme_end, username_end)
  BY <1>1, <1>2 DEF UrlSet, HostMoved
<1> QED  BY <1>1, <1>3 DEF Edit, HostMoved, r

\* The same edit as the setters of credentials write it.
LEMMA CredentialsMoved ==
    ASSUME NEW u, Good(u), NEW v, NEW a \in Nat, NEW b \in Nat,
           NEW mid \in Text, a <= b, b <= u.host_start,
           NEW d, d = a + Len(mid) - b, NEW x \in Nat,
           v = [ShiftHost(u, d) EXCEPT !.ser = Splice(u.ser, a, b, mid),
                                       !.username_end = x]
    PROVE  /\ Edit(u, v, a, b, mid, d)
           /\ HostMoved(u, v, d, Splice(u.ser, a, b, mid), u.scheme_end, x)
<1> DEFINE w == ShiftHost(u, d)
           r == Splice(u.ser, a, b, mid)
<1>1. /\ w \in UrlSet /\ r \in Text /\ b <= u.path_start
      /\ HostMoved(u, w, d, u.ser, u.scheme_end, u.username_end)
  BY ShiftHostMoves
<1>2. v = [w EXCEPT !.ser = r, !.username_end = x]
  OBVIOUS
<1> HIDE DEF w, r
<1>3. v \in UrlSet /\ HostMoved(u, v, d, r, u.scheme_end, x)
  BY <1>1, <1>2 DEF UrlSet, HostMoved
<1> QED  BY <1>1, <1>3 DEF Edit, HostMoved, r

\* Replacing the scheme moves everything along.
LEMMA WithSchemeGood ==
    ASSUME NEW u, Good(u), NEW new \in Text, new # <<>>, NoSpace(new),
           IsSpecialType(SchemeType(new)) = IsSpecial(u)
    PROVE  Good(WithScheme(u, new))
<1> DEFINE d == Len(new) - u.scheme_end
           v == WithScheme(u, new)
           s == u.ser
           b == u.scheme_end
           n == Len(new)
           m == Len(u.ser)
           x == u.username_end
           y == u.host_start
           z == u.host_end
           p == u.path_start
<1>1. /\ n \in Nat /\ m \in Nat /\ b \in Nat /\ x \in Nat
      /\ y \in Nat /\ z \in Nat /\ p \in Nat
      /\ b < x /\ x <= y /\ y <= z /\ z <= p /\ p <= m
  BY GoodFacts, LenProperties DEF HeadCut, Text
<1>2. ByteAt(s, b) = ":"  BY GoodFacts DEF HeadCut
<1>3. v = [ShiftHost(u, d) EXCEPT !.ser = Splice(u.ser, 0, b, new),
                                  !.scheme_end = n,
                                  !.username_end = x + d]
  BY DEF WithScheme, ShiftHost, ShiftPath, ShiftAfterPath, Good, UrlSet
<1>4. d = n - b  OBVIOUS
<1> HIDE DEF v, d, n, b, m, x, y, z, p, s
<1>5. /\ d \in Int /\ d = 0 + n - b /\ x + d \in Nat /\ 0 <= b
      /\ b <= y /\ n = b + d /\ b <= z
  BY <1>1, <1>4
<1>6. /\ Edit(u, v, 0, b, new, d)
      /\ HostMoved(u, v, d, Splice(u.ser, 0, b, new), n, x + d)
  <2>1. b <= u.host_start /\ d = 0 + Len(new) - b  BY <1>5 DEF y, n
  <2> QED  BY <1>1, <1>3, <1>5, <2>1, HostMovedEdit
<1>7. /\ v.scheme_end = n /\ v.username_end = x + d
      /\ v.host_start = y + d /\ v.host_end = z + d
      /\ v.host = u.host /\ v.port = u.port /\ v.path_start = p + d
  BY <1>6 DEF HostMoved, y, z, p
<1>8. HeadOrder(v)
  <2>1. n < x + d /\ x + d <= y + d /\ y + d <= z + d /\ z + d <= p + d
    BY <1>1, <1>5
  <2> QED  BY <1>7, <2>1 DEF HeadOrder
<1> DEFINE r == v.ser
<1>9. r \in Text /\ Len(r) = m + d /\ Len(r) \in Nat
  BY <1>6, EditFacts DEF m
<1>10. \A i \in 1..n : r[0 + i] = new[i]
  BY <1>6, EditFacts DEF n
<1>11. \A i \in (b + 1)..m : r[i + d] = s[i]
  BY <1>6, EditFacts DEF m, s
<1> HIDE DEF r
\* A byte behind the scheme is found d further on.
<1>12. ASSUME NEW k \in Nat, b <= k, k < m
       PROVE  ByteAt(r, k + d) = ByteAt(s, k) /\ k + d < Len(r)
  <2>1. k + 1 \in (b + 1)..m /\ (k + 1) + d = (k + d) + 1 /\ k + d < m + d
    BY <1>1, <1>5, <1>12
  <2>2. r[(k + d) + 1] = s[k + 1]  BY <1>11, <2>1
  <2> QED  BY <1>9, <2>1, <2>2 DEF ByteAt
<1>13. ByteAt(v.ser, v.scheme_end) = ":"
  <2>1. b < m /\ b <= b  BY <1>1
  <2>2. ByteAt(r, b + d) = ":"  BY <1>1, <1>2, <1>12, <2>1
  <2> QED  BY <1>5, <1>7, <2>2 DEF r
<1>14. Scheme(v) = new
  <2>1. n <= Len(r) /\ n <= Len(new)
    <3>1. n <= m + d  BY <1>1, <1>5
    <3> QED  BY <1>1, <1>9, <3>1 DEF n
  <2>2. \A i \in 1..n : r[i] = new[i]
    <3>1. \A i \in 1..n : 0 + i = i  BY <1>1
    <3> QED  BY <1>10, <3>1
  <2>3. Take(r, n) = Take(new, n)  BY <1>1, <1>9, <2>1, <2>2, TakesEqual
  <2>4. Take(new, n) = new  BY SubSeqFull DEF Take, Text, n
  <2> QED  BY <1>7, <2>3, <2>4 DEF Scheme, r
<1>15. AuthorityMarked(v)
  <2>1. AuthorityMarked(u)  BY GoodFacts DEF AuthorityIntact
  <2>2. CASE x >= b + 3 /\ has_authority(u)
    <3>1. ByteAt(s, b) = ":" /\ ByteAt(s, b + 1) = "/" /\ ByteAt(s, b + 2) = "/"
      BY <2>2 DEF has_authority, StartsWithAuthority, HasByte, b, s
    <3>2. /\ b + 1 \in Nat /\ b + 2 \in Nat /\ b <= b /\ b <= b + 1 /\ b <= b + 2
          /\ b < m /\ b + 1 < m /\ b + 2 < m
          /\ b + d = n /\ (b + 1) + d = n + 1 /\ (b + 2) + d = n + 2
      BY <1>1, <1>5, <2>2
    <3>3. /\ ByteAt(r, n) = ":" /\ n < Len(r)
          /\ ByteAt(r, n + 1) = "/" /\ n + 1 < Len(r)
          /\ ByteAt(r, n + 2) = "/" /\ n + 2 < Len(r)
      <4>1. ByteAt(r, b + d) = ":" /\ b + d < Len(r)
        BY <1>1, <1>12, <3>1, <3>2
      <4>2. ByteAt(r, (b + 1) + d) = "/" /\ (b + 1) + d < Len(r)
        BY <1>12, <3>1, <3>2
      <4>3. ByteAt(r, (b + 2) + d) = "/" /\ (b + 2) + d < Len(r)
        BY <1>12, <3>1, <3>2
      <4> QED  BY <3>2, <4>1, <4>2, <4>3
    <3>4. has_authority(v)
      BY <1>7, <3>3 DEF has_authority, StartsWithAuthority, HasByte, r
    <3>5. x + d >= n + 3  BY <1>1, <1>5, <2>2
    <3> QED  BY <1>7, <3>4, <3>5 DEF AuthorityMarked
  <2>3. CASE x = b + 1 /\ y = x /\ z = x
    <3>1. x + d = n + 1  BY <1>1, <1>5, <2>3
    <3> QED  BY <1>7, <2>3, <3>1 DEF AuthorityMarked
  <2> QED  BY <2>1, <2>2, <2>3 DEF AuthorityMarked, b, x, y, z
<1>16. SpecialHasAuthority(v)
  <2>1. SpecialHasAuthority(u)  BY GoodFacts DEF AuthorityIntact
  <2>2. IsSpecial(v) = IsSpecial(u)  BY <1>14 DEF IsSpecial, TypeOf
  <2>3. x >= b + 3 => x + d >= n + 3  BY <1>1, <1>5
  <2> QED  BY <1>7, <2>1, <2>2, <2>3 DEF SpecialHasAuthority, b, x
<1>17. CredentialsClosed(v)
  <2>1. b <= u.username_end  BY <1>1 DEF x
  <2>2. /\ x <= b + 3 => x + d <= n + 3
        /\ x > b + 3 => x + d > n + 3
    BY <1>1, <1>5
  <2>3. /\ u.username_end <= u.scheme_end + 3
           => v.username_end <= v.scheme_end + 3
        /\ u.username_end > u.scheme_end + 3
           => v.username_end > v.scheme_end + 3
    BY <1>7, <2>2 DEF x, b
  <2> QED  BY <1>5, <1>6, <1>7, <2>1, <2>3, EditMovesCredentials DEF x, y
<1>18. HostWritten(v)
  BY <1>5, <1>6, <1>7, EditKeepsHost DEF y, z
<1>19. PortWritten(v)
  BY <1>5, <1>6, <1>7, EditKeepsPort DEF z
<1>20. Good(v)
  BY <1>6, <1>8, <1>13, <1>15, <1>16, <1>17, <1>18, <1>19, Edited
<1> QED  BY <1>20 DEF v

\* A URL that takes credentials has a host written after "://".
LEMMA TakesCredentialsFacts ==
    ASSUME NEW u, Good(u), TakesCredentials(u)
    PROVE  /\ u.host_start < u.host_end
           /\ u.username_end >= u.scheme_end + 3
           /\ has_authority(u)
           /\ ByteAt(u.ser, u.host_start) \notin {":", "@"}
<1>1. /\ u.host \in HostKind /\ AuthorityIntact(u)
      /\ u.host_start <= u.host_end
      /\ u.host_start \in Nat /\ u.host_end \in Nat
  BY GoodFacts DEF HeadCut
<1>2. u.host_start < u.host_end
  BY <1>1 DEF TakesCredentials, has_host, HostKind, AuthorityIntact, HostWritten
<1>3. ~(u.host_start = u.host_end)  BY <1>1, <1>2
<1> QED
  BY <1>1, <1>2, <1>3 DEF AuthorityIntact, AuthorityMarked, HostWritten

\* An edit between "://" and the host leaves a well-formed value if the
\* credentials end in order.
LEMMA CredentialsEdited ==
    ASSUME NEW u, Good(u), has_authority(u), NEW v, NEW a, NEW b, NEW mid, NEW d,
           Edit(u, v, a, b, mid, d), NoSpace(mid), b <= u.host_start,
           u.scheme_end + 3 <= a,
           NEW x \in Nat,
           HostMoved(u, v, d, Splice(u.ser, a, b, mid), u.scheme_end, x),
           u.scheme_end + 3 <= x, x <= u.host_start + d,
           CredentialsClosed(v)
    PROVE  Good(v)
<1>1. /\ u.scheme_end \in Nat /\ u.host_start \in Nat /\ u.host_end \in Nat
      /\ u.path_start \in Nat
      /\ u.host_start <= u.host_end /\ u.host_end <= u.path_start
  BY GoodFacts DEF HeadCut
<1>2. /\ a \in Nat /\ b \in Nat /\ d \in Int  BY EditFacts
<1>3. /\ v.scheme_end = u.scheme_end /\ v.username_end = x
      /\ v.host_start = u.host_start + d /\ v.host_end = u.host_end + d
      /\ v.host = u.host /\ v.port = u.port /\ v.path_start = u.path_start + d
  BY DEF HostMoved
<1>12. x >= u.scheme_end + 3
  <2> DEFINE n == u.scheme_end
  <2>1. n \in Nat /\ n + 3 <= x  BY <1>1
  <2> HIDE DEF n
  <2>2. x >= n + 3  BY <2>1
  <2> QED  BY <2>2 DEF n
<1>5. HeadOrder(v)
  <2> DEFINE n == u.scheme_end
             y == u.host_start
             z == u.host_end
             p == u.path_start
  <2>1. /\ n \in Nat /\ y \in Nat /\ z \in Nat /\ p \in Nat /\ y <= z /\ z <= p
        /\ n + 3 <= x
    BY <1>1
  <2> HIDE DEF n, y, z, p
  <2>2. n < x /\ y + d <= z + d /\ z + d <= p + d  BY <1>2, <2>1
  <2> QED  BY <1>3, <2>2 DEF HeadOrder, n, y, z, p
<1>6. Scheme(v) = Scheme(u) /\ ByteAt(v.ser, v.scheme_end) = ":"
  <2>1. u.scheme_end < a
    <3> DEFINE n == u.scheme_end
    <3>1. n \in Nat /\ n + 3 <= a  BY <1>1
    <3> HIDE DEF n
    <3>2. n < a  BY <1>2, <3>1
    <3> QED  BY <3>2 DEF n
  <2> QED  BY <1>3, <2>1, EditKeepsScheme
<1>7. AuthorityMarked(v)
  <2>1. has_authority(v)  BY <1>3, EditKeepsAuthority
  <2>2. x >= u.scheme_end + 3  BY <1>12
  <2> QED  BY <1>3, <2>1, <2>2 DEF AuthorityMarked
<1>8. SpecialHasAuthority(v)
  <2>1. x >= u.scheme_end + 3  BY <1>12
  <2> QED  BY <1>3, <1>6, <2>1, SchemeKeepsAuthority
<1>10. HostWritten(v)  BY <1>3, EditKeepsHost
<1>11. PortWritten(v)
  <2>1. b <= u.host_end  BY <1>1, <1>2
  <2> QED  BY <1>3, <2>1, EditKeepsPort
<1> QED
  BY <1>5, <1>6, <1>7, <1>8, <1>10, <1>11, Edited

\* A text with the '@' that ends the credentials.
LEMMA Closed ==
    ASSUME NEW text \in Text
    PROVE  /\ text \o <<"@">> \in Text
           /\ Len(text) \in Nat /\ Len(text \o <<"@">>) = Len(text) + 1
           /\ (text \o <<"@">>)[Len(text) + 1] = "@"
           /\ \A i \in 1..Len(text) : (text \o <<"@">>)[i] = text[i]
           /\ NoSpace(text) => NoSpace(text \o <<"@">>)
<1> DEFINE at == <<"@">>
           r == text \o at
<1>1. at \in Text /\ Len(at) = 1 /\ at[1] = "@"
  <2>1. "@" \in Lexeme  BY DEF Lexeme, Mark
  <2> QED  BY <2>1 DEF Text
<1> HIDE DEF at
<1>2. Len(text) \in Nat  BY LenProperties DEF Text
<1>3. /\ r \in Text /\ Len(r) = Len(text) + Len(at)
      /\ \A i \in 1..Len(text) : r[i] = text[i]
      /\ \A i \in 1..Len(at) : r[Len(text) + i] = at[i]
  BY <1>1, ConcatFacts
<1> HIDE DEF r
<1>4. 1 \in 1..Len(at) /\ Len(r) = Len(text) + 1  BY <1>1, <1>3
<1>5. r[Len(text) + 1] = "@"  BY <1>1, <1>3, <1>4
<1>6. ASSUME NoSpace(text) PROVE NoSpace(r)
  <2> SUFFICES ASSUME NEW i \in 1..Len(r) PROVE r[i] # "SP"
    BY DEF NoSpace
  <2>1. i \in 1..Len(text) \/ i = Len(text) + 1  BY <1>2, <1>4
  <2> QED  BY <1>3, <1>5, <1>6, <2>1 DEF NoSpace
<1> QED  BY <1>2, <1>3, <1>4, <1>5, <1>6 DEF r, at

\* set_username
LEMMA WithUsernameGood ==
    ASSUME NEW u, Good(u), TakesCredentials(u),
           NEW name \in Text, NoSpace(name)
    PROVE  Good(WithUsername(u, name))
<1> DEFINE s     == u.ser
           a     == u.scheme_end + 3
           x     == u.username_end
           y     == u.host_start
           k     == Len(name)
           next  == HasByte(u.ser, u.username_end, "@")
           drops == name = <<>> /\ next
           adds  == name # <<>> /\ ~next /\ ~HasByte(u.ser, u.username_end, ":")
           b     == x + (IF drops THEN 1 ELSE 0)
           mid   == name \o (IF adds THEN <<"@">> ELSE <<>>)
           d     == a + Len(mid) - b
           v     == WithUsername(u, name)
<1>1. v = [ShiftHost(u, d) EXCEPT !.ser = Splice(u.ser, a, b, mid),
                                  !.username_end = a + k]
  BY DEF WithUsername
<1>2. /\ x \in Nat /\ y \in Nat /\ a \in Nat /\ x <= y /\ a <= x
      /\ u.scheme_end + 3 <= a /\ y < Len(s) /\ Len(s) \in Nat
  <2>1. /\ u.username_end >= u.scheme_end + 3 /\ u.host_start < u.host_end
    BY TakesCredentialsFacts
  <2>2. /\ u.scheme_end \in Nat /\ u.username_end \in Nat
        /\ u.host_start \in Nat /\ u.host_end \in Nat /\ u.path_start \in Nat
        /\ Len(u.ser) \in Nat
        /\ u.username_end <= u.host_start
        /\ u.host_end <= u.path_start /\ u.path_start <= Len(u.ser)
    BY GoodFacts DEF HeadCut
  <2> QED  BY <2>1, <2>2
<1>3. /\ k \in Nat
      /\ name # <<>> <=> k > 0
  BY LenProperties, EmptySeq DEF Text
<1>4. /\ has_authority(u) /\ CredentialsClosed(u)
      /\ ByteAt(u.ser, u.host_start) \notin {":", "@"}
  BY TakesCredentialsFacts, GoodFacts DEF AuthorityIntact
\* The username changes and what follows it moves along.
<1>5. CASE ~drops /\ ~adds
  <2>1. b = x /\ mid = name
    <3>1. b = x + 0 /\ mid = name \o << >>  BY <1>5
    <3>2. x + 0 = x  BY <1>2
    <3>3. name \o << >> = name  BY ConcatEmptySeq DEF Text
    <3> QED  BY <3>1, <3>2, <3>3
  <2> HIDE DEF b, mid, drops, adds, next, s
  <2>2. d = a + k - x  BY <2>1
  <2> HIDE DEF d, v, a, k, x, y
  <2>3. d \in Int /\ a + k \in Nat /\ a + k = x + d /\ a <= a + k /\ x + d <= y + d
    BY <1>2, <1>3, <2>2
  <2>4. /\ u.scheme_end + 3 <= a /\ a + k <= u.host_start + d
        /\ u.scheme_end + 3 <= a + k
        /\ a <= b /\ b <= u.host_start /\ b \in Nat
    <3>1. u.scheme_end + 3 = a  BY DEF a
    <3> QED  BY <1>2, <2>1, <2>3, <3>1 DEF y
  <2>5. d = a + Len(mid) - b /\ mid \in Text /\ NoSpace(mid)
    BY <2>1, <2>2 DEF k
  <2>6. /\ Edit(u, v, a, b, mid, d)
        /\ HostMoved(u, v, d, Splice(u.ser, a, b, mid), u.scheme_end, a + k)
    BY <1>1, <1>2, <2>3, <2>4, <2>5, CredentialsMoved
  <2>7. CredentialsClosed(v)
    <3>1. v.username_end = u.username_end + d /\ v.host_start = u.host_start + d
          /\ v.username_end \in Nat
      BY <2>3, <2>6 DEF HostMoved, x
    <3>2. b <= u.username_end  BY <1>2, <2>1 DEF x
    <3>3. v.scheme_end + 3 = a /\ v.username_end = a + k
      BY <2>6 DEF HostMoved, a
    <3>4. u.username_end = u.host_start => k = 0
      <4>1. u.username_end = u.host_start
            => ~HasByte(s, x, "@") /\ ~HasByte(s, x, ":")
        BY <1>4 DEF HasByte, s, x
      <4> QED  BY <1>3, <1>5, <4>1 DEF adds, next, s, x
    <3>5. /\ u.username_end > u.scheme_end + 3
          /\ ByteAt(u.ser, u.username_end) = "@"
          => k > 0
      <4>1. x < Len(s)  BY <1>2
      <4>2. ByteAt(s, x) = "@" => next  BY <4>1 DEF HasByte, next, s, x
      <4> QED  BY <1>3, <1>5, <4>2 DEF drops, s, x
    <3>6. /\ k = 0 => a + k <= a
          /\ k > 0 => a + k > a
      BY <1>2, <1>3
    <3>7. /\ u.username_end = u.host_start => v.username_end <= v.scheme_end + 3
          /\ /\ u.username_end > u.scheme_end + 3
             /\ ByteAt(u.ser, u.username_end) = "@"
             => v.username_end > v.scheme_end + 3
      BY <3>3, <3>4, <3>5, <3>6
    <3> QED  BY <2>6, <3>1, <3>2, <3>7, EditMovesCredentials
  <2>8. Good(v)
    BY <1>4, <2>3, <2>4, <2>5, <2>6, <2>7, CredentialsEdited
  <2> QED  BY <2>8 DEF v
\* There was no '@' yet: one is written behind the username.
<1>6. CASE adds
  <2>1. b = x /\ mid = name \o <<"@">> /\ name # <<>>
    <3>1. b = x + 0 /\ mid = name \o <<"@">>  BY <1>6
    <3>2. x + 0 = x  BY <1>2
    <3> QED  BY <1>6, <3>1, <3>2
  <2>2. x = y
    <3>1. ByteAt(s, x) # "@" /\ ByteAt(s, x) # ":"
      <4>1. x < Len(s)  BY <1>2
      <4> QED  BY <1>6, <4>1 DEF HasByte
    <3> QED  BY <1>4, <3>1 DEF CredentialsClosed
  <2>3. /\ mid \in Text /\ NoSpace(mid) /\ Len(mid) = k + 1 /\ mid[k + 1] = "@"
    BY <2>1, Closed
  <2> HIDE DEF b, mid, drops, adds, next, s
  <2>4. d = a + (k + 1) - x /\ d = a + Len(mid) - b  BY <2>1, <2>3
  <2> HIDE DEF d, v, a, x, y, k
  <2>5. d \in Int /\ a + k \in Nat /\ y + d = a + k + 1 /\ a <= a + k
        /\ a + k <= y + d
    BY <1>2, <1>3, <2>2, <2>4
  <2>6. /\ u.scheme_end + 3 <= a /\ a + k <= u.host_start + d
        /\ u.scheme_end + 3 <= a + k
        /\ a <= b /\ b <= u.host_start /\ b \in Nat
    <3>1. u.scheme_end + 3 = a  BY DEF a
    <3> QED  BY <1>2, <2>1, <2>2, <2>5, <3>1 DEF y
  <2>7. /\ Edit(u, v, a, b, mid, d)
        /\ HostMoved(u, v, d, Splice(u.ser, a, b, mid), u.scheme_end, a + k)
    BY <1>1, <1>2, <2>3, <2>4, <2>5, <2>6, CredentialsMoved
  <2>8. CredentialsClosed(v)
    <3>1. v.username_end = a + k /\ v.host_start = y + d
      BY <2>7 DEF HostMoved, y
    <3>2. \A i \in 1..Len(mid) : v.ser[a + i] = mid[i]  BY <2>7, EditFacts
    <3>3. k + 1 \in 1..Len(mid) /\ a + (k + 1) = (a + k) + 1
      BY <1>2, <1>3, <2>3
    <3>4. v.ser[(a + k) + 1] = "@"  BY <2>3, <3>2, <3>3
    <3>5. a + k > v.scheme_end + 3
      <4>1. v.scheme_end + 3 = a  BY <2>7 DEF HostMoved, a
      <4>2. k > 0  BY <1>3, <2>1
      <4> QED  BY <1>2, <1>3, <4>1, <4>2
    <3> QED  BY <2>5, <3>1, <3>4, <3>5 DEF CredentialsClosed, ByteAt
  <2>9. Good(v)
    BY <1>4, <2>3, <2>5, <2>6, <2>7, <2>8, CredentialsEdited
  <2> QED  BY <2>9 DEF v
\* The username goes and its '@' with it.
<1>7. CASE drops
  <2>1. b = x + 1 /\ mid = <<>> /\ k = 0
    <3>1. b = x + 1 /\ mid = name \o << >> /\ name = << >>  BY <1>7
    <3>2. name \o << >> = name  BY ConcatEmptySeq DEF Text
    <3>3. Len(name) = 0  BY <3>1, EmptySeq
    <3> QED  BY <3>1, <3>2, <3>3
  <2>2. y = x + 1
    <3>1. ByteAt(s, x) = "@"  BY <1>7 DEF HasByte
    <3> QED  BY <1>4, <3>1 DEF CredentialsClosed
  <2>3. mid \in Text /\ NoSpace(mid) /\ Len(mid) = 0
    BY <2>1, EmptySeq DEF Text, NoSpace
  <2> HIDE DEF b, mid, drops, adds, next, s
  <2>4. d = a + 0 - y /\ d = a + Len(mid) - b  BY <2>1, <2>2, <2>3
  <2> HIDE DEF d, v, a, x, y, k
  <2>5. d \in Int /\ a + k \in Nat /\ y + d = a /\ a + k = a /\ a <= a + k
        /\ a + k <= y + d
    BY <1>2, <2>1, <2>4
  <2>6. /\ u.scheme_end + 3 <= a /\ a + k <= u.host_start + d
        /\ u.scheme_end + 3 <= a + k
        /\ a <= b /\ b <= u.host_start /\ b \in Nat
    <3>1. u.scheme_end + 3 = a  BY DEF a
    <3> QED  BY <1>2, <2>1, <2>2, <2>5, <3>1 DEF y
  <2>7. /\ Edit(u, v, a, b, mid, d)
        /\ HostMoved(u, v, d, Splice(u.ser, a, b, mid), u.scheme_end, a + k)
    BY <1>1, <1>2, <2>3, <2>4, <2>5, <2>6, CredentialsMoved
  <2>8. CredentialsClosed(v)
    <3>1. v.username_end = a + k /\ v.host_start = y + d
      BY <2>7 DEF HostMoved, y
    <3>2. a + k <= v.scheme_end + 3
      <4>1. v.scheme_end + 3 = a  BY <2>7 DEF HostMoved, a
      <4> QED  BY <1>2, <2>5, <4>1
    <3> QED  BY <2>5, <3>1, <3>2 DEF CredentialsClosed
  <2>9. Good(v)
    BY <1>4, <2>3, <2>5, <2>6, <2>7, <2>8, CredentialsEdited
  <2> QED  BY <2>9 DEF v
<1> QED  BY <1>5, <1>6, <1>7

\* The same edit when the username stays.
LEMMA PasswordMoved ==
    ASSUME NEW u, Good(u), NEW v, NEW a \in Nat, NEW b \in Nat,
           NEW mid \in Text, a <= b, b <= u.host_start,
           NEW d, d = a + Len(mid) - b,
           v = [ShiftHost(u, d) EXCEPT !.ser = Splice(u.ser, a, b, mid)]
    PROVE  /\ Edit(u, v, a, b, mid, d)
           /\ HostMoved(u, v, d, Splice(u.ser, a, b, mid), u.scheme_end,
                        u.username_end)
<1> DEFINE w == ShiftHost(u, d)
           r == Splice(u.ser, a, b, mid)
<1>1. /\ w \in UrlSet /\ r \in Text /\ b <= u.path_start
      /\ HostMoved(u, w, d, u.ser, u.scheme_end, u.username_end)
  BY ShiftHostMoves
<1>2. v = [w EXCEPT !.ser = r]
  OBVIOUS
<1> HIDE DEF w, r
<1>3. v \in UrlSet /\ HostMoved(u, v, d, r, u.scheme_end, u.username_end)
  BY <1>1, <1>2 DEF UrlSet, HostMoved
<1> QED  BY <1>1, <1>3 DEF Edit, HostMoved, r

\* Where the credentials of a value that takes them start and end.
LEMMA CredentialsPlace ==
    ASSUME NEW u, Good(u), TakesCredentials(u)
    PROVE  /\ u.username_end \in Nat /\ u.host_start \in Nat
           /\ u.username_end <= u.host_start
           /\ u.scheme_end + 3 \in Nat /\ u.scheme_end + 3 <= u.username_end
           /\ u.host_start < Len(u.ser) /\ Len(u.ser) \in Nat
           /\ has_authority(u) /\ CredentialsClosed(u)
           /\ ByteAt(u.ser, u.host_start) \notin {":", "@"}
<1> DEFINE n == u.scheme_end
           x == u.username_end
           y == u.host_start
           z == u.host_end
           p == u.path_start
           m == Len(u.ser)
<1>1. /\ n \in Nat /\ x \in Nat /\ y \in Nat /\ z \in Nat /\ p \in Nat
      /\ m \in Nat /\ x <= y /\ z <= p /\ p <= m /\ CredentialsClosed(u)
  BY GoodFacts DEF HeadCut, AuthorityIntact
<1>2. /\ y < z /\ x >= n + 3 /\ has_authority(u)
      /\ ByteAt(u.ser, u.host_start) \notin {":", "@"}
  BY TakesCredentialsFacts
<1> HIDE DEF n, x, y, z, p, m
<1>3. y < m /\ n + 3 <= x /\ n + 3 \in Nat  BY <1>1, <1>2
<1> QED  BY <1>1, <1>2, <1>3 DEF n, x, y, m

\* set_password(Some(password))
LEMMA WithPasswordGood ==
    ASSUME NEW u, Good(u), TakesCredentials(u),
           NEW password \in Text, password # <<>>, NoSpace(password)
    PROVE  Good(WithPassword(u, password))
<1> DEFINE a    == u.username_end
           b    == u.host_start
           text == <<":">> \o password
           mid  == text \o <<"@">>
           k    == Len(password)
           d    == a + Len(mid) - b
           v    == WithPassword(u, password)
<1>1. /\ a \in Nat /\ b \in Nat /\ a <= b
      /\ has_authority(u) /\ u.scheme_end + 3 <= a
  BY CredentialsPlace
<1>2. k \in Nat /\ k > 0  BY LenProperties, EmptySeq DEF Text
<1>3. text \in Text /\ Len(text) = 1 + k /\ text[1] = ":" /\ NoSpace(text)
  <2>1. ":" \in Mark  BY DEF Mark
  <2>2. /\ text \in Text /\ Len(text) = 1 + k /\ text[1] = ":"
        /\ \A i \in 1..k : text[1 + i] = password[i]
    BY <2>1, Delimited
  <2> HIDE DEF text
  <2>3. ASSUME NEW i \in 1..Len(text) PROVE text[i] # "SP"
    <3>1. i = 1 \/ (i - 1 \in 1..k /\ 1 + (i - 1) = i)  BY <1>2, <2>2
    <3> QED  BY <2>2, <3>1 DEF NoSpace, k
  <2> QED  BY <2>2, <2>3 DEF NoSpace
<1>4. v = [ShiftHost(u, d) EXCEPT !.ser = Splice(u.ser, a, b, mid)]
  BY DEF WithPassword
<1> HIDE DEF text
<1>5. /\ mid \in Text /\ Len(mid) = Len(text) + 1 /\ mid[Len(text) + 1] = "@"
      /\ mid[1] = ":" /\ NoSpace(mid)
  <2>1. 1 \in 1..Len(text)  BY <1>2, <1>3
  <2> QED  BY <1>3, <2>1, Closed
<1> HIDE DEF mid, v
<1>6. d = a + Len(mid) - b  OBVIOUS
<1>7. d = a + (k + 2) - b  BY <1>1, <1>2, <1>3, <1>5
<1>8. b <= u.host_start  BY <1>1
<1>9. /\ Edit(u, v, a, b, mid, d)
      /\ HostMoved(u, v, d, Splice(u.ser, a, b, mid), u.scheme_end, a)
  BY <1>1, <1>4, <1>5, <1>8, PasswordMoved
<1>10. v.username_end = a /\ v.host_start = b + d  BY <1>9 DEF HostMoved
<1> HIDE DEF a, b, d, k
<1>11. b + d = a + (k + 2)  BY <1>1, <1>2, <1>7
<1>12. CredentialsClosed(v)
  <2>1. \A i \in 1..Len(mid) : v.ser[a + i] = mid[i]  BY <1>9, EditFacts
  <2>2. /\ 1 \in 1..Len(mid) /\ Len(text) + 1 \in 1..Len(mid)
        /\ a + (Len(text) + 1) = ((a + (k + 2)) - 1) + 1
    BY <1>1, <1>2, <1>3, <1>5
  <2>3. /\ v.ser[a + 1] = ":" /\ v.ser[((a + (k + 2)) - 1) + 1] = "@"
    BY <1>5, <2>1, <2>2
  <2>4. a + (k + 2) >= a + 3  BY <1>1, <1>2
  <2> DEFINE y == a + (k + 2)
  <2>5. ByteAt(v.ser, a) = ":" /\ ByteAt(v.ser, y - 1) = "@"
    <3> DEFINE r == v.ser
    <3>1. r[a + 1] = ":" /\ r[(y - 1) + 1] = "@"  BY <2>3
    <3> HIDE DEF r, y
    <3>2. ByteAt(r, a) = ":"  BY <3>1 DEF ByteAt
    <3>3. ByteAt(r, y - 1) = "@"  BY <3>1 DEF ByteAt
    <3> QED  BY <3>2, <3>3 DEF r
  <2>6. v.username_end = a /\ v.host_start = y  BY <1>10, <1>11
  <2>7. y >= a + 3  BY <2>4
  <2> HIDE DEF y
  <2> QED  BY <2>5, <2>6, <2>7 DEF CredentialsClosed
<1>13. a <= u.host_start + d
  <2>1. a <= a + (k + 2)  BY <1>1, <1>2
  <2>2. a <= b + d  BY <1>11, <2>1
  <2> QED  BY <2>2 DEF b
<1>14. Good(v)
  BY <1>1, <1>5, <1>8, <1>9, <1>12, <1>13, CredentialsEdited
<1> QED  BY <1>14 DEF v

\* What removing the password drains: it starts at its ':' and ends before
\* the '@' that closes the username, or behind it when there is none.
LEMMA PasswordDrained ==
    ASSUME NEW u, Good(u), TakesCredentials(u),
           HasByte(u.ser, u.username_end, ":")
    PROVE  /\ PasswordEnd(u) \in Nat
           /\ u.username_end <= PasswordEnd(u)
           /\ PasswordEnd(u) <= u.host_start
           /\ \/ /\ PasswordEnd(u) = u.host_start
                 /\ u.username_end <= u.scheme_end + 3
              \/ /\ PasswordEnd(u) + 1 = u.host_start
                 /\ u.username_end > u.scheme_end + 3
                 /\ ByteAt(u.ser, PasswordEnd(u)) = "@"
<1> DEFINE x == u.username_end
           y == u.host_start
<1>1. /\ x \in Nat /\ y \in Nat
      /\ CredentialsClosed(u)
      /\ ByteAt(u.ser, y) \notin {":", "@"}
  BY CredentialsPlace
<1>2. ByteAt(u.ser, x) = ":"  BY DEF HasByte
<1>3. ~(x = y)  BY <1>1, <1>2
<1>4. y >= x + 3 /\ ByteAt(u.ser, y - 1) = "@"
  BY <1>1, <1>2, <1>3 DEF CredentialsClosed
<1>5. CASE x = u.scheme_end + 3
  <2>1. PasswordEnd(u) = y  BY <1>5 DEF PasswordEnd
  <2>3. x <= u.scheme_end + 3
    <3> DEFINE a == u.scheme_end + 3
    <3>1. x = a  BY <1>5
    <3> HIDE DEF x, a
    <3>2. x <= a  BY <1>1, <3>1
    <3> QED  BY <3>2 DEF a
  <2> HIDE DEF x, y
  <2>2. x <= y  BY <1>1, <1>4
  <2> QED  BY <1>1, <2>1, <2>2, <2>3 DEF x, y
<1>6. CASE x # u.scheme_end + 3
  <2>1. PasswordEnd(u) = y - 1  BY <1>6 DEF PasswordEnd
  <2>3. x > u.scheme_end + 3
    <3> DEFINE a == u.scheme_end + 3
    <3>1. a <= x /\ a \in Nat  BY CredentialsPlace, GoodFacts
    <3>2. x # a  BY <1>6
    <3> HIDE DEF x, a
    <3>3. x > a  BY <1>1, <3>1, <3>2
    <3> QED  BY <3>3 DEF a
  <2> HIDE DEF x, y
  <2>2. y - 1 \in Nat /\ x <= y - 1 /\ y - 1 <= y /\ (y - 1) + 1 = y
    BY <1>1, <1>4
  <2> QED  BY <1>4, <2>1, <2>2, <2>3 DEF x, y
<1> QED  BY <1>5, <1>6

\* set_password(None)
LEMMA WithoutPasswordGood ==
    ASSUME NEW u, Good(u), TakesCredentials(u),
           HasByte(u.ser, u.username_end, ":")
    PROVE  Good(WithoutPassword(u))
<1> DEFINE a   == u.username_end
           b   == PasswordEnd(u)
           y   == u.host_start
           mid == <<>>
           d   == a + Len(mid) - b
           v   == WithoutPassword(u)
<1>1. /\ a \in Nat /\ y \in Nat
      /\ has_authority(u) /\ u.scheme_end + 3 <= a
      /\ y < Len(u.ser) /\ Len(u.ser) \in Nat
  BY CredentialsPlace
<1>2. /\ b \in Nat /\ a <= b /\ b <= y
      /\ \/ b = y /\ a <= u.scheme_end + 3
         \/ b + 1 = y /\ a > u.scheme_end + 3 /\ ByteAt(u.ser, b) = "@"
  BY PasswordDrained
<1>3. mid \in Text /\ NoSpace(mid) /\ Len(mid) = 0
  BY EmptySeq DEF Text, NoSpace
<1>4. v = [ShiftHost(u, d) EXCEPT !.ser = Splice(u.ser, a, b, mid)]
  <2>1. Len(mid) = 0  BY <1>3
  <2> HIDE DEF b
  <2>2. a - b = a + 0 - b  BY <1>1, <1>2
  <2>3. a - b = d  BY <2>1, <2>2
  <2> QED  BY <2>3 DEF WithoutPassword, b
<1> HIDE DEF mid, v, b
<1>5. d = a + Len(mid) - b  OBVIOUS
<1>6. d = a - b  BY <1>1, <1>2, <1>3
<1>7. b <= u.host_start  BY <1>2
<1>8. /\ Edit(u, v, a, b, mid, d)
      /\ HostMoved(u, v, d, Splice(u.ser, a, b, mid), u.scheme_end, a)
  BY <1>1, <1>2, <1>3, <1>4, <1>7, PasswordMoved
<1>9. /\ v.username_end = a /\ v.host_start = y + d
      /\ v.scheme_end = u.scheme_end
  BY <1>8 DEF HostMoved
<1>10. \A i \in (b + 1)..Len(u.ser) : v.ser[i + d] = u.ser[i]
  BY <1>8, EditFacts
<1> HIDE DEF a, d, y
<1>11. CredentialsClosed(v) /\ a <= y + d
  <2>1. CASE b = y /\ a <= u.scheme_end + 3
    <3>1. y + d = a  BY <1>1, <1>2, <1>6, <2>1
    <3> QED  BY <1>1, <1>9, <2>1, <3>1 DEF CredentialsClosed
  <2>2. CASE b + 1 = y /\ a > u.scheme_end + 3 /\ ByteAt(u.ser, b) = "@"
    <3>1. /\ y + d = a + 1 /\ a <= a + 1
          /\ b + 1 \in (b + 1)..Len(u.ser) /\ (b + 1) + d = a + 1
      BY <1>1, <1>2, <1>6, <2>2
    <3>2. v.ser[(b + 1) + d] = u.ser[b + 1]  BY <1>10, <3>1
    <3>3. ByteAt(v.ser, a) = "@"  BY <2>2, <3>1, <3>2 DEF ByteAt
    <3> QED  BY <1>9, <2>2, <3>1, <3>3 DEF CredentialsClosed
  <2> QED  BY <1>2, <2>1, <2>2
<1>12. a <= u.host_start + d  BY <1>11 DEF y
<1>13. Good(v)
  BY <1>1, <1>3, <1>7, <1>8, <1>11, <1>12, CredentialsEdited
<1> QED  BY <1>13 DEF v

\* A host set_host and set_ip_host may write.
WritableHost(host) ==
    /\ host.text \in Text /\ NoSpace(host.text)
    /\ host.kind \in HostKind
    /\ IsAddress(host.kind) => host.text # <<>>
    /\ host.text # <<>> => host.text[1] \notin {":", "@"}

\* v is u with another host, written behind j bytes of slashes.
HostReplaced(u, v, d, j, kind) ==
    /\ v.scheme_end = u.scheme_end /\ v.username_end = u.username_end + j
    /\ v.host_start = u.host_start + j /\ v.host_end = u.host_end + d
    /\ v.host = kind /\ v.port = u.port

Behind(mid, slashes, text) == mid = slashes \o text

\* Replacing the host is an edit.
LEMMA HostEdit ==
    ASSUME NEW u, Good(u), NEW mid \in Text, NEW j \in Nat,
           NEW kind \in HostKind, NEW d, NEW v,
           d = u.host_start + Len(mid) - u.host_end,
           v = [ShiftPath(u, d) EXCEPT
                   !.ser          = Splice(u.ser, u.host_start, u.host_end, mid),
                   !.username_end = @ + j,
                   !.host_start   = @ + j,
                   !.host_end     = @ + d,
                   !.host         = kind]
    PROVE  /\ Edit(u, v, u.host_start, u.host_end, mid, d)
           /\ HostReplaced(u, v, d, j, kind)
<1> DEFINE a == u.host_start
           b == u.host_end
           r == Splice(u.ser, a, b, mid)
           w == [u EXCEPT !.path_start = u.path_start + d,
                          !.query_start = ShiftOpt(u.query_start, d),
                          !.fragment_start = ShiftOpt(u.fragment_start, d)]
<1>1. /\ a \in Nat /\ b \in Nat /\ a <= b /\ b <= u.path_start
      /\ u.username_end \in Nat
  BY GoodFacts DEF HeadCut
<1>2. /\ d \in Int /\ r \in Text
      /\ u.path_start + d \in Nat
      /\ ShiftOpt(u.query_start, d) \in OptOffset
      /\ ShiftOpt(u.fragment_start, d) \in OptOffset
  BY <1>1, MovedOffsets
<1>3. b + d \in Nat /\ a + j \in Nat /\ u.username_end + j \in Nat
  <2>1. Len(mid) \in Nat  BY LenProperties DEF Text
  <2> QED  BY <1>1, <2>1
<1>4. ShiftPath(u, d) = w  BY DEF ShiftPath, ShiftAfterPath, Good, UrlSet
<1>5. /\ w \in UrlSet
      /\ w.path_start = u.path_start + d
      /\ w.query_start = ShiftOpt(u.query_start, d)
      /\ w.fragment_start = ShiftOpt(u.fragment_start, d)
      /\ w.scheme_end = u.scheme_end /\ w.username_end = u.username_end
      /\ w.host_start = a /\ w.host_end = b /\ w.port = u.port
  BY <1>2 DEF Good, UrlSet
<1>6. v = [w EXCEPT !.ser = r, !.username_end = @ + j, !.host_start = @ + j,
                    !.host_end = @ + d, !.host = kind]
  BY <1>4
<1> HIDE DEF w, r
<1>7. v = [w EXCEPT !.ser = r, !.username_end = u.username_end + j,
                    !.host_start = a + j, !.host_end = b + d, !.host = kind]
  BY <1>5, <1>6 DEF UrlSet
<1>8. v \in UrlSet
  BY <1>2, <1>3, <1>5, <1>7 DEF UrlSet
<1>9. HostReplaced(u, v, d, j, kind)
  BY <1>5, <1>7 DEF UrlSet, HostReplaced
<1>10. /\ v.ser = r /\ v.path_start = u.path_start + d
       /\ v.query_start = ShiftOpt(u.query_start, d)
       /\ v.fragment_start = ShiftOpt(u.fragment_start, d)
  BY <1>5, <1>7 DEF UrlSet
<1> QED  BY <1>1, <1>8, <1>9, <1>10 DEF Edit, r

\* Where the new host stands, and that it may stand there.
LEMMA HostStands ==
    ASSUME NEW u, Good(u), NEW host, WritableHost(host),
           NEW slashes \in Text, NEW v, NEW d, NEW mid, NEW j,
           j = Len(slashes), Behind(mid, slashes, host.text),
           Edit(u, v, u.host_start, u.host_end, mid, d),
           HostReplaced(u, v, d, j, host.kind)
    PROVE  /\ HostWritten(v)
           /\ PortWritten(v)
           /\ v.host_start <= v.host_end /\ v.host_end <= v.path_start
           /\ \A i \in 1..j : v.ser[u.host_start + i] = slashes[i]
<1> DEFINE a == u.host_start
           b == u.host_end
           p == u.path_start
           t == host.text
           k == Len(t)
<1>1. /\ a \in Nat /\ b \in Nat /\ p \in Nat /\ a <= b /\ b <= p
      /\ t \in Text /\ k \in Nat /\ j \in Nat
      /\ (t # <<>> <=> k > 0)
  BY GoodFacts, LenProperties, EmptySeq DEF HeadCut, WritableHost, Text
<1>2. /\ mid \in Text /\ Len(mid) = j + k
      /\ \A i \in 1..j : mid[i] = slashes[i]
      /\ \A i \in 1..k : mid[j + i] = t[i]
  BY <1>1, ConcatFacts DEF Behind
<1>3. d = a + Len(mid) - b /\ v.path_start = p + d
  BY DEF Edit
<1>4. v.host_start = a + j /\ v.host_end = b + d /\ v.host = host.kind
      /\ v.port = u.port
  BY DEF HostReplaced
<1>5. WritableHost(host)  OBVIOUS
<1> DEFINE r == v.ser
<1>12. Edit(u, v, a, b, mid, d)  OBVIOUS
<1> HIDE DEF a, b, p, t, k
<1>11. \A i \in 1..Len(mid) : r[a + i] = mid[i]
  BY <1>12, EditFacts
<1> HIDE DEF r
<1>6. /\ b + d = (a + j) + k /\ a + j <= b + d /\ b + d <= p + d
  <2> DEFINE l == Len(mid)
  <2>1. l = j + k /\ d = a + l - b  BY <1>2, <1>3
  <2> HIDE DEF l
  <2>2. d = a + (j + k) - b  BY <2>1
  <2> QED  BY <1>1, <2>2
<1>7. \A i \in 1..j : r[a + i] = slashes[i]
  <2> SUFFICES ASSUME NEW i \in 1..j PROVE r[a + i] = slashes[i]
    OBVIOUS
  <2>1. i \in 1..Len(mid)  BY <1>1, <1>2
  <2>2. r[a + i] = mid[i]  BY <1>11, <2>1
  <2>3. mid[i] = slashes[i]  BY <1>2
  <2> QED  BY <2>2, <2>3
<1>8. a + j < b + d => t # <<>> /\ r[(a + j) + 1] = t[1]
  <2> SUFFICES ASSUME a + j < b + d PROVE t # <<>> /\ r[(a + j) + 1] = t[1]
    OBVIOUS
  <2> DEFINE e == b + d
  <2>0. a + j < e /\ e = (a + j) + k  BY <1>6
  <2> HIDE DEF e
  <2>1. k > 0  BY <1>1, <2>0
  <2>2. /\ j + 1 \in 1..Len(mid) /\ 1 \in 1..k /\ a + (j + 1) = (a + j) + 1
    BY <1>1, <1>2, <2>1
  <2>3. r[a + (j + 1)] = mid[j + 1]  BY <1>11, <2>2
  <2> QED  BY <1>1, <1>2, <2>1, <2>2, <2>3
<1>9. HostWritten(v)
  <2>1. v.host \in {"Ipv4", "Ipv6"} => v.host_start < v.host_end
    <3>1. t # <<>> => a + j < b + d  BY <1>1, <1>6
    <3> QED  BY <1>4, <1>5, <3>1 DEF WritableHost, IsAddress, t
  <2>2. v.host_start < v.host_end => ByteAt(v.ser, v.host_start) \notin {":", "@"}
    BY <1>4, <1>5, <1>8 DEF WritableHost, t, ByteAt, r
  <2> QED  BY <2>1, <2>2 DEF HostWritten
<1>10. PortWritten(v)
  <2>1. b <= u.host_end  BY <1>1 DEF b
  <2> QED  BY <1>4, <2>1, EditKeepsPort DEF b
<1> QED  BY <1>3, <1>4, <1>6, <1>7, <1>9, <1>10 DEF a, p, r

\* A host that is replaced behind "//".
LEMMA HostReplacedGood ==
    ASSUME NEW u, Good(u), NEW host, WritableHost(host),
           has_authority(u), u.scheme_end + 3 <= u.username_end,
           NEW v, NEW d, NEW mid \in Text, Behind(mid, <<>>, host.text),
           Edit(u, v, u.host_start, u.host_end, mid, d),
           HostReplaced(u, v, d, 0, host.kind), NoSpace(mid)
    PROVE  Good(v)
<1> DEFINE n == u.scheme_end
           x == u.username_end
           a == u.host_start
           b == u.host_end
           none == <<>>
<1>1. /\ n \in Nat /\ x \in Nat /\ a \in Nat /\ x <= a /\ n + 3 <= x
  BY GoodFacts DEF HeadCut
<1>2. none \in Text /\ Len(none) = 0  BY EmptySeq DEF Text
<1>3. /\ HostWritten(v) /\ PortWritten(v)
      /\ v.host_start <= v.host_end /\ v.host_end <= v.path_start
  <2> DEFINE j == 0
  <2>1. j = Len(none) /\ Behind(mid, none, host.text)
        /\ HostReplaced(u, v, d, j, host.kind)
    BY <1>2
  <2> HIDE DEF none, j
  <2> QED  BY <1>2, <2>1, HostStands
<1>4. v.scheme_end = n /\ v.username_end = x /\ v.host_start = a
  BY <1>1 DEF HostReplaced
<1>5. Edit(u, v, a, b, mid, d)  OBVIOUS
<1>6. CredentialsClosed(v)
  <2>1. u.host_start <= a  BY <1>1
  <2> QED  BY <1>4, <1>5, <2>1, EditKeepsCredentials
<1>7. n < a /\ n + 3 <= a /\ n < x /\ x >= n + 3
  <2> HIDE DEF n, x, a
  <2> QED  BY <1>1
<1>8. Scheme(v) = Scheme(u) /\ ByteAt(v.ser, v.scheme_end) = ":"
  BY <1>4, <1>5, <1>7, EditKeepsScheme
<1>9. has_authority(v)  BY <1>4, <1>5, <1>7, EditKeepsAuthority
<1>10. AuthorityMarked(v)  BY <1>4, <1>7, <1>9 DEF AuthorityMarked
<1>11. SpecialHasAuthority(v)
  BY <1>4, <1>7, <1>8, SchemeKeepsAuthority
<1>12. HeadOrder(v)  BY <1>1, <1>3, <1>4, <1>7 DEF HeadOrder
<1> QED
  BY <1>3, <1>5, <1>6, <1>8, <1>10, <1>11, <1>12, Edited

\* A host written where there was no authority: "//" comes with it.
LEMMA HostInsertedGood ==
    ASSUME NEW u, Good(u), NEW host, WritableHost(host),
           u.username_end = u.scheme_end + 1, u.host_start = u.scheme_end + 1,
           NEW v, NEW d, NEW mid \in Text, Behind(mid, <<"/", "/">>, host.text),
           Edit(u, v, u.host_start, u.host_end, mid, d),
           HostReplaced(u, v, d, 2, host.kind), NoSpace(mid)
    PROVE  Good(v)
<1> DEFINE n == u.scheme_end
           a == u.host_start
           slashes == <<"/", "/">>
<1>1. n \in Nat /\ a = n + 1 /\ u.username_end = n + 1
      /\ ByteAt(u.ser, n) = ":"
  BY GoodFacts DEF HeadCut
<1>2. /\ slashes \in Text /\ Len(slashes) = 2
      /\ slashes[1] = "/" /\ slashes[2] = "/"
  <2>1. "/" \in Lexeme  BY DEF Lexeme, Mark
  <2> QED  BY <2>1 DEF Text
<1>3. /\ HostWritten(v) /\ PortWritten(v)
      /\ v.host_start <= v.host_end /\ v.host_end <= v.path_start
  <2> DEFINE j == 2
  <2>1. j = Len(slashes) /\ Behind(mid, slashes, host.text)
        /\ HostReplaced(u, v, d, j, host.kind)
    BY <1>2
  <2> HIDE DEF slashes, j
  <2>2. /\ HostWritten(v) /\ PortWritten(v)
        /\ v.host_start <= v.host_end /\ v.host_end <= v.path_start
    BY <1>2, <2>1, HostStands
  <2> QED  BY <2>2
<1> DEFINE r == v.ser
<1>13. /\ \A i \in 1..a : r[i] = u.ser[i]
       /\ r[a + 1] = "/" /\ r[a + 2] = "/"
  <2> DEFINE t == host.text
  <2>1. Edit(u, v, a, u.host_end, mid, d) /\ a \in Nat  BY <1>1
  <2>2. t \in Text /\ Len(t) \in Nat
    BY LenProperties DEF WritableHost, Text
  <2>3. mid = slashes \o t  BY DEF Behind
  <2> HIDE DEF a, t, slashes
  <2>4. \A i \in 1..a : v.ser[i] = u.ser[i]
    BY <2>1, EditFacts
  <2>7. \A i \in 1..Len(mid) : v.ser[a + i] = mid[i]
    BY <2>1, EditFacts
  <2>5. /\ Len(mid) = Len(slashes) + Len(t)
        /\ \A i \in 1..Len(slashes) : mid[i] = slashes[i]
    BY <1>2, <2>2, <2>3, ConcatFacts
  <2>6. /\ 1 \in 1..Len(mid) /\ 2 \in 1..Len(mid)
        /\ 1 \in 1..Len(slashes) /\ 2 \in 1..Len(slashes)
    BY <1>2, <2>2, <2>5
  <2> QED  BY <1>2, <2>4, <2>5, <2>6, <2>7
<1>4. /\ Len(r) \in Nat /\ v.path_start <= Len(r) /\ v.path_start \in Nat
      /\ v.host_end \in Nat /\ v.host_start \in Nat
  <2>1. v \in UrlSet  BY DEF Edit
  <2> QED  BY <2>1, EditFacts DEF UrlSet
<1>5. v.scheme_end = n /\ v.username_end = n + 3 /\ v.host_start = n + 3
  <2>1. (n + 1) + 2 = n + 3  BY <1>1
  <2> QED  BY <1>1, <2>1 DEF HostReplaced
<1>6. /\ n + 1 \in 1..a
      /\ a + 1 = (n + 1) + 1 /\ a + 2 = (n + 2) + 1
  BY <1>1
<1>7. ByteAt(r, n) = ":" /\ ByteAt(r, n + 1) = "/" /\ ByteAt(r, n + 2) = "/"
  <2>1. r[n + 1] = u.ser[n + 1]  BY <1>6, <1>13
  <2>2. r[a + 1] = "/" /\ r[a + 2] = "/"  BY <1>13
  <2> QED  BY <1>1, <1>6, <2>1, <2>2 DEF ByteAt
<1>8. n < Len(r) /\ n + 1 < Len(r) /\ n + 2 < Len(r) /\ n < n + 3
      /\ n + 3 >= n + 3
  <2> DEFINE y == v.host_start
             z == v.host_end
             p == v.path_start
  <2>1. y = n + 3 /\ y <= z /\ z <= p /\ p <= Len(r) /\ z \in Nat /\ p \in Nat
    BY <1>3, <1>4, <1>5
  <2> HIDE DEF y, z, p, r, n
  <2> QED  BY <1>1, <1>4, <2>1
<1>9. has_authority(v)
  <2> HIDE DEF n
  <2> QED
    BY <1>5, <1>7, <1>8 DEF has_authority, StartsWithAuthority, HasByte
<1>10. AuthorityMarked(v) /\ SpecialHasAuthority(v) /\ CredentialsClosed(v)
  BY <1>5, <1>8, <1>9
  DEF AuthorityMarked, SpecialHasAuthority, CredentialsClosed
<1>11. HeadOrder(v)
  BY <1>3, <1>5, <1>8 DEF HeadOrder
<1>12. ByteAt(v.ser, v.scheme_end) = ":"  BY <1>5, <1>7
<1> QED  BY <1>3, <1>10, <1>11, <1>12, Edited

\* The "://" of a value with an authority stands before its host.
LEMMA AuthorityBeforeHost ==
    ASSUME NEW u, Good(u)
    PROVE  IF StartsWithAuthority(Take(u.ser, u.host_start), u.scheme_end)
           THEN has_authority(u) /\ u.scheme_end + 3 <= u.username_end
           ELSE /\ u.username_end = u.scheme_end + 1
                /\ u.host_start = u.scheme_end + 1
                /\ u.host_end = u.scheme_end + 1
<1> DEFINE s == u.ser
           n == u.scheme_end
           x == u.username_end
           a == u.host_start
           t == Take(s, a)
<1>1. /\ n \in Nat /\ x \in Nat /\ a \in Nat /\ x <= a /\ a <= Len(s)
      /\ AuthorityMarked(u) /\ s \in Text /\ Len(s) \in Nat
  <2> DEFINE z == u.host_end
             p == u.path_start
  <2>1. /\ n \in Nat /\ x \in Nat /\ a \in Nat /\ z \in Nat /\ p \in Nat
        /\ x <= a /\ a <= z /\ z <= p /\ p <= Len(s)
        /\ AuthorityMarked(u) /\ s \in Text /\ Len(s) \in Nat
    BY GoodFacts DEF HeadCut, AuthorityIntact
  <2> HIDE DEF n, x, a, z, p, s
  <2> QED  BY <2>1
<1>2. /\ Len(t) = a
      /\ \A i \in 1..a : t[i] = s[i]
  BY <1>1, TakeFacts
<1> HIDE DEF t
\* The same bytes stand in both.
<1>3. ASSUME NEW i \in Nat, NEW c
      PROVE  HasByte(t, i, c) <=> i < a /\ HasByte(s, i, c)
  <2>1. i < a => i + 1 \in 1..a /\ i < Len(s)
    <3> HIDE DEF a, s
    <3> QED  BY <1>1
  <2> QED  BY <1>2, <2>1 DEF HasByte, ByteAt
<1>4. CASE x = n + 1 /\ a = x /\ u.host_end = x
  <2>1. ~HasByte(t, n + 1, "/")
    <3>1. n + 1 \in Nat /\ ~(n + 1 < a)  BY <1>1, <1>4
    <3> QED  BY <1>3, <3>1
  <2> QED  BY <1>4, <2>1 DEF StartsWithAuthority, t
<1>5. CASE x >= n + 3 /\ has_authority(u)
  <2>1. /\ n \in Nat /\ n + 1 \in Nat /\ n + 2 \in Nat
        /\ n < a /\ n + 1 < a /\ n + 2 < a /\ n + 3 <= x
    <3> HIDE DEF n, x, a
    <3> QED  BY <1>1, <1>5
  <2>2. HasByte(s, n, ":") /\ HasByte(s, n + 1, "/") /\ HasByte(s, n + 2, "/")
    BY <1>5 DEF has_authority, StartsWithAuthority
  <2>3. HasByte(t, n, ":") /\ HasByte(t, n + 1, "/") /\ HasByte(t, n + 2, "/")
    BY <1>3, <2>1, <2>2
  <2> QED  BY <1>5, <2>1, <2>3 DEF StartsWithAuthority, t
<1> QED  BY <1>1, <1>4, <1>5 DEF AuthorityMarked

\* set_host(Some(host)) and set_ip_host
LEMMA WithHostGood ==
    ASSUME NEW u, Good(u), NEW host, WritableHost(host)
    PROVE  Good(WithHost(u, host))
<1> DEFINE marked  == StartsWithAuthority(Take(u.ser, u.host_start),
                                          u.scheme_end)
           slashes == IF marked THEN <<>> ELSE <<"/", "/">>
           j       == Len(slashes)
           mid     == slashes \o host.text
           d       == u.host_start + Len(mid) - u.host_end
           v       == WithHost(u, host)
<1>1. /\ slashes \in Text /\ NoSpace(slashes) /\ j \in Nat
  <2>1. "/" \in Lexeme  BY DEF Lexeme, Mark
  <2>2. <<>> \in Text /\ <<"/", "/">> \in Text /\ Len(<<"/", "/">>) = 2
        /\ Len(<<>>) = 0
    BY <2>1, EmptySeq DEF Text
  <2>3. NoSpace(<<>>) /\ NoSpace(<<"/", "/">>)
    BY <2>2 DEF NoSpace
  <2> HIDE DEF marked
  <2>4. CASE marked  BY <2>2, <2>3, <2>4
  <2>5. CASE ~marked  BY <2>2, <2>3, <2>5
  <2> QED  BY <2>4, <2>5
<1>2. v = [ShiftPath(u, d) EXCEPT
              !.ser          = Splice(u.ser, u.host_start, u.host_end, mid),
              !.username_end = @ + j,
              !.host_start   = @ + j,
              !.host_end     = @ + d,
              !.host         = host.kind]
  BY DEF WithHost
<1>3. Behind(mid, slashes, host.text)  BY DEF Behind
<1> DEFINE t == host.text
<1>4. t \in Text /\ Len(t) \in Nat /\ NoSpace(t) /\ host.kind \in HostKind
  BY LenProperties DEF WritableHost, Text
<1> HIDE DEF slashes, t
<1>5. mid \in Text /\ NoSpace(mid)
  <2>1. /\ mid \in Text /\ Len(mid) = Len(slashes) + Len(t)
        /\ \A i \in 1..Len(slashes) : mid[i] = slashes[i]
        /\ \A i \in 1..Len(t) : mid[Len(slashes) + i] = t[i]
    BY <1>1, <1>4, ConcatFacts DEF t
  <2> HIDE DEF mid
  <2> SUFFICES ASSUME NEW i \in 1..Len(mid) PROVE mid[i] # "SP"
    BY <2>1 DEF NoSpace
  <2>2. CASE i <= Len(slashes)
    <3>1. i \in 1..Len(slashes)  BY <1>1, <2>2
    <3> QED  BY <1>1, <2>1, <3>1 DEF NoSpace
  <2>3. CASE ~(i <= Len(slashes))
    <3>1. i - Len(slashes) \in 1..Len(t) /\ Len(slashes) + (i - Len(slashes)) = i
      BY <1>1, <1>4, <2>1, <2>3
    <3> QED  BY <1>4, <2>1, <3>1 DEF NoSpace
  <2> QED  BY <2>2, <2>3
<1>6. d = u.host_start + Len(mid) - u.host_end  OBVIOUS
<1> HIDE DEF mid, v, d, j
<1>7. /\ Edit(u, v, u.host_start, u.host_end, mid, d)
      /\ HostReplaced(u, v, d, j, host.kind)
  BY <1>1, <1>2, <1>4, <1>5, <1>6, HostEdit
<1>8. CASE marked
  <2>1. has_authority(u) /\ u.scheme_end + 3 <= u.username_end
    BY <1>8, AuthorityBeforeHost
  <2>2. slashes = <<>> /\ j = 0
    <3>1. slashes = <<>>  BY <1>8 DEF slashes
    <3> QED  BY <3>1, EmptySeq DEF j
  <2>3. Behind(mid, <<>>, host.text) /\ HostReplaced(u, v, d, 0, host.kind)
    BY <1>3, <1>7, <2>2
  <2>4. Good(v)
    BY <1>5, <1>7, <2>1, <2>3, HostReplacedGood
  <2> QED  BY <2>4 DEF v
<1>9. CASE ~marked
  <2>1. u.username_end = u.scheme_end + 1 /\ u.host_start = u.scheme_end + 1
    BY <1>9, AuthorityBeforeHost
  <2>2. slashes = <<"/", "/">> /\ j = 2
    <3>1. slashes = <<"/", "/">>  BY <1>9 DEF slashes
    <3> QED  BY <3>1 DEF j
  <2>3. Behind(mid, <<"/", "/">>, host.text)
        /\ HostReplaced(u, v, d, 2, host.kind)
    BY <1>3, <1>7, <2>2
  <2>4. Good(v)
    BY <1>5, <1>7, <2>1, <2>3, HostInsertedGood
  <2> QED  BY <2>4 DEF v
<1> QED  BY <1>8, <1>9

\* A path is written when there is none, neither a query nor a fragment.
LEMMA SlashAppended ==
    ASSUME NEW u, Good(u), Len(u.ser) = u.path_start
    PROVE  LET w == [u EXCEPT !.ser = @ \o <<"/">>]
           IN  Good(w) /\ Scheme(w) = Scheme(u)
<1> DEFINE s     == u.ser
           p     == u.path_start
           slash == <<"/">>
           r     == s \o slash
           w     == [u EXCEPT !.ser = r]
<1>1. /\ s \in Text /\ Len(s) \in Nat /\ p \in Nat /\ Len(s) = p
      /\ u.scheme_end \in Nat /\ u.scheme_end <= p
      /\ TailCut(u) /\ u.query_start \in OptOffset
      /\ u.fragment_start \in OptOffset
  <2> DEFINE n == u.scheme_end
             x == u.username_end
             y == u.host_start
             z == u.host_end
  <2>1. /\ n \in Nat /\ x \in Nat /\ y \in Nat /\ z \in Nat /\ p \in Nat
        /\ n < x /\ x <= y /\ y <= z /\ z <= p
    BY GoodFacts DEF HeadCut
  <2>2. n <= p
    <3> HIDE DEF n, x, y, z, p
    <3> QED  BY <2>1
  <2> QED  BY <2>2, GoodFacts
<1>2. slash \in Text /\ Len(slash) = 1
  <2>1. "/" \in Lexeme  BY DEF Lexeme, Mark
  <2> QED  BY <2>1 DEF Text
<1>3. u.query_start = None /\ u.fragment_start = None
  <2>1. ASSUME NEW q \in Nat, p <= q, q < Len(s) PROVE FALSE
    <3> HIDE DEF p, s
    <3> QED  BY <1>1, <2>1
  <2> QED  BY <1>1, <2>1 DEF TailCut, OptOffset, HasByte
<1> HIDE DEF slash
<1>4. /\ r \in Text /\ Len(r) = Len(s) + Len(slash)
      /\ \A i \in 1..Len(s) : r[i] = s[i]
  BY <1>1, <1>2, ConcatFacts
<1> HIDE DEF r
<1>5. /\ w.query_start = None /\ w.fragment_start = None
      /\ w = [u EXCEPT !.ser = r, !.query_start = w.query_start,
                       !.fragment_start = w.fragment_start]
      /\ w.ser = r /\ w.scheme_end = u.scheme_end
  BY <1>3 DEF Good, UrlSet
<1> HIDE DEF w
<1>6. TailCut(w)  BY <1>5 DEF TailCut
<1>7. p <= Len(r) /\ \A i \in 1..p : r[i] = s[i]
  <2> HIDE DEF p, s
  <2> QED  BY <1>1, <1>2, <1>4
<1>8. SameFront(u, w, r)
  BY <1>4, <1>5, <1>7 DEF SameFront, OptOffset
<1>9. Good(w)  BY <1>6, <1>8, TailEdited
<1>10. Scheme(w) = Scheme(u)
  <2> DEFINE n == u.scheme_end
  <2>1. n \in Nat /\ n <= p  BY <1>1
  <2> HIDE DEF n, p, s
  <2>2. n <= Len(r) /\ n <= Len(s) /\ \A i \in 1..n : r[i] = s[i]
    <3>1. n <= Len(s) /\ n <= Len(r)  BY <1>1, <1>2, <1>4, <2>1
    <3>2. \A i \in 1..n : i \in 1..Len(s)  BY <1>1, <2>1
    <3> QED  BY <1>4, <3>1, <3>2
  <2>3. Take(r, n) = Take(s, n)  BY <1>1, <1>4, <2>1, <2>2, TakesEqual
  <2> QED  BY <1>5, <2>3 DEF Scheme, n, s
<1> QED  BY <1>9, <1>10 DEF w, r, s, slash

\* Nothing between the start of the authority and the path is left.
LEMMA AuthorityDropped ==
    ASSUME NEW u, Good(u), u.host \notin {"Ipv4", "Ipv6"},
           NEW start, \/ start = u.scheme_end + 1 /\ ~IsSpecial(u)
                      \/ start = u.scheme_end + 3 /\ IsSpecial(u)
    PROVE  Good(WithoutAuthority(u, start))
<1> DEFINE v == WithoutAuthority(u, start)
           n == u.scheme_end
           p == u.path_start
           mid == <<>>
           d == start - p
           r == Splice(u.ser, start, p, mid)
           w == [u EXCEPT !.query_start = ShiftOpt(u.query_start, d),
                          !.fragment_start = ShiftOpt(u.fragment_start, d)]
<1>1. n \in Nat /\ p \in Nat /\ AuthorityIntact(u)  BY GoodFacts
<1>2. start \in Nat /\ n < start /\ start <= p
  <2> DEFINE x == u.username_end
             y == u.host_start
             z == u.host_end
  <2>1. /\ n \in Nat /\ x \in Nat /\ y \in Nat /\ z \in Nat /\ p \in Nat
        /\ n < x /\ x <= y /\ y <= z /\ z <= p
    BY GoodFacts DEF HeadCut
  <2>2. IsSpecial(u) => x >= n + 3
    BY <1>1 DEF AuthorityIntact, SpecialHasAuthority
  <2>3. start = n + 1 \/ (start = n + 3 /\ IsSpecial(u))  OBVIOUS
  <2> HIDE DEF n, x, y, z, p
  <2> QED  BY <2>1, <2>2, <2>3
<1>3. mid \in Text /\ NoSpace(mid) /\ Len(mid) = 0
  BY EmptySeq DEF Text, NoSpace
<1>4. d = start + Len(mid) - p
  <2> HIDE DEF mid, p
  <2> QED  BY <1>1, <1>2, <1>3
<1>5. /\ d \in Int /\ r \in Text
      /\ ShiftOpt(u.query_start, d) \in OptOffset
      /\ ShiftOpt(u.fragment_start, d) \in OptOffset
  <2>1. p <= u.path_start  BY <1>1
  <2> HIDE DEF mid, d
  <2> QED  BY <1>1, <1>2, <1>3, <1>4, <2>1, MovedOffsets
<1>6. ShiftAfterPath(u, d) = w  BY DEF ShiftAfterPath, Good, UrlSet
<1>7. /\ w \in UrlSet
      /\ w.query_start = ShiftOpt(u.query_start, d)
      /\ w.fragment_start = ShiftOpt(u.fragment_start, d)
      /\ w.scheme_end = n /\ w.host = u.host
  BY <1>5 DEF Good, UrlSet
<1>8. v = [w EXCEPT !.ser = r, !.path_start = start, !.username_end = start,
                    !.host_start = start, !.host_end = start, !.port = None]
  BY <1>6 DEF WithoutAuthority
<1> HIDE DEF w, r, v
<1>9. v \in UrlSet
  BY <1>2, <1>5, <1>7, <1>8 DEF UrlSet
<1>10. /\ v.ser = r /\ v.path_start = start /\ v.username_end = start
       /\ v.host_start = start /\ v.host_end = start /\ v.port = None
       /\ v.scheme_end = n /\ v.host = u.host
       /\ v.query_start = ShiftOpt(u.query_start, d)
       /\ v.fragment_start = ShiftOpt(u.fragment_start, d)
  BY <1>7, <1>8 DEF UrlSet
<1>11. start = p + d /\ p <= u.path_start
  <2> DEFINE e == d
  <2>1. e = start - p  OBVIOUS
  <2> HIDE DEF e
  <2>2. start = p + e
    <3> HIDE DEF p
    <3> QED  BY <1>1, <1>2, <2>1
  <2> QED  BY <1>1, <2>2 DEF e
<1> HIDE DEF d
<1>12. Edit(u, v, start, p, mid, d)
  BY <1>1, <1>2, <1>3, <1>4, <1>9, <1>10, <1>11 DEF Edit, r
<1> HIDE DEF mid
<1>13. Scheme(v) = Scheme(u) /\ ByteAt(v.ser, v.scheme_end) = ":"
  BY <1>2, <1>10, <1>12, EditKeepsScheme
<1>14. IsSpecial(v) = IsSpecial(u)  BY <1>13 DEF IsSpecial, TypeOf
<1>15. AuthorityMarked(v) /\ SpecialHasAuthority(v)
  <2>1. CASE start = n + 1 /\ ~IsSpecial(u)
    BY <1>10, <1>14, <2>1 DEF AuthorityMarked, SpecialHasAuthority
  <2>2. CASE start = n + 3 /\ IsSpecial(u)
    <3>1. ~(u.username_end = n + 1) /\ n + 3 <= start /\ start >= n + 3
      <4> DEFINE x == u.username_end
      <4>1. x >= n + 3 /\ x \in Nat
        BY <1>1, <2>2, GoodFacts DEF AuthorityIntact, SpecialHasAuthority
      <4> HIDE DEF n, x
      <4>2. ~(x = n + 1) /\ n + 3 <= start /\ start >= n + 3
        BY <1>1, <2>2, <4>1
      <4> QED  BY <4>2 DEF x
    <3>2. has_authority(u)
      BY <1>1, <3>1 DEF AuthorityIntact, AuthorityMarked
    <3>3. has_authority(v)
      BY <1>10, <1>12, <3>1, <3>2, EditKeepsAuthority
    <3> QED  BY <1>10, <3>1, <3>3 DEF AuthorityMarked, SpecialHasAuthority
  <2> QED  BY <2>1, <2>2
<1>16. HeadOrder(v)  BY <1>2, <1>10 DEF HeadOrder
<1>17. CredentialsClosed(v) /\ HostWritten(v)
  <2>1. start <= n + 3
    <3>1. start = n + 1 \/ start = n + 3  OBVIOUS
    <3> HIDE DEF n
    <3> QED  BY <1>1, <1>2, <3>1
  <2> QED  BY <1>2, <1>10, <2>1 DEF CredentialsClosed, HostWritten
<1>18. PortWritten(v)
  <2>1. Len(r) \in Nat /\ start <= Len(r) /\ r \in Text
    BY <1>5, <1>10, <1>12, EditFacts
  <2>2. Slice(r, start, start) \in Seq(Lexeme) /\ Len(Slice(r, start, start)) = 0
    <3>1. Len(Slice(r, start, start)) = start - start
          /\ Slice(r, start, start) \in Text
      BY <1>2, <2>1, SliceFacts
    <3> QED  BY <1>2, <3>1 DEF Text
  <2>3. Slice(r, start, start) = <<>>  BY <2>2, EmptySeq
  <2> QED  BY <1>10, <2>3 DEF PortWritten
<1>19. Good(v)
  BY <1>3, <1>12, <1>13, <1>15, <1>16, <1>17, <1>18, Edited
<1> QED  BY <1>19 DEF v

\* set_host(None)
LEMMA WithoutHostGood ==
    ASSUME NEW u, Good(u), u.host = "Domain", TypeOf(u) # "SpecialNotFile"
    PROVE  Good(WithoutHost(u))
<1> DEFINE start == u.scheme_end + (IF TypeOf(u) = "File" THEN 3 ELSE 1)
           w     == WithSomePath(u)
<1>1. \/ start = u.scheme_end + 1 /\ ~IsSpecial(u)
      \/ start = u.scheme_end + 3 /\ IsSpecial(u)
  <2>1. TypeOf(u) \in {"File", "NotSpecial", "SpecialNotFile"}
    BY DEF TypeOf, SchemeType
  <2> QED  BY <2>1 DEF IsSpecial, IsSpecialType
<1> HIDE DEF start
<1>2. /\ Good(w) /\ IsSpecial(w) = IsSpecial(u)
      /\ w.scheme_end = u.scheme_end /\ w.host = "Domain"
  <2>1. CASE Len(u.ser) = u.path_start
    <3> DEFINE z == [u EXCEPT !.ser = @ \o <<"/">>]
    <3>1. Good(z) /\ Scheme(z) = Scheme(u)  BY <2>1, SlashAppended
    <3>2. z.host = u.host /\ z.scheme_end = u.scheme_end
      BY DEF Good, UrlSet
    <3>3. w = z  BY <2>1 DEF WithSomePath
    <3> HIDE DEF w, z
    <3>4. IsSpecial(z) = IsSpecial(u)  BY <3>1 DEF IsSpecial, TypeOf
    <3> QED  BY <3>1, <3>2, <3>3, <3>4
  <2>2. CASE Len(u.ser) # u.path_start
    <3>1. w = u  BY <2>2 DEF WithSomePath
    <3> QED  BY <3>1
  <2> QED  BY <2>1, <2>2
<1> HIDE DEF w
<1>3. Good(WithoutAuthority(w, start))
  <2>1. w.host \notin {"Ipv4", "Ipv6"}  BY <1>2
  <2>2. \/ start = w.scheme_end + 1 /\ ~IsSpecial(w)
        \/ start = w.scheme_end + 3 /\ IsSpecial(w)
    BY <1>1, <1>2
  <2> QED  BY <1>2, <2>1, <2>2, AuthorityDropped
<1> QED  BY <1>3 DEF WithoutHost, w, start
=============================================================================
