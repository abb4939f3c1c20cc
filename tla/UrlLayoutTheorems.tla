-------------------------- MODULE UrlLayoutTheorems --------------------------
(****************************************************************************)
(* What the string slices of UrlRecord return, and what an edit of the      *)
(* serialization does to the layout.  An edit replaces s[a..b] by mid;      *)
(* offsets behind it move by the change of length d.  Each lemma says which *)
(* part of the layout such an edit keeps.                                   *)
(****************************************************************************)
EXTENDS UrlRecord, SequenceTheorems, TLAPS

(****************************************************************************)
(* Slices and splices: lengths, elements, and what lies behind a splice.    *)
(****************************************************************************)
\* s[..n] has n elements, those of s.
LEMMA TakeFacts ==
    ASSUME NEW s \in Text, NEW n \in Nat, n <= Len(s)
    PROVE  /\ Take(s, n) \in Text
           /\ Len(Take(s, n)) = n
           /\ \A i \in 1..n : Take(s, n)[i] = s[i]
<1>1. Len(s) \in Nat /\ \A i \in 1..n : s[i] \in Lexeme
  BY LenProperties, ElementOfSeq DEF Text
<1>2. /\ SubSeq(s, 1, n) \in Seq(Lexeme)
      /\ Len(SubSeq(s, 1, n)) = IF 1 <= n THEN n - 1 + 1 ELSE 0
      /\ \A i \in 1..n - 1 + 1 : SubSeq(s, 1, n)[i] = s[1 + i - 1]
  <2>1. 1 \in Int /\ n \in Int  OBVIOUS
  <2> QED  BY <1>1, <2>1, SubSeqProperties
<1> QED  BY <1>2 DEF Take, Text

\* s[n..] has the other elements, n places further down.
LEMMA DropFacts ==
    ASSUME NEW s \in Text, NEW n \in Nat, n <= Len(s)
    PROVE  /\ Drop(s, n) \in Text
           /\ Len(Drop(s, n)) = Len(s) - n
           /\ \A i \in 1..(Len(s) - n) : Drop(s, n)[i] = s[n + i]
<1>1. Len(s) \in Nat /\ \A i \in (n + 1)..Len(s) : s[i] \in Lexeme
  BY LenProperties, ElementOfSeq DEF Text
<1>2. n + 1 \in Int /\ Len(s) \in Int  BY <1>1
<1>3. /\ SubSeq(s, n + 1, Len(s)) \in Seq(Lexeme)
      /\ Len(SubSeq(s, n + 1, Len(s)))
            = IF n + 1 <= Len(s) THEN Len(s) - (n + 1) + 1 ELSE 0
      /\ \A i \in 1..Len(s) - (n + 1) + 1 :
            SubSeq(s, n + 1, Len(s))[i] = s[n + 1 + i - 1]
  BY <1>1, <1>2, SubSeqProperties
<1> QED  BY <1>1, <1>3 DEF Drop, Text

\* s[a..b] has b - a elements, those of s from a on.
LEMMA SliceFacts ==
    ASSUME NEW s \in Text, NEW a \in Nat, NEW b \in Nat, a <= b, b <= Len(s)
    PROVE  /\ Slice(s, a, b) \in Text
           /\ Len(Slice(s, a, b)) = b - a
           /\ \A i \in 1..(b - a) : Slice(s, a, b)[i] = s[a + i]
<1>1. Len(s) \in Nat /\ \A i \in (a + 1)..b : s[i] \in Lexeme
  BY LenProperties, ElementOfSeq DEF Text
<1>2. /\ SubSeq(s, a + 1, b) \in Seq(Lexeme)
      /\ Len(SubSeq(s, a + 1, b)) = IF a + 1 <= b THEN b - (a + 1) + 1 ELSE 0
      /\ \A i \in 1..b - (a + 1) + 1 : SubSeq(s, a + 1, b)[i] = s[a + 1 + i - 1]
  <2>1. a + 1 \in Int /\ b \in Int  OBVIOUS
  <2> QED  BY <1>1, <2>1, SubSeqProperties
<1> QED  BY <1>2 DEF Slice, Text

\* r[k..m] and s[a..b] are in bounds and have the same elements.
SameElements(r, k, m, s, a, b) ==
    /\ s \in Text /\ a \in Nat /\ b \in Nat /\ a <= b /\ b <= Len(s)
    /\ r \in Text /\ k \in Nat /\ m \in Nat /\ k <= m /\ m <= Len(r)
    /\ m - k = b - a
    /\ \A i \in 1..(b - a) : r[k + i] = s[a + i]

\* Slices with the same elements are equal.
LEMMA SlicesEqual ==
    ASSUME NEW r, NEW k, NEW m, NEW s, NEW a, NEW b,
           SameElements(r, k, m, s, a, b)
    PROVE  Slice(r, k, m) = Slice(s, a, b)
<1>0. /\ s \in Text /\ a \in Nat /\ b \in Nat /\ a <= b /\ b <= Len(s)
      /\ r \in Text /\ k \in Nat /\ m \in Nat /\ k <= m /\ m <= Len(r)
      /\ m - k = b - a
      /\ \A i \in 1..(b - a) : r[k + i] = s[a + i]
  BY DEF SameElements
<1> DEFINE x == Slice(r, k, m)
           y == Slice(s, a, b)
<1>1. /\ x \in Seq(Lexeme) /\ Len(x) = m - k
      /\ \A i \in 1..(m - k) : x[i] = r[k + i]
  BY <1>0, SliceFacts DEF Text
<1>2. /\ y \in Seq(Lexeme) /\ Len(y) = b - a
      /\ \A i \in 1..(b - a) : y[i] = s[a + i]
  BY <1>0, SliceFacts DEF Text
<1> HIDE DEF x, y
<1>3. \A i \in 1..Len(x) : x[i] = y[i]
  BY <1>0, <1>1, <1>2
<1>4. x = y  BY <1>0, <1>1, <1>2, <1>3, SeqEqual
<1> QED  BY <1>4 DEF x, y

\* A prefix is determined by its elements.
LEMMA TakesEqual ==
    ASSUME NEW s \in Text, NEW r \in Text, NEW n \in Nat,
           n <= Len(s), n <= Len(r), \A i \in 1..n : r[i] = s[i]
    PROVE  Take(r, n) = Take(s, n)
<1> DEFINE x == Take(r, n)
           y == Take(s, n)
<1>1. x \in Seq(Lexeme) /\ Len(x) = n /\ \A i \in 1..n : x[i] = r[i]
  BY TakeFacts DEF Text
<1>2. y \in Seq(Lexeme) /\ Len(y) = n /\ \A i \in 1..n : y[i] = s[i]
  BY TakeFacts DEF Text
<1> HIDE DEF x, y
<1>3. \A i \in 1..Len(x) : x[i] = y[i]
  BY <1>1, <1>2
<1>4. x = y  BY <1>1, <1>2, <1>3, SeqEqual
<1> QED  BY <1>4 DEF x, y

\* s \o t, with the elements of both.
LEMMA ConcatFacts ==
    ASSUME NEW s \in Text, NEW t \in Text
    PROVE  /\ s \o t \in Text
           /\ Len(s \o t) = Len(s) + Len(t)
           /\ \A i \in 1..Len(s) : (s \o t)[i] = s[i]
           /\ \A i \in 1..Len(t) : (s \o t)[Len(s) + i] = t[i]
<1>1. Len(s) \in Nat /\ Len(t) \in Nat  BY LenProperties DEF Text
<1>2. /\ s \o t \in Seq(Lexeme)
      /\ Len(s \o t) = Len(s) + Len(t)
      /\ \A i \in 1..(Len(s) + Len(t)) :
            (s \o t)[i] = IF i <= Len(s) THEN s[i] ELSE t[i - Len(s)]
  BY ConcatProperties DEF Text
<1> QED  BY <1>1, <1>2 DEF Text

\* Replacing s[a..b] by mid: what stands before a stays, mid follows, and what
\* stood behind b moves with it.
THEOREM SpliceFacts ==
    ASSUME NEW s \in Text, NEW mid \in Text, NEW a \in Nat, NEW b \in Nat,
           a <= b, b <= Len(s)
    PROVE  /\ Splice(s, a, b, mid) \in Text
           /\ Len(Splice(s, a, b, mid)) = Len(s) + (a + Len(mid) - b)
           /\ \A i \in 1..a : Splice(s, a, b, mid)[i] = s[i]
           /\ \A i \in 1..Len(mid) : Splice(s, a, b, mid)[a + i] = mid[i]
           /\ \A i \in (b + 1)..Len(s) :
                 Splice(s, a, b, mid)[i + (a + Len(mid) - b)] = s[i]
<1> DEFINE left  == Take(s, a)
           right == Drop(s, b)
           front == left \o mid
           r     == front \o right
<1>1. Len(s) \in Nat /\ Len(mid) \in Nat  BY LenProperties DEF Text
<1>2. /\ left \in Text /\ Len(left) = a /\ \A i \in 1..a : left[i] = s[i]
  BY <1>1, TakeFacts
<1>3. /\ right \in Text /\ Len(right) = Len(s) - b
      /\ \A i \in 1..(Len(s) - b) : right[i] = s[b + i]
  BY <1>1, DropFacts
<1> HIDE DEF left, right
<1>4. /\ front \in Text /\ Len(front) = a + Len(mid)
      /\ \A i \in 1..a : front[i] = left[i]
      /\ \A i \in 1..Len(mid) : front[a + i] = mid[i]
  BY <1>1, <1>2, ConcatFacts
<1> HIDE DEF front
<1>5. /\ r \in Text /\ Len(r) = a + Len(mid) + (Len(s) - b)
      /\ \A i \in 1..(a + Len(mid)) : r[i] = front[i]
      /\ \A i \in 1..(Len(s) - b) : r[a + Len(mid) + i] = right[i]
  <2>1. /\ r \in Text /\ Len(r) = Len(front) + Len(right)
        /\ \A i \in 1..Len(front) : r[i] = front[i]
        /\ \A i \in 1..Len(right) : r[Len(front) + i] = right[i]
    BY <1>3, <1>4, ConcatFacts
  <2> HIDE DEF r
  <2> QED  BY <1>3, <1>4, <2>1
<1> HIDE DEF r
<1>6. \A i \in 1..a : r[i] = s[i]
  BY <1>1, <1>2, <1>4, <1>5
<1>7. \A i \in 1..Len(mid) : r[a + i] = mid[i]
  BY <1>1, <1>4, <1>5
<1>8. \A i \in (b + 1)..Len(s) : r[i + (a + Len(mid) - b)] = s[i]
  <2> SUFFICES ASSUME NEW i \in (b + 1)..Len(s)
               PROVE  r[i + (a + Len(mid) - b)] = s[i]
    OBVIOUS
  <2>1. /\ i - b \in 1..(Len(s) - b)
        /\ a + Len(mid) + (i - b) = i + (a + Len(mid) - b)
        /\ b + (i - b) = i
    BY <1>1
  <2> QED  BY <1>3, <1>5, <2>1
<1>9. r = Splice(s, a, b, mid)
  BY DEF r, front, left, right, Splice
<1> QED  BY <1>1, <1>5, <1>6, <1>7, <1>8, <1>9

\* A text with a delimiter in front.
LEMMA Delimited ==
    ASSUME NEW c \in Mark, NEW text \in Text
    PROVE  /\ <<c>> \o text \in Text
           /\ Len(<<c>> \o text) = 1 + Len(text) /\ Len(text) \in Nat
           /\ <<c>> \o text # <<>> /\ (<<c>> \o text)[1] = c
           /\ \A i \in 1..Len(text) : (<<c>> \o text)[1 + i] = text[i]
<1> DEFINE one == <<c>>
<1>1. one \in Text /\ Len(one) = 1 /\ one[1] = c  BY DEF Text, Lexeme
<1> HIDE DEF one
<1>2. /\ one \o text \in Text
      /\ Len(one \o text) = Len(one) + Len(text)
      /\ \A i \in 1..Len(one) : (one \o text)[i] = one[i]
      /\ \A i \in 1..Len(text) : (one \o text)[Len(one) + i] = text[i]
  BY <1>1, ConcatFacts
<1>3. Len(text) \in Nat  BY LenProperties DEF Text
<1>4. one \o text # <<>>  BY <1>1, <1>2, <1>3, EmptySeq DEF Text
<1>5. 1 \in 1..Len(one)  BY <1>1
<1>6. (one \o text)[1] = c  BY <1>1, <1>2, <1>5
<1>7. \A i \in 1..Len(text) : (one \o text)[1 + i] = text[i]
  BY <1>1, <1>2
<1>8. Len(one \o text) = 1 + Len(text)  BY <1>1, <1>2
<1> QED  BY <1>2, <1>3, <1>4, <1>6, <1>7, <1>8 DEF one

(****************************************************************************)
(* Edits.                                                                   *)
(****************************************************************************)
NoSpace(text) == \A i \in 1..Len(text) : text[i] # "SP"

\* v is u with s[a..b] replaced by mid, and what follows the path moved along.
Edit(u, v, a, b, mid, d) ==
    /\ a \in Nat /\ b \in Nat /\ a <= b /\ b <= u.path_start
    /\ mid \in Text
    /\ d = a + Len(mid) - b
    /\ v \in UrlSet
    /\ v.ser            = Splice(u.ser, a, b, mid)
    /\ v.path_start     = u.path_start + d
    /\ v.query_start    = ShiftOpt(u.query_start, d)
    /\ v.fragment_start = ShiftOpt(u.fragment_start, d)

\* A value's offsets are within its serialization.
LEMMA GoodFacts ==
    ASSUME NEW u, Good(u)
    PROVE  /\ u.ser \in Text /\ Len(u.ser) \in Nat
           /\ u.scheme_end \in Nat /\ u.username_end \in Nat
           /\ u.host_start \in Nat /\ u.host_end \in Nat
           /\ u.path_start \in Nat
           /\ u.query_start \in OptOffset /\ u.fragment_start \in OptOffset
           /\ u.host \in HostKind /\ u.port \in PortNumber \union {None}
           /\ HeadCut(u) /\ TailCut(u) /\ AuthorityIntact(u)
BY LenProperties DEF Good, WellFormed, UrlSet, Text

\* What an edit keeps and moves.
LEMMA EditFacts ==
    ASSUME NEW u, Good(u), NEW v, NEW a, NEW b, NEW mid, NEW d,
           Edit(u, v, a, b, mid, d)
    PROVE  /\ a \in Nat /\ b \in Nat /\ d \in Int /\ Len(mid) \in Nat
           /\ v.ser \in Text
           /\ Len(v.ser) \in Nat /\ Len(v.ser) = Len(u.ser) + d
           /\ v.path_start \in Nat /\ v.path_start <= Len(v.ser)
           /\ \A i \in 1..a : v.ser[i] = u.ser[i]
           /\ \A i \in 1..Len(mid) : v.ser[a + i] = mid[i]
           /\ \A i \in (b + 1)..Len(u.ser) : v.ser[i + d] = u.ser[i]
<1>1. /\ u.ser \in Text /\ Len(u.ser) \in Nat /\ u.path_start \in Nat
      /\ u.path_start <= Len(u.ser)
  BY GoodFacts DEF HeadCut
<1>2. /\ a \in Nat /\ b \in Nat /\ a <= b /\ b <= Len(u.ser) /\ mid \in Text
      /\ d = a + Len(mid) - b
  BY <1>1 DEF Edit
<1>3. Len(mid) \in Nat  BY <1>2, LenProperties DEF Text
<1>4. d \in Int  BY <1>2, <1>3
<1> DEFINE s == u.ser
           r == Splice(s, a, b, mid)
<1>s. /\ s \in Text /\ b <= Len(s) /\ Len(s) \in Nat
  BY <1>1, <1>2
<1> HIDE DEF s
<1>r. /\ r \in Text
      /\ Len(r) = Len(s) + (a + Len(mid) - b)
      /\ \A i \in 1..a : r[i] = s[i]
      /\ \A i \in 1..Len(mid) : r[a + i] = mid[i]
      /\ \A i \in (b + 1)..Len(s) : r[i + (a + Len(mid) - b)] = s[i]
  BY <1>2, <1>s, SpliceFacts
<1>v. v.ser = r  BY DEF Edit, s
<1> HIDE DEF r
<1>5. /\ v.ser \in Text
      /\ Len(v.ser) = Len(s) + d
      /\ \A i \in 1..a : v.ser[i] = s[i]
      /\ \A i \in 1..Len(mid) : v.ser[a + i] = mid[i]
      /\ \A i \in (b + 1)..Len(s) : v.ser[i + d] = s[i]
  BY <1>2, <1>r, <1>v
<1>6. Len(v.ser) \in Nat  BY <1>5, LenProperties DEF Text
<1>7. v.path_start \in Nat /\ v.path_start <= Len(v.ser)
  <2>1. v.path_start \in Nat /\ v.path_start = u.path_start + d
    BY DEF Edit, UrlSet
  <2>2. Len(v.ser) = Len(u.ser) + d  BY <1>5 DEF s
  <2> QED  BY <1>1, <1>4, <2>1, <2>2
<1> QED  BY <1>2, <1>3, <1>4, <1>5, <1>6, <1>7 DEF s

\* The same without the elements.
LEMMA EditLengths ==
    ASSUME NEW u, Good(u), NEW v, NEW a, NEW b, NEW mid, NEW d,
           Edit(u, v, a, b, mid, d)
    PROVE  /\ a \in Nat /\ b \in Nat /\ d \in Int /\ Len(mid) \in Nat
           /\ a <= b /\ b <= u.path_start /\ d = a + Len(mid) - b
           /\ Len(u.ser) \in Nat /\ Len(v.ser) \in Nat
           /\ u.path_start \in Nat /\ v.path_start \in Nat
           /\ u.path_start <= Len(u.ser) /\ v.path_start <= Len(v.ser)
           /\ Len(v.ser) = Len(u.ser) + d /\ v.path_start = u.path_start + d
           /\ b <= Len(u.ser) /\ a <= Len(u.ser) /\ a <= Len(v.ser)
<1>1. /\ Len(u.ser) \in Nat /\ u.path_start \in Nat
      /\ u.path_start <= Len(u.ser)
  BY GoodFacts DEF HeadCut
<1>2. /\ a \in Nat /\ b \in Nat /\ d \in Int /\ Len(mid) \in Nat
      /\ Len(v.ser) \in Nat /\ Len(v.ser) = Len(u.ser) + d
      /\ v.path_start \in Nat /\ v.path_start <= Len(v.ser)
  BY EditFacts
<1>3. /\ a <= b /\ b <= u.path_start /\ d = a + Len(mid) - b
      /\ v.path_start = u.path_start + d
  BY DEF Edit
<1>4. b <= Len(u.ser) /\ a <= Len(u.ser)  BY <1>1, <1>2, <1>3
<1>5. a <= Len(v.ser)
  <2> DEFINE n == Len(u.ser)
             m == Len(mid)
             k == Len(v.ser)
  <2>1. /\ n \in Nat /\ m \in Nat /\ k = n + (a + m - b)
        /\ a \in Nat /\ b \in Nat /\ b <= n
    BY <1>1, <1>2, <1>3, <1>4
  <2> HIDE DEF n, m, k
  <2>2. a <= k  BY <2>1
  <2> QED  BY <2>2 DEF k
<1> QED  BY <1>1, <1>2, <1>3, <1>4, <1>5

\* The query and the fragment still start at their delimiters.
LEMMA EditKeepsTail ==
    ASSUME NEW u, Good(u), NEW v, NEW a, NEW b, NEW mid, NEW d,
           Edit(u, v, a, b, mid, d)
    PROVE  TailCut(v)
<1>1. /\ u.path_start \in Nat /\ Len(u.ser) \in Nat
      /\ u.query_start \in OptOffset /\ u.fragment_start \in OptOffset
      /\ TailCut(u)
  BY GoodFacts
<1>2. /\ d \in Int /\ b \in Nat /\ v.path_start \in Nat
      /\ Len(v.ser) = Len(u.ser) + d
      /\ \A i \in (b + 1)..Len(u.ser) : v.ser[i + d] = u.ser[i]
  BY EditFacts
<1>3. /\ b <= u.path_start /\ v.path_start = u.path_start + d
      /\ v.query_start    = ShiftOpt(u.query_start, d)
      /\ v.fragment_start = ShiftOpt(u.fragment_start, d)
  BY DEF Edit
<1>4. ASSUME NEW n \in Nat, NEW c, u.path_start <= n, HasByte(u.ser, n, c)
      PROVE  /\ v.path_start <= n + d /\ n + d \in Nat
             /\ HasByte(v.ser, n + d, c)
  <2>1. n + 1 \in (b + 1)..Len(u.ser) /\ (n + 1) + d = (n + d) + 1
    BY <1>1, <1>2, <1>3, <1>4 DEF HasByte
  <2>2. v.ser[(n + d) + 1] = u.ser[n + 1]  BY <1>2, <2>1
  <2> QED  BY <1>1, <1>2, <1>3, <1>4, <2>1, <2>2 DEF HasByte, ByteAt
<1>5. CASE u.query_start = None /\ u.fragment_start = None
  BY <1>3, <1>5 DEF TailCut, ShiftOpt
<1>6. CASE u.query_start # None /\ u.fragment_start = None
  <2>1. u.query_start \in Nat  BY <1>1, <1>6 DEF OptOffset
  <2>2. v.query_start = u.query_start + d /\ v.fragment_start = None
    BY <1>3, <1>6 DEF ShiftOpt
  <2>3. u.path_start <= u.query_start /\ HasByte(u.ser, u.query_start, "?")
    BY <1>1, <1>6 DEF TailCut
  <2> QED  BY <1>4, <2>1, <2>2, <2>3 DEF TailCut
<1>7. CASE u.query_start = None /\ u.fragment_start # None
  <2>1. u.fragment_start \in Nat  BY <1>1, <1>7 DEF OptOffset
  <2>2. v.fragment_start = u.fragment_start + d /\ v.query_start = None
    BY <1>3, <1>7 DEF ShiftOpt
  <2>3. /\ u.path_start <= u.fragment_start
        /\ HasByte(u.ser, u.fragment_start, "#")
    BY <1>1, <1>7 DEF TailCut
  <2> QED  BY <1>4, <2>1, <2>2, <2>3 DEF TailCut
<1>8. CASE u.query_start # None /\ u.fragment_start # None
  <2>1. u.query_start \in Nat /\ u.fragment_start \in Nat
    BY <1>1, <1>8 DEF OptOffset
  <2>2. /\ v.query_start = u.query_start + d
        /\ v.fragment_start = u.fragment_start + d
    BY <1>3, <1>8 DEF ShiftOpt
  <2>3. /\ u.path_start <= u.query_start /\ HasByte(u.ser, u.query_start, "?")
        /\ u.path_start <= u.fragment_start
        /\ HasByte(u.ser, u.fragment_start, "#")
        /\ u.query_start < u.fragment_start
    BY <1>1, <1>8 DEF TailCut
  <2>4. /\ v.path_start <= v.query_start /\ HasByte(v.ser, v.query_start, "?")
        /\ v.path_start <= v.fragment_start
        /\ HasByte(v.ser, v.fragment_start, "#")
    BY <1>4, <2>1, <2>2, <2>3
  <2> QED  BY <1>2, <2>1, <2>2, <2>3, <2>4 DEF TailCut
<1> QED  BY <1>5, <1>6, <1>7, <1>8

\* A text without spaces puts no space before the path.
LEMMA EditKeepsNoSpace ==
    ASSUME NEW u, Good(u), NEW v, NEW a, NEW b, NEW mid, NEW d,
           Edit(u, v, a, b, mid, d), NoSpace(mid)
    PROVE  HeadHasNoSpace(v)
<1>1. /\ u.path_start \in Nat /\ Len(u.ser) \in Nat
      /\ u.path_start <= Len(u.ser)
      /\ \A i \in 1..u.path_start : u.ser[i] # "SP"
  BY GoodFacts DEF AuthorityIntact, HeadHasNoSpace, HeadCut
<1>2. /\ a \in Nat /\ b \in Nat /\ d \in Int /\ Len(mid) \in Nat
      /\ v.path_start \in Nat
      /\ \A i \in 1..a : v.ser[i] = u.ser[i]
      /\ \A i \in 1..Len(mid) : v.ser[a + i] = mid[i]
      /\ \A i \in (b + 1)..Len(u.ser) : v.ser[i + d] = u.ser[i]
  BY EditFacts
<1>3. /\ a <= b /\ b <= u.path_start /\ d = a + Len(mid) - b
      /\ v.path_start = u.path_start + d
  BY DEF Edit
<1>4. SUFFICES ASSUME NEW j \in 1..v.path_start PROVE v.ser[j] # "SP"
  BY DEF HeadHasNoSpace
<1>n. j \in Nat /\ 1 <= j /\ j <= v.path_start  BY <1>2, <1>4
<1>5. CASE j <= a
  <2>1. j \in 1..a /\ j \in 1..u.path_start  BY <1>n, <1>5, EditLengths
  <2> QED  BY <1>1, <1>2, <2>1
<1>6. CASE j > a /\ j <= a + Len(mid)
  <2>1. j - a \in 1..Len(mid) /\ a + (j - a) = j  BY <1>n, <1>2, <1>6
  <2> QED  BY <1>2, <2>1 DEF NoSpace
<1>7. CASE j > a + Len(mid)
  <2>1. /\ j - d \in (b + 1)..Len(u.ser) /\ (j - d) + d = j
        /\ j - d \in 1..u.path_start
    <3> DEFINE n == Len(u.ser)
               m == Len(mid)
               p == u.path_start
    <3>1. /\ n \in Nat /\ m \in Nat /\ p \in Nat /\ p <= n
          /\ a \in Nat /\ b \in Nat /\ d = a + m - b
          /\ j \in Nat /\ j > a + m /\ j <= p + d
      BY <1>n, <1>7, EditLengths
    <3> HIDE DEF n, m, p
    <3>2. j - d \in (b + 1)..n /\ (j - d) + d = j /\ j - d \in 1..p
      BY <3>1
    <3> QED  BY <3>2 DEF n, p
  <2>2. v.ser[j] = u.ser[j - d]  BY <1>2, <2>1
  <2> QED  BY <1>1, <2>1, <2>2
<1>8. j <= a \/ (j > a /\ j <= a + Len(mid)) \/ j > a + Len(mid)
  BY <1>n, EditLengths
<1> QED  BY <1>5, <1>6, <1>7, <1>8

\* An edit before the end of the host moves the port along.
LEMMA EditKeepsPort ==
    ASSUME NEW u, Good(u), NEW v, NEW a, NEW b, NEW mid, NEW d,
           Edit(u, v, a, b, mid, d),
           b <= u.host_end, v.host_end = u.host_end + d, v.port = u.port
    PROVE  PortWritten(v)
<1>1. /\ u.ser \in Text /\ Len(u.ser) \in Nat
      /\ u.host_end \in Nat /\ u.path_start \in Nat
      /\ u.host_end <= u.path_start /\ u.path_start <= Len(u.ser)
      /\ PortWritten(u)
  BY GoodFacts DEF HeadCut, AuthorityIntact
<1>2. /\ b \in Nat /\ d \in Int /\ v.ser \in Text
      /\ v.path_start <= Len(v.ser)
      /\ \A i \in (b + 1)..Len(u.ser) : v.ser[i + d] = u.ser[i]
  BY EditFacts
<1>3. /\ v.path_start = u.path_start + d
      /\ v.path_start \in Nat /\ v.host_end \in Nat
  BY DEF Edit, UrlSet
<1>4. \A i \in 1..(u.path_start - u.host_end) :
         v.ser[v.host_end + i] = u.ser[u.host_end + i]
  <2> SUFFICES ASSUME NEW i \in 1..(u.path_start - u.host_end)
               PROVE  v.ser[v.host_end + i] = u.ser[u.host_end + i]
    OBVIOUS
  <2>1. /\ u.host_end + i \in (b + 1)..Len(u.ser)
        /\ (u.host_end + i) + d = v.host_end + i
    BY <1>1, <1>2
  <2> QED  BY <1>2, <2>1
<1>5. Slice(v.ser, v.host_end, v.path_start)
         = Slice(u.ser, u.host_end, u.path_start)
  <2>1. /\ v.host_end <= v.path_start
        /\ v.path_start - v.host_end = u.path_start - u.host_end
    BY <1>1, <1>2, <1>3
  <2>2. SameElements(v.ser, v.host_end, v.path_start,
                     u.ser, u.host_end, u.path_start)
    BY <1>1, <1>2, <1>3, <1>4, <2>1 DEF SameElements
  <2> QED  BY <2>2, SlicesEqual
<1> QED  BY <1>1, <1>5 DEF PortWritten

\* An edit before the host moves the host along.
LEMMA EditKeepsHost ==
    ASSUME NEW u, Good(u), NEW v, NEW a, NEW b, NEW mid, NEW d,
           Edit(u, v, a, b, mid, d),
           b <= u.host_start, v.host_start = u.host_start + d,
           v.host_end = u.host_end + d, v.host = u.host
    PROVE  HostWritten(v)
<1>1. /\ Len(u.ser) \in Nat /\ u.host_start \in Nat /\ u.host_end \in Nat
      /\ u.path_start \in Nat
      /\ u.host_end <= u.path_start /\ u.path_start <= Len(u.ser)
      /\ HostWritten(u)
  BY GoodFacts DEF HeadCut, AuthorityIntact
<1>2. /\ b \in Nat /\ d \in Int
      /\ \A i \in (b + 1)..Len(u.ser) : v.ser[i + d] = u.ser[i]
  BY EditFacts
<1>3. u.host_start < u.host_end =>
         v.ser[v.host_start + 1] = u.ser[u.host_start + 1]
  <2> SUFFICES ASSUME u.host_start < u.host_end
               PROVE  v.ser[v.host_start + 1] = u.ser[u.host_start + 1]
    OBVIOUS
  <2>1. /\ u.host_start + 1 \in (b + 1)..Len(u.ser)
        /\ (u.host_start + 1) + d = v.host_start + 1
    BY <1>1, <1>2
  <2> QED  BY <1>2, <2>1
<1>4. v.host_start < v.host_end <=> u.host_start < u.host_end
  BY <1>1, <1>2
<1> QED  BY <1>1, <1>3, <1>4 DEF HostWritten, ByteAt

\* An edit behind the scheme keeps the scheme and the ':' that ends it.
LEMMA EditKeepsScheme ==
    ASSUME NEW u, Good(u), NEW v, NEW a, NEW b, NEW mid, NEW d,
           Edit(u, v, a, b, mid, d),
           u.scheme_end < a, v.scheme_end = u.scheme_end
    PROVE  Scheme(v) = Scheme(u) /\ ByteAt(v.ser, v.scheme_end) = ":"
<1>1. /\ u.ser \in Text /\ Len(u.ser) \in Nat /\ u.scheme_end \in Nat
      /\ u.path_start \in Nat /\ u.path_start <= Len(u.ser)
      /\ ByteAt(u.ser, u.scheme_end) = ":"
  BY GoodFacts DEF HeadCut
<1>2. /\ a \in Nat /\ b \in Nat /\ d \in Int /\ Len(mid) \in Nat
      /\ v.ser \in Text /\ Len(v.ser) \in Nat /\ Len(v.ser) = Len(u.ser) + d
      /\ \A i \in 1..a : v.ser[i] = u.ser[i]
  BY EditFacts
<1>3. a <= b /\ b <= u.path_start /\ d = a + Len(mid) - b  BY DEF Edit
<1>4. /\ u.scheme_end <= Len(u.ser) /\ u.scheme_end <= Len(v.ser)
      /\ \A i \in 1..u.scheme_end : v.ser[i] = u.ser[i]
      /\ v.ser[u.scheme_end + 1] = u.ser[u.scheme_end + 1]
  <2>1. u.scheme_end + 1 \in 1..a /\ \A i \in 1..u.scheme_end : i \in 1..a
    BY <1>1, <1>2
  <2>2. u.scheme_end <= Len(u.ser) /\ u.scheme_end <= Len(v.ser)
    BY <1>1, EditLengths
  <2> QED  BY <1>2, <2>1, <2>2
<1>5. Take(v.ser, u.scheme_end) = Take(u.ser, u.scheme_end)
  BY <1>1, <1>2, <1>4, TakesEqual
<1> QED  BY <1>1, <1>4, <1>5 DEF Scheme, ByteAt

\* An edit behind "://" keeps the "://".
LEMMA EditKeepsAuthority ==
    ASSUME NEW u, Good(u), NEW v, NEW a, NEW b, NEW mid, NEW d,
           Edit(u, v, a, b, mid, d),
           u.scheme_end + 3 <= a, v.scheme_end = u.scheme_end, has_authority(u)
    PROVE  has_authority(v)
<1>1. /\ Len(u.ser) \in Nat /\ u.scheme_end \in Nat
      /\ u.path_start \in Nat /\ u.path_start <= Len(u.ser)
  BY GoodFacts DEF HeadCut
<1>2. /\ a \in Nat /\ b \in Nat /\ d \in Int /\ Len(mid) \in Nat
      /\ Len(v.ser) \in Nat /\ Len(v.ser) = Len(u.ser) + d
      /\ \A i \in 1..a : v.ser[i] = u.ser[i]
  BY EditFacts
<1>3. a <= b /\ b <= u.path_start /\ d = a + Len(mid) - b  BY DEF Edit
<1>4. /\ v.ser[u.scheme_end + 1] = u.ser[u.scheme_end + 1]
      /\ v.ser[u.scheme_end + 1 + 1] = u.ser[u.scheme_end + 1 + 1]
      /\ v.ser[u.scheme_end + 2 + 1] = u.ser[u.scheme_end + 2 + 1]
      /\ u.scheme_end + 2 < Len(v.ser)
  <2>1. /\ u.scheme_end + 1 \in 1..a
        /\ u.scheme_end + 1 + 1 \in 1..a
        /\ u.scheme_end + 2 + 1 \in 1..a
    <3> DEFINE n == u.scheme_end
    <3>1. n \in Nat /\ a \in Nat /\ n + 3 <= a  BY <1>1, <1>2
    <3> HIDE DEF n
    <3>2. n + 1 \in 1..a /\ n + 1 + 1 \in 1..a /\ n + 2 + 1 \in 1..a  BY <3>1
    <3> QED  BY <3>2 DEF n
  <2>2. u.scheme_end + 2 < Len(v.ser)  BY <1>1, EditLengths
  <2> QED  BY <1>2, <2>1, <2>2
<1>5. u.scheme_end < Len(v.ser) /\ u.scheme_end + 1 < Len(v.ser)
  BY <1>1, EditLengths
<1> QED
  BY <1>4, <1>5 DEF has_authority, StartsWithAuthority, HasByte, ByteAt

\* Offsets moved by an edit before the path are still offsets.
LEMMA MovedOffsets ==
    ASSUME NEW u, Good(u), NEW a \in Nat, NEW b \in Nat, NEW mid \in Text,
           a <= b, b <= u.path_start, NEW d, d = a + Len(mid) - b
    PROVE  /\ d \in Int
           /\ Splice(u.ser, a, b, mid) \in Text
           /\ u.path_start + d \in Nat
           /\ ShiftOpt(u.query_start, d) \in OptOffset
           /\ ShiftOpt(u.fragment_start, d) \in OptOffset
<1>1. /\ u.ser \in Text /\ Len(u.ser) \in Nat /\ u.path_start \in Nat
      /\ u.path_start <= Len(u.ser)
      /\ u.query_start \in OptOffset /\ u.fragment_start \in OptOffset
      /\ TailCut(u)
  BY GoodFacts DEF HeadCut
<1>2. Len(mid) \in Nat  BY LenProperties DEF Text
<1>3. d \in Int /\ u.path_start + d \in Nat  BY <1>1, <1>2
<1>4. b <= Len(u.ser)  BY <1>1
<1> DEFINE s == u.ser
<1>5. s \in Text /\ b <= Len(s)  BY <1>1, <1>4
<1> HIDE DEF s
<1>6. Splice(s, a, b, mid) \in Text  BY <1>5, SpliceFacts
<1>7. ShiftOpt(u.query_start, d) \in OptOffset
  <2>1. u.query_start # None => u.query_start \in Nat /\ u.path_start <= u.query_start
    BY <1>1 DEF TailCut, OptOffset
  <2> QED  BY <1>1, <1>3, <2>1 DEF ShiftOpt, OptOffset
<1>8. ShiftOpt(u.fragment_start, d) \in OptOffset
  <2>1. u.fragment_start # None =>
           u.fragment_start \in Nat /\ u.path_start <= u.fragment_start
    BY <1>1 DEF TailCut, OptOffset
  <2> QED  BY <1>1, <1>3, <2>1 DEF ShiftOpt, OptOffset
<1> QED  BY <1>3, <1>6, <1>7, <1>8 DEF s

\* v has u's authority: the same offsets over the same text.
SameHead(u, v) ==
    /\ v.scheme_end = u.scheme_end /\ v.username_end = u.username_end
    /\ v.host_start = u.host_start /\ v.host_end = u.host_end
    /\ v.host = u.host /\ v.port = u.port /\ v.path_start = u.path_start
    /\ u.path_start <= Len(v.ser)
    /\ \A i \in 1..u.path_start : v.ser[i] = u.ser[i]

\* Editing behind the authority keeps it.
LEMMA HeadKept ==
    ASSUME NEW u, Good(u), NEW v, v \in UrlSet, SameHead(u, v)
    PROVE  HeadCut(v) /\ AuthorityIntact(v)
<1>1. /\ u.ser \in Text /\ Len(u.ser) \in Nat
      /\ u.scheme_end \in Nat /\ u.username_end \in Nat
      /\ u.host_start \in Nat /\ u.host_end \in Nat /\ u.path_start \in Nat
      /\ u.scheme_end < u.username_end /\ u.username_end <= u.host_start
      /\ u.host_start <= u.host_end /\ u.host_end <= u.path_start
      /\ u.path_start <= Len(u.ser)
  BY GoodFacts DEF HeadCut
<1>2. /\ ByteAt(u.ser, u.scheme_end) = ":" /\ AuthorityIntact(u)
  BY GoodFacts DEF HeadCut
<1>3. /\ v.scheme_end = u.scheme_end /\ v.username_end = u.username_end
      /\ v.host_start = u.host_start /\ v.host_end = u.host_end
      /\ v.host = u.host /\ v.port = u.port /\ v.path_start = u.path_start
      /\ u.path_start <= Len(v.ser)
  BY DEF SameHead
<1>4. \A i \in 1..u.path_start : v.ser[i] = u.ser[i]  BY DEF SameHead
<1>5. v.ser \in Text /\ Len(v.ser) \in Nat
  BY LenProperties DEF UrlSet, Text
<1>6. \A n \in Nat : n < u.path_start => ByteAt(v.ser, n) = ByteAt(u.ser, n)
  <2> SUFFICES ASSUME NEW n \in Nat, n < u.path_start
               PROVE  v.ser[n + 1] = u.ser[n + 1]
    BY DEF ByteAt
  <2>1. n + 1 \in 1..u.path_start  BY <1>1
  <2> QED  BY <1>4, <2>1
<1>7. HeadCut(v)
  <2>1. u.scheme_end < u.path_start  BY <1>1
  <2> QED  BY <1>1, <1>2, <1>3, <1>6, <2>1 DEF HeadCut
<1>8. Scheme(v) = Scheme(u)
  <2>1. /\ u.scheme_end <= Len(u.ser) /\ u.scheme_end <= Len(v.ser)
        /\ \A i \in 1..u.scheme_end : i \in 1..u.path_start
    BY <1>1, <1>3, <1>5
  <2>2. \A i \in 1..u.scheme_end : v.ser[i] = u.ser[i]  BY <1>4, <2>1
  <2>3. Take(v.ser, u.scheme_end) = Take(u.ser, u.scheme_end)
    BY <1>1, <1>5, <2>1, <2>2, TakesEqual
  <2> QED  BY <1>3, <2>3 DEF Scheme
<1>9. AuthorityMarked(v)
  <2>1. CASE u.username_end >= u.scheme_end + 3 /\ has_authority(u)
    <3>1. /\ u.scheme_end < u.path_start
          /\ u.scheme_end + 1 \in Nat /\ u.scheme_end + 1 < u.path_start
          /\ u.scheme_end + 2 \in Nat /\ u.scheme_end + 2 < u.path_start
          /\ u.scheme_end < Len(v.ser) /\ u.scheme_end + 1 < Len(v.ser)
          /\ u.scheme_end + 2 < Len(v.ser)
      <4> DEFINE n == u.scheme_end
                 p == u.path_start
                 k == Len(v.ser)
      <4>1. n \in Nat /\ p \in Nat /\ k \in Nat /\ n + 3 <= p /\ p <= k
        BY <1>1, <1>3, <1>5, <2>1
      <4> HIDE DEF n, p, k
      <4>2. /\ n < p /\ n + 1 \in Nat /\ n + 1 < p
            /\ n + 2 \in Nat /\ n + 2 < p
            /\ n < k /\ n + 1 < k /\ n + 2 < k
        BY <4>1
      <4> QED  BY <4>2 DEF n, p, k
    <3>2. /\ ByteAt(v.ser, u.scheme_end) = ByteAt(u.ser, u.scheme_end)
          /\ ByteAt(v.ser, u.scheme_end + 1) = ByteAt(u.ser, u.scheme_end + 1)
          /\ ByteAt(v.ser, u.scheme_end + 2) = ByteAt(u.ser, u.scheme_end + 2)
      BY <1>1, <1>6, <3>1
    <3>3. /\ ByteAt(u.ser, u.scheme_end) = ":"
          /\ ByteAt(u.ser, u.scheme_end + 1) = "/"
          /\ ByteAt(u.ser, u.scheme_end + 2) = "/"
      BY <2>1 DEF has_authority, StartsWithAuthority, HasByte
    <3>4. /\ HasByte(v.ser, u.scheme_end, ":")
          /\ HasByte(v.ser, u.scheme_end + 1, "/")
          /\ HasByte(v.ser, u.scheme_end + 2, "/")
      BY <3>1, <3>2, <3>3 DEF HasByte
    <3>5. has_authority(v)
      BY <1>3, <3>4 DEF has_authority, StartsWithAuthority
    <3> QED  BY <1>3, <2>1, <3>5 DEF AuthorityMarked
  <2>2. CASE /\ u.username_end = u.scheme_end + 1
             /\ u.host_start = u.username_end
             /\ u.host_end = u.username_end
    BY <1>3, <2>2 DEF AuthorityMarked
  <2> QED  BY <1>2, <2>1, <2>2 DEF AuthorityIntact, AuthorityMarked
<1>10. SpecialHasAuthority(v)
  BY <1>2, <1>3, <1>8 DEF AuthorityIntact, SpecialHasAuthority, IsSpecial, TypeOf
<1>11. CredentialsClosed(v)
  <2>1. /\ u.username_end < u.host_start => u.username_end < u.path_start
        /\ u.username_end < u.host_start =>
              u.host_start - 1 \in Nat /\ u.host_start - 1 < u.path_start
        /\ u.host_start = u.username_end + 1 => u.username_end < u.host_start
        /\ u.host_start >= u.username_end + 3 => u.username_end < u.host_start
    BY <1>1
  <2>2. u.username_end < u.host_start =>
           /\ ByteAt(v.ser, u.username_end) = ByteAt(u.ser, u.username_end)
           /\ ByteAt(v.ser, u.host_start - 1) = ByteAt(u.ser, u.host_start - 1)
    BY <1>1, <1>6, <2>1
  <2> QED
    BY <1>2, <1>3, <2>1, <2>2 DEF AuthorityIntact, CredentialsClosed
<1>12. HostWritten(v)
  <2>1. u.host_start < u.host_end => u.host_start < u.path_start  BY <1>1
  <2> QED  BY <1>1, <1>2, <1>3, <1>6, <2>1 DEF AuthorityIntact, HostWritten
<1>13. PortWritten(v)
  <2>1. \A i \in 1..(u.path_start - u.host_end) :
           v.ser[u.host_end + i] = u.ser[u.host_end + i]
    <3> SUFFICES ASSUME NEW i \in 1..(u.path_start - u.host_end)
                 PROVE  v.ser[u.host_end + i] = u.ser[u.host_end + i]
      OBVIOUS
    <3>1. u.host_end + i \in 1..u.path_start  BY <1>1
    <3> QED  BY <1>4, <3>1
  <2>2. SameElements(v.ser, u.host_end, u.path_start,
                     u.ser, u.host_end, u.path_start)
    BY <1>1, <1>3, <1>5, <2>1 DEF SameElements
  <2>3. Slice(v.ser, u.host_end, u.path_start)
           = Slice(u.ser, u.host_end, u.path_start)
    BY <2>2, SlicesEqual
  <2> QED  BY <1>2, <1>3, <2>3 DEF AuthorityIntact, PortWritten
<1>14. HeadHasNoSpace(v)
  BY <1>2, <1>3, <1>4 DEF AuthorityIntact, HeadHasNoSpace
<1> QED
  BY <1>7, <1>9, <1>10, <1>11, <1>12, <1>13, <1>14 DEF AuthorityIntact

\* The path, the query and the fragment end in this order.
LEMMA TailFacts ==
    ASSUME NEW u, Good(u)
    PROVE  /\ PathEnd(u) \in Nat /\ QueryEnd(u) \in Nat
           /\ u.path_start <= PathEnd(u) /\ PathEnd(u) <= QueryEnd(u)
           /\ QueryEnd(u) <= Len(u.ser)
           /\ u.query_start # None =>
                 /\ u.query_start = PathEnd(u) /\ PathEnd(u) < QueryEnd(u)
                 /\ HasByte(u.ser, PathEnd(u), "?")
           /\ u.fragment_start # None =>
                 /\ u.fragment_start = QueryEnd(u) /\ QueryEnd(u) < Len(u.ser)
                 /\ HasByte(u.ser, QueryEnd(u), "#")
<1>1. /\ Len(u.ser) \in Nat /\ u.path_start \in Nat
      /\ u.path_start <= Len(u.ser)
      /\ u.query_start \in OptOffset /\ u.fragment_start \in OptOffset
      /\ TailCut(u)
  BY GoodFacts DEF HeadCut
<1>2. CASE u.query_start = None /\ u.fragment_start = None
  BY <1>1, <1>2 DEF PathEnd, QueryEnd
<1>3. CASE u.query_start # None /\ u.fragment_start = None
  BY <1>1, <1>3 DEF PathEnd, QueryEnd, OptOffset, TailCut, HasByte
<1>4. CASE u.query_start = None /\ u.fragment_start # None
  BY <1>1, <1>4 DEF PathEnd, QueryEnd, OptOffset, TailCut, HasByte
<1>5. CASE u.query_start # None /\ u.fragment_start # None
  BY <1>1, <1>5 DEF PathEnd, QueryEnd, OptOffset, TailCut, HasByte
<1> QED  BY <1>2, <1>3, <1>4, <1>5

\* All offsets, as numbers, and their order.
LEMMA EditPlaces ==
    ASSUME NEW u, Good(u)
    PROVE  /\ u \in UrlSet /\ u.ser \in Text /\ Len(u.ser) \in Nat
           /\ u.scheme_end \in Nat /\ u.username_end \in Nat
           /\ u.host_start \in Nat /\ u.host_end \in Nat /\ u.path_start \in Nat
           /\ PathEnd(u) \in Nat /\ QueryEnd(u) \in Nat
           /\ u.scheme_end < u.username_end /\ u.username_end <= u.host_start
           /\ u.host_start <= u.host_end /\ u.host_end <= u.path_start
           /\ u.path_start <= PathEnd(u) /\ PathEnd(u) <= QueryEnd(u)
           /\ QueryEnd(u) <= Len(u.ser)
BY GoodFacts, TailFacts DEF HeadCut, Good

\* Replacing s[a..b] by mid behind the path start.
BehindPath(u, a, b, mid, d) ==
    /\ a \in Nat /\ b \in Nat /\ u.path_start <= a /\ a <= b
    /\ b <= Len(u.ser) /\ mid \in Text /\ d = a + Len(mid) - b

\* Bytes before the edit stay, bytes behind it move, the head is untouched.
LEMMA BehindPathFacts ==
    ASSUME NEW u, Good(u), NEW a, NEW b, NEW mid, NEW d,
           BehindPath(u, a, b, mid, d), NEW r, r = Splice(u.ser, a, b, mid)
    PROVE  /\ r \in Text /\ Len(r) \in Nat /\ d \in Int
           /\ Len(r) = Len(u.ser) + d
           /\ u.path_start <= Len(r)
           /\ \A i \in 1..u.path_start : r[i] = u.ser[i]
           /\ \A n \in Nat : \A c : n < a /\ HasByte(u.ser, n, c) => HasByte(r, n, c)
           /\ \A n \in Nat : \A c : b <= n /\ HasByte(u.ser, n, c) =>
                 n + d \in Nat /\ a <= n + d /\ HasByte(r, n + d, c)
           /\ mid # <<>> => HasByte(r, a, mid[1])
<1> DEFINE s == u.ser
           p == u.path_start
<1>1. /\ s \in Text /\ Len(s) \in Nat /\ p \in Nat /\ p <= Len(s)
  BY GoodFacts DEF HeadCut
<1>2. /\ a \in Nat /\ b \in Nat /\ p <= a /\ a <= b /\ b <= Len(s)
      /\ mid \in Text /\ d = a + Len(mid) - b
  BY DEF BehindPath
<1>r. r = Splice(s, a, b, mid)  OBVIOUS
<1> HIDE DEF s, p
<1>3. Len(mid) \in Nat  BY <1>2, LenProperties DEF Text
<1>4. /\ r \in Text
      /\ Len(r) = Len(s) + d
      /\ \A i \in 1..a : r[i] = s[i]
      /\ \A i \in 1..Len(mid) : r[a + i] = mid[i]
      /\ \A i \in (b + 1)..Len(s) : r[i + d] = s[i]
  <2>1. s \in Text /\ mid \in Text /\ a \in Nat /\ b \in Nat /\ a <= b /\ b <= Len(s)
    BY <1>1, <1>2
  <2>2. /\ Splice(s, a, b, mid) \in Text
        /\ Len(Splice(s, a, b, mid)) = Len(s) + (a + Len(mid) - b)
        /\ \A i \in 1..a : Splice(s, a, b, mid)[i] = s[i]
        /\ \A i \in 1..Len(mid) : Splice(s, a, b, mid)[a + i] = mid[i]
        /\ \A i \in (b + 1)..Len(s) :
              Splice(s, a, b, mid)[i + (a + Len(mid) - b)] = s[i]
    BY <2>1, SpliceFacts, ZenonT(60)
  <2>3. d = a + Len(mid) - b  BY <1>2
  <2> QED  BY <2>2, <2>3, <1>r, ZenonT(60)
<1>5. d \in Int /\ Len(r) \in Nat
  BY <1>2, <1>3, <1>4, LenProperties DEF Text
<1>6. a <= Len(r) /\ p <= Len(r) /\ a + Len(mid) <= Len(r)
  <2> DEFINE n == Len(s)
             m == Len(mid)
             k == Len(r)
  <2>1. /\ n \in Nat /\ m \in Nat /\ k = n + (a + m - b) /\ a \in Nat
        /\ b \in Nat /\ b <= n /\ p \in Nat /\ p <= a
    BY <1>1, <1>2, <1>3, <1>4
  <2> HIDE DEF n, m, k
  <2>2. a <= k /\ p <= k /\ a + m <= k  BY <2>1
  <2> QED  BY <2>2 DEF k, m
<1>7. \A i \in 1..p : r[i] = s[i]  BY <1>1, <1>2, <1>4
<1>8. ASSUME NEW n \in Nat, NEW c, n < a, HasByte(s, n, c)
      PROVE  HasByte(r, n, c)
  <2>1. n + 1 \in 1..a /\ n < Len(r)  BY <1>2, <1>5, <1>6, <1>8
  <2> QED  BY <1>4, <1>8, <2>1 DEF HasByte, ByteAt
<1>9. ASSUME NEW n \in Nat, NEW c, b <= n, HasByte(s, n, c)
      PROVE  n + d \in Nat /\ a <= n + d /\ HasByte(r, n + d, c)
  <2>1. n < Len(s) /\ s[n + 1] = c  BY <1>9 DEF HasByte, ByteAt
  <2>2. /\ n + 1 \in (b + 1)..Len(s) /\ (n + 1) + d = (n + d) + 1
        /\ n + d \in Nat /\ a <= n + d /\ n + d < Len(r)
    BY <1>1, <1>2, <1>3, <1>4, <1>5, <1>9, <2>1
  <2>3. r[(n + d) + 1] = c  BY <1>4, <2>1, <2>2
  <2> QED  BY <2>2, <2>3 DEF HasByte, ByteAt
<1>10. ASSUME mid # <<>> PROVE HasByte(r, a, mid[1])
  <2>1. Len(mid) > 0  BY <1>2, <1>3, <1>10, EmptySeq DEF Text
  <2>2. 1 \in 1..Len(mid) /\ a < Len(r)  BY <1>2, <1>3, <1>5, <1>6, <2>1
  <2>3. r[a + 1] = mid[1]  BY <1>4, <2>2
  <2> QED  BY <2>2, <2>3 DEF HasByte, ByteAt
<1> QED  BY <1>4, <1>5, <1>6, <1>7, <1>8, <1>9, <1>10 DEF s, p

\* An edit behind the username's end and the '@' keeps the credentials.
LEMMA EditKeepsCredentials ==
    ASSUME NEW u, Good(u), NEW v, NEW a, NEW b, NEW mid, NEW d,
           Edit(u, v, a, b, mid, d),
           u.host_start <= a, v.scheme_end = u.scheme_end,
           v.username_end = u.username_end, v.host_start = u.host_start
    PROVE  CredentialsClosed(v)
<1>1. /\ u.username_end \in Nat /\ u.host_start \in Nat
      /\ u.username_end <= u.host_start
  BY GoodFacts DEF HeadCut
<1>2. CredentialsClosed(u)  BY GoodFacts DEF AuthorityIntact
<1>3. a \in Nat /\ \A i \in 1..a : v.ser[i] = u.ser[i]  BY EditFacts
<1>4. CASE u.username_end = u.host_start /\ u.username_end <= u.scheme_end + 3
  BY <1>4 DEF CredentialsClosed
<1>5. CASE /\ u.username_end > u.scheme_end + 3
           /\ u.host_start = u.username_end + 1
           /\ ByteAt(u.ser, u.username_end) = "@"
  <2>1. u.username_end + 1 \in 1..a  BY <1>1, <1>3, <1>5
  <2> QED  BY <1>3, <1>5, <2>1 DEF CredentialsClosed, ByteAt
<1>6. CASE /\ u.host_start >= u.username_end + 3
           /\ ByteAt(u.ser, u.username_end) = ":"
           /\ ByteAt(u.ser, u.host_start - 1) = "@"
  <2>1. u.username_end + 1 \in 1..a /\ u.host_start - 1 + 1 \in 1..a
    BY <1>1, <1>3, <1>6
  <2> QED  BY <1>3, <1>6, <2>1 DEF CredentialsClosed, ByteAt
<1> QED  BY <1>2, <1>4, <1>5, <1>6 DEF CredentialsClosed

\* An edit behind the host keeps the host.
LEMMA EditBehindHost ==
    ASSUME NEW u, Good(u), NEW v, NEW a, NEW b, NEW mid, NEW d,
           Edit(u, v, a, b, mid, d),
           u.host_end <= a, v.host_start = u.host_start,
           v.host_end = u.host_end, v.host = u.host
    PROVE  HostWritten(v)
<1>1. u.host_start \in Nat /\ u.host_end \in Nat
  BY GoodFacts
<1>2. HostWritten(u)  BY GoodFacts DEF AuthorityIntact
<1>3. a \in Nat /\ \A i \in 1..a : v.ser[i] = u.ser[i]  BY EditFacts
<1>4. u.host_start < u.host_end => v.ser[u.host_start + 1] = u.ser[u.host_start + 1]
  <2> SUFFICES ASSUME u.host_start < u.host_end
               PROVE  v.ser[u.host_start + 1] = u.ser[u.host_start + 1]
    OBVIOUS
  <2>1. u.host_start + 1 \in 1..a  BY <1>1, <1>3
  <2> QED  BY <1>3, <2>1
<1> QED  BY <1>2, <1>4 DEF HostWritten, ByteAt

\* The offsets of the authority and the path are in order.
HeadOrder(u) ==
    /\ u.scheme_end < u.username_end /\ u.username_end <= u.host_start
    /\ u.host_start <= u.host_end /\ u.host_end <= u.path_start

\* An edit that leaves the authority in order leaves a well-formed value.
LEMMA Edited ==
    ASSUME NEW u, Good(u), NEW v, NEW a, NEW b, NEW mid, NEW d,
           Edit(u, v, a, b, mid, d), NoSpace(mid),
           HeadOrder(v), ByteAt(v.ser, v.scheme_end) = ":",
           AuthorityMarked(v), SpecialHasAuthority(v), CredentialsClosed(v),
           HostWritten(v), PortWritten(v)
    PROVE  Good(v)
<1>1. v \in UrlSet  BY DEF Edit
<1>2. v.path_start <= Len(v.ser)  BY EditFacts
<1>3. TailCut(v)  BY EditKeepsTail
<1>4. HeadHasNoSpace(v)  BY EditKeepsNoSpace
<1>5. HeadCut(v)  BY <1>2 DEF HeadCut, HeadOrder
<1>6. AuthorityIntact(v)  BY <1>4 DEF AuthorityIntact
<1> QED  BY <1>1, <1>3, <1>5, <1>6 DEF Good, WellFormed

\* A special URL has its "://" before the username.
LEMMA SchemeKeepsAuthority ==
    ASSUME NEW u, Good(u), NEW v, Scheme(v) = Scheme(u),
           v.scheme_end = u.scheme_end,
           u.username_end >= u.scheme_end + 3 =>
              v.username_end >= v.scheme_end + 3
    PROVE  SpecialHasAuthority(v)
<1>1. SpecialHasAuthority(u)  BY GoodFacts DEF AuthorityIntact
<1> QED  BY <1>1 DEF SpecialHasAuthority, IsSpecial, TypeOf

\* An edit before the end of the username moves the credentials along.
LEMMA EditMovesCredentials ==
    ASSUME NEW u, Good(u), NEW v, NEW a, NEW b, NEW mid, NEW d,
           Edit(u, v, a, b, mid, d), b <= u.username_end,
           v.username_end = u.username_end + d,
           v.host_start = u.host_start + d,
           v.username_end \in Nat,
           /\ u.username_end = u.host_start
           /\ u.username_end <= u.scheme_end + 3
           => v.username_end <= v.scheme_end + 3,
           /\ u.username_end > u.scheme_end + 3
           /\ ByteAt(u.ser, u.username_end) = "@"
           => v.username_end > v.scheme_end + 3
    PROVE  CredentialsClosed(v)
<1> DEFINE s == u.ser
           r == v.ser
           m == Len(u.ser)
           x == u.username_end
           y == u.host_start
<1>1. /\ m \in Nat /\ x \in Nat /\ y \in Nat /\ x <= y /\ y <= m
  <2>1. /\ Len(u.ser) \in Nat /\ u.username_end \in Nat
        /\ u.host_start \in Nat /\ u.host_end \in Nat /\ u.path_start \in Nat
        /\ u.username_end <= u.host_start /\ u.host_start <= u.host_end
        /\ u.host_end <= u.path_start /\ u.path_start <= Len(u.ser)
    BY GoodFacts DEF HeadCut
  <2> QED  BY <2>1
<1>2. b \in Nat /\ d \in Int /\ b <= x  BY EditLengths
<1>3. \A i \in (b + 1)..m : r[i + d] = s[i]  BY EditFacts
<1>4. v.username_end = x + d /\ v.host_start = y + d  OBVIOUS
<1>5. CredentialsClosed(u)  BY GoodFacts DEF AuthorityIntact
<1>10. /\ x = y /\ x <= u.scheme_end + 3 => v.username_end <= v.scheme_end + 3
       /\ x > u.scheme_end + 3 /\ ByteAt(s, x) = "@"
          => v.username_end > v.scheme_end + 3
  OBVIOUS
<1> HIDE DEF s, r, m, x, y
<1>6. ASSUME NEW k \in Nat, b <= k, k < m
      PROVE  ByteAt(r, k + d) = ByteAt(s, k)
  <2>1. k + 1 \in (b + 1)..m /\ (k + 1) + d = (k + d) + 1
    BY <1>1, <1>2, <1>6
  <2>2. r[(k + d) + 1] = s[k + 1]  BY <1>3, <2>1
  <2> QED  BY <2>2 DEF ByteAt
<1>7. CASE x = y /\ x <= u.scheme_end + 3
  BY <1>4, <1>7, <1>10 DEF CredentialsClosed
<1>8. CASE x > u.scheme_end + 3 /\ y = x + 1 /\ ByteAt(s, x) = "@"
  <2>1. x < m /\ y + d = x + d + 1  BY <1>1, <1>2, <1>8
  <2>2. ByteAt(r, x + d) = "@"  BY <1>1, <1>2, <1>6, <1>8, <2>1
  <2> QED  BY <1>4, <1>8, <1>10, <2>1, <2>2 DEF CredentialsClosed, r
<1>9. CASE y >= x + 3 /\ ByteAt(s, x) = ":" /\ ByteAt(s, y - 1) = "@"
  <2>1. /\ x < m /\ y + d >= x + d + 3
        /\ y - 1 \in Nat /\ b <= y - 1 /\ y - 1 < m
        /\ (y - 1) + d = y + d - 1
    BY <1>1, <1>2, <1>9
  <2>2. ByteAt(v.ser, v.username_end) = ":"
    BY <1>1, <1>2, <1>4, <1>6, <1>9, <2>1 DEF r
  <2>3. ByteAt(v.ser, v.host_start - 1) = "@"
    <3>1. ByteAt(r, (y - 1) + d) = "@"  BY <1>6, <1>9, <2>1
    <3>2. v.host_start - 1 = (y - 1) + d  BY <1>1, <1>2, <1>4
    <3> QED  BY <3>1, <3>2 DEF r
  <2>4. v.host_start >= v.username_end + 3  BY <1>4, <2>1
  <2> QED  BY <2>2, <2>3, <2>4 DEF CredentialsClosed
<1> QED  BY <1>5, <1>7, <1>8, <1>9 DEF CredentialsClosed, x, y, s

\* A port is written with the digits 0 to 9.
LEMMA DecimalType ==
    ASSUME NEW n, NEW S, \A d : DigitLexeme(d) \in S
    PROVE  Decimal(n) \in Seq(S)
BY DEF Decimal

\* The digits of a port are a text without spaces.
LEMMA PortSuffixFacts ==
    ASSUME NEW n
    PROVE  PortSuffix(n) \in Text /\ NoSpace(PortSuffix(n))
<1> DEFINE S == Digit \union {":"}
           s == PortSuffix(n)
<1>1. \A d : DigitLexeme(d) \in S  BY DEF DigitLexeme, Digit
<1>2. \A x \in S : x # "SP" /\ x \in Lexeme  BY DEF Digit, Lexeme, Mark
<1>3. ":" \in S /\ ":" \in Mark  BY DEF Mark
<1> HIDE DEF S
<1>4. s \in Seq(S)
  <2> DEFINE colon == <<":">>
  <2>1. colon \in Seq(S)  BY <1>3
  <2> HIDE DEF colon
  <2>2. Decimal(n) \in Seq(S)  BY <1>1, DecimalType
  <2>3. colon \o Decimal(n) \in Seq(S)  BY <2>1, <2>2, ConcatProperties
  <2> QED  BY <2>3 DEF PortSuffix, colon
<1>5. s \in Text
  <2>1. \A d : DigitLexeme(d) \in Lexeme  BY <1>1, <1>2
  <2>2. Decimal(n) \in Text  BY <2>1, DecimalType DEF Text
  <2> QED  BY <1>3, <2>2, Delimited DEF PortSuffix
<1> HIDE DEF s
<1>6. \A i \in 1..Len(s) : s[i] \in S  BY <1>4, ElementOfSeq
<1>7. NoSpace(s)  BY <1>2, <1>6 DEF NoSpace
<1> QED  BY <1>5, <1>7 DEF s
==============================================================================
