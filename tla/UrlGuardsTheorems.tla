-------------------------- MODULE UrlGuardsTheorems --------------------------
(****************************************************************************)
(* The safety properties of UrlGuards, for all values the assumptions of    *)
(* UrlSetters and UrlGuards allow.  The argument: while a guard is open, the*)
(* value it borrows is one that was well formed when the guard was opened,  *)
(* with its path or query replaced and its tail cut off; so dropping the    *)
(* guard does to that earlier value what set_path or set_query would do.    *)
(****************************************************************************)
EXTENDS UrlGuards, UrlSettersTheorems

(****************************************************************************)
(* Texts that are cut and put together again.                               *)
(****************************************************************************)
LEMMA TextsEqual ==
    ASSUME NEW s \in Text, NEW t \in Text, Len(s) = Len(t),
           \A i \in 1..Len(s) : s[i] = t[i]
    PROVE  s = t
BY SeqEqual DEF Text

\* A prefix is a shorter prefix and a slice behind it.
LEMMA TakeSplit ==
    ASSUME NEW s \in Text, NEW a \in Nat, NEW b \in Nat, a <= b, b <= Len(s)
    PROVE  Take(s, b) = Take(s, a) \o Slice(s, a, b)
<1> DEFINE x == Take(s, a)
           y == Slice(s, a, b)
           z == Take(s, b)
<1>0. Len(s) \in Nat  BY LenProperties DEF Text
<1>1. /\ x \in Text /\ Len(x) = a /\ \A i \in 1..a : x[i] = s[i]
  BY <1>0, TakeFacts
<1>2. /\ y \in Text /\ Len(y) = b - a /\ \A i \in 1..(b - a) : y[i] = s[a + i]
  BY SliceFacts
<1>3. /\ z \in Text /\ Len(z) = b /\ \A i \in 1..b : z[i] = s[i]
  BY TakeFacts
<1> HIDE DEF x, y, z
<1>4. /\ x \o y \in Text /\ Len(x \o y) = Len(x) + Len(y)
      /\ \A i \in 1..Len(x) : (x \o y)[i] = x[i]
      /\ \A i \in 1..Len(y) : (x \o y)[Len(x) + i] = y[i]
  BY <1>1, <1>2, ConcatFacts
<1> DEFINE r == x \o y
<1>5. /\ r \in Text /\ Len(r) = b
      /\ \A i \in 1..a : r[i] = s[i]
      /\ \A i \in 1..(b - a) : r[a + i] = s[a + i]
  BY <1>1, <1>2, <1>4
<1> HIDE DEF r
<1>6. ASSUME NEW i \in 1..b PROVE r[i] = z[i]
  <2>1. CASE i \in 1..a  BY <1>3, <1>5, <2>1
  <2>2. CASE i > a
    <3>1. i - a \in 1..(b - a) /\ i = a + (i - a)  BY <2>2
    <3> QED  BY <1>3, <1>5, <3>1
  <2> QED  BY <2>1, <2>2
<1>7. r = z  BY <1>3, <1>5, <1>6, TextsEqual
<1> QED  BY <1>7 DEF r, x, y, z

\* Cutting s off s \o t leaves t, and cutting t off leaves s.
LEMMA ConcatCut ==
    ASSUME NEW s \in Text, NEW t \in Text
    PROVE  Take(s \o t, Len(s)) = s /\ Drop(s \o t, Len(s)) = t
<1> DEFINE r == s \o t
           n == Len(s)
           x == Take(r, n)
           y == Drop(r, n)
<1>1. n \in Nat /\ Len(t) \in Nat  BY LenProperties DEF Text
<1>2. /\ r \in Text /\ Len(r) = n + Len(t)
      /\ \A i \in 1..n : r[i] = s[i]
      /\ \A i \in 1..Len(t) : r[n + i] = t[i]
  BY ConcatFacts
<1> HIDE DEF r
<1>3. n <= Len(r) /\ Len(r) - n = Len(t)  BY <1>1, <1>2
<1>4. x \in Text /\ Len(x) = n /\ \A i \in 1..n : x[i] = r[i]
  BY <1>1, <1>2, <1>3, TakeFacts
<1>5. /\ y \in Text /\ Len(y) = Len(r) - n
      /\ \A i \in 1..(Len(r) - n) : y[i] = r[n + i]
  BY <1>1, <1>2, <1>3, DropFacts
<1> HIDE DEF x, y
<1>6. x = s  BY <1>1, <1>2, <1>4, TextsEqual
<1>7. y = t
  <2>1. Len(y) = Len(t)  BY <1>3, <1>5
  <2>2. \A i \in 1..Len(y) : y[i] = t[i]  BY <1>2, <1>3, <1>5, <2>1
  <2> QED  BY <1>5, <2>1, <2>2, TextsEqual
<1> QED  BY <1>6, <1>7 DEF x, y, r

\* The empty text in front of or behind another.
LEMMA WithNothing ==
    ASSUME NEW s \in Text
    PROVE  /\ s \o <<>> = s /\ Drop(s, Len(s)) = <<>> /\ Take(s, Len(s)) = s
           /\ <<>> \in Text
<1> DEFINE e == <<>>
<1>1. e \in Text /\ Len(e) = 0  BY EmptySeq DEF Text
<1> HIDE DEF e
<1>2. Len(s) \in Nat  BY LenProperties DEF Text
<1>3. s \o e \in Text /\ Len(s \o e) = Len(s) /\ \A i \in 1..Len(s) : (s \o e)[i] = s[i]
  BY <1>1, <1>2, ConcatFacts
<1>4. s \o e = s  BY <1>3, TextsEqual
<1>5. Take(s \o e, Len(s)) = s /\ Drop(s \o e, Len(s)) = e
  BY <1>1, ConcatCut
<1> QED  BY <1>1, <1>4, <1>5 DEF e

(****************************************************************************)
(* What an open guard stands for.                                           *)
(****************************************************************************)
\* u is w with its path replaced by text and what followed it in g.
PathOpen(w, text, u, g) ==
    /\ u = [w EXCEPT !.ser = Take(w.ser, w.path_start) \o text]
    /\ g.at = PathEnd(w)
    /\ g.taken = Drop(w.ser, PathEnd(w))

\* u is w with its query replaced by text and its fragment in g.
QueryOpen(w, text, u, g) ==
    /\ u = [w EXCEPT !.ser = (Take(w.ser, PathEnd(w)) \o <<"?">>) \o text,
                     !.query_start = PathEnd(w),
                     !.fragment_start = None]
    /\ g.at = PathEnd(w) + 1
    /\ g.taken = Drop(w.ser, QueryEnd(w))

\* The text in front of what is edited, and that it can be told from it.
LEMMA PathOpenFacts ==
    ASSUME NEW w, Good(w), NEW text \in Text, NEW u, NEW g,
           PathOpen(w, text, u, g)
    PROVE  /\ u \in UrlSet
           /\ Take(u.ser, u.path_start) = Take(w.ser, w.path_start)
           /\ Drop(u.ser, u.path_start) = text
           /\ Len(u.ser) = w.path_start + Len(text) /\ Len(text) \in Nat
           /\ g.at \in Nat /\ g.taken \in Text
<1> DEFINE head == Take(w.ser, w.path_start)
           p == w.path_start
<1>1. /\ w \in UrlSet /\ w.ser \in Text /\ p \in Nat /\ p <= PathEnd(w)
      /\ PathEnd(w) \in Nat /\ PathEnd(w) <= Len(w.ser) /\ Len(w.ser) \in Nat
  BY GoodFacts, TailFacts DEF Good
<1>2. head \in Text /\ Len(head) = p
  BY <1>1, TakeFacts
<1>3. Len(text) \in Nat  BY LenProperties DEF Text
<1>4. u.ser = head \o text /\ u.path_start = p
  BY <1>1 DEF PathOpen, UrlSet
<1>5. u \in UrlSet
  <2>1. head \o text \in Text  BY <1>2, ConcatFacts
  <2> QED  BY <1>1, <2>1 DEF PathOpen, UrlSet
<1> HIDE DEF head
<1>6. /\ Len(head \o text) = Len(head) + Len(text)
      /\ Take(head \o text, Len(head)) = head
      /\ Drop(head \o text, Len(head)) = text
  BY <1>2, ConcatFacts, ConcatCut
<1>7. g.at \in Nat /\ g.taken \in Text
  BY <1>1, DropFacts DEF PathOpen
<1> QED  BY <1>2, <1>3, <1>4, <1>5, <1>6, <1>7 DEF head

\* What opening a query guard leaves: the value up to its query, and the
\* fragment it put aside.
LEMMA QueryOpenFacts ==
    ASSUME NEW w, Good(w), NEW text \in Text, NEW u, NEW g,
           QueryOpen(w, text, u, g)
    PROVE  /\ u \in UrlSet
           /\ Take(u.ser, g.at) = Take(w.ser, PathEnd(w)) \o <<"?">>
           /\ Drop(u.ser, g.at) = text
           /\ Len(u.ser) = PathEnd(w) + 1 + Len(text) /\ Len(text) \in Nat
           /\ g.at \in Nat /\ g.taken \in Text
<1> DEFINE head == Take(w.ser, PathEnd(w))
           mark == <<"?">>
           front == head \o mark
           p == PathEnd(w)
<1>1. /\ w \in UrlSet /\ w.ser \in Text /\ Len(w.ser) \in Nat
      /\ p \in Nat /\ p <= QueryEnd(w)
      /\ QueryEnd(w) \in Nat /\ QueryEnd(w) <= Len(w.ser)
  BY GoodFacts, TailFacts DEF Good
<1>2. head \in Text /\ Len(head) = p
  BY <1>1, TakeFacts
<1>3. mark \in Text /\ Len(mark) = 1
  BY DEF Text, Lexeme, Mark
<1>4. Len(text) \in Nat  BY LenProperties DEF Text
<1>5. u.ser = front \o text /\ g.at = p + 1
  BY <1>1 DEF QueryOpen, UrlSet
<1>6. g.at \in Nat /\ g.taken \in Text
  BY <1>1, <1>5, DropFacts DEF QueryOpen
<1> HIDE DEF head, mark
<1>7. front \in Text /\ Len(front) = p + 1
  <2>1. front \in Text /\ Len(front) = Len(head) + Len(mark)
    BY <1>2, <1>3, ConcatFacts
  <2> HIDE DEF front, p
  <2> QED  BY <1>1, <1>2, <1>3, <2>1
<1>8. u \in UrlSet
  <2>1. front \o text \in Text  BY <1>7, ConcatFacts
  <2> QED  BY <1>1, <2>1 DEF QueryOpen, UrlSet, OptOffset, head, mark
<1> HIDE DEF front
<1>9. /\ Len(front \o text) = Len(front) + Len(text)
      /\ Take(front \o text, Len(front)) = front
      /\ Drop(front \o text, Len(front)) = text
  BY <1>7, ConcatFacts, ConcatCut
<1> QED
  BY <1>1, <1>4, <1>5, <1>6, <1>7, <1>8, <1>9 DEF front, head, mark

\* Dropping a path guard is what storing the path would have been.
LEMMA RestoredIsWithPath ==
    ASSUME NEW w, Good(w), NEW text \in Text, NEW u, NEW g,
           PathOpen(w, text, u, g)
    PROVE  Restored(u, g) = WithPath(w, text)
<1>1. /\ Len(u.ser) = w.path_start + Len(text) /\ Len(text) \in Nat
      /\ w.path_start \in Nat /\ PathEnd(w) \in Nat
  BY PathOpenFacts, GoodFacts, TailFacts
<1>2. w \in UrlSet  BY DEF Good
<1>3. /\ u = [w EXCEPT !.ser = u.ser]
      /\ u.ser = Take(w.ser, w.path_start) \o text
      /\ u.query_start = w.query_start /\ u.fragment_start = w.fragment_start
      /\ g.at = PathEnd(w) /\ g.taken = Drop(w.ser, PathEnd(w))
  BY <1>2 DEF PathOpen, UrlSet
<1> DEFINE d == w.path_start + Len(text) - PathEnd(w)
           s == Splice(w.ser, w.path_start, PathEnd(w), text)
<1>4. u.ser \o g.taken = s /\ Len(u.ser) - g.at = d
  <2>1. u.ser \o g.taken = s  BY <1>3 DEF Splice
  <2>2. g.at = PathEnd(w)  BY <1>3
  <2>3. Len(u.ser) - g.at = d  BY <1>1, <2>2
  <2> QED  BY <2>1, <2>3
<1> HIDE DEF d, s
<1>5. Restored(u, g) = [ShiftAfterPath(u, d) EXCEPT !.ser = s]
  <2>1. ShiftAfterPath(u, d).ser = u.ser
    BY <1>2, <1>3 DEF ShiftAfterPath, UrlSet
  <2> QED  BY <1>4, <2>1 DEF Restored
<1>6. [ShiftAfterPath(u, d) EXCEPT !.ser = s] =
      [ShiftAfterPath(w, d) EXCEPT !.ser = s]
  BY <1>2, <1>3 DEF ShiftAfterPath, UrlSet
<1> QED  BY <1>5, <1>6 DEF WithPath, d, s

\* Dropping a query guard is what storing the query would have been.
LEMMA RestoredIsWithQuery ==
    ASSUME NEW w, Good(w), NEW text \in Text, NEW u, NEW g,
           QueryOpen(w, text, u, g)
    PROVE  FragmentRestored(u, g) = WithQuery(w, text)
<1> DEFINE a == PathEnd(w)
           b == QueryEnd(w)
           tail == <<"?">> \o text
           s == Splice(w.ser, a, b, tail)
<1>1. /\ w \in UrlSet /\ w.ser \in Text /\ Len(w.ser) \in Nat
      /\ a \in Nat /\ a <= b /\ b \in Nat /\ b <= Len(w.ser)
      /\ w.fragment_start \in OptOffset
      /\ w.fragment_start # None => w.fragment_start = b /\ b < Len(w.ser)
  BY GoodFacts, TailFacts DEF Good
<1>2. /\ u = [w EXCEPT !.ser = u.ser, !.query_start = a, !.fragment_start = None]
      /\ g.taken = Drop(w.ser, b)
      /\ u.ser = (Take(w.ser, a) \o <<"?">>) \o text
      /\ u.fragment_start = None
  BY <1>1 DEF QueryOpen, UrlSet
<1>3. Len(u.ser) = a + Len(tail) /\ Len(tail) \in Nat
  <2>1. Len(tail) = 1 + Len(text) /\ Len(text) \in Nat  BY Delimited DEF Mark
  <2>2. Len(u.ser) = a + 1 + Len(text)  BY QueryOpenFacts
  <2> QED  BY <1>1, <2>1, <2>2
<1>4. u.ser = Take(w.ser, a) \o tail
  <2>1. Take(w.ser, a) \in Text  BY <1>1, TakeFacts
  <2>2. <<"?">> \in Text  BY DEF Text, Lexeme, Mark
  <2> HIDE DEF a
  <2> QED  BY <1>2, <2>1, <2>2 DEF Text
<1>5. u.ser \o g.taken = s  BY <1>2, <1>4 DEF Splice
<1>6. g.taken = <<>> <=> w.fragment_start = None
  <2>1. Len(g.taken) = Len(w.ser) - b /\ g.taken \in Text
    BY <1>1, <1>2, DropFacts
  <2>2. Len(g.taken) = 0 <=> g.taken = <<>>  BY <2>1, EmptySeq DEF Text
  <2>3. w.fragment_start = None => b = Len(w.ser)  BY DEF QueryEnd
  <2> HIDE DEF b
  <2> QED  BY <1>1, <2>1, <2>2, <2>3
<1> DEFINE v == WithQuery(w, text)
<1>7. v = [w EXCEPT !.ser = s, !.query_start = a,
                    !.fragment_start = ShiftOpt(w.fragment_start, a + Len(tail) - b)]
  BY DEF WithQuery
<1> HIDE DEF v, s, tail, a, b
<1>8. CASE g.taken = <<>>
  <2>1. u.ser \o <<>> = u.ser
    <3>1. u.ser \in Text  BY QueryOpenFacts DEF UrlSet
    <3> QED  BY <3>1, WithNothing
  <2>2. u.ser = s  BY <1>5, <1>8, <2>1
  <2>3. w.fragment_start = None  BY <1>6, <1>8
  <2>4. v = u  BY <1>1, <1>2, <1>7, <2>2, <2>3 DEF UrlSet, ShiftOpt
  <2> QED  BY <1>8, <2>4 DEF FragmentRestored, v
<1>9. CASE g.taken # <<>>
  <2>1. w.fragment_start = b /\ w.fragment_start # None  BY <1>1, <1>6, <1>9
  <2>2. ShiftOpt(w.fragment_start, a + Len(tail) - b) = Len(u.ser)
    BY <1>1, <1>3, <2>1 DEF ShiftOpt
  <2>3. v = [u EXCEPT !.ser = s, !.fragment_start = Len(u.ser)]
    BY <1>1, <1>2, <1>7, <2>2 DEF UrlSet
  <2> QED  BY <1>5, <1>9, <2>3 DEF FragmentRestored, v
<1> QED  BY <1>8, <1>9

-----------------------------------------------------------------------------
\* Some well-formed value stands behind what a guard borrows.
BorrowedPath(u, g) ==
    \E w \in UrlSet, text \in Text : Good(w) /\ PathOpen(w, text, u, g)

BorrowedQuery(u, g) ==
    \E w \in UrlSet, text \in Text : Good(w) /\ QueryOpen(w, text, u, g)

\* path_segments_mut
LEMMA PathTaken ==
    ASSUME NEW u, Good(u), NEW g, g.at = PathEnd(u),
           g.taken = Drop(u.ser, PathEnd(u))
    PROVE  BorrowedPath([u EXCEPT !.ser = Take(u.ser, PathEnd(u))], g)
<1>1. /\ u \in UrlSet /\ u.ser \in Text /\ u.path_start \in Nat
      /\ PathEnd(u) \in Nat /\ u.path_start <= PathEnd(u)
      /\ PathEnd(u) <= Len(u.ser)
  BY GoodFacts, TailFacts DEF Good
<1>2. Path(u) \in Text  BY <1>1, SliceFacts DEF Path
<1>3. Take(u.ser, PathEnd(u)) = Take(u.ser, u.path_start) \o Path(u)
  BY <1>1, TakeSplit DEF Path
<1> QED  BY <1>1, <1>2, <1>3 DEF BorrowedPath, PathOpen

\* What the methods of a path guard store.
LEMMA PathEdited ==
    ASSUME NEW u, NEW g, BorrowedPath(u, g), NEW path \in Text
    PROVE  BorrowedPath([u EXCEPT !.ser = Take(u.ser, u.path_start) \o path], g)
<1>1. PICK w \in UrlSet, text \in Text : Good(w) /\ PathOpen(w, text, u, g)
  BY DEF BorrowedPath
<1>2. Take(u.ser, u.path_start) = Take(w.ser, w.path_start)
  BY <1>1, PathOpenFacts
<1>3. [u EXCEPT !.ser = Take(u.ser, u.path_start) \o path]
        = [w EXCEPT !.ser = Take(w.ser, w.path_start) \o path]
  BY <1>1, <1>2 DEF PathOpen, UrlSet
<1>4. PathOpen(w, path, [u EXCEPT !.ser = Take(u.ser, u.path_start) \o path], g)
  BY <1>1, <1>3 DEF PathOpen
<1> QED  BY <1>1, <1>4 DEF BorrowedPath

\* PathSegmentsMut::drop
LEMMA PathReturned ==
    ASSUME NEW u, NEW g, BorrowedPath(u, g)
    PROVE  Good(Restored(u, g))
<1>1. PICK w \in UrlSet, text \in Text : Good(w) /\ PathOpen(w, text, u, g)
  BY DEF BorrowedPath
<1> QED  BY <1>1, RestoredIsWithPath, WithPathGood

\* The same while the serialization is moved out: what comes back is not well
\* formed, but no offset is taken below zero.
LEMMA PathUnwound ==
    ASSUME NEW u, NEW g, BorrowedPath(u, g)
    PROVE  Restored([u EXCEPT !.ser = <<>>], g) \in UrlSet
<1>1. PICK w \in UrlSet, text \in Text : Good(w) /\ PathOpen(w, text, u, g)
  BY DEF BorrowedPath
<1>2. /\ u \in UrlSet /\ g.taken \in Text /\ g.at \in Nat
      /\ u.query_start = w.query_start /\ u.fragment_start = w.fragment_start
      /\ g.at = PathEnd(w)
  BY <1>1, PathOpenFacts DEF PathOpen, UrlSet
<1>3. /\ w.query_start # None => w.query_start >= g.at
      /\ w.fragment_start # None => w.fragment_start >= g.at
  BY <1>1, <1>2, TailFacts
<1> DEFINE e == [u EXCEPT !.ser = <<>>]
           d == 0 - g.at
<1>4. ShiftOpt(u.query_start, d) \in OptOffset
      /\ ShiftOpt(u.fragment_start, d) \in OptOffset
  BY <1>2, <1>3 DEF UrlSet, OptOffset, ShiftOpt
<1>5. /\ Len(e.ser) - g.at = d /\ e.ser \o g.taken = g.taken
      /\ e.query_start = u.query_start /\ e.fragment_start = u.fragment_start
  <2>1. e.ser = <<>> /\ Len(<<>>) = 0
    BY <1>2, EmptySeq DEF UrlSet
  <2>2. <<>> \o g.taken = g.taken
    BY <1>2 DEF Text
  <2>3. e.query_start = u.query_start /\ e.fragment_start = u.fragment_start
    BY <1>2 DEF UrlSet
  <2> QED  BY <2>1, <2>2, <2>3
<1>6. Restored(e, g) = [u EXCEPT !.ser = g.taken,
                                 !.query_start = ShiftOpt(u.query_start, d),
                                 !.fragment_start = ShiftOpt(u.fragment_start, d)]
  <2> HIDE DEF d
  <2>1. ShiftAfterPath(e, d).ser = e.ser
    BY <1>2 DEF ShiftAfterPath, UrlSet
  <2>2. Restored(e, g) = [ShiftAfterPath(e, d) EXCEPT !.ser = g.taken]
    BY <1>5, <2>1 DEF Restored
  <2> QED  BY <1>2, <1>5, <2>2 DEF ShiftAfterPath, UrlSet
<1> HIDE DEF d
<1> QED  BY <1>2, <1>4, <1>6 DEF UrlSet

\* What lies behind a prefix is read at offsets moved by its length.
LEMMA SliceBehind ==
    ASSUME NEW s \in Text, NEW t \in Text, NEW a \in Nat, NEW b \in Nat,
           a <= b, b <= Len(t)
    PROVE  Slice(s \o t, Len(s) + a, Len(s) + b) = Slice(t, a, b)
<1> DEFINE r == s \o t
           n == Len(s)
<1>1. /\ r \in Text /\ Len(r) = n + Len(t) /\ n \in Nat /\ Len(t) \in Nat
      /\ \A i \in 1..Len(t) : r[n + i] = t[i]
  BY ConcatFacts, LenProperties DEF Text
<1> HIDE DEF r, n
<1>2. \A i \in 1..(b - a) : r[(n + a) + i] = t[a + i]
  <2>1. \A i \in 1..(b - a) : a + i \in 1..Len(t) /\ (n + a) + i = n + (a + i)
    BY <1>1
  <2> QED  BY <1>1, <2>1
<1>3. SameElements(r, n + a, n + b, t, a, b)
  BY <1>1, <1>2 DEF SameElements
<1>4. Slice(r, n + a, n + b) = Slice(t, a, b)  BY <1>3, SlicesEqual
<1> QED  BY <1>4 DEF r, n

\* The query and the fragment in what a path guard took off.
TakenQuery(u, g) ==
    IF u.query_start = None THEN <<>>
    ELSE Slice(g.taken, u.query_start - g.at + 1,
               IF u.fragment_start = None THEN Len(g.taken)
               ELSE u.fragment_start - g.at)

TakenFragment(u, g) ==
    IF u.fragment_start = None THEN <<>>
    ELSE Slice(g.taken, u.fragment_start - g.at + 1, Len(g.taken))

\* Query and fragment are read from what was taken off, whatever text it is
\* put back behind.
LEMMA TailReadBack ==
    ASSUME NEW u, NEW g, BorrowedPath(u, g), NEW s \in Text,
           NEW e, e = Restored([u EXCEPT !.ser = s], g)
    PROVE  /\ QueryEnd(e) <= Len(e.ser)
           /\ Query(e) = TakenQuery(u, g)
           /\ Fragment(e) = TakenFragment(u, g)
<1>1. PICK w \in UrlSet, text \in Text : Good(w) /\ PathOpen(w, text, u, g)
  BY DEF BorrowedPath
<1>2. /\ u \in UrlSet /\ g.at \in Nat /\ g.at = PathEnd(w)
      /\ u.query_start = w.query_start /\ u.fragment_start = w.fragment_start
      /\ g.taken = Drop(w.ser, g.at)
  <2>1. /\ u = [w EXCEPT !.ser = Take(w.ser, w.path_start) \o text]
        /\ g.at = PathEnd(w) /\ g.taken = Drop(w.ser, PathEnd(w))
    BY <1>1 DEF PathOpen
  <2>2. u \in UrlSet /\ g.at \in Nat  BY <1>1, PathOpenFacts
  <2>3. u.query_start = w.query_start /\ u.fragment_start = w.fragment_start
    BY <2>1 DEF UrlSet
  <2> QED  BY <2>1, <2>2, <2>3
<1>3. /\ w.query_start \in OptOffset /\ w.fragment_start \in OptOffset
      /\ Len(w.ser) \in Nat /\ g.at <= Len(w.ser) /\ w.ser \in Text
  BY <1>1, <1>2, GoodFacts, TailFacts
<1> DEFINE q == u.query_start
           f == u.fragment_start
           t == g.taken
           n == Len(s)
           m == Len(t)
           a == g.at
<1>4. t \in Text /\ m = Len(w.ser) - a /\ m \in Nat /\ n \in Nat
  BY <1>2, <1>3, DropFacts, LenProperties DEF Text
<1>5. /\ q \in OptOffset /\ f \in OptOffset
      /\ q # None => q - a \in Nat /\ q - a < m
      /\ f # None => f - a \in Nat /\ f - a < m
      /\ q # None /\ f # None => q < f
  BY <1>1, <1>2, <1>3, <1>4, TailFacts DEF OptOffset, TailCut
<1>6. /\ e.ser = s \o t
      /\ e.query_start = ShiftOpt(q, n - a)
      /\ e.fragment_start = ShiftOpt(f, n - a)
  <2> DEFINE v == [u EXCEPT !.ser = s]
  <2>1. v.ser = s /\ v.query_start = q /\ v.fragment_start = f /\ v = [u EXCEPT !.ser = s]
    BY <1>2 DEF UrlSet
  <2> DEFINE x == ShiftAfterPath(v, n - a)
  <2>2. /\ x.ser = s /\ x.query_start = ShiftOpt(q, n - a)
        /\ x.fragment_start = ShiftOpt(f, n - a)
        /\ {"ser", "query_start", "fragment_start"} \subseteq DOMAIN x
    BY <1>2, <2>1 DEF ShiftAfterPath, UrlSet
  <2>3. e = [x EXCEPT !.ser = s \o t]
    <3>1. e = [ShiftAfterPath(v, Len(v.ser) - a) EXCEPT !.ser = @ \o t]
      BY DEF Restored
    <3> QED  BY <2>1, <2>2, <3>1
  <2> HIDE DEF x, v
  <2> QED  BY <2>2, <2>3
<1>7. /\ a \in Nat /\ None \notin Nat
      /\ q # None => q \in Nat /\ ShiftOpt(q, n - a) = n + (q - a)
      /\ f # None => f \in Nat /\ ShiftOpt(f, n - a) = n + (f - a)
  <2>1. a \in Nat /\ None \notin Nat  BY <1>2 DEF None
  <2>2. (q # None => q \in Nat) /\ (f # None => f \in Nat)
    BY <1>5 DEF OptOffset
  <2> HIDE DEF q, f, a, n
  <2> QED  BY <1>4, <2>1, <2>2 DEF ShiftOpt
<1>8. Len(s \o t) = n + m  BY <1>4, ConcatFacts
<1> HIDE DEF q, f, t, n, m, a
<1>9. QueryEnd(e) = n + (IF f = None THEN m ELSE f - a)
  <2>1. CASE f = None
    BY <1>6, <1>8, <2>1 DEF QueryEnd, ShiftOpt
  <2>2. CASE f # None
    <3>1. e.fragment_start = n + (f - a) /\ n + (f - a) \in Nat
      <4>1. e.fragment_start = n + (f - a)  BY <1>6, <1>7, <2>2
      <4>2. f \in Nat /\ a \in Nat /\ n \in Nat  BY <1>4, <1>7, <2>2
      <4>3. f - a \in Nat  BY <1>5, <2>2
      <4>4. n + (f - a) \in Nat  BY <4>2, <4>3
      <4> QED  BY <4>1, <4>4
    <3>2. e.fragment_start # None  BY <1>7, <3>1
    <3> QED  BY <2>2, <3>1, <3>2 DEF QueryEnd
  <2> QED  BY <2>1, <2>2
<1>10. (IF f = None THEN m ELSE f - a) \in 0..m
  BY <1>4, <1>5
<1>11. Query(e) = TakenQuery(u, g)
  <2>1. CASE q = None
    BY <1>6, <2>1 DEF Query, TakenQuery, ShiftOpt, q
  <2>2. CASE q # None
    <3> DEFINE to == IF f = None THEN m ELSE f - a
               from == q - a + 1
    <3>1. from \in Nat /\ to \in Nat /\ from <= to /\ to <= m
      BY <1>2, <1>4, <1>5, <1>10, <2>2 DEF OptOffset, a
    <3>2. e.query_start # None /\ e.query_start + 1 = n + from
      <4>1. e.query_start = n + (q - a) /\ n + (q - a) \in Nat
        <5>1. e.query_start = n + (q - a)  BY <1>6, <1>7, <2>2
        <5>2. q \in Nat /\ a \in Nat /\ n \in Nat  BY <1>4, <1>7, <2>2
        <5>3. q - a \in Nat  BY <1>5, <2>2
        <5>4. n + (q - a) \in Nat  BY <5>2, <5>3
        <5> QED  BY <5>1, <5>4
      <4>2. e.query_start # None  BY <1>7, <4>1
      <4> QED  BY <1>4, <1>5, <2>2, <4>1, <4>2
    <3>3. QueryEnd(e) = n + to  BY <1>9
    <3>4. TakenQuery(u, g) = Slice(t, from, to)
      BY <2>2 DEF TakenQuery, q, f, t, m, a
    <3> HIDE DEF from, to
    <3>5. Slice(s \o t, n + from, n + to) = Slice(t, from, to)
      BY <1>4, <3>1, SliceBehind DEF n, m
    <3> QED  BY <1>6, <3>2, <3>3, <3>4, <3>5 DEF Query
  <2> QED  BY <2>1, <2>2
<1>12. Fragment(e) = TakenFragment(u, g)
  <2>1. CASE f = None
    BY <1>6, <2>1 DEF Fragment, TakenFragment, ShiftOpt, f
  <2>2. CASE f # None
    <3> DEFINE from == f - a + 1
    <3>1. from \in Nat /\ from <= m
      BY <1>2, <1>4, <1>5, <2>2 DEF OptOffset, a
    <3>2. e.fragment_start # None /\ e.fragment_start + 1 = n + from
      <4>1. e.fragment_start = n + (f - a) /\ n + (f - a) \in Nat
        <5>1. e.fragment_start = n + (f - a)  BY <1>6, <1>7, <2>2
        <5>2. f \in Nat /\ a \in Nat /\ n \in Nat  BY <1>4, <1>7, <2>2
        <5>3. f - a \in Nat  BY <1>5, <2>2
        <5>4. n + (f - a) \in Nat  BY <5>2, <5>3
        <5> QED  BY <5>1, <5>4
      <4>2. e.fragment_start # None  BY <1>7, <4>1
      <4> QED  BY <1>4, <1>5, <2>2, <4>1, <4>2
    <3>3. TakenFragment(u, g) = Slice(t, from, m)
      BY <2>2 DEF TakenFragment, f, t, m, a
    <3> HIDE DEF from
    <3>4. Slice(s \o t, n + from, n + m) = Slice(t, from, m)
      BY <1>4, <3>1, SliceBehind DEF n, m
    <3>5. Fragment(e) = Slice(e.ser, e.fragment_start + 1, Len(e.ser))
      BY <3>2 DEF Fragment, Drop, Slice
    <3> QED  BY <1>6, <1>8, <3>2, <3>3, <3>4, <3>5
  <2> QED  BY <2>1, <2>2
<1>13. QueryEnd(e) <= Len(e.ser)  BY <1>4, <1>6, <1>8, <1>9, <1>10
<1> QED  BY <1>11, <1>12, <1>13

-----------------------------------------------------------------------------
\* query_pairs_mut
LEMMA QueryTaken ==
    ASSUME NEW u, Good(u), NEW g, g.at = PathEnd(u) + 1,
           g.taken = Drop(u.ser, QueryEnd(u))
    PROVE  BorrowedQuery(OpenedQuery(u), g)
<1> DEFINE p == PathEnd(u)
           q == QueryEnd(u)
           v == OpenedQuery(u)
<1>1. /\ u \in UrlSet /\ u.ser \in Text /\ Len(u.ser) \in Nat
      /\ p \in Nat /\ p <= q /\ q \in Nat /\ q <= Len(u.ser)
      /\ u.query_start # None => p < q /\ u.ser[p + 1] = "?"
  BY GoodFacts, TailFacts DEF Good, HasByte, ByteAt
<1>2. /\ v = [u EXCEPT !.ser = v.ser, !.query_start = p, !.fragment_start = None]
      /\ v.ser = Take(u.ser, q) \o (IF u.query_start = None THEN <<"?">> ELSE <<>>)
  BY <1>1 DEF OpenedQuery, UrlSet
<1> SUFFICES \E text \in Text : v.ser = (Take(u.ser, p) \o <<"?">>) \o text
  BY <1>1, <1>2 DEF BorrowedQuery, QueryOpen
<1>3. /\ Take(u.ser, p) \in Text /\ Take(u.ser, q) \in Text
      /\ <<"?">> \in Text /\ Len(<<"?">>) = 1 /\ <<"?">>[1] = "?"
  BY <1>1, TakeFacts DEF Text, Lexeme, Mark
<1>4. CASE u.query_start = None
  <2>1. p = q  BY <1>4 DEF PathEnd, QueryEnd
  <2>2. Take(u.ser, p) \o <<"?">> \in Text  BY <1>3, ConcatFacts
  <2>3. (Take(u.ser, p) \o <<"?">>) \o <<>> = Take(u.ser, p) \o <<"?">>
        /\ <<>> \in Text
    BY <2>2, WithNothing
  <2> QED  BY <1>2, <1>4, <2>1, <2>3
<1>5. CASE u.query_start # None
  <2>1. p < q /\ u.ser[p + 1] = "?"  BY <1>1, <1>5
  <2>2. Slice(u.ser, p, p + 1) = <<"?">>
    <3> DEFINE x == Slice(u.ser, p, p + 1)
               m == <<"?">>
    <3> HIDE DEF p, q
    <3>1. x \in Text /\ Len(x) = 1 /\ x[1] = u.ser[p + 1]
      <4>1. p + 1 \in Nat /\ p <= p + 1 /\ p + 1 <= Len(u.ser)
            /\ (p + 1) - p = 1 /\ 1 \in 1..1
        BY <1>1, <2>1
      <4> HIDE DEF x
      <4>2. x \in Text /\ Len(x) = (p + 1) - p
            /\ \A i \in 1..((p + 1) - p) : x[i] = u.ser[p + i]
        BY <1>1, <4>1, SliceFacts DEF x
      <4> QED  BY <4>1, <4>2
    <3>2. m \in Text /\ Len(m) = 1 /\ m[1] = "?"  BY <1>3
    <3> HIDE DEF x, m
    <3>3. x = m  BY <2>1, <3>1, <3>2, TextsEqual
    <3> QED  BY <3>3 DEF x, m
  <2> HIDE DEF p, q
  <2>3. /\ p + 1 \in Nat /\ p <= p + 1 /\ p + 1 <= q /\ p + 1 <= Len(u.ser)
    BY <1>1, <2>1
  <2>4. Take(u.ser, p + 1) = Take(u.ser, p) \o <<"?">>
    <3>1. Take(u.ser, p + 1) = Take(u.ser, p) \o Slice(u.ser, p, p + 1)
      BY <1>1, <2>3, TakeSplit
    <3> QED  BY <2>2, <3>1 DEF p
  <2>5. /\ Take(u.ser, q) = Take(u.ser, p + 1) \o Slice(u.ser, p + 1, q)
        /\ Slice(u.ser, p + 1, q) \in Text
    BY <1>1, <2>3, TakeSplit, SliceFacts
  <2>6. Take(u.ser, q) \o <<>> = Take(u.ser, q)  BY <1>3, WithNothing
  <2>7. v.ser = Take(u.ser, q)  BY <1>2, <1>5, <2>6
  <2> QED  BY <2>4, <2>5, <2>7
<1> QED  BY <1>4, <1>5

\* What the serializer stores.
LEMMA QueryEdited ==
    ASSUME NEW u, NEW g, BorrowedQuery(u, g), NEW query \in Text
    PROVE  BorrowedQuery([u EXCEPT !.ser = Take(u.ser, g.at) \o query], g)
<1>1. PICK w \in UrlSet, text \in Text : Good(w) /\ QueryOpen(w, text, u, g)
  BY DEF BorrowedQuery
<1> DEFINE v == [u EXCEPT !.ser = Take(u.ser, g.at) \o query]
<1>2. Take(u.ser, g.at) = Take(w.ser, PathEnd(w)) \o <<"?">>
  BY <1>1, QueryOpenFacts
<1>3. v = [w EXCEPT !.ser = (Take(w.ser, PathEnd(w)) \o <<"?">>) \o query,
                    !.query_start = PathEnd(w), !.fragment_start = None]
  BY <1>1, <1>2 DEF QueryOpen, UrlSet
<1>4. QueryOpen(w, query, v, g)
  BY <1>1, <1>3 DEF QueryOpen
<1> QED  BY <1>1, <1>4 DEF BorrowedQuery

\* Serializer::finish, and UrlQuery::drop
LEMMA QueryReturned ==
    ASSUME NEW u, NEW g, BorrowedQuery(u, g)
    PROVE  Good(FragmentRestored(u, g))
<1>1. PICK w \in UrlSet, text \in Text : Good(w) /\ QueryOpen(w, text, u, g)
  BY DEF BorrowedQuery
<1> QED  BY <1>1, RestoredIsWithQuery, WithQueryGood

\* What a query guard borrows is well formed as it stands: it is the value
\* without its fragment, with another query.
LEMMA QueryBorrowedGood ==
    ASSUME NEW u, NEW g, BorrowedQuery(u, g)
    PROVE  Good(u)
<1>1. PICK w \in UrlSet, text \in Text : Good(w) /\ QueryOpen(w, text, u, g)
  BY DEF BorrowedQuery
<1> DEFINE v == WithoutFragment(w)
<1>2. /\ w.ser \in Text /\ PathEnd(w) \in Nat /\ QueryEnd(w) \in Nat
      /\ PathEnd(w) <= QueryEnd(w) /\ QueryEnd(w) <= Len(w.ser)
  BY <1>1, GoodFacts, TailFacts
<1>3. Good(v)  BY <1>1, WithoutFragmentGood
<1>4. v = [w EXCEPT !.ser = Take(w.ser, QueryEnd(w)), !.fragment_start = None]
  <2>1. Splice(w.ser, QueryEnd(w), Len(w.ser), <<>>) = Take(w.ser, QueryEnd(w))
    <3>1. Take(w.ser, QueryEnd(w)) \in Text  BY <1>2, TakeFacts
    <3>2. Drop(w.ser, Len(w.ser)) = <<>>  BY <1>2, WithNothing
    <3> QED  BY <3>1, <3>2, WithNothing DEF Splice
  <2> QED  BY <2>1 DEF WithoutFragment
<1> DEFINE h == [at |-> g.at, taken |-> <<>>]
<1>5. /\ v.ser = Take(w.ser, QueryEnd(w)) /\ v.fragment_start = None
      /\ v.query_start = w.query_start
  BY <1>1, <1>4 DEF UrlSet
<1>6. v.ser \in Text /\ Len(v.ser) = QueryEnd(w)
  BY <1>2, <1>5, TakeFacts
<1> HIDE DEF v
<1>7. PathEnd(v) = PathEnd(w) /\ QueryEnd(v) = Len(v.ser)
  BY <1>5, <1>6 DEF PathEnd, QueryEnd
<1>8. Take(v.ser, PathEnd(v)) = Take(w.ser, PathEnd(w))
  <2> DEFINE m == PathEnd(w)
             n == QueryEnd(w)
  <2> HIDE DEF m, n
  <2>1. \A i \in 1..m : v.ser[i] = w.ser[i]
    BY <1>2, <1>5, TakeFacts DEF m, n
  <2>2. Take(v.ser, m) = Take(w.ser, m)
    BY <1>2, <1>6, <2>1, TakesEqual DEF m, n
  <2> QED  BY <1>7, <2>2 DEF m
<1>9. Drop(v.ser, QueryEnd(v)) = <<>>  BY <1>6, <1>7, WithNothing
<1>10. QueryOpen(v, text, u, h)
  <2>1. u = [v EXCEPT !.ser = (Take(v.ser, PathEnd(v)) \o <<"?">>) \o text,
                      !.query_start = PathEnd(v), !.fragment_start = None]
    BY <1>1, <1>4, <1>7, <1>8 DEF QueryOpen, UrlSet
  <2>2. h.at = PathEnd(v) + 1  BY <1>1, <1>7 DEF QueryOpen
  <2> QED  BY <1>9, <2>1, <2>2 DEF QueryOpen
<1>11. FragmentRestored(u, h) = u  BY DEF FragmentRestored
<1>12. u = WithQuery(v, text)
  BY <1>1, <1>3, <1>10, <1>11, RestoredIsWithQuery
<1> QED  BY <1>1, <1>3, <1>12, WithQueryGood

-----------------------------------------------------------------------------
(****************************************************************************)
(* The inductive invariant.  WholeOncePutBack alone is not inductive: that  *)
(* a value is well formed once its guard is dropped says nothing of what    *)
(* the next edit through the guard does to it.                              *)
(****************************************************************************)
GuardInv ==
    /\ GuardTypeOK
    /\ ret \in Lost => guard.kind = "None"
    /\ guard.kind = "Path" => BorrowedPath(url, guard)
    /\ guard.kind = "Query" => BorrowedQuery(url, guard)
    /\ guard.kind \in {"None", "Finished"} /\ ret \notin Lost => Good(url)

\* What is not borrowed, and can be used, is well formed.
LEMMA FreeGood ==
    ASSUME GuardInv, Free
    PROVE  Good(url)
BY DEF GuardInv, GuardTypeOK, Free, Usable, Good

\* No guard is open after the step, and the value is well formed.
LEMMA Released ==
    ASSUME NEW u, Good(u), NEW result \in {"Ok", "Panic"}, Release(u, result)
    PROVE  GuardInv'
<1>1. NoGuard \in GuardSet
  BY EmptySeq DEF NoGuard, GuardSet, GuardKinds, Text
<1>2. url' \in UrlSet /\ Good(url')  BY DEF Release, Good
<1>3. guard' = NoGuard /\ guard'.kind = "None" /\ ret' = result
  BY DEF Release, NoGuard
<1>4. ret' \in {"Ok", "Err", "Panic"} \union Lost  BY <1>3
<1> QED  BY <1>1, <1>2, <1>3, <1>4 DEF GuardInv, GuardTypeOK

\* The same when the guard is lost: only the types are kept.
LEMMA ReleasedLost ==
    ASSUME NEW u \in UrlSet, NEW result \in Lost, Release(u, result)
    PROVE  GuardInv'
<1>1. NoGuard \in GuardSet
  BY EmptySeq DEF NoGuard, GuardSet, GuardKinds, Text
<1>2. guard' = NoGuard /\ guard'.kind = "None" /\ ret' = result /\ url' = u
  BY DEF Release, NoGuard
<1> QED  BY <1>1, <1>2 DEF GuardInv, GuardTypeOK

\* A guard is opened: on a well-formed value, and what it takes is a text.
LEMMA OpenPathStep ==
    ASSUME GuardInv, OpenPath
    PROVE  GuardInv'
<1>1. Good(url)  BY FreeGood DEF OpenPath
<1>2. CASE cannot_be_a_base(url) /\ Leave("Err") /\ UNCHANGED guard
  <2>1. guard'.kind \in {"None", "Finished"} /\ ret' = "Err"
        /\ url' = url /\ guard' = guard
    BY <1>2 DEF OpenPath, Free, Leave
  <2>2. ret' \notin Lost  BY <2>1 DEF Lost
  <2>3. guard' \in GuardSet /\ url' \in UrlSet
    BY <2>1 DEF GuardInv, GuardTypeOK
  <2>4. Good(url')  BY <1>1, <2>1
  <2> QED  BY <2>1, <2>2, <2>3, <2>4 DEF GuardInv, GuardTypeOK
<1>3. CASE /\ Become([url EXCEPT !.ser = Take(@, PathEnd(url))])
           /\ guard' = [kind |-> "Path", taken |-> Drop(url.ser, PathEnd(url)),
                        at |-> PathEnd(url)]
  <2>1. url' = [url EXCEPT !.ser = Take(url.ser, PathEnd(url))] /\ ret' = "Ok"
    BY <1>3 DEF Become
  <2>2. guard'.at = PathEnd(url) /\ guard'.taken = Drop(url.ser, PathEnd(url))
    BY <1>3
  <2>3. BorrowedPath(url', guard')  BY <1>1, <2>1, <2>2, PathTaken
  <2>4. url' \in UrlSet /\ guard'.taken \in Text /\ guard'.at \in Nat
    BY <2>3, PathOpenFacts DEF BorrowedPath
  <2>5. guard' \in GuardSet
    BY <1>3, <2>4 DEF GuardSet, GuardKinds
  <2>6. guard'.kind = "Path" /\ ret' \notin Lost  BY <1>3, <2>1 DEF Lost
  <2> QED  BY <2>1, <2>3, <2>4, <2>5, <2>6 DEF GuardInv, GuardTypeOK
<1> QED  BY <1>2, <1>3 DEF OpenPath

\* Opening a query guard, query_pairs_mut.
LEMMA OpenQueryStep ==
    ASSUME GuardInv, OpenQuery
    PROVE  GuardInv'
<1>1. Good(url)  BY FreeGood DEF OpenQuery
<1>2. /\ url' = OpenedQuery(url) /\ ret' = "Ok"
      /\ guard' = [kind |-> "Query", taken |-> Drop(url.ser, QueryEnd(url)),
                   at |-> PathEnd(url) + 1]
  BY DEF OpenQuery, Become
<1>3. /\ guard'.at = PathEnd(url) + 1
      /\ guard'.taken = Drop(url.ser, QueryEnd(url))
      /\ guard'.kind = "Query"
  BY <1>2
<1>4. BorrowedQuery(url', guard')  BY <1>1, <1>2, <1>3, QueryTaken
<1>5. url' \in UrlSet /\ guard'.taken \in Text /\ guard'.at \in Nat
  BY <1>4, QueryOpenFacts DEF BorrowedQuery
<1>6. guard' \in GuardSet  BY <1>2, <1>5 DEF GuardSet, GuardKinds
<1>7. ret' \notin Lost  BY <1>2 DEF Lost
<1> QED  BY <1>2, <1>3, <1>4, <1>5, <1>6, <1>7 DEF GuardInv, GuardTypeOK

-----------------------------------------------------------------------------
\* The path that is edited is a text.
LEMMA OpenPathTextType ==
    ASSUME GuardInv, guard.kind = "Path"
    PROVE  OpenPathText \in Text /\ Len(OpenPathText) \in Nat
<1>1. OpenPathText \in Text
  BY PathOpenFacts DEF GuardInv, BorrowedPath, OpenPathText
<1> QED  BY <1>1, LenProperties DEF Text

\* Storing another path through the guard.
LEMMA EditPathStep ==
    ASSUME GuardInv, NEW path \in Text, EditPath(path)
    PROVE  GuardInv'
<1>1. /\ guard' = guard /\ guard.kind = "Path" /\ ret' = "Ok"
      /\ url' = [url EXCEPT !.ser = Take(url.ser, url.path_start) \o path]
  BY DEF EditPath, Become
<1>2. BorrowedPath(url', guard')
  BY <1>1, PathEdited DEF GuardInv
<1>3. url' \in UrlSet  BY <1>2, PathOpenFacts DEF BorrowedPath
<1>4. guard' \in GuardSet /\ ret' \notin Lost
  BY <1>1 DEF GuardInv, GuardTypeOK, Lost
<1> QED  BY <1>1, <1>2, <1>3, <1>4 DEF GuardInv, GuardTypeOK

\* clear, pop_if_empty and pop through a path guard.
LEMMA SegmentsStep ==
    ASSUME GuardInv, ClearSegments \/ PopIfEmpty \/ PopSegment
    PROVE  GuardInv'
<1> DEFINE path == OpenPathText
<1>1. guard.kind = "Path"
  BY DEF ClearSegments, PopIfEmpty, PopSegment, EditPath
<1>2. path \in Text /\ Len(path) \in Nat  BY <1>1, OpenPathTextType
<1>3. \A n \in 0..Len(path) : Take(path, n) \in Text
  BY <1>2, TakeFacts
<1>4. <<>> \in Text  BY EmptySeq DEF Text
<1> HIDE DEF path
<1>5. path # <<>> => 1 \in 0..Len(path)
  <2>1. path # <<>> => Len(path) # 0  BY <1>2, EmptySeq DEF Text
  <2> QED  BY <1>2, <2>1
<1>6. CASE ClearSegments
  <2>1. (IF path = <<>> THEN <<>> ELSE Take(path, 1)) \in Text
    BY <1>3, <1>4, <1>5
  <2> QED  BY <1>6, <2>1, EditPathStep DEF ClearSegments, path
<1>7. CASE PopIfEmpty
  <2>1. (IF Len(path) > 1 /\ EndsWith(path, "/")
         THEN Take(path, Len(path) - 1) ELSE path) \in Text
    BY <1>2, <1>3
  <2> QED  BY <1>7, <2>1, EditPathStep DEF PopIfEmpty, path
<1>8. CASE PopSegment
  <2>1. CASE EditPath(path)  BY <1>2, <2>1, EditPathStep
  <2>2. ASSUME NEW n \in 1..(Len(path) - 1), EditPath(Take(path, n))
        PROVE  GuardInv'
    <3>1. n \in 0..Len(path)  BY <1>2
    <3>2. Take(path, n) \in Text  BY <1>3, <3>1
    <3> QED  BY <2>2, <3>2, EditPathStep
  <2> QED  BY <1>8, <2>1, <2>2 DEF PopSegment, path
<1> QED  BY <1>6, <1>7, <1>8

\* push through a path guard.
LEMMA PushStep ==
    ASSUME GuardInv, NEW segment \in PushArgs, Push(segment)
    PROVE  GuardInv'
<1>1. guard.kind = "Path"  BY DEF Push, EditPath
<1>2. CASE EditPath(OpenPathText)
  BY <1>1, <1>2, OpenPathTextType, EditPathStep
<1>3. CASE /\ Separated(OpenPathText) \in PushedTo
           /\ EditPath(PathAfterPush(TypeOf(url), Separated(OpenPathText), segment))
  <2>1. TypeOf(url) \in SchemeTypes  BY DEF TypeOf, SchemeType, SchemeTypes
  <2>2. PathAfterPush(TypeOf(url), Separated(OpenPathText), segment) \in Text
    BY <1>3, <2>1, PushAssumption
  <2> QED  BY <1>3, <2>2, EditPathStep
<1> QED  BY <1>2, <1>3 DEF Push

-----------------------------------------------------------------------------
\* Storing another query through the guard.
LEMMA EditQueryStep ==
    ASSUME GuardInv, NEW query \in Text, EditQuery(query)
    PROVE  GuardInv'
<1>1. /\ guard' = guard /\ guard.kind = "Query" /\ ret' = "Ok"
      /\ url' = [url EXCEPT !.ser = Take(url.ser, guard.at) \o query]
  BY DEF EditQuery, Become
<1>2. BorrowedQuery(url', guard')
  BY <1>1, QueryEdited DEF GuardInv
<1>3. url' \in UrlSet  BY <1>2, QueryOpenFacts DEF BorrowedQuery
<1>4. guard' \in GuardSet /\ ret' \notin Lost
  BY <1>1 DEF GuardInv, GuardTypeOK, Lost
<1> QED  BY <1>1, <1>2, <1>3, <1>4 DEF GuardInv, GuardTypeOK

\* Edits through a query guard.
LEMMA PairsStep ==
    ASSUME GuardInv,
           \/ ClearPairs
           \/ \E n, v \in Names : AppendPair(n, v)
           \/ \E n \in Names : AppendKeyOnly(n)
    PROVE  GuardInv'
<1> DEFINE front == AfterSeparator(OpenQueryText)
<1>1. guard.kind = "Query"
  BY DEF ClearPairs, AppendPair, AppendKeyOnly, EditQuery
<1>2. OpenQueryText \in Text
  BY <1>1, QueryOpenFacts DEF GuardInv, BorrowedQuery, OpenQueryText
<1>3. <<>> \in Text /\ <<"=">> \in Text /\ "&" \in Lexeme
  BY EmptySeq DEF Text, Lexeme, Mark
<1>4. front \in Text  BY <1>2, <1>3 DEF AfterSeparator, Text
<1>5. \A n \in Names : FormText(n) \in Text  BY PushAssumption
<1> HIDE DEF front
<1>6. CASE ClearPairs  BY <1>3, <1>6, EditQueryStep DEF ClearPairs
<1>7. ASSUME NEW n \in Names, NEW v \in Names, AppendPair(n, v)
      PROVE  GuardInv'
  <2>1. front \o FormText(n) \o <<"=">> \o FormText(v) \in Text
    BY <1>3, <1>4, <1>5 DEF Text
  <2> QED  BY <1>7, <2>1, EditQueryStep DEF AppendPair, front
<1>8. ASSUME NEW n \in Names, AppendKeyOnly(n)
      PROVE  GuardInv'
  <2>1. front \o FormText(n) \in Text
    BY <1>4, <1>5 DEF Text
  <2> QED  BY <1>8, <2>1, EditQueryStep DEF AppendKeyOnly, front
<1> QED  BY <1>6, <1>7, <1>8

-----------------------------------------------------------------------------
\* The end of a path guard: dropped, or unwound.
LEMMA EndPathStep ==
    ASSUME GuardInv, DropPath \/ UnwindPush
    PROVE  GuardInv'
<1>1. CASE DropPath
  <2>1. Good(Restored(url, guard))
    BY <1>1, PathReturned DEF GuardInv, DropPath
  <2> QED  BY <1>1, <2>1, Released DEF DropPath
<1>2. CASE UnwindPush
  <2>1. Restored([url EXCEPT !.ser = <<>>], guard) \in UrlSet
    BY <1>2, PathUnwound DEF GuardInv, UnwindPush
  <2>2. "Unwound" \in Lost  BY DEF Lost
  <2> QED  BY <1>2, <2>1, <2>2, ReleasedLost DEF UnwindPush
<1> QED  BY <1>1, <1>2

\* The end of a query guard: finished, dropped, unwound or used after finish.
LEMMA EndQueryStep ==
    ASSUME GuardInv, Finish \/ DropQuery \/ UnwindAppend \/ UseAfterFinish
    PROVE  GuardInv'
<1>1. guard.kind = "Query" => Good(FragmentRestored(url, guard))
  BY QueryReturned DEF GuardInv
<1>2. guard.kind = "Finished" => Good(url)
  BY DEF GuardInv
<1>3. CASE Finish
  <2>1. /\ url' = FragmentRestored(url, guard) /\ ret' = "Ok"
        /\ guard' = FinishedGuard(guard) /\ guard.kind = "Query"
    BY <1>3 DEF Finish, Become
  <2>2. guard' \in GuardSet /\ guard'.kind = "Finished"
    BY <2>1, EmptySeq DEF FinishedGuard, NoGuard, GuardSet, GuardKinds, Text
  <2>3. Good(url') /\ url' \in UrlSet  BY <1>1, <2>1 DEF Good
  <2>4. ret' \notin Lost  BY <2>1 DEF Lost
  <2> QED  BY <2>1, <2>2, <2>3, <2>4 DEF GuardInv, GuardTypeOK
<1>4. CASE DropQuery  BY <1>1, <1>2, <1>4, Released DEF DropQuery
<1>5. CASE UnwindAppend
  <2>1. FragmentRestored(url, guard) \in UrlSet
    BY <1>1, <1>5 DEF UnwindAppend, Good
  <2>2. "Unwound" \in Lost  BY DEF Lost
  <2> QED  BY <1>5, <2>1, <2>2, ReleasedLost DEF UnwindAppend
<1>6. CASE UseAfterFinish  BY <1>2, <1>6, Released DEF UseAfterFinish
<1> QED  BY <1>3, <1>4, <1>5, <1>6

\* A guard is forgotten, or the program goes on with another URL.
LEMMA ForgetStep ==
    ASSUME GuardInv, Forget \/ StartOver
    PROVE  GuardInv'
<1>1. CASE Forget
  <2>1. url \in UrlSet /\ "Forgotten" \in Lost
    BY DEF GuardInv, GuardTypeOK, Lost
  <2> QED  BY <1>1, <2>1, ReleasedLost DEF Forget
<1>2. CASE StartOver
  <2>1. \A u \in InitUrls : Good(u)  BY InitAssumption DEF Good
  <2> QED  BY <1>2, <2>1, Released DEF StartOver
<1> QED  BY <1>1, <1>2

\* A setter is called while nothing borrows the value.
LEMMA SetterStep ==
    ASSUME GuardInv, CallSetter
    PROVE  GuardInv'
<1>1. Inv'  BY FreeGood, CallKeepsGood DEF CallSetter
<1>2. guard' = guard /\ guard.kind \in {"None", "Finished"}
  BY DEF CallSetter, Free
<1>3. guard' \in GuardSet  BY <1>2 DEF GuardInv, GuardTypeOK
<1>4. ret' \in {"Ok", "Err"} /\ Good(url') /\ url' \in UrlSet
  BY <1>1 DEF Inv, Good
<1>5. ret' \notin Lost  BY <1>4 DEF Lost
<1> QED  BY <1>2, <1>3, <1>4, <1>5 DEF GuardInv, GuardTypeOK

-----------------------------------------------------------------------------
\* Every step of a guard keeps the invariant.
THEOREM GuardInvariance == GuardSpec => []GuardInv
<1>1. GuardInit => GuardInv
  <2> SUFFICES ASSUME GuardInit PROVE GuardInv
    OBVIOUS
  <2>1. Good(url) /\ ret = "Ok" /\ guard = NoGuard
    BY InitAssumption DEF GuardInit, Init, Good
  <2>2. guard \in GuardSet /\ guard.kind = "None"
    BY <2>1, EmptySeq DEF NoGuard, GuardSet, GuardKinds, Text
  <2> QED  BY <2>1, <2>2 DEF GuardInv, GuardTypeOK, Good, Lost
<1>2. GuardInv /\ [GuardNext]_guardVars => GuardInv'
  <2> SUFFICES ASSUME GuardInv, [GuardNext]_guardVars PROVE GuardInv'
    OBVIOUS
  <2>1. CASE OpenPath  BY <2>1, OpenPathStep
  <2>2. CASE DropPath \/ UnwindPush  BY <2>2, EndPathStep
  <2>3. CASE ClearSegments \/ PopIfEmpty \/ PopSegment
    BY <2>3, SegmentsStep
  <2>4. CASE \E s \in PushArgs : Push(s)  BY <2>4, PushStep
  <2>5. CASE OpenQuery  BY <2>5, OpenQueryStep
  <2>6. CASE Finish \/ DropQuery \/ UnwindAppend \/ UseAfterFinish
    BY <2>6, EndQueryStep
  <2>7. CASE \/ ClearPairs
             \/ \E n, v \in Names : AppendPair(n, v)
             \/ \E n \in Names : AppendKeyOnly(n)
    BY <2>7, PairsStep
  <2>8. CASE Forget \/ StartOver  BY <2>8, ForgetStep
  <2>9. CASE CallSetter  BY <2>9, SetterStep
  <2>10. CASE UNCHANGED guardVars
    <3>1. url' = url /\ ret' = ret /\ guard' = guard
      BY <2>10 DEF guardVars
    <3> QED  BY <3>1 DEF GuardInv, GuardTypeOK
  <2> QED
    BY <2>1, <2>2, <2>3, <2>4, <2>5, <2>6, <2>7, <2>8, <2>9, <2>10
    DEF GuardNext
<1> QED  BY <1>1, <1>2, PTL DEF GuardSpec

\* The value, the result and the guard keep their types: no offset is taken
\* below zero, not even by a guard that is dropped while its serialization is
\* moved out.
THEOREM GuardTypeCorrect == GuardSpec => []GuardTypeOK
<1>1. GuardInv => GuardTypeOK  BY DEF GuardInv
<1> QED  BY <1>1, GuardInvariance, PTL

\* Whatever was done through a guard, dropping it leaves a well-formed value.
THEOREM PutBackWhole == GuardSpec => []WholeOncePutBack
<1>1. GuardInv => WholeOncePutBack
  <2> SUFFICES ASSUME GuardInv, ret \notin Lost
               PROVE  WellFormed(PutBack(url, guard))
    BY DEF WholeOncePutBack
  <2>1. guard.kind \in GuardKinds  BY DEF GuardInv, GuardTypeOK, GuardSet
  <2>2. CASE guard.kind = "Path"
    BY <2>2, PathReturned DEF GuardInv, PutBack, Good
  <2>3. CASE guard.kind = "Query"
    BY <2>3, QueryReturned DEF GuardInv, PutBack, Good
  <2>4. CASE guard.kind \in {"None", "Finished"}
    BY <2>4 DEF GuardInv, PutBack, Good
  <2> QED  BY <2>1, <2>2, <2>3, <2>4 DEF GuardKinds
<1> QED  BY <1>1, GuardInvariance, PTL

\* A query guard leaves a well-formed value however it ends.
THEOREM LostQueryHarmless == GuardSpec => LostQueryGuardHarmless
<1>1. /\ GuardInv /\ GuardInv' /\ [GuardNext]_guardVars
      => [guard.kind = "Query" => WellFormed(url')]_guardVars
  <2> SUFFICES ASSUME GuardInv, GuardInv', GuardNext, guard.kind = "Query"
               PROVE  WellFormed(url')
    OBVIOUS
  <2>1. Good(url)  BY QueryBorrowedGood DEF GuardInv
  <2>2. Good(FragmentRestored(url, guard))  BY QueryReturned DEF GuardInv
  <2>3. CASE ClearPairs \/ (\E n, v \in Names : AppendPair(n, v))
                        \/ (\E n \in Names : AppendKeyOnly(n))
    <3>1. guard' = guard
      BY <2>3 DEF ClearPairs, AppendPair, AppendKeyOnly, EditQuery
    <3>2. Good(url')  BY <3>1, QueryBorrowedGood DEF GuardInv
    <3> QED  BY <3>2 DEF Good
  <2>4. CASE Finish \/ DropQuery \/ UnwindAppend
    BY <2>2, <2>4 DEF Finish, DropQuery, UnwindAppend, Release, Become, Good
  <2>5. CASE Forget  BY <2>1, <2>5 DEF Forget, Release, Good
  <2>6. ~Free  BY DEF Free
  <2> QED
    BY <2>3, <2>4, <2>5, <2>6
    DEF GuardNext, OpenPath, DropPath, UnwindPush, ClearSegments, PopIfEmpty,
        PopSegment, Push, EditPath, OpenQuery, UseAfterFinish, StartOver,
        CallSetter
<1> QED
  BY <1>1, GuardInvariance, PTL DEF GuardSpec, LostQueryGuardHarmless

\* While the serialization is moved out, a guard that is dropped still brings
\* query and fragment to where their offsets are.
THEOREM UnwoundTailRead == GuardSpec => UnwoundTailReadable
<1>1. /\ GuardInv /\ [GuardNext]_guardVars
      => [guard.kind = "Path" /\ ret' = "Unwound" =>
            /\ QueryEnd(url') <= Len(url'.ser)
            /\ Query(url') = Query(PutBack(url, guard))
            /\ Fragment(url') = Fragment(PutBack(url, guard))]_guardVars
  <2> SUFFICES ASSUME GuardInv, GuardNext, guard.kind = "Path", ret' = "Unwound"
               PROVE  /\ QueryEnd(url') <= Len(url'.ser)
                      /\ Query(url') = Query(PutBack(url, guard))
                      /\ Fragment(url') = Fragment(PutBack(url, guard))
    OBVIOUS
  <2>1. UnwindPush
    BY DEF GuardNext, OpenPath, DropPath, ClearSegments, PopIfEmpty, PopSegment,
           Push, EditPath, OpenQuery, Finish, DropQuery, UnwindAppend,
           UseAfterFinish, ClearPairs, AppendPair, AppendKeyOnly, EditQuery,
           Forget, StartOver, CallSetter, Free, Release, Become
  <2>2. BorrowedPath(url, guard) /\ url \in UrlSet /\ url.ser \in Text
    BY DEF GuardInv, GuardTypeOK, UrlSet
  <2>3. url' = Restored([url EXCEPT !.ser = <<>>], guard) /\ <<>> \in Text
    BY <2>1, EmptySeq DEF UnwindPush, Release, Text
  <2>4. /\ QueryEnd(url') <= Len(url'.ser)
        /\ Query(url') = TakenQuery(url, guard)
        /\ Fragment(url') = TakenFragment(url, guard)
    BY <2>2, <2>3, TailReadBack
  <2>5. PutBack(url, guard) = Restored([url EXCEPT !.ser = url.ser], guard)
    BY <2>2 DEF PutBack, UrlSet
  <2>6. /\ Query(PutBack(url, guard)) = TakenQuery(url, guard)
        /\ Fragment(PutBack(url, guard)) = TakenFragment(url, guard)
    BY <2>2, <2>5, TailReadBack
  <2> QED  BY <2>4, <2>6
<1> QED
  BY <1>1, GuardInvariance, PTL DEF GuardSpec, UnwoundTailReadable

\* Storing a query twice is storing the second one.
LEMMA WithQueryTwice ==
    ASSUME NEW w, Good(w), NEW s \in Text, NEW t \in Text
    PROVE  WithQuery(WithQuery(w, t), s) = WithQuery(w, s)
<1> DEFINE a == PathEnd(w)
           b == QueryEnd(w)
           front == Take(w.ser, a)
           rest == Drop(w.ser, b)
           first == <<"?">> \o t
           tail == <<"?">> \o s
           v == WithQuery(w, t)
<1>1. /\ w \in UrlSet /\ w.ser \in Text /\ Len(w.ser) \in Nat
      /\ a \in Nat /\ a <= b /\ b \in Nat /\ b <= Len(w.ser)
      /\ w.fragment_start \in OptOffset
      /\ w.fragment_start # None => w.fragment_start = b
      /\ w.fragment_start = None => b = Len(w.ser)
  BY GoodFacts, TailFacts DEF Good, QueryEnd
<1>2. /\ first \in Text /\ Len(first) \in Nat /\ Len(first) = 1 + Len(t)
      /\ tail \in Text /\ Len(tail) \in Nat
  BY Delimited DEF Mark
<1>3. front \in Text /\ Len(front) = a /\ rest \in Text
  <2> HIDE DEF a, b
  <2>1. a <= Len(w.ser)  BY <1>1
  <2> QED  BY <1>1, <2>1, TakeFacts, DropFacts
<1>4. /\ v = [w EXCEPT !.ser = Splice(w.ser, a, b, first), !.query_start = a,
                       !.fragment_start = ShiftOpt(w.fragment_start,
                                                   a + Len(first) - b)]
      /\ v.ser = front \o first \o rest
      /\ v.query_start = a
      /\ v.fragment_start = ShiftOpt(w.fragment_start, a + Len(first) - b)
  BY <1>1 DEF WithQuery, UrlSet, Splice
<1> DEFINE c == a + Len(first)
           x == front \o first
<1>5. x \in Text /\ Len(x) = c
  <2> HIDE DEF front, first, a
  <2> QED  BY <1>2, <1>3, ConcatFacts
<1>6. PathEnd(v) = a
  <2> HIDE DEF a, v
  <2>1. a # None  BY <1>1 DEF None
  <2> QED  BY <1>4, <2>1 DEF PathEnd
<1>7. QueryEnd(v) = c
  <2>1. CASE w.fragment_start = None
    <3>1. rest = <<>>  BY <1>1, <2>1, WithNothing
    <3>2. v.ser = x
      BY <1>4, <1>5, <3>1, WithNothing
    <3>3. v.fragment_start = None  BY <1>4, <2>1 DEF ShiftOpt
    <3> QED  BY <1>5, <3>2, <3>3 DEF QueryEnd
  <2>2. CASE w.fragment_start # None
    <3>1. w.fragment_start = b  BY <1>1, <2>2
    <3>2. v.fragment_start = b + (a + Len(first) - b)
      BY <1>4, <2>2, <3>1 DEF ShiftOpt
    <3> HIDE DEF a, b, first, v
    <3>3. v.fragment_start = c /\ c \in Nat  BY <1>1, <1>2, <3>2
    <3>4. c # None  BY <3>3 DEF None
    <3> QED  BY <3>3, <3>4 DEF QueryEnd
  <2> QED  BY <2>1, <2>2
<1>8. Take(v.ser, a) = front /\ Drop(v.ser, c) = rest
  <2> HIDE DEF front, first, rest, v, a, c
  <2>1. v.ser = x \o rest  BY <1>4
  <2>2. Drop(x \o rest, c) = rest  BY <1>3, <1>5, ConcatCut
  <2>3. first \o rest \in Text  BY <1>2, <1>3, ConcatFacts
  <2>4. x \o rest = front \o (first \o rest)
    <3>1. front \in Text /\ first \in Text /\ rest \in Text  BY <1>2, <1>3
    <3> QED  BY <3>1 DEF Text
  <2>5. Take(front \o (first \o rest), a) = front
    BY <1>3, <2>3, ConcatCut
  <2> QED  BY <2>1, <2>2, <2>4, <2>5
<1>9. Splice(v.ser, PathEnd(v), QueryEnd(v), tail) = Splice(w.ser, a, b, tail)
  BY <1>6, <1>7, <1>8 DEF Splice
<1>10. ShiftOpt(v.fragment_start, PathEnd(v) + Len(tail) - QueryEnd(v))
         = ShiftOpt(w.fragment_start, a + Len(tail) - b)
  <2>1. CASE w.fragment_start = None
    BY <1>4, <2>1 DEF ShiftOpt
  <2>2. CASE w.fragment_start # None
    <3>1. w.fragment_start = b /\ b # None  BY <1>1, <2>2
    <3>2. v.fragment_start = b + (a + Len(first) - b)
      BY <1>4, <2>2, <3>1 DEF ShiftOpt
    <3> HIDE DEF a, b, first, tail, v
    <3>3. v.fragment_start = c /\ c \in Nat  BY <1>1, <1>2, <3>2
    <3>4. c # None  BY <3>3 DEF None
    <3>5. ShiftOpt(v.fragment_start, a + Len(tail) - c) = a + Len(tail)
      BY <1>1, <1>2, <3>3, <3>4 DEF ShiftOpt
    <3>6. ShiftOpt(w.fragment_start, a + Len(tail) - b) = a + Len(tail)
      BY <1>1, <1>2, <3>1 DEF ShiftOpt
    <3> QED  BY <1>6, <1>7, <3>5, <3>6
  <2> QED  BY <2>1, <2>2
<1> HIDE DEF v
<1>11. WithQuery(v, s) = [w EXCEPT
           !.ser = Splice(v.ser, PathEnd(v), QueryEnd(v), tail),
           !.query_start = a,
           !.fragment_start = ShiftOpt(v.fragment_start,
                                       PathEnd(v) + Len(tail) - QueryEnd(v))]
  BY <1>1, <1>4, <1>6 DEF WithQuery, UrlSet
<1> QED  BY <1>9, <1>10, <1>11 DEF WithQuery, v

\* Serializer::clear does what set_query(Some("")) would do to the value the
\* guard was opened on, whatever was appended before.
THEOREM ClearedQuery == GuardSpec => ClearIsEmptyQuery
<1>1. GuardInv /\ [GuardNext]_guardVars =>
        [ClearPairs => PutBack(url', guard')
                         = WithQuery(PutBack(url, guard), <<>>)]_guardVars
  <2> SUFFICES ASSUME GuardInv, ClearPairs
               PROVE  PutBack(url', guard') = WithQuery(PutBack(url, guard), <<>>)
    OBVIOUS
  <2>1. /\ guard.kind = "Query" /\ guard' = guard
        /\ url' = [url EXCEPT !.ser = Take(url.ser, guard.at) \o <<>>]
    BY DEF ClearPairs, EditQuery, Become
  <2>2. PICK w \in UrlSet, text \in Text : Good(w) /\ QueryOpen(w, text, url, guard)
    BY <2>1 DEF GuardInv, BorrowedQuery
  <2>3. <<>> \in Text  BY EmptySeq DEF Text
  <2>4. QueryOpen(w, <<>>, url', guard)
    <3>1. Take(url.ser, guard.at) = Take(w.ser, PathEnd(w)) \o <<"?">>
      BY <2>2, QueryOpenFacts
    <3>2. url' = [w EXCEPT
              !.ser = (Take(w.ser, PathEnd(w)) \o <<"?">>) \o <<>>,
              !.query_start = PathEnd(w), !.fragment_start = None]
      BY <2>1, <2>2, <3>1 DEF QueryOpen, UrlSet
    <3> QED  BY <2>2, <3>2 DEF QueryOpen
  <2>5. PutBack(url', guard') = WithQuery(w, <<>>)
    BY <2>1, <2>2, <2>3, <2>4, RestoredIsWithQuery DEF PutBack
  <2>6. PutBack(url, guard) = WithQuery(w, text)
    BY <2>1, <2>2, RestoredIsWithQuery DEF PutBack
  <2> QED  BY <2>2, <2>3, <2>5, <2>6, WithQueryTwice
<1> QED
  BY <1>1, GuardInvariance, PTL DEF GuardSpec, ClearIsEmptyQuery
=============================================================================
