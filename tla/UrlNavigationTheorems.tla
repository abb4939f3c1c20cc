------------------------ MODULE UrlNavigationTheorems ------------------------
(****************************************************************************)
(* What Url::parse and Url::join return for every text: values that are     *)
(* laid out and whose components can be told apart.  Texts are of any       *)
(* length; the loops of the parser are recursive functions, and facts about *)
(* them are shown by counting.                                              *)
(****************************************************************************)
EXTENDS UrlNavigation, UrlForm, UrlPartsTheorems, WellFoundedInduction,
        FiniteSetTheorems

(****************************************************************************)
(* Counting and least elements.                                             *)
(****************************************************************************)
\* Numbers are well ordered.
LEMMA LeastNumber ==
    ASSUME NEW T, T \subseteq Nat, T # {}
    PROVE  \E m \in T : \A n \in T : m <= n
<1>1. IsWellFoundedOn(OpToRel(<, Nat), Nat)  BY NatLessThanWellFounded
<1>2. PICK m \in T : \A y \in T : <<y, m>> \notin OpToRel(<, Nat)
  BY <1>1, WFMin
<1>3. \A y \in T : ~(y < m)
  <2> TAKE y \in T
  <2>1. <<y, m>> \notin OpToRel(<, Nat)  BY <1>2
  <2>2. y \in Nat /\ m \in Nat  OBVIOUS
  <2> QED  BY <2>1, <2>2 DEF OpToRel
<1> QED  BY <1>3

\* Counting up to n reaches every number up to n.
LEMMA UpTo ==
    ASSUME NEW S, NEW n \in Nat, 0 \in S, \A k \in 1..n : k - 1 \in S => k \in S
    PROVE  0..n \subseteq S
<1> SUFFICES ASSUME ~(0..n \subseteq S) PROVE FALSE  OBVIOUS
<1> DEFINE T == (0..n) \ S
<1>1. T \subseteq Nat /\ T # {}  OBVIOUS
<1>2. PICK m \in T : \A k \in T : m <= k  BY <1>1, LeastNumber
<1>3. m \in 1..n  BY <1>2
<1>4. m - 1 \in 0..n /\ ~(m <= m - 1)  BY <1>3
<1>5. m - 1 \in S  BY <1>2, <1>4
<1> QED  BY <1>3, <1>5

\* f is a at 0, and each next value is step's of the number and the last value.
Iterates(f, n, a, step) ==
    f[0] = a /\ \A k \in 1..n : f[k] = step[<<k, f[k - 1]>>]

\* A function defined by what it is at 0 and by each value from the one before
\* exists, if each step stays in V.
LEMMA Recursion ==
    ASSUME NEW n \in Nat, NEW V, NEW a \in V, NEW step \in [(1..n) \X V -> V]
    PROVE  \E f \in [0..n -> V] : Iterates(f, n, a, step)
<1> DEFINE Until(m, f) == /\ f \in [0..m -> V] /\ f[0] = a
                          /\ \A k \in 1..m : f[k] = step[<<k, f[k - 1]>>]
           S == {m \in Nat : \E f \in [0..m -> V] : Until(m, f)}
<1>1. 0 \in S
  <2>1. Until(0, [k \in 0..0 |-> a])  OBVIOUS
  <2> QED  BY <2>1
<1>2. \A k \in 1..n : k - 1 \in S => k \in S
  <2> SUFFICES ASSUME NEW k \in 1..n, k - 1 \in S PROVE k \in S
    OBVIOUS
  <2>1. PICK f \in [0..(k - 1) -> V] : Until(k - 1, f)  OBVIOUS
  <2> DEFINE g == [i \in 0..k |-> IF i = k THEN step[<<k, f[k - 1]>>] ELSE f[i]]
  <2>2. f[k - 1] \in V  OBVIOUS
  <2>3. step[<<k, f[k - 1]>>] \in V  BY <2>2
  <2>4. g \in [0..k -> V]  BY <2>3
  <2>5. g[0] = a  BY <2>1
  <2>6. \A i \in 1..k : g[i] = step[<<i, g[i - 1]>>]
    <3> SUFFICES ASSUME NEW i \in 1..k PROVE g[i] = step[<<i, g[i - 1]>>]
      OBVIOUS
    <3>1. g[i - 1] = f[i - 1]  OBVIOUS
    <3>2. CASE i = k
      <4>1. g[k] = step[<<k, f[k - 1]>>]  OBVIOUS
      <4> HIDE DEF g
      <4> QED  BY <3>1, <3>2, <4>1
    <3>3. CASE i # k
      <4>1. i \in 1..(k - 1) /\ g[i] = f[i]  BY <3>3
      <4> QED  BY <2>1, <3>1, <4>1
    <3> QED  BY <3>2, <3>3
  <2> HIDE DEF g
  <2>7. Until(k, g)  BY <2>4, <2>5, <2>6
  <2>8. k \in Nat  OBVIOUS
  <2> QED  BY <2>4, <2>7, <2>8
<1> HIDE DEF S
<1>3. 0..n \subseteq S  BY <1>1, <1>2, UpTo
<1>4. n \in S  BY <1>3
<1>5. PICK f \in [0..n -> V] : Until(n, f)  BY <1>4 DEF S
<1> QED  BY <1>5 DEF Iterates

\* What such a function is at 0 and what each step keeps, it is everywhere.
LEMMA RecursionKeeps ==
    ASSUME NEW n \in Nat, NEW V, NEW f,
           f[0] \in V, \A k \in 1..n : f[k - 1] \in V => f[k] \in V
    PROVE  \A k \in 0..n : f[k] \in V
<1> DEFINE S == {k \in 0..n : f[k] \in V}
<1>1. 0 \in S  OBVIOUS
<1>2. \A k \in 1..n : k - 1 \in S => k \in S  OBVIOUS
<1> HIDE DEF S
<1>3. 0..n \subseteq S  BY <1>1, <1>2, UpTo
<1> QED  BY <1>3 DEF S

\* The least of some numbers.
LEMMA MinFacts ==
    ASSUME NEW T, T \subseteq Nat, T # {}
    PROVE  Min(T) \in T /\ \A n \in T : Min(T) <= n
  BY LeastNumber DEF Min

\* The greatest of some integers none of which is beyond n.
LEMMA MaxFacts ==
    ASSUME NEW T, T \subseteq Int, T # {}, NEW n \in Int, \A t \in T : t <= n
    PROVE  Max(T) \in T /\ \A t \in T : t <= Max(T)
<1> DEFINE D == {n - t : t \in T}
<1>1. D \subseteq Nat /\ D # {}
  <2>1. \A t \in T : n - t \in Nat  OBVIOUS
  <2>2. \E t \in T : n - t \in D  OBVIOUS
  <2> QED  BY <2>1, <2>2
<1>2. PICK d \in D : \A e \in D : d <= e  BY <1>1, LeastNumber
<1>3. PICK t \in T : d = n - t  OBVIOUS
<1>4. \A r \in T : r <= t
  <2> TAKE r \in T
  <2>1. d <= n - r  BY <1>2
  <2> QED  BY <1>3, <2>1
<1> QED  BY <1>3, <1>4 DEF Max

(****************************************************************************)
(* Searching and cutting texts.                                             *)
(****************************************************************************)
\* Elements of a text, and texts without any.
LEMMA TextFacts ==
    ASSUME NEW s \in Text
    PROVE  /\ Len(s) \in Nat
           /\ \A i \in 1..Len(s) : s[i] \in Lexeme
           /\ s = <<>> <=> Len(s) = 0
           /\ s = [i \in 1..Len(s) |-> s[i]]
  BY LenProperties, ElementOfSeq, EmptySeq DEF Text

\* A function on 1..n into lexemes is a text of length n.
LEMMA MadeText ==
    ASSUME NEW n \in Nat, NEW s, DOMAIN s = 1..n, s = [i \in 1..n |-> s[i]],
           \A i \in 1..n : s[i] \in Lexeme
    PROVE  s \in Text /\ Len(s) = n
<1>1. s \in [1..n -> Lexeme]  OBVIOUS
<1>2. s \in Text  BY <1>1, SeqDef DEF Text
<1>3. Len(s) \in Nat /\ DOMAIN s = 1..Len(s)
  BY <1>2, LenProperties DEF Text
<1>4. 1..n = 1..Len(s)  BY <1>3
<1>5. n = Len(s)  BY <1>3, <1>4
<1> QED  BY <1>2, <1>5

\* A text that starts with one of chars.
LEMMA FirstFacts ==
    ASSUME NEW s \in Text, NEW chars, FirstIn(s, chars)
    PROVE  /\ Len(s) >= 1 /\ s[1] \in chars
           /\ Tail(s) \in Text /\ Len(Tail(s)) = Len(s) - 1
           /\ \A i \in 1..(Len(s) - 1) : Tail(s)[i] = s[i + 1]
<1>1. s # <<>> /\ s[1] \in chars  BY DEF FirstIn
<1>2. s \in Seq(Lexeme)  BY DEF Text
<1> QED  BY <1>1, <1>2, HeadTailProperties, TextFacts DEF Text

\* Find stops at the first character of chars or at the end.
LEMMA FindFacts ==
    ASSUME NEW s \in Text, NEW chars
    PROVE  /\ Find(s, chars) \in Nat /\ Find(s, chars) <= Len(s)
           /\ \A i \in 1..Find(s, chars) : s[i] \notin chars
           /\ Find(s, chars) < Len(s) => s[Find(s, chars) + 1] \in chars
<1> DEFINE T == {i \in 1..Len(s) : s[i] \in chars} \union {Len(s) + 1}
           m == Min(T)
<1>1. Len(s) \in Nat  BY TextFacts
<1>2. T \subseteq Nat /\ T # {} /\ \A i \in T : 1 <= i /\ i <= Len(s) + 1
  BY <1>1
<1>3. m \in T /\ \A n \in T : m <= n
  <2> HIDE DEF T
  <2> QED  BY <1>2, MinFacts
<1>4. Find(s, chars) = m - 1  BY DEF Find
<1> HIDE DEF m
<1>5. m \in Nat /\ 1 <= m /\ m <= Len(s) + 1  BY <1>2, <1>3
<1>6. \A i \in 1..(m - 1) : s[i] \notin chars
  <2> SUFFICES ASSUME NEW i \in 1..(m - 1), s[i] \in chars PROVE FALSE
    OBVIOUS
  <2>1. i \in T  BY <1>1, <1>5
  <2> QED  BY <1>3, <1>5, <2>1
<1>7. m - 1 < Len(s) => s[m] \in chars  BY <1>1, <1>3, <1>5
<1>8. m - 1 \in Nat /\ m - 1 <= Len(s) /\ (m - 1) + 1 = m  BY <1>1, <1>5
<1> QED  BY <1>4, <1>6, <1>7, <1>8

\* What Find passes over and what it leaves.
LEMMA FoundFacts ==
    ASSUME NEW s \in Text, NEW chars
    PROVE  /\ Take(s, Find(s, chars)) \in Text
           /\ Len(Take(s, Find(s, chars))) = Find(s, chars)
           /\ \A i \in 1..Find(s, chars) :
                 Take(s, Find(s, chars))[i] = s[i] /\ s[i] \notin chars
           /\ Drop(s, Find(s, chars)) \in Text
           /\ Drop(s, Find(s, chars)) # <<>> =>
                 FirstIn(Drop(s, Find(s, chars)), chars)
<1> DEFINE e == Find(s, chars)
<1>1. /\ e \in Nat /\ e <= Len(s)
      /\ \A i \in 1..e : s[i] \notin chars
      /\ e < Len(s) => s[e + 1] \in chars
  BY FindFacts
<1> HIDE DEF e
<1>2. /\ Take(s, e) \in Text /\ Len(Take(s, e)) = e
      /\ \A i \in 1..e : Take(s, e)[i] = s[i]
  BY <1>1, TakeFacts
<1>3. /\ Drop(s, e) \in Text /\ Len(Drop(s, e)) = Len(s) - e
      /\ \A i \in 1..(Len(s) - e) : Drop(s, e)[i] = s[e + i]
  BY <1>1, DropFacts
<1>4. Drop(s, e) # <<>> => FirstIn(Drop(s, e), chars)
  <2> SUFFICES ASSUME Drop(s, e) # <<>> PROVE FirstIn(Drop(s, e), chars)
    OBVIOUS
  <2>1. Len(s) \in Nat /\ Len(Drop(s, e)) # 0  BY <1>3, TextFacts
  <2>2. 1 \in 1..(Len(s) - e) /\ e < Len(s)  BY <1>1, <1>3, <2>1
  <2>3. Drop(s, e)[1] = s[e + 1]  BY <1>3, <2>2
  <2> QED  BY <1>1, <2>2, <2>3 DEF FirstIn
<1> QED  BY <1>1, <1>2, <1>3, <1>4 DEF e

\* rfind('/').
LEMMA LastSlashFacts ==
    ASSUME NEW s \in Text
    PROVE  /\ LastSlash(s) \in Int /\ -1 <= LastSlash(s)
           /\ LastSlash(s) < Len(s) \/ LastSlash(s) = -1
           /\ LastSlash(s) # -1 => s[LastSlash(s) + 1] = "/"
           /\ \A i \in 1..Len(s) : s[i] = "/" => i <= LastSlash(s) + 1
<1> DEFINE T == {i \in 1..Len(s) : s[i] = "/"} \union {0}
           m == Max(T)
<1>1. Len(s) \in Nat  BY TextFacts
<1>2. T \subseteq Int /\ T # {} /\ \A i \in T : 0 <= i /\ i <= Len(s)
  BY <1>1
<1>3. m \in T /\ \A n \in T : n <= m
  <2> HIDE DEF T
  <2>1. Len(s) \in Int /\ \A t \in T : t <= Len(s)  BY <1>1, <1>2
  <2>2. Max(T) \in T /\ \A t \in T : t <= Max(T)  BY <1>2, <2>1, MaxFacts
  <2> QED  BY <2>2
<1>4. LastSlash(s) = m - 1  BY DEF LastSlash, None
<1> HIDE DEF m
<1>5. m \in Int /\ 0 <= m /\ m <= Len(s)  BY <1>2, <1>3
<1>6. m # 0 => s[m] = "/"  BY <1>3
<1>7. \A i \in 1..Len(s) : s[i] = "/" => i <= m  BY <1>3
<1>8. (m - 1) + 1 = m  BY <1>5
<1> QED  BY <1>1, <1>4, <1>5, <1>6, <1>7, <1>8

\* s followed by one lexeme.
LEMMA AppendFacts ==
    ASSUME NEW s \in Text, NEW c \in Lexeme
    PROVE  /\ Append(s, c) \in Text /\ Len(Append(s, c)) = Len(s) + 1
           /\ \A i \in 1..Len(s) : Append(s, c)[i] = s[i]
           /\ Append(s, c)[Len(s) + 1] = c
           /\ EndsWith(Append(s, c), c)
<1>1. /\ Append(s, c) \in Text /\ Len(Append(s, c)) = Len(s) + 1
      /\ \A i \in 1..Len(s) : Append(s, c)[i] = s[i]
      /\ Append(s, c)[Len(s) + 1] = c
  BY AppendProperties DEF Text
<1>2. Len(s) \in Nat  BY TextFacts
<1> QED  BY <1>1, <1>2 DEF EndsWith

\* Trimming leaves a text.
LEMMA TrimmedText == ASSUME NEW s \in Text PROVE TrimSpaces(s) \in Text
<1> DEFINE kept == {i \in 1..Len(s) : s[i] \notin {"SP", "TAB"}}
<1>1. Len(s) \in Nat /\ \A i \in 1..Len(s) : s[i] \in Lexeme  BY TextFacts
<1>2. CASE kept = {}  BY <1>2, EmptySeq DEF TrimSpaces, Text
<1>3. CASE kept # {}
  <2>1. /\ kept \subseteq Nat /\ kept \subseteq Int /\ Len(s) \in Int
        /\ \A i \in kept : 1 <= i /\ i <= Len(s)
    BY <1>1
  <2>2. TrimSpaces(s) = SubSeq(s, Min(kept), Max(kept))
    BY <1>3 DEF TrimSpaces
  <2> HIDE DEF kept
  <2>3. Min(kept) \in kept  BY <1>3, <2>1, MinFacts
  <2>4. Max(kept) \in kept  BY <1>3, <2>1, MaxFacts
  <2>5. Min(kept) \in Int /\ Max(kept) \in Int  BY <2>1, <2>3, <2>4
  <2>6. \A i \in Min(kept)..Max(kept) : s[i] \in Lexeme
    BY <1>1, <2>1, <2>3, <2>4, <2>5
  <2> QED  BY <2>2, <2>5, <2>6, SubSeqProperties DEF Text
<1> QED  BY <1>2, <1>3

\* Tabs are skipped one lexeme after the other.
LEMMA SkipLoop ==
    ASSUME NEW s \in Text
    PROVE  \E g : /\ SkipTabs(s) = g[Len(s)] /\ g[0] = <<>>
                 /\ \A k \in 1..Len(s) :
                       g[k] = IF s[k] = "TAB" THEN g[k - 1] ELSE Append(g[k - 1], s[k])
<1> DEFINE n == Len(s)
           next(k, r) == IF s[k] = "TAB" THEN r ELSE Append(r, s[k])
           step == [x \in (1..n) \X Text |-> next(x[1], x[2])]
           g == CHOOSE f : f = [k \in 0..n |->
                                   IF k = 0 THEN <<>>
                                   ELSE IF s[k] = "TAB" THEN f[k - 1]
                                        ELSE Append(f[k - 1], s[k])]
<1>1. n \in Nat /\ \A i \in 1..n : s[i] \in Lexeme  BY TextFacts
<1>2. <<>> \in Text  BY EmptySeq DEF Text
<1>3. \A k \in 1..n : \A r \in Text : next(k, r) \in Text
  BY <1>1, AppendFacts
<1>4. step \in [(1..n) \X Text -> Text]
  <2> HIDE DEF next, n
  <2> QED  BY <1>3
<1>5. PICK f \in [0..n -> Text] : Iterates(f, n, <<>>, step)
  <2> HIDE DEF step, n
  <2> QED  BY <1>1, <1>2, <1>4, Recursion
<1>6. \A k \in 1..n : f[k] = next(k, f[k - 1])
  <2> TAKE k \in 1..n
  <2>1. k - 1 \in 0..n  BY <1>1
  <2>2. f[k - 1] \in Text  BY <2>1
  <2>3. f[k] = step[<<k, f[k - 1]>>]  BY <1>5 DEF Iterates
  <2> HIDE DEF next, n
  <2> QED  BY <2>2, <2>3
<1>7. f = [k \in 0..n |-> IF k = 0 THEN <<>> ELSE next(k, f[k - 1])]
  <2> HIDE DEF step, next
  <2>1. \A k \in 0..n : k # 0 => k \in 1..n  BY <1>1
  <2> HIDE DEF n
  <2> QED  BY <1>5, <1>6, <2>1 DEF Iterates
<1>8. g = [k \in 0..n |-> IF k = 0 THEN <<>> ELSE next(k, g[k - 1])]
  <2> HIDE DEF n
  <2> QED  BY <1>7
<1>9. SkipTabs(s) = g[n]  BY DEF SkipTabs
<1> HIDE DEF g, n, step
<1>10. g[0] = <<>>  BY <1>1, <1>8
<1>11. \A k \in 1..n : g[k] = next(k, g[k - 1])
  <2> TAKE k \in 1..n
  <2>1. k \in 0..n /\ k # 0  BY <1>1
  <2> HIDE DEF next
  <2> QED  BY <1>8, <2>1
<1> QED  BY <1>9, <1>10, <1>11 DEF n

\* Skipping tabs leaves a text.
LEMMA SkippedText == ASSUME NEW s \in Text PROVE SkipTabs(s) \in Text
<1> DEFINE n == Len(s)
<1>1. PICK g : /\ SkipTabs(s) = g[n] /\ g[0] = <<>>
               /\ \A k \in 1..n :
                     g[k] = IF s[k] = "TAB" THEN g[k - 1] ELSE Append(g[k - 1], s[k])
  BY SkipLoop
<1>2. n \in Nat /\ \A k \in 1..n : s[k] \in Lexeme  BY TextFacts
<1>3. g[0] \in Text  BY <1>1, EmptySeq DEF Text
<1> HIDE DEF n
<1>4. \A k \in 1..n : g[k - 1] \in Text => g[k] \in Text
  BY <1>1, <1>2, AppendFacts
<1>5. \A k \in 0..n : g[k] \in Text  BY <1>2, <1>3, <1>4, RecursionKeeps
<1> QED  BY <1>1, <1>2, <1>5

(****************************************************************************)
(* Encoding and decoding.                                                   *)
(****************************************************************************)
\* Every character that is escaped has an escape, and each escape stands for
\* one.
LEMMA EscapeFacts ==
    /\ \A c \in Escapable : EscapeOf(c) \in Escape
    /\ \A c \in Escape : \E raw \in Escapable : EscapeOf(raw) = c
<1>1. \A c \in Escapable : EscapeOf(c) \in Escape
  BY DEF Escapable, Escape, EscapeOf
<1>2. /\ EscapeOf("SP") = "%20" /\ EscapeOf("TAB") = "%09"
      /\ EscapeOf("#") = "%23" /\ EscapeOf("?") = "%3F"
      /\ EscapeOf("/") = "%2F" /\ EscapeOf(":") = "%3A"
      /\ EscapeOf("@") = "%40" /\ EscapeOf("BSLASH") = "%5C"
      /\ EscapeOf("'") = "%27" /\ EscapeOf("|") = "%7C"
      /\ EscapeOf("%2e") = "%252e" /\ EscapeOf("&") = "%26"
      /\ EscapeOf("=") = "%3D" /\ EscapeOf("+") = "%2B"
  BY DEF EscapeOf
<1>3. \A c \in Escape : \E raw \in Escapable : EscapeOf(raw) = c
  BY <1>2 DEF Escapable, Escape
<1> QED  BY <1>1, <1>3

\* The lexemes with a meaning are no words and no escapes.
LEMMA MarksApart ==
    /\ \A c \in Mark : c \in Lexeme /\ c \notin Word /\ c \notin Escape
    /\ \A c \in Digit : c \in Lexeme /\ c \notin Word /\ c \notin Escape
    /\ \A c \in Escape : c \in Lexeme /\ c \notin Word
    /\ \A c \in Word : c \in Lexeme
<1>1. Mark \intersect Escape = {}  BY DEF Mark, Escape
<1>2. Digit \intersect Escape = {}  BY DEF Digit, Escape
<1> QED  BY <1>1, <1>2, WordAssumption DEF Lexeme

\* Encoding keeps the length, and what it does not keep it escapes.
LEMMA EncodeFacts ==
    ASSUME NEW s \in Text, NEW set \in SUBSET Escapable
    PROVE  /\ PercentEncode(s, set) \in Text
           /\ Len(PercentEncode(s, set)) = Len(s)
           /\ \A i \in 1..Len(s) :
                 \/ PercentEncode(s, set)[i] = s[i] /\ s[i] \notin set
                 \/ PercentEncode(s, set)[i] \in Escape
<1> DEFINE e == PercentEncode(s, set)
<1>1. Len(s) \in Nat /\ \A i \in 1..Len(s) : s[i] \in Lexeme  BY TextFacts
<1>2. /\ DOMAIN e = 1..Len(s) /\ e = [i \in 1..Len(s) |-> e[i]]
      /\ \A i \in 1..Len(s) :
            e[i] = IF s[i] \in set THEN EscapeOf(s[i]) ELSE s[i]
  BY DEF PercentEncode
<1> HIDE DEF e
<1>3. \A i \in 1..Len(s) : \/ e[i] = s[i] /\ s[i] \notin set
                           \/ e[i] \in Escape
  BY <1>2, EscapeFacts
<1>4. \A i \in 1..Len(s) : e[i] \in Lexeme  BY <1>1, <1>3 DEF Lexeme
<1>5. e \in Text /\ Len(e) = Len(s)  BY <1>1, <1>2, <1>4, MadeText
<1> QED  BY <1>3, <1>5 DEF e

\* The sets of characters to encode all have escapes.
LEMMA EncodeSets ==
    /\ CONTROLS \in SUBSET Escapable /\ FRAGMENT \in SUBSET Escapable
    /\ PATH \in SUBSET Escapable /\ PATH_SEGMENT \in SUBSET Escapable
    /\ SPECIAL_PATH_SEGMENT \in SUBSET Escapable
    /\ USERINFO \in SUBSET Escapable /\ QUERY \in SUBSET Escapable
    /\ SPECIAL_QUERY \in SUBSET Escapable
  BY DEF CONTROLS, FRAGMENT, PATH, PATH_SEGMENT, SPECIAL_PATH_SEGMENT,
         USERINFO, QUERY, SPECIAL_QUERY, Escapable

\* Lowercasing changes words into words.
LEMMA LowerFacts ==
    ASSUME NEW s \in Text
    PROVE  /\ Lower(s) \in Text /\ Len(Lower(s)) = Len(s)
           /\ \A i \in 1..Len(s) :
                 \/ Lower(s)[i] = s[i] /\ s[i] \notin Word
                 \/ Lower(s)[i] \in Word /\ s[i] \in Word
<1> DEFINE e == Lower(s)
<1>1. Len(s) \in Nat /\ \A i \in 1..Len(s) : s[i] \in Lexeme  BY TextFacts
<1>2. /\ DOMAIN e = 1..Len(s) /\ e = [i \in 1..Len(s) |-> e[i]]
      /\ \A i \in 1..Len(s) :
            e[i] = IF s[i] \in Word THEN Lowercase[s[i]] ELSE s[i]
  BY DEF Lower
<1> HIDE DEF e
<1>3. \A i \in 1..Len(s) : \/ e[i] = s[i] /\ s[i] \notin Word
                           \/ e[i] \in Word /\ s[i] \in Word
  BY <1>2, WordAssumption
<1>4. \A i \in 1..Len(s) : e[i] \in Lexeme  BY <1>1, <1>3 DEF Lexeme
<1>5. e \in Text /\ Len(e) = Len(s)  BY <1>1, <1>2, <1>4, MadeText
<1> QED  BY <1>3, <1>5 DEF e

\* Decoding keeps the length.
LEMMA DecodeFacts ==
    ASSUME NEW s \in Text
    PROVE  PercentDecode(s) \in Text /\ Len(PercentDecode(s)) = Len(s)
<1> DEFINE e == PercentDecode(s)
<1>1. Len(s) \in Nat /\ \A i \in 1..Len(s) : s[i] \in Lexeme  BY TextFacts
<1>2. /\ DOMAIN e = 1..Len(s) /\ e = [i \in 1..Len(s) |-> e[i]]
      /\ \A i \in 1..Len(s) : e[i] = Decoded(s[i])
  BY DEF PercentDecode
<1>3. \A c \in Lexeme : Decoded(c) \in Lexeme
  <2> TAKE c \in Lexeme
  <2>1. CASE c = "%2e"  BY <2>1 DEF Decoded, Lexeme, Mark
  <2>2. CASE c # "%2e" /\ c \in Escape
    <3>1. Decoded(c) \in Escapable  BY <2>2, EscapeFacts DEF Decoded
    <3>2. Escapable \subseteq Mark  BY DEF Escapable, Mark
    <3> QED  BY <3>1, <3>2 DEF Lexeme
  <2>3. CASE c # "%2e" /\ c \notin Escape  BY <2>3 DEF Decoded
  <2> QED  BY <2>1, <2>2, <2>3
<1> HIDE DEF e
<1>4. \A i \in 1..Len(s) : e[i] \in Lexeme  BY <1>1, <1>2, <1>3
<1>5. e \in Text /\ Len(e) = Len(s)  BY <1>1, <1>2, <1>4, MadeText
<1> QED  BY <1>5 DEF e

(****************************************************************************)
(* Ports, schemes and hosts.                                                *)
(****************************************************************************)
\* A lexeme standing alone.
LEMMA OneLexeme ==
    ASSUME NEW c \in Lexeme
    PROVE  <<c>> \in Text /\ Len(<<c>>) = 1 /\ <<c>>[1] = c
  BY DEF Text

\* A digit has a value.
LEMMA DigitValues == \A c \in Digit : DigitValue(c) \in 0..9
<1> SUFFICES ASSUME NEW c \in Digit PROVE DigitValue(c) \in 0..9
  OBVIOUS
<1>1. \E d \in 0..9 : DigitLexeme(d) = c
  <2>1. /\ DigitLexeme(0) = "0" /\ DigitLexeme(1) = "1" /\ DigitLexeme(2) = "2"
        /\ DigitLexeme(3) = "3" /\ DigitLexeme(4) = "4" /\ DigitLexeme(5) = "5"
        /\ DigitLexeme(6) = "6" /\ DigitLexeme(7) = "7" /\ DigitLexeme(8) = "8"
        /\ DigitLexeme(9) = "9"
    BY DEF DigitLexeme
  <2> QED  BY <2>1 DEF Digit
<1> QED  BY <1>1 DEF DigitValue

\* The cap on a port's value is a natural number.
LEMMA PortCap == MaxPort \in Nat /\ MaxPort + 1 \in Nat
BY DEF MaxPort

\* However many digits are read, the value stops growing behind the last port.
LEMMA PortValues ==
    ASSUME NEW s \in Text, \A i \in 1..Len(s) : s[i] \in Digit
    PROVE  PortValue(s) \in 0..(MaxPort + 1)
<1> DEFINE n == Len(s)
           V == 0..(MaxPort + 1)
           next(k, r) == Min({10 * r + DigitValue(s[k]), MaxPort + 1})
           step == [x \in (1..n) \X V |-> next(x[1], x[2])]
           g == CHOOSE f : f = [k \in 0..n |->
                                   IF k = 0 THEN 0
                                   ELSE Min({10 * f[k - 1] + DigitValue(s[k]),
                                             MaxPort + 1})]
<1>1. n \in Nat  BY TextFacts
<1>2. 0 \in V  BY PortCap
<1>3. \A k \in 1..n : \A r \in V : next(k, r) \in V
  <2> SUFFICES ASSUME NEW k \in 1..n, NEW r \in V PROVE next(k, r) \in V
    OBVIOUS
  <2> DEFINE T == {10 * r + DigitValue(s[k]), MaxPort + 1}
  <2>1. T \subseteq Nat /\ T # {} /\ MaxPort + 1 \in T
    <3>1. DigitValue(s[k]) \in Nat  BY DigitValues
    <3>2. MaxPort + 1 \in Nat /\ r \in Nat  BY PortCap
    <3>3. 10 * r + DigitValue(s[k]) \in Nat  BY <3>1, <3>2
    <3> QED  BY <3>2, <3>3
  <2> HIDE DEF T
  <2>2. Min(T) \in T /\ Min(T) <= MaxPort + 1  BY <2>1, MinFacts
  <2> DEFINE least == Min(T)
  <2>3. least \in Nat  BY <2>1, <2>2
  <2>4. least <= MaxPort + 1  BY <2>2
  <2>5. MaxPort + 1 \in Nat  BY PortCap
  <2> HIDE DEF least
  <2>6. least \in V  BY <2>3, <2>4, <2>5
  <2> QED  BY <2>6 DEF T, least
<1>4. step \in [(1..n) \X V -> V]
  <2> HIDE DEF next, n, V
  <2> QED  BY <1>3
<1>5. PICK f \in [0..n -> V] : Iterates(f, n, 0, step)
  <2> HIDE DEF step, n, V
  <2> QED  BY <1>1, <1>2, <1>4, Recursion
<1>6. \A k \in 1..n : f[k] = next(k, f[k - 1])
  <2> TAKE k \in 1..n
  <2>1. k - 1 \in 0..n  BY <1>1
  <2>2. f[k - 1] \in V  BY <2>1
  <2>3. f[k] = step[<<k, f[k - 1]>>]  BY <1>5 DEF Iterates
  <2> HIDE DEF next, n, V
  <2> QED  BY <2>2, <2>3
<1>7. f = [k \in 0..n |-> IF k = 0 THEN 0 ELSE next(k, f[k - 1])]
  <2> HIDE DEF step, next, V
  <2>1. \A k \in 0..n : k # 0 => k \in 1..n  BY <1>1
  <2> HIDE DEF n
  <2> QED  BY <1>5, <1>6, <2>1 DEF Iterates
<1>8. g = [k \in 0..n |-> IF k = 0 THEN 0 ELSE next(k, g[k - 1])]
  <2> HIDE DEF n
  <2> QED  BY <1>7
<1>9. PortValue(s) = g[n]  BY DEF PortValue
<1> HIDE DEF g, n, step, V
<1>10. g[0] \in V  BY <1>1, <1>2, <1>8
<1>11. \A k \in 1..n : g[k - 1] \in V => g[k] \in V
  <2> TAKE k \in 1..n
  <2>1. k \in 0..n /\ k # 0  BY <1>1
  <2>2. g[k] = next(k, g[k - 1])
    <3> HIDE DEF next
    <3> QED  BY <1>8, <2>1
  <2> HIDE DEF next
  <2> QED  BY <1>3, <2>2
<1>12. \A k \in 0..n : g[k] \in V
  <2> HIDE DEF next
  <2> QED  BY <1>1, <1>10, <1>11, RecursionKeeps
<1>13. g[n] \in V  BY <1>1, <1>12
<1> QED  BY <1>9, <1>13 DEF V

\* What a port is parsed to: none, or a u16 other than the default.
LEMMA ParsedPort ==
    ASSUME NEW s \in Text, NEW default, ParsePort(s, default).ok
    PROVE  LET p == ParsePort(s, default)
           IN  /\ p.port \in PortNumber \union {None}
               /\ p.port # None => p.port # default
               /\ p.rest \in Text
<1> DEFINE chars == Lexeme \ Digit
           end == Find(s, chars)
           digits == Take(s, end)
           rest == Drop(s, end)
           port == PortValue(digits)
<1>1. /\ digits \in Text /\ Len(digits) = end /\ rest \in Text
      /\ \A i \in 1..end : digits[i] = s[i] /\ s[i] \notin chars
  BY FoundFacts
<1>2. \A i \in 1..Len(digits) : digits[i] \in Digit
  BY <1>1, TextFacts
<1>3. port \in 0..(MaxPort + 1)
  <2> HIDE DEF digits
  <2> QED  BY <1>1, <1>2, PortValues
<1>4. /\ ~(port > MaxPort)
      /\ ParsePort(s, default)
            = [ok |-> TRUE, rest |-> rest,
               port |-> IF end = 0 \/ port = default THEN None ELSE port]
  BY DEF ParsePort, Err
<1> HIDE DEF port, end, rest
<1>5. port \in PortNumber
  <2>1. MaxPort \in Nat  BY PortCap
  <2> QED  BY <1>3, <1>4, <2>1 DEF PortNumber
<1> QED  BY <1>1, <1>4, <1>5

\* A parsed scheme is a text of its own, without spaces.
LEMMA ParsedScheme ==
    ASSUME NEW s \in Text, NEW context, ParseScheme(s, context).ok
    PROVE  LET p == ParseScheme(s, context)
           IN  /\ p.scheme \in Text /\ Len(p.scheme) > 0 /\ NoSpace(p.scheme)
               /\ \A i \in 1..Len(p.scheme) :
                     p.scheme[i] \in Word \union Digit \union {".", "+"}
               /\ p.rest \in Text
<1> DEFINE chars == Lexeme \ (Word \union Digit \union {".", "+"})
           end == Find(s, chars)
           p == ParseScheme(s, context)
<1>1. FirstIn(s, Word)  BY DEF ParseScheme, Err
<1>2. /\ end \in Nat /\ end <= Len(s)
      /\ Take(s, end) \in Text /\ Len(Take(s, end)) = end
      /\ \A i \in 1..end : Take(s, end)[i] = s[i] /\ s[i] \notin chars
      /\ end < Len(s) => s[end + 1] \in chars
  BY FoundFacts, FindFacts
<1>3. Len(s) \in Nat /\ Len(s) >= 1 /\ s[1] \in Word
  BY <1>1, FirstFacts, TextFacts
<1>4. end > 0
  <2> SUFFICES ASSUME end = 0 PROVE FALSE  BY <1>2
  <2>1. s[1] \in chars  BY <1>2, <1>3
  <2> QED  BY <1>3, <2>1
<1>5. \A i \in 1..end : /\ s[i] \in Lexeme /\ s[i] # "SP"
                        /\ s[i] \in Word \union Digit \union {".", "+"}
  <2>1. \A i \in 1..end : s[i] \in Lexeme  BY <1>2, <1>3, TextFacts
  <2>2. "SP" \in chars  BY MarksApart DEF Mark, Digit
  <2> QED  BY <1>2, <2>1, <2>2
<1> HIDE DEF end
<1>6. \/ /\ end < Len(s)
         /\ p = [ok |-> TRUE, scheme |-> Lower(Take(s, end)),
                 rest |-> Drop(s, end + 1)]
      \/ end = Len(s) /\ p = [ok |-> TRUE, scheme |-> Lower(s), rest |-> <<>>]
  BY <1>1 DEF ParseScheme, Err, end
<1>7. \A t \in Text : Len(t) = end /\ (\A i \in 1..end : t[i] = s[i])
         => /\ Lower(t) \in Text /\ Len(Lower(t)) > 0 /\ NoSpace(Lower(t))
            /\ \A i \in 1..Len(Lower(t)) :
                  Lower(t)[i] \in Word \union Digit \union {".", "+"}
  <2> SUFFICES ASSUME NEW t \in Text, Len(t) = end, \A i \in 1..end : t[i] = s[i]
               PROVE  /\ Lower(t) \in Text /\ Len(Lower(t)) > 0 /\ NoSpace(Lower(t))
                      /\ \A i \in 1..Len(Lower(t)) :
                            Lower(t)[i] \in Word \union Digit \union {".", "+"}
    OBVIOUS
  <2>1. /\ Lower(t) \in Text /\ Len(Lower(t)) = end
        /\ \A i \in 1..end : Lower(t)[i] = t[i] \/ Lower(t)[i] \in Word
    BY LowerFacts
  <2>2. "SP" \notin Word  BY MarksApart DEF Mark
  <2> QED  BY <1>4, <1>5, <2>1, <2>2 DEF NoSpace
<1>8. CASE end < Len(s)
  <2>1. Drop(s, end + 1) \in Text  BY <1>2, <1>3, <1>8, DropFacts
  <2> DEFINE low == Lower(Take(s, end))
  <2>2. /\ low \in Text /\ Len(low) > 0 /\ NoSpace(low)
        /\ \A i \in 1..Len(low) : low[i] \in Word \union Digit \union {".", "+"}
    BY <1>2, <1>7
  <2> HIDE DEF low, p
  <2>3. p.scheme = low /\ p.rest = Drop(s, end + 1)  BY <1>6, <1>8 DEF low
  <2> QED  BY <2>1, <2>2, <2>3 DEF p
<1>9. CASE end = Len(s)
  <2>1. <<>> \in Text  BY EmptySeq DEF Text
  <2> QED  BY <1>3, <1>6, <1>7, <1>9, <2>1
<1> QED  BY <1>2, <1>3, <1>8, <1>9

\* What a host must not contain: it would be read as something else.
HostLike(h) ==
    /\ h.kind \in HostKind /\ h.text \in Text
    /\ h.kind = "None" <=> h.text = <<>>
    /\ \A i \in 1..Len(h.text) : h.text[i] \notin {":", "@", "/", "SP"}

\* A host in brackets.
LEMMA Bracketed ==
    ASSUME NEW s \in Text, BracketedHost(s).ok
    PROVE  HostLike(BracketedHost(s))
<1>1. s = <<"[v6]">> /\ BracketedHost(s) = Host("Ipv6", s)
  BY DEF BracketedHost, Err
<1>2. Len(s) = 1 /\ s[1] = "[v6]" /\ s # <<>>  BY <1>1
<1> QED  BY <1>1, <1>2 DEF Host, HostLike, HostKind

\* A domain is as it is given.
LEMMA DomainRead ==
    ASSUME NEW s \in Text,
           \A i \in 1..Len(s) : s[i] \notin {":", "@", "/", "SP"}
    PROVE  HostLike(DomainHost(s))
  BY DEF DomainHost, Host, HostLike, HostKind

\* The host of a special URL.
LEMMA ParsedDomain ==
    ASSUME NEW s \in Text, ParseHost(s).ok
    PROVE  HostLike(ParseHost(s))
<1> DEFINE domain == Lower(PercentDecode(s))
           allowed == Word \union Digit \union {".", "v4", "'", "&", "=", "+"}
<1>1. domain \in Text  BY DecodeFacts, LowerFacts
<1>2. {":", "@", "/", "SP"} \intersect allowed = {}
  BY MarksApart DEF Mark, Digit
<1>3. \/ ParseHost(s) = BracketedHost(s)
      \/ /\ \A i \in 1..Len(domain) : domain[i] \in allowed
         /\ ParseHost(s) = Ipv4Host(domain) \/ ParseHost(s) = DomainHost(domain)
  BY DEF ParseHost, Err
<1> HIDE DEF domain, allowed
<1>4. CASE ParseHost(s) = BracketedHost(s)  BY <1>4, Bracketed
<1>5. CASE ParseHost(s) = Ipv4Host(domain)
  <2>1. ParseHost(s) = Host("Ipv4", <<"v4">>)
    BY <1>5 DEF Ipv4Host, Err
  <2>2. <<"v4">> \in Text /\ Len(<<"v4">>) = 1 /\ <<"v4">>[1] = "v4"
    BY MarksApart, OneLexeme DEF Mark
  <2> QED  BY <2>1, <2>2 DEF Host, HostLike, HostKind
<1>6. CASE /\ \A i \in 1..Len(domain) : domain[i] \in allowed
           /\ ParseHost(s) = DomainHost(domain)
  <2>1. \A i \in 1..Len(domain) : domain[i] \notin {":", "@", "/", "SP"}
    BY <1>2, <1>6
  <2> QED  BY <1>1, <1>6, <2>1, DomainRead
<1> QED  BY <1>3, <1>4, <1>5, <1>6

\* The host of a URL that is not special.
LEMMA ParsedOpaqueHost ==
    ASSUME NEW s \in Text, ParseOpaqueHost(s).ok
    PROVE  HostLike(ParseOpaqueHost(s))
<1> DEFINE refused == {"TAB", "SP", "#", "/", ":", "?", "@", "[v6]", "BSLASH", "|"}
           e == PercentEncode(s, CONTROLS)
<1>1. \/ ParseOpaqueHost(s) = BracketedHost(s)
      \/ /\ \A i \in 1..Len(s) : s[i] \notin refused
         /\ ParseOpaqueHost(s) = DomainHost(e)
  BY DEF ParseOpaqueHost, Err
<1>2. CASE ParseOpaqueHost(s) = BracketedHost(s)  BY <1>2, Bracketed
<1>3. CASE /\ \A i \in 1..Len(s) : s[i] \notin refused
           /\ ParseOpaqueHost(s) = DomainHost(e)
  <2>1. /\ e \in Text /\ Len(e) = Len(s)
        /\ \A i \in 1..Len(s) : e[i] = s[i] \/ e[i] \in Escape
    BY EncodeFacts, EncodeSets
  <2>2. \A c \in Escape : c \notin {":", "@", "/", "SP"}  BY DEF Escape
  <2> HIDE DEF e
  <2>3. \A i \in 1..Len(e) : e[i] \notin {":", "@", "/", "SP"}
    BY <1>3, <2>1, <2>2
  <2> QED  BY <1>3, <2>1, <2>3, DomainRead
<1> QED  BY <1>1, <1>2, <1>3

\* What either parser takes for a host can stand between credentials and port.
LEMMA ParsedHost ==
    ASSUME NEW type, NEW s \in Text, HostParser(type, s).ok
    PROVE  HostLike(HostParser(type, s))
  BY ParsedDomain, ParsedOpaqueHost DEF HostParser

(****************************************************************************)
(* Reading a path.  It is appended to the serialization behind offset n:    *)
(* nothing in front of n is ever taken back.                                *)
(****************************************************************************)
\* r has the first n lexemes of s.
StartsAs(r, s, n) ==
    /\ r \in Text /\ n <= Len(r)
    /\ \A i \in 1..n : r[i] = s[i]

\* What stands behind n starts with a '/'.
RootedAt(s, n) == n < Len(s) /\ s[n + 1] = "/"

\* r has all of s behind n that makes s a rooted path, if s is one.
Continues(r, s, n) == StartsAs(r, s, n) /\ (RootedAt(s, n) => RootedAt(r, n))

\* Two steps that each go on from what they got go on together.
LEMMA ContinuesOn ==
    ASSUME NEW n \in Nat, NEW s, NEW r, NEW t,
           Continues(r, s, n), Continues(t, r, n)
    PROVE  Continues(t, s, n)
  BY DEF Continues, StartsAs

\* More text behind s.
LEMMA ConcatContinues ==
    ASSUME NEW s \in Text, NEW t \in Text, NEW n \in Nat, n <= Len(s)
    PROVE  /\ Continues(s \o t, s, n)
           /\ FirstIn(t, {"/"}) /\ Len(s) = n => RootedAt(s \o t, n)
           /\ t = <<>> => s \o t = s
<1>1. /\ s \o t \in Text /\ Len(s \o t) = Len(s) + Len(t)
      /\ \A i \in 1..Len(s) : (s \o t)[i] = s[i]
      /\ \A i \in 1..Len(t) : (s \o t)[Len(s) + i] = t[i]
  BY ConcatFacts
<1>2. Len(s) \in Nat /\ Len(t) \in Nat  BY TextFacts
<1>3. StartsAs(s \o t, s, n)  BY <1>1, <1>2 DEF StartsAs
<1>4. RootedAt(s, n) => RootedAt(s \o t, n)
  BY <1>1, <1>2 DEF RootedAt
<1>5. FirstIn(t, {"/"}) /\ Len(s) = n => RootedAt(s \o t, n)
  <2> SUFFICES ASSUME FirstIn(t, {"/"}), Len(s) = n PROVE RootedAt(s \o t, n)
    OBVIOUS
  <2>1. Len(t) >= 1 /\ t[1] = "/"  BY FirstFacts
  <2>2. 1 \in 1..Len(t)  BY <1>2, <2>1
  <2>3. (s \o t)[Len(s) + 1] = t[1]  BY <1>1, <2>2
  <2> QED  BY <1>1, <1>2, <2>1, <2>3 DEF RootedAt
<1>6. t = <<>> => s \o t = s  BY ConcatEmptySeq DEF Text
<1> QED  BY <1>3, <1>4, <1>5, <1>6 DEF Continues

\* Less text, but not less than one lexeme behind n.
LEMMA TakeContinues ==
    ASSUME NEW s \in Text, NEW m \in Nat, NEW n \in Nat, m <= Len(s),
           n < m \/ (n = m /\ ~RootedAt(s, n))
    PROVE  Continues(Take(s, m), s, n)
<1>1. /\ Take(s, m) \in Text /\ Len(Take(s, m)) = m
      /\ \A i \in 1..m : Take(s, m)[i] = s[i]
  BY TakeFacts
<1>2. StartsAs(Take(s, m), s, n)  BY <1>1 DEF StartsAs
<1>3. RootedAt(s, n) => RootedAt(Take(s, m), n)  BY <1>1 DEF RootedAt
<1> QED  BY <1>2, <1>3 DEF Continues

\* Nothing changed.
LEMMA SameContinues ==
    ASSUME NEW s \in Text, NEW n \in Nat, n <= Len(s)
    PROVE  Continues(s, s, n)
  BY DEF Continues, StartsAs

\* Closing a segment with a slash takes nothing back.
LEMMA WithSlashContinues ==
    ASSUME NEW s \in Text, NEW n \in Nat, n <= Len(s)
    PROVE  Continues(WithSlash(s), s, n)
<1>1. CASE WithSlash(s) = s  BY <1>1, SameContinues
<1>2. CASE WithSlash(s) = Append(s, "/")
  <2>1. "/" \in Lexeme  BY MarksApart DEF Mark
  <2>2. /\ Append(s, "/") \in Text /\ Len(Append(s, "/")) = Len(s) + 1
        /\ \A i \in 1..Len(s) : Append(s, "/")[i] = s[i]
        /\ Append(s, "/")[Len(s) + 1] = "/"
    BY <2>1, AppendFacts
  <2>3. Len(s) \in Nat  BY TextFacts
  <2>4. StartsAs(Append(s, "/"), s, n)  BY <2>2, <2>3 DEF StartsAs
  <2>5. RootedAt(s, n) => RootedAt(Append(s, "/"), n)
    BY <2>2, <2>3 DEF RootedAt
  <2> QED  BY <1>2, <2>4, <2>5 DEF Continues
<1> QED  BY <1>1, <1>2 DEF WithSlash

\* pop_path takes the last segment, never the first '/'.
LEMMA PopContinues ==
    ASSUME NEW s \in Text, NEW n \in Nat, n <= Len(s), NEW type
    PROVE  Continues(pop_path(s, type, n), s, n)
<1> DEFINE rest == Drop(s, n)
           m == n + LastSlash(rest) + 1
<1>1. Len(s) \in Nat  BY TextFacts
<1>2. CASE pop_path(s, type, n) = s  BY <1>2, SameContinues
<1>3. CASE pop_path(s, type, n) # s
  <2>1. Len(s) > n /\ pop_path(s, type, n) = Take(s, m)
    BY <1>1, <1>3 DEF pop_path
  <2>2. /\ rest \in Text /\ Len(rest) = Len(s) - n
        /\ \A i \in 1..(Len(s) - n) : rest[i] = s[n + i]
    BY DropFacts
  <2>3. /\ LastSlash(rest) \in Int /\ -1 <= LastSlash(rest)
        /\ LastSlash(rest) < Len(rest) \/ LastSlash(rest) = -1
        /\ \A i \in 1..Len(rest) : rest[i] = "/" => i <= LastSlash(rest) + 1
    BY <2>2, LastSlashFacts
  <2> HIDE DEF rest
  <2>4. m \in Nat /\ n <= m /\ m <= Len(s)  BY <1>1, <2>1, <2>2, <2>3
  <2>5. RootedAt(s, n) => n < m
    <3> SUFFICES ASSUME RootedAt(s, n) PROVE n < m  OBVIOUS
    <3>1. 1 \in 1..(Len(s) - n) /\ s[n + 1] = "/"
      BY <1>1, <2>1 DEF RootedAt
    <3>2. rest[1] = "/" /\ 1 \in 1..Len(rest)  BY <2>2, <3>1
    <3>3. 1 <= LastSlash(rest) + 1  BY <2>3, <3>2
    <3> QED  BY <2>3, <3>3
  <2> HIDE DEF m
  <2>6. n < m \/ (n = m /\ ~RootedAt(s, n))  BY <2>4, <2>5
  <2>7. Continues(Take(s, m), s, n)  BY <2>4, <2>6, TakeContinues
  <2> QED  BY <2>1, <2>7
<1> QED  BY <1>2, <1>3

\* shorten_path stops at the start of the path.
LEMMA ShortenContinues ==
    ASSUME NEW s \in Text, NEW n \in Nat, n <= Len(s), NEW type
    PROVE  Continues(shorten_path(s, type, n), s, n)
  BY PopContinues, SameContinues DEF shorten_path

\* The slash that ".." takes off is not the first one.
LEMMA WithoutLastSlash ==
    ASSUME NEW s \in Text, NEW n \in Nat, n <= Len(s),
           EndsWith(s, "/"), last_slash_can_be_removed(s, n)
    PROVE  Continues(Front(s), s, n)
<1>1. Len(s) \in Nat /\ Len(s) > 0  BY TextFacts DEF EndsWith
<1>2. Front(s) = Take(s, Len(s) - 1)  BY DEF Front, Take
<1>3. Len(s) - 1 \in Nat /\ Len(s) - 1 <= Len(s)  BY <1>1
<1>4. Front(s) \in Text /\ Len(Front(s)) = Len(s) - 1
  BY <1>2, <1>3, TakeFacts
<1>5. /\ LastSlash(Front(s)) \in Int
      /\ LastSlash(Front(s)) # -1 /\ LastSlash(Front(s)) >= n
      /\ LastSlash(Front(s)) < Len(s) - 1
  BY <1>4, LastSlashFacts DEF last_slash_can_be_removed, None
<1>6. n < Len(s) - 1  BY <1>3, <1>5
<1>7. Continues(Take(s, Len(s) - 1), s, n)  BY <1>3, <1>6, TakeContinues
<1> QED  BY <1>2, <1>7

PathStates == [s : Text, has_host : BOOLEAN]

\* One segment: nothing in front of the path is taken back, nor its first '/'.
LEMMA PushContinues ==
    ASSUME NEW st \in PathStates, NEW segment \in Text, NEW closed \in BOOLEAN,
           NEW type, NEW n \in Nat, n <= Len(st.s)
    PROVE  /\ PushSegment(st, segment, closed, type, n) \in PathStates
           /\ Continues(PushSegment(st, segment, closed, type, n).s, st.s, n)
<1> DEFINE s == st.s
           slash == IF closed THEN <<"/">> ELSE <<>>
           front == IF EndsWith(s, "/") /\ last_slash_can_be_removed(s, n)
                    THEN Front(s) ELSE s
           up == shorten_path(front, type, n)
           p == PushSegment(st, segment, closed, type, n)
<1>1. s \in Text /\ st = [s |-> s, has_host |-> st.has_host]
      /\ st.has_host \in BOOLEAN /\ Len(s) \in Nat
  BY TextFacts DEF PathStates
<1>2. slash \in Text  BY OneLexeme, MarksApart, EmptySeq DEF Mark, Text
<1>3. Continues(front, s, n)
  BY <1>1, WithoutLastSlash, SameContinues
<1>4. front \in Text /\ n <= Len(front)
  BY <1>3 DEF Continues, StartsAs
<1>5. Continues(up, s, n)
  <2> HIDE DEF front, s
  <2>1. Continues(up, front, n)  BY <1>4, ShortenContinues
  <2> QED  BY <1>3, <2>1, ContinuesOn
<1>6. up \in Text /\ n <= Len(up)  BY <1>5 DEF Continues, StartsAs
<1>7. \A x : [st EXCEPT !.s = x] = [s |-> x, has_host |-> st.has_host]
  BY DEF PathStates
<1> HIDE DEF front, up, slash, s
<1>8. \E r, h : /\ p = [s |-> r, has_host |-> h] /\ h \in BOOLEAN
                /\ Continues(r, s, n)
  <2>1. CASE IsDoubleDot(segment)
    <3>1. Continues(WithSlash(up), s, n)
      BY <1>5, <1>6, WithSlashContinues, ContinuesOn
    <3>2. p = [s |-> IF closed THEN WithSlash(up) ELSE up,
               has_host |-> st.has_host]
      <4>1. p = [st EXCEPT !.s = IF closed THEN WithSlash(up) ELSE up]
        BY <2>1
        DEF PushSegment, up, front, s, IsDoubleDot, IsSingleDot, Dot,
            is_windows_drive_letter
      <4> QED  BY <1>7, <4>1
    <3> QED  BY <1>1, <1>5, <3>1, <3>2
  <2>2. CASE ~IsDoubleDot(segment) /\ IsSingleDot(segment)
    <3>1. Continues(WithSlash(s), s, n)  BY <1>1, WithSlashContinues DEF s
    <3>2. p = [s |-> WithSlash(s), has_host |-> st.has_host]
      <4>1. p = [st EXCEPT !.s = WithSlash(s)]
        BY <2>2
        DEF PushSegment, s, IsDoubleDot, IsSingleDot, Dot,
            is_windows_drive_letter
      <4> QED  BY <1>7, <4>1
    <3> QED  BY <1>1, <3>1, <3>2
  <2>3. CASE /\ ~IsDoubleDot(segment) /\ ~IsSingleDot(segment)
             /\ type = "File" /\ Len(s) = n + 1
             /\ is_windows_drive_letter(segment)
    <3> DEFINE drive == <<segment[1], ":">>
    <3>1. drive \in Text
      <4>1. Len(segment) = 2  BY <2>3 DEF is_windows_drive_letter
      <4>2. segment[1] \in Lexeme  BY <4>1, TextFacts
      <4>3. ":" \in Lexeme  BY MarksApart DEF Mark
      <4> QED  BY <4>2, <4>3 DEF Text
    <3>2. p = [s |-> s \o drive \o slash, has_host |-> FALSE]
      BY <1>1, <2>3 DEF PushSegment, s, slash
    <3> HIDE DEF drive
    <3>3. Continues(s \o drive, s, n) /\ s \o drive \in Text
      BY <1>1, <3>1, ConcatContinues, ConcatFacts DEF s
    <3>4. n <= Len(s \o drive)  BY <3>3 DEF Continues, StartsAs
    <3>5. Continues(s \o drive \o slash, s, n)
      BY <1>2, <3>3, <3>4, ConcatContinues, ContinuesOn
    <3> QED  BY <3>2, <3>5
  <2>4. CASE /\ ~IsDoubleDot(segment) /\ ~IsSingleDot(segment)
             /\ ~(/\ type = "File" /\ Len(s) = n + 1
                  /\ is_windows_drive_letter(segment))
    <3>1. p = [s |-> s \o segment \o slash, has_host |-> st.has_host]
      <4>1. p = [st EXCEPT !.s = s \o segment \o slash]
        BY <2>4 DEF PushSegment, s, slash
      <4> QED  BY <1>7, <4>1
    <3>2. Continues(s \o segment, s, n) /\ s \o segment \in Text
      BY <1>1, ConcatContinues, ConcatFacts DEF s
    <3>3. n <= Len(s \o segment)  BY <3>2 DEF Continues, StartsAs
    <3>4. Continues(s \o segment \o slash, s, n)
      BY <1>2, <3>2, <3>3, ConcatContinues, ContinuesOn
    <3> QED  BY <1>1, <3>1, <3>4
  <2> QED  BY <2>1, <2>2, <2>3, <2>4
<1>9. \A r : Continues(r, s, n) => r \in Text  BY DEF Continues, StartsAs
<1> HIDE DEF p
<1>10. p \in PathStates /\ Continues(p.s, s, n)
  BY <1>8, <1>9 DEF PathStates
<1> QED  BY <1>10 DEF p, s

\* The first segment of a path that starts with a separator is empty, and
\* leaves the separator.
LEMMA PushFirst ==
    ASSUME NEW st \in PathStates, NEW closed \in BOOLEAN, NEW type,
           NEW n \in Nat, n = Len(st.s)
    PROVE  LET p == PushSegment(st, <<>>, closed, type, n)
           IN  IF closed THEN RootedAt(p.s, n) ELSE p.s = st.s
<1> DEFINE s == st.s
           slash == IF closed THEN <<"/">> ELSE <<>>
           p == PushSegment(st, <<>>, closed, type, n)
<1>1. s \in Text /\ st = [s |-> s, has_host |-> st.has_host] /\ Len(s) = n
  BY DEF PathStates
<1>2. ~IsDoubleDot(<<>>) /\ ~IsSingleDot(<<>>)
  BY DEF IsDoubleDot, IsSingleDot
<1>3. p = [st EXCEPT !.s = s \o <<>> \o slash]
  BY <1>2 DEF PushSegment, is_windows_drive_letter
<1>4. s \o <<>> = s  BY <1>1, ConcatEmptySeq DEF Text
<1>5. p.s = s \o slash
  <2> HIDE DEF s, slash, p
  <2>1. [st EXCEPT !.s = s \o <<>> \o slash].s = s \o <<>> \o slash
    BY DEF PathStates
  <2> QED  BY <1>3, <1>4, <2>1
<1> HIDE DEF p, s
<1>6. CASE closed
  <2>1. slash \in Text /\ FirstIn(slash, {"/"})
    BY <1>6, OneLexeme, MarksApart DEF Mark, FirstIn
  <2> HIDE DEF slash
  <2>2. RootedAt(p.s, n)  BY <1>1, <1>5, <2>1, ConcatContinues
  <2> QED  BY <1>6, <2>2 DEF p
<1>7. CASE ~closed
  <2>1. p.s = s  BY <1>1, <1>5, <1>7, ConcatEmptySeq DEF Text
  <2> QED  BY <1>7, <2>1 DEF p, s
<1> QED  BY <1>6, <1>7

(****************************************************************************)
(* Dots.  parse_path resolves "." and ".." segment by segment; what it has  *)
(* written so far holds none behind a slash.                                *)
(****************************************************************************)
\* "." or ".." stands behind the '/' at i.
DotsBehind(s, i) ==
    \/ /\ i + 1 <= Len(s) /\ s[i + 1] \in Dot
       /\ i + 1 = Len(s) \/ s[i + 2] = "/"
    \/ /\ i + 2 <= Len(s) /\ s[i + 1] \in Dot /\ s[i + 2] \in Dot
       /\ i + 2 = Len(s) \/ s[i + 3] = "/"

\* No segment behind n is "." or "..".
Tidy(s, n) == \A i \in (n + 1)..Len(s) : s[i] = "/" => ~DotsBehind(s, i)

\* What is put behind s becomes a segment of its own or is no dots with it.
Ready(s, n) == Len(s) = n \/ s[Len(s)] \notin Dot

\* A path that loses a segment, or the slash at its end.
LEMMA TidyTake ==
    ASSUME NEW s \in Text, NEW n \in Nat, NEW m \in Nat, n <= m, m <= Len(s),
           Tidy(s, n), m = n \/ m = Len(s) \/ s[m] = "/" \/ s[m + 1] = "/"
    PROVE  Tidy(Take(s, m), n)
<1> DEFINE t == Take(s, m)
<1>1. /\ t \in Text /\ Len(t) = m /\ \A i \in 1..m : t[i] = s[i]
      /\ Len(s) \in Nat
  BY TakeFacts, TextFacts
<1> HIDE DEF t
<1>2. "/" \notin Dot  BY DEF Dot
<1> SUFFICES ASSUME NEW i \in (n + 1)..Len(t), t[i] = "/", DotsBehind(t, i)
             PROVE  FALSE
  BY DEF Tidy, t
<1>3. i \in (n + 1)..Len(s) /\ s[i] = "/"  BY <1>1
<1>4. ~DotsBehind(s, i)  BY <1>3 DEF Tidy
<1>5. CASE i + 1 <= m /\ t[i + 1] \in Dot /\ (i + 1 = m \/ t[i + 2] = "/")
  <2>1. s[i + 1] \in Dot  BY <1>1, <1>5
  <2>2. i + 1 = m => i + 1 = Len(s) \/ s[i + 2] = "/"  BY <1>1, <1>2, <2>1
  <2>3. i + 1 # m => s[i + 2] = "/"  BY <1>1, <1>5
  <2> QED  BY <1>1, <1>4, <1>5, <2>1, <2>2, <2>3 DEF DotsBehind
<1>6. CASE /\ i + 2 <= m /\ t[i + 1] \in Dot /\ t[i + 2] \in Dot
           /\ i + 2 = m \/ t[i + 3] = "/"
  <2>1. s[i + 1] \in Dot /\ s[i + 2] \in Dot  BY <1>1, <1>6
  <2>2. i + 2 = m => i + 2 = Len(s) \/ s[i + 3] = "/"  BY <1>1, <1>2, <2>1
  <2>3. i + 2 # m => s[i + 3] = "/"  BY <1>1, <1>6
  <2> QED  BY <1>1, <1>4, <1>6, <2>1, <2>2, <2>3 DEF DotsBehind
<1> QED  BY <1>1, <1>5, <1>6 DEF DotsBehind

\* A path that gets another slash.
LEMMA TidySlash ==
    ASSUME NEW s \in Text, NEW n \in Nat, n <= Len(s), Tidy(s, n)
    PROVE  Tidy(s \o <<"/">>, n) /\ Ready(s \o <<"/">>, n)
<1> DEFINE slash == <<"/">>
           t == s \o slash
           m == Len(s)
<1>1. slash \in Text /\ Len(slash) = 1 /\ slash[1] = "/"
  BY OneLexeme, MarksApart DEF Mark
<1>2. /\ t \in Text /\ Len(t) = m + 1 /\ m \in Nat
      /\ \A i \in 1..m : t[i] = s[i]
      /\ t[m + 1] = "/"
  <2>1. m \in Nat  BY TextFacts
  <2> HIDE DEF slash, m
  <2>2. /\ t \in Text /\ Len(t) = m + Len(slash)
        /\ \A i \in 1..m : t[i] = s[i]
        /\ \A i \in 1..Len(slash) : t[m + i] = slash[i]
    BY <1>1, ConcatFacts DEF m
  <2>3. 1 \in 1..Len(slash)  BY <1>1
  <2> HIDE DEF t
  <2>4. t[m + 1] = slash[1]  BY <2>2, <2>3
  <2> QED  BY <1>1, <2>1, <2>2, <2>4
<1> HIDE DEF t, slash, m
<1>3. "/" \notin Dot  BY DEF Dot
<1>4. Ready(t, n)  BY <1>2, <1>3 DEF Ready
<1>5. ASSUME NEW i \in (n + 1)..Len(t), t[i] = "/", DotsBehind(t, i)
      PROVE  FALSE
  <2>1. i <= m  BY <1>2, <1>3, <1>5 DEF DotsBehind
  <2>2. i \in (n + 1)..m /\ s[i] = "/"  BY <1>2, <1>5, <2>1
  <2>3. ~DotsBehind(s, i)  BY <2>2 DEF Tidy, m
  <2>4. i + 1 <= Len(t) /\ t[i + 1] \in Dot  BY <1>5 DEF DotsBehind
  <2>5. i + 1 <= m /\ s[i + 1] \in Dot  BY <1>2, <1>3, <2>2, <2>4
  <2>6. CASE t[i + 2] = "/"
    <3>1. i + 1 = m \/ s[i + 2] = "/"  BY <1>2, <2>2, <2>5, <2>6
    <3> QED  BY <2>3, <2>5, <3>1 DEF DotsBehind, m
  <2>7. CASE t[i + 2] # "/"
    <3>1. /\ i + 2 <= Len(t) /\ t[i + 2] \in Dot
          /\ i + 2 = Len(t) \/ t[i + 3] = "/"
      BY <1>2, <1>5, <2>2, <2>5, <2>7 DEF DotsBehind
    <3>2. i + 2 <= m /\ s[i + 2] \in Dot  BY <1>2, <1>3, <2>2, <3>1
    <3>3. i + 2 = m \/ s[i + 3] = "/"  BY <1>2, <2>2, <3>1, <3>2
    <3> QED  BY <2>3, <2>5, <3>2, <3>3 DEF DotsBehind, m
  <2> QED  BY <2>6, <2>7
<1>6. Tidy(t, n)  BY <1>5 DEF Tidy
<1> QED  BY <1>4, <1>6 DEF t, slash

\* A path that gets a segment which is no dots.
LEMMA TidyConcat ==
    ASSUME NEW s \in Text, NEW n \in Nat, n <= Len(s), Tidy(s, n), Ready(s, n),
           NEW t \in Text, NoByte(t, "/"), ~IsSingleDot(t), ~IsDoubleDot(t)
    PROVE  Tidy(s \o t, n)
<1> DEFINE r == s \o t
           m == Len(s)
           k == Len(t)
<1>1. /\ r \in Text /\ Len(r) = m + k /\ m \in Nat /\ k \in Nat
      /\ \A i \in 1..m : r[i] = s[i]
      /\ \A i \in 1..k : r[m + i] = t[i]
  BY ConcatFacts, TextFacts
<1>2. "/" \notin Dot  BY DEF Dot
<1>3. \A i \in 1..k : t[i] # "/"  BY DEF NoByte
<1>4. m = n \/ s[m] \notin Dot  BY DEF Ready
<1>5. /\ ~(k = 1 /\ t[1] \in Dot)
      /\ ~(k = 2 /\ t[1] \in Dot /\ t[2] \in Dot)
  BY DEF IsSingleDot, IsDoubleDot
<1> SUFFICES ASSUME NEW i \in (n + 1)..Len(r), r[i] = "/", DotsBehind(r, i)
             PROVE  FALSE
  BY DEF Tidy
<1> HIDE DEF r, m, k
<1>6. i <= m
  <2> SUFFICES ASSUME i > m PROVE FALSE
    BY <1>1
  <2> DEFINE j == i - m
  <2>1. j \in 1..k /\ m + j = i  BY <1>1
  <2> HIDE DEF j
  <2>2. r[i] = t[j]  BY <1>1, <2>1
  <2> QED  BY <1>3, <2>1, <2>2
<1>7. i \in (n + 1)..m /\ s[i] = "/" /\ m # n /\ s[m] \notin Dot
  BY <1>1, <1>4, <1>6
<1>8. ~DotsBehind(s, i)  BY <1>7 DEF Tidy, m
<1>9. CASE i = m
  <2>1. r[i + 1] \in Dot /\ i + 1 <= m + k  BY <1>1, <1>9 DEF DotsBehind
  <2>2. 1 \in 1..k /\ r[m + 1] = t[1]  BY <1>1, <1>9, <2>1
  <2>3. k >= 2 => 2 \in 1..k /\ r[m + 2] = t[2] /\ t[2] # "/"  BY <1>1, <1>3
  <2>4. k >= 3 => 3 \in 1..k /\ r[m + 3] = t[3] /\ t[3] # "/"  BY <1>1, <1>3
  <2>5. k = 1 \/ k >= 2  BY <1>1, <2>2
  <2>6. CASE k = 1  BY <1>1, <1>5, <1>9, <2>1, <2>2, <2>6
  <2>7. CASE k >= 2
    <3>1. /\ i + 2 <= m + k /\ r[i + 2] \in Dot
          /\ i + 2 = m + k \/ r[i + 3] = "/"
      BY <1>1, <1>9, <2>3, <2>7 DEF DotsBehind
    <3>2. k = 2 \/ k >= 3  BY <1>1, <2>7
    <3>3. k # 2  BY <1>5, <1>9, <2>1, <2>2, <2>3, <3>1
    <3> QED  BY <1>1, <1>9, <2>4, <3>1, <3>2, <3>3
  <2> QED  BY <2>5, <2>6, <2>7
<1>10. CASE i < m
  <2>1. r[i + 1] = s[i + 1] /\ r[i + 1] \in Dot  BY <1>1, <1>7, <1>10 DEF DotsBehind
  <2>2. i + 1 < m  BY <1>1, <1>7, <1>10, <2>1
  <2>3. r[i + 2] = s[i + 2]  BY <1>1, <1>7, <2>2
  <2>4. s[i + 2] # "/"  BY <1>8, <2>1, <2>2 DEF DotsBehind, m
  <2>5. s[i + 2] \in Dot /\ (i + 2 = m + k \/ r[i + 3] = "/")
    BY <1>1, <1>7, <2>2, <2>3, <2>4 DEF DotsBehind
  <2>6. i + 2 < m  BY <1>1, <1>7, <2>2, <2>5
  <2>7. r[i + 3] = s[i + 3] /\ r[i + 3] = "/"  BY <1>1, <1>7, <2>5, <2>6
  <2> QED  BY <1>8, <2>1, <2>2, <2>5, <2>6, <2>7 DEF DotsBehind, m
<1> QED  BY <1>1, <1>6, <1>9, <1>10

\* pop_path ends behind a slash.
LEMMA TidyPop ==
    ASSUME NEW s \in Text, NEW n \in Nat, n <= Len(s), NEW type, Tidy(s, n)
    PROVE  Tidy(pop_path(s, type, n), n)
<1> DEFINE rest == Drop(s, n)
           m == n + LastSlash(rest) + 1
<1>1. Len(s) \in Nat  BY TextFacts
<1>2. CASE pop_path(s, type, n) = s  BY <1>2
<1>3. CASE pop_path(s, type, n) # s
  <2>1. Len(s) > n /\ pop_path(s, type, n) = Take(s, m)
    BY <1>1, <1>3 DEF pop_path
  <2>2. /\ rest \in Text /\ Len(rest) = Len(s) - n
        /\ \A i \in 1..(Len(s) - n) : rest[i] = s[n + i]
    BY DropFacts
  <2>3. /\ LastSlash(rest) \in Int /\ -1 <= LastSlash(rest)
        /\ LastSlash(rest) < Len(rest) \/ LastSlash(rest) = -1
        /\ LastSlash(rest) # -1 => rest[LastSlash(rest) + 1] = "/"
    BY <2>2, LastSlashFacts
  <2> HIDE DEF rest
  <2>4. m \in Nat /\ n <= m /\ m <= Len(s)  BY <1>1, <2>1, <2>2, <2>3
  <2>5. m = n \/ s[m] = "/"
    <3> SUFFICES ASSUME m # n PROVE s[m] = "/"  OBVIOUS
    <3> DEFINE k == LastSlash(rest) + 1
    <3>1. k \in 1..(Len(s) - n) /\ m = n + k  BY <1>1, <2>2, <2>3
    <3>2. rest[k] = "/"  BY <2>3
    <3> HIDE DEF k, m
    <3> QED  BY <2>2, <3>1, <3>2
  <2> HIDE DEF m
  <2>6. Tidy(Take(s, m), n)  BY <2>4, <2>5, TidyTake
  <2> QED  BY <2>1, <2>6
<1> QED  BY <1>2, <1>3

\* What ".." leaves.
LEMMA TidyUp ==
    ASSUME NEW s \in Text, NEW n \in Nat, n <= Len(s), NEW type, Tidy(s, n)
    PROVE  LET front == IF EndsWith(s, "/") /\ last_slash_can_be_removed(s, n)
                        THEN Front(s) ELSE s
           IN  Tidy(shorten_path(front, type, n), n)
<1> DEFINE front == IF EndsWith(s, "/") /\ last_slash_can_be_removed(s, n)
                    THEN Front(s) ELSE s
           m == Len(s) - 1
<1>1. front \in Text /\ n <= Len(front) /\ Tidy(front, n)
  <2>1. CASE EndsWith(s, "/") /\ last_slash_can_be_removed(s, n)
    <3>1. Len(s) \in Nat /\ Len(s) > 0 /\ s[Len(s)] = "/"
      BY <2>1, TextFacts DEF EndsWith
    <3>2. Front(s) = Take(s, m) /\ front = Front(s)  BY <2>1 DEF Front, Take
    <3>3. Continues(Front(s), s, n)  BY <2>1, WithoutLastSlash
    <3>4. Front(s) \in Text /\ n <= Len(Front(s))
      BY <3>3 DEF Continues, StartsAs
    <3>5. m \in Nat /\ m <= Len(s) /\ m + 1 = Len(s)  BY <3>1
    <3>6. Len(Take(s, m)) = m  BY <3>5, TakeFacts
    <3>7. n <= m  BY <3>2, <3>4, <3>6
    <3> HIDE DEF m
    <3>8. Tidy(Take(s, m), n)  BY <3>1, <3>5, <3>7, TidyTake
    <3> QED  BY <3>2, <3>4, <3>8
  <2>2. CASE ~(EndsWith(s, "/") /\ last_slash_can_be_removed(s, n))
    BY <2>2
  <2> QED  BY <2>1, <2>2
<1> HIDE DEF front
<1>2. Tidy(shorten_path(front, type, n), n)
  BY <1>1, TidyPop DEF shorten_path
<1> QED  BY <1>2 DEF front

\* Closing a segment with a slash.
LEMMA TidyWithSlash ==
    ASSUME NEW s \in Text, NEW n \in Nat, n <= Len(s), Tidy(s, n)
    PROVE  Tidy(WithSlash(s), n) /\ Ready(WithSlash(s), n)
<1>1. CASE EndsWith(s, "/")
  <2>1. WithSlash(s) = s /\ s[Len(s)] = "/"  BY <1>1 DEF WithSlash, EndsWith
  <2> QED  BY <2>1 DEF Ready, Dot
<1>2. CASE ~EndsWith(s, "/")
  <2>1. WithSlash(s) = Append(s, "/")  BY <1>2 DEF WithSlash
  <2>2. Append(s, "/") = s \o <<"/">>
    BY MarksApart, AppendIsConcat DEF Mark, Text
  <2> QED  BY <2>1, <2>2, TidySlash
<1> QED  BY <1>1, <1>2

\* One segment: what it leaves has no dot segment.
LEMMA TidyPush ==
    ASSUME NEW st \in PathStates, NEW segment \in Text, NoByte(segment, "/"),
           NEW closed \in BOOLEAN, NEW type, NEW n \in Nat, n <= Len(st.s),
           Tidy(st.s, n), Ready(st.s, n)
    PROVE  LET p == PushSegment(st, segment, closed, type, n)
           IN  Tidy(p.s, n) /\ (closed => Ready(p.s, n))
<1> DEFINE s == st.s
           slash == IF closed THEN <<"/">> ELSE <<>>
           front == IF EndsWith(s, "/") /\ last_slash_can_be_removed(s, n)
                    THEN Front(s) ELSE s
           up == shorten_path(front, type, n)
           p == PushSegment(st, segment, closed, type, n)
<1>1. s \in Text /\ st.has_host \in BOOLEAN  BY DEF PathStates
<1>2. Tidy(up, n)  BY <1>1, TidyUp
<1>3. up \in Text /\ n <= Len(up)
  <2>1. Continues(front, s, n)  BY <1>1, WithoutLastSlash, SameContinues
  <2>2. front \in Text /\ n <= Len(front)  BY <2>1 DEF Continues, StartsAs
  <2> HIDE DEF front
  <2>3. Continues(up, front, n)  BY <2>2, ShortenContinues
  <2> QED  BY <2>3 DEF Continues, StartsAs
<1>4. \A x : [st EXCEPT !.s = x].s = x
  BY DEF PathStates
<1>5. \A t \in Text : Tidy(s \o t, n) /\ n <= Len(s \o t) /\ s \o t \in Text
        => Tidy(s \o t \o slash, n) /\ (closed => Ready(s \o t \o slash, n))
  <2> SUFFICES ASSUME NEW t \in Text, Tidy(s \o t, n), n <= Len(s \o t),
                      s \o t \in Text
               PROVE  /\ Tidy(s \o t \o slash, n)
                      /\ closed => Ready(s \o t \o slash, n)
    OBVIOUS
  <2> DEFINE r == s \o t
  <2> HIDE DEF r, s
  <2>1. CASE closed
    <3>1. Tidy(r \o <<"/">>, n) /\ Ready(r \o <<"/">>, n)
      BY TidySlash DEF r
    <3> QED  BY <2>1, <3>1 DEF r
  <2>2. CASE ~closed
    <3>1. r \o <<>> = r  BY ConcatEmptySeq DEF r, Text
    <3> QED  BY <2>2, <3>1 DEF r
  <2> QED  BY <2>1, <2>2
<1> HIDE DEF front, up, slash, s
<1>6. CASE IsDoubleDot(segment)
  <2>1. p = [st EXCEPT !.s = IF closed THEN WithSlash(up) ELSE up]
    BY <1>6 DEF PushSegment, up, front, s, IsDoubleDot, IsSingleDot, Dot,
                is_windows_drive_letter
  <2>2. p.s = IF closed THEN WithSlash(up) ELSE up  BY <1>4, <2>1
  <2> QED  BY <1>2, <1>3, <2>2, TidyWithSlash
<1>7. CASE ~IsDoubleDot(segment) /\ IsSingleDot(segment)
  <2>1. p = [st EXCEPT !.s = WithSlash(s)]
    BY <1>7 DEF PushSegment, s, IsDoubleDot, IsSingleDot, Dot,
                is_windows_drive_letter
  <2>2. p.s = WithSlash(s)  BY <1>4, <2>1
  <2> QED  BY <1>1, <2>2, TidyWithSlash DEF s
<1>8. CASE /\ ~IsDoubleDot(segment) /\ ~IsSingleDot(segment)
           /\ type = "File" /\ Len(s) = n + 1
           /\ is_windows_drive_letter(segment)
  <2> DEFINE drive == <<segment[1], ":">>
  <2>1. drive \in Text
    <3>1. Len(segment) = 2  BY <1>8 DEF is_windows_drive_letter
    <3>2. segment[1] \in Lexeme
      <4>1. 1 \in 1..Len(segment)  BY <3>1
      <4> QED  BY <4>1, TextFacts
    <3>3. ":" \in Lexeme  BY MarksApart DEF Mark
    <3> QED  BY <3>2, <3>3 DEF Text
  <2>2. NoByte(drive, "/") /\ ~IsSingleDot(drive) /\ ~IsDoubleDot(drive)
    <3>1. Len(segment) = 2  BY <1>8 DEF is_windows_drive_letter
    <3>2. segment[1] # "/"  BY <3>1 DEF NoByte
    <3>3. Len(drive) = 2 /\ drive[1] = segment[1] /\ drive[2] = ":"  OBVIOUS
    <3> QED  BY <3>2, <3>3 DEF NoByte, IsSingleDot, IsDoubleDot, Dot
  <2>3. p.s = s \o drive \o slash
    BY <1>1, <1>8 DEF PushSegment, s, slash
  <2> HIDE DEF drive, p
  <2>4. Tidy(s \o drive, n)  BY <1>1, <2>1, <2>2, TidyConcat DEF s
  <2>5. Continues(s \o drive, s, n)  BY <1>1, <2>1, ConcatContinues DEF s
  <2>6. s \o drive \in Text /\ n <= Len(s \o drive)
    BY <2>5 DEF Continues, StartsAs
  <2> QED  BY <1>5, <2>1, <2>3, <2>4, <2>6 DEF p
<1>9. CASE /\ ~IsDoubleDot(segment) /\ ~IsSingleDot(segment)
           /\ ~(/\ type = "File" /\ Len(s) = n + 1
                /\ is_windows_drive_letter(segment))
  <2>1. p = [st EXCEPT !.s = s \o segment \o slash]
    BY <1>9 DEF PushSegment, s, slash
  <2>2. p.s = s \o segment \o slash  BY <1>4, <2>1
  <2> HIDE DEF p
  <2>3. Tidy(s \o segment, n)  BY <1>1, <1>9, TidyConcat DEF s
  <2>4. Continues(s \o segment, s, n)  BY <1>1, ConcatContinues DEF s
  <2>5. s \o segment \in Text /\ n <= Len(s \o segment)
    BY <2>4 DEF Continues, StartsAs
  <2> QED  BY <1>5, <2>2, <2>3, <2>5 DEF p
<1> QED  BY <1>6, <1>7, <1>8, <1>9

\* A file path that loses all but one of its leading slashes.
LEMMA TidyFile ==
    ASSUME NEW s \in Text, NEW n \in Nat, n <= Len(s), RootedAt(s, n), Tidy(s, n)
    PROVE  Tidy(FilePath(s, n), n)
<1> DEFINE path == Drop(s, n)
           other == {i \in 1..Len(path) : path[i] # "/"}
           front == Take(s, n)
           slash == <<"/">>
           head == front \o slash
           k == Min(other)
           tail == Drop(path, k - 1)
<1>1. /\ path \in Text /\ Len(path) = Len(s) - n
      /\ \A i \in 1..(Len(s) - n) : path[i] = s[n + i]
      /\ Len(s) \in Nat
  BY DropFacts, TextFacts
<1>2. front \in Text /\ Len(front) = n
  BY TakeFacts
<1>3. slash \in Text /\ Len(slash) = 1 /\ slash[1] = "/"
  BY OneLexeme, MarksApart DEF Mark
<1>4. path[1] = "/" /\ Len(path) >= 1
  <2>1. 1 \in 1..(Len(s) - n) /\ s[n + 1] = "/"  BY <1>1 DEF RootedAt
  <2> HIDE DEF path
  <2> QED  BY <1>1, <2>1
<1>5. FilePath(s, n) = head \o (IF other = {} THEN <<>> ELSE tail)
  BY DEF FilePath
<1> HIDE DEF path, front, slash
<1>6. head \in Text /\ Len(head) = n + 1 /\ head[n + 1] = "/"
  <2>1. /\ head \in Text /\ Len(head) = n + Len(slash)
        /\ \A i \in 1..Len(slash) : head[n + i] = slash[i]
    BY <1>2, <1>3, ConcatFacts
  <2>2. 1 \in 1..Len(slash)  BY <1>3
  <2> HIDE DEF head
  <2> QED  BY <1>3, <2>1, <2>2
<1>7. CASE other = {}
  <2>1. FilePath(s, n) = head
    <3> HIDE DEF head, other
    <3> QED  BY <1>5, <1>6, <1>7, ConcatEmptySeq DEF Text
  <2> HIDE DEF head
  <2>2. ~\E i \in (n + 1)..Len(head) : DotsBehind(head, i)
    BY <1>6 DEF DotsBehind
  <2> QED  BY <2>1, <2>2 DEF Tidy
<1>8. CASE other # {}
  <2>1. k \in other /\ \A i \in other : k <= i
    <3>1. other \subseteq Nat  OBVIOUS
    <3> HIDE DEF other
    <3> QED  BY <1>8, <3>1, MinFacts
  <2> HIDE DEF k
  <2>2. k \in Nat /\ 2 <= k /\ k <= Len(path)
    BY <1>1, <1>4, <2>1
  <2>3. path[k - 1] = "/"
    <3>1. k - 1 \in 1..Len(path) /\ ~(k <= k - 1)  BY <1>1, <2>2
    <3> QED  BY <2>1, <3>1
  <2> DEFINE r == head \o tail
             c == k - 2
  <2>4. /\ tail \in Text /\ Len(tail) = Len(path) - (k - 1)
        /\ \A i \in 1..(Len(path) - (k - 1)) : tail[i] = path[(k - 1) + i]
    <3>1. k - 1 \in Nat /\ k - 1 <= Len(path)  BY <1>1, <2>2
    <3> DEFINE e == k - 1
    <3> HIDE DEF e
    <3>2. /\ Drop(path, e) \in Text /\ Len(Drop(path, e)) = Len(path) - e
          /\ \A i \in 1..(Len(path) - e) : Drop(path, e)[i] = path[e + i]
      BY <1>1, <3>1, DropFacts DEF e
    <3> QED  BY <3>2 DEF e
  <2> HIDE DEF tail, head
  <2>5. /\ r \in Text /\ Len(r) = n + 1 + Len(tail)
        /\ r[n + 1] = "/"
        /\ \A i \in 1..Len(tail) : r[(n + 1) + i] = tail[i]
    <3>1. n + 1 \in 1..Len(head)  BY <1>6
    <3>2. /\ r \in Text /\ Len(r) = Len(head) + Len(tail)
          /\ \A i \in 1..Len(head) : r[i] = head[i]
          /\ \A i \in 1..Len(tail) : r[Len(head) + i] = tail[i]
      BY <1>6, <2>4, ConcatFacts
    <3> HIDE DEF r
    <3> QED  BY <1>6, <3>1, <3>2
  <2> HIDE DEF r
  <2>6. c \in Nat /\ Len(s) = Len(r) + c  BY <1>1, <2>2, <2>4, <2>5
  <2>7. \A i \in (n + 1)..Len(r) : r[i] = s[i + c]
    <3> TAKE i \in (n + 1)..Len(r)
    <3>1. CASE i = n + 1
      <4>1. k - 1 \in 1..(Len(s) - n) /\ n + (k - 1) = i + c
        BY <1>1, <2>2, <3>1
      <4>2. path[k - 1] = s[n + (k - 1)]  BY <1>1, <4>1
      <4> QED  BY <2>3, <2>5, <3>1, <4>1, <4>2
    <3>2. CASE i # n + 1
      <4> DEFINE j == i - (n + 1)
                 l == (k - 1) + j
      <4>1. /\ j \in 1..Len(tail) /\ (n + 1) + j = i
            /\ j \in 1..(Len(path) - (k - 1))
            /\ l \in 1..(Len(s) - n) /\ n + l = i + c
        BY <1>1, <2>2, <2>4, <2>5, <3>2
      <4>2. tail[j] = path[l]  BY <2>4, <4>1
      <4> HIDE DEF j, l
      <4>3. r[i] = tail[j]  BY <2>5, <4>1
      <4>4. path[l] = s[n + l]  BY <1>1, <4>1
      <4> QED  BY <4>1, <4>2, <4>3, <4>4
    <3> QED  BY <3>1, <3>2
  <2> HIDE DEF c
  <2>8. ASSUME NEW i \in (n + 1)..Len(r), r[i] = "/", DotsBehind(r, i)
        PROVE  FALSE
    <3> DEFINE j == i + c
    <3>0. Len(r) \in Nat  BY <2>5, TextFacts
    <3>1. j \in (n + 1)..Len(s) /\ s[j] = "/"  BY <2>6, <2>7, <2>8, <3>0
    <3>2. /\ i + 1 <= Len(r) => r[i + 1] = s[j + 1]
          /\ i + 2 <= Len(r) => r[i + 2] = s[j + 2]
          /\ i + 3 <= Len(r) => r[i + 3] = s[j + 3]
      <4>1. \A d \in 1..3 : i + d <= Len(r) =>
               i + d \in (n + 1)..Len(r) /\ (i + d) + c = j + d
        BY <2>6, <2>8, <3>0
      <4>2. \A d \in 1..3 : i + d <= Len(r) => r[i + d] = s[j + d]
        BY <2>7, <4>1
      <4> HIDE DEF j
      <4> QED  BY <4>2
    <3>3. /\ i + 1 <= Len(r) <=> j + 1 <= Len(s)
          /\ i + 2 <= Len(r) <=> j + 2 <= Len(s)
          /\ i + 1 = Len(r) <=> j + 1 = Len(s)
          /\ i + 2 = Len(r) <=> j + 2 = Len(s)
          /\ i + 1 <= Len(r) => i + 1 = Len(r) \/ i + 2 <= Len(r)
          /\ i + 2 <= Len(r) => i + 2 = Len(r) \/ i + 3 <= Len(r)
      BY <2>6, <2>8, <3>0
    <3> HIDE DEF j
    <3>4. DotsBehind(s, j)  BY <2>8, <3>2, <3>3 DEF DotsBehind
    <3> QED  BY <3>1, <3>4 DEF Tidy
  <2>9. Tidy(r, n)  BY <2>8 DEF Tidy
  <2> QED  BY <1>5, <1>8, <2>9 DEF r
<1> QED  BY <1>7, <1>8

(****************************************************************************)
(* The loop of parse_path over the segments of a text.                      *)
(****************************************************************************)
\* Of a set of places in a text, one is the k-th.
LEMMA KthPlace ==
    ASSUME NEW n \in Nat, NEW cuts, cuts \subseteq 1..n
    PROVE  /\ Cardinality(cuts) \in Nat
           /\ \A k \in 1..Cardinality(cuts) :
                 \E i \in cuts : Cardinality({j \in cuts : j <= i}) = k
           /\ 1 \in cuts =>
                 /\ Cardinality(cuts) >= 1
                 /\ Cardinality({j \in cuts : j <= 1}) = 1
                 /\ \A i \in cuts : Cardinality({j \in cuts : j <= i}) = 1 => i = 1
<1> DEFINE U(i) == {j \in cuts : j <= i}
           C(i) == Cardinality(U(i))
<1>1. IsFiniteSet(1..n)  BY FS_Interval
<1>2. IsFiniteSet(cuts) /\ Cardinality(cuts) \in Nat
  BY <1>1, FS_Subset, FS_CardinalityType
<1>3. \A i : IsFiniteSet(U(i)) /\ C(i) \in Nat
  <2> TAKE i
  <2>1. U(i) \in SUBSET cuts  OBVIOUS
  <2> HIDE DEF U
  <2> QED  BY <1>2, <2>1, FS_Subset, FS_CardinalityType
<1>1a. \A x \in cuts : x \in Nat /\ 1 <= x /\ x <= n  OBVIOUS
<1>1b. \A i, x : x \in U(i) <=> x \in cuts /\ x <= i  OBVIOUS
<1>4. U(n) = cuts /\ U(0) = {}
  <2>1. \A x \in cuts : x <= n /\ ~(x <= 0)  BY <1>1a
  <2> HIDE DEF U
  <2> QED  BY <1>1b, <2>1
<1>5. \A i \in 1..n : IF i \in cuts THEN C(i) = C(i - 1) + 1 ELSE C(i) = C(i - 1)
  <2> TAKE i \in 1..n
  <2>1. CASE i \in cuts
    <3>1. U(i) = U(i - 1) \union {i} /\ i \notin U(i - 1)
      <4>1. \A x \in cuts : x <= i <=> x <= i - 1 \/ x = i  BY <1>1a
      <4>2. ~(i <= i - 1)  OBVIOUS
      <4> HIDE DEF U
      <4> QED  BY <1>1b, <2>1, <4>1, <4>2
    <3>2. IsFiniteSet(U(i - 1))  BY <1>3
    <3> HIDE DEF U
    <3>3. C(i) = C(i - 1) + 1  BY <3>1, <3>2, FS_AddElement
    <3> QED  BY <2>1, <3>3
  <2>2. CASE i \notin cuts
    <3>1. U(i) = U(i - 1)
      <4>1. \A x \in cuts : x <= i <=> x <= i - 1  BY <1>1a, <2>2
      <4>2. \A x : x \in U(i) <=> x \in U(i - 1)  BY <1>1b, <4>1
      <4> HIDE DEF U
      <4>3. U(i) \subseteq cuts /\ U(i - 1) \subseteq cuts  BY <1>1b
      <4> QED  BY <4>2, <4>3, Zenon
    <3> HIDE DEF U
    <3> QED  BY <2>2, <3>1
  <2> QED  BY <2>1, <2>2
<1>6. C(0) = 0 /\ C(n) = Cardinality(cuts)
  <2> HIDE DEF U
  <2> QED  BY <1>4, FS_EmptySet
<1>7. \A k \in 1..Cardinality(cuts) : \E i \in cuts : C(i) = k
  <2> SUFFICES ASSUME NEW k \in 1..Cardinality(cuts)
               PROVE  \E i \in cuts : C(i) = k
    OBVIOUS
  <2> DEFINE T == {i \in 0..n : C(i) >= k}
  <2> HIDE DEF C
  <2>1. T \subseteq Nat /\ n \in T  BY <1>2, <1>6
  <2>2. PICK m \in T : \A i \in T : m <= i  BY <2>1, LeastNumber
  <2>3. m \in 1..n  BY <1>6, <2>1, <2>2
  <2>4. m - 1 \notin T /\ m - 1 \in 0..n  BY <2>2, <2>3
  <2>5. C(m) \in Nat /\ C(m - 1) \in Nat  BY <1>3
  <2>6. ~(C(m - 1) >= k) /\ C(m) >= k  BY <2>2, <2>4
  <2>7. m \in cuts /\ C(m) = C(m - 1) + 1  BY <1>5, <2>3, <2>6
  <2>8. C(m) = k  BY <2>5, <2>6, <2>7
  <2> QED  BY <2>7, <2>8
<1>8. ASSUME 1 \in cuts
      PROVE  /\ Cardinality(cuts) >= 1 /\ C(1) = 1
             /\ \A i \in cuts : C(i) = 1 => i = 1
  <2>1. n >= 1  BY <1>8
  <2>2. U(1) = {1}
    <3>1. \A x \in cuts : x <= 1 <=> x = 1  BY <1>1a
    <3> HIDE DEF U
    <3> QED  BY <1>1b, <1>8, <3>1
  <2>3. C(1) = 1
    <3> HIDE DEF U
    <3> QED  BY <2>2, FS_Singleton
  <2>4. ASSUME NEW i \in cuts, C(i) = 1 PROVE i = 1
    <3>1. 1 \in U(i) /\ i \in U(i)  BY <1>8
    <3> HIDE DEF U
    <3>2. PICK x : U(i) = {x}  BY <1>3, <2>4, FS_Singleton
    <3> QED  BY <3>1, <3>2
  <2>5. cuts # {}  BY <1>8
  <2>6. Cardinality(cuts) # 0  BY <1>2, <2>5, FS_EmptySet
  <2> QED  BY <1>2, <2>3, <2>4, <2>6
<1> QED  BY <1>2, <1>7, <1>8

\* Places in a text are counted in their order.
LEMMA PlacesCounted ==
    ASSUME NEW n \in Nat, NEW cuts, cuts \subseteq 1..n
    PROVE  LET C(i) == Cardinality({j \in cuts : j <= i})
           IN  \A i \in cuts :
                  /\ C(i) \in Nat /\ 1 <= C(i) /\ C(i) <= Cardinality(cuts)
                  /\ \A j \in cuts : j < i => C(j) < C(i)
<1> DEFINE U(i) == {j \in cuts : j <= i}
           C(i) == Cardinality(U(i))
<1>1. IsFiniteSet(1..n)  BY FS_Interval
<1>2. IsFiniteSet(cuts) /\ Cardinality(cuts) \in Nat
  BY <1>1, FS_Subset, FS_CardinalityType
<1>3. \A i : IsFiniteSet(U(i)) /\ C(i) \in Nat /\ C(i) <= Cardinality(cuts)
  <2> TAKE i
  <2>1. U(i) \in SUBSET cuts  OBVIOUS
  <2> HIDE DEF U
  <2> QED  BY <1>2, <2>1, FS_Subset, FS_CardinalityType
<1>4. \A x \in cuts : x \in Nat /\ x <= n  OBVIOUS
<1>5. \A i, x : x \in U(i) <=> x \in cuts /\ x <= i  OBVIOUS
<1> HIDE DEF U
<1>6. \A i \in cuts : 1 <= C(i)
  <2> TAKE i \in cuts
  <2>1. i \in U(i)  BY <1>4, <1>5
  <2>2. C(i) # 0  BY <1>3, <2>1, FS_EmptySet
  <2> QED  BY <1>3, <2>2
<1>7. ASSUME NEW i \in cuts, NEW j \in cuts, j < i PROVE C(j) < C(i)
  <2>1. U(j) \subseteq U(i) /\ i \in U(i) /\ i \notin U(j)
    <3>1. \A x \in cuts : x <= j => x <= i  BY <1>4, <1>7
    <3>2. i <= i /\ ~(i <= j)  BY <1>4, <1>7
    <3>3. \A x : x \in U(j) => x \in U(i)  BY <1>5, <3>1
    <3>4. i \in U(i) /\ i \notin U(j)  BY <1>5, <3>2
    <3> QED  BY <3>3, <3>4
  <2>2. /\ Cardinality(U(j)) <= Cardinality(U(i))
        /\ Cardinality(U(j)) = Cardinality(U(i)) => U(i) = U(j)
    BY <1>3, <2>1, FS_Subset
  <2> QED  BY <1>3, <2>1, <2>2
<1> QED  BY <1>3, <1>6, <1>7 DEF U

\* A text is cut into segments, at least one; one that starts with a separator
\* into an empty first one and others, the empty one into itself.
LEMMA SegmentFacts ==
    ASSUME NEW s \in Text, NEW separators
    PROVE  LET g == Segments(s, separators)
           IN  /\ Len(g) \in Nat /\ Len(g) >= 1
               /\ \A k \in 1..Len(g) : g[k].text \in Text /\ g[k].closed \in BOOLEAN
               /\ FirstIn(s, separators) => g[1].text = <<>> /\ g[1].closed
               /\ s = <<>> => Len(g) = 1 /\ g[1].text = <<>> /\ ~g[1].closed
<1> DEFINE cuts == {i \in 1..Len(s) : s[i] \in separators}
           count == Cardinality(cuts)
           cut(k) == CHOOSE i \in cuts : Cardinality({j \in cuts : j <= i}) = k
           from(k) == IF k = 1 THEN 1 ELSE cut(k - 1) + 1
           to(k) == IF k > count THEN Len(s) ELSE cut(k) - 1
           g == Segments(s, separators)
<1>1. Len(s) \in Nat /\ \A i \in 1..Len(s) : s[i] \in Lexeme  BY TextFacts
<1>2. cuts \subseteq 1..Len(s)  OBVIOUS
<1>3. /\ count \in Nat
      /\ \A k \in 1..count :
            \E i \in cuts : Cardinality({j \in cuts : j <= i}) = k
      /\ 1 \in cuts =>
            /\ count >= 1
            /\ Cardinality({j \in cuts : j <= 1}) = 1
            /\ \A i \in cuts : Cardinality({j \in cuts : j <= i}) = 1 => i = 1
  <2> HIDE DEF cuts
  <2> QED  BY <1>1, <1>2, KthPlace
<1>4. g = [k \in 1..(count + 1) |->
              [text |-> SubSeq(s, from(k), to(k)), closed |-> k <= count]]
  BY DEF Segments
<1>5. \A k \in 1..count : cut(k) \in cuts
  <2> HIDE DEF cuts, count
  <2> QED  BY <1>3
<1>6. 1 \in cuts => cut(1) = 1 /\ count >= 1
  <2> SUFFICES ASSUME 1 \in cuts PROVE cut(1) = 1  BY <1>3
  <2> HIDE DEF cuts, count
  <2> QED  BY <1>3
<1> HIDE DEF g, cut, count
<1>7. \A k \in 1..count : cut(k) \in Int /\ 1 <= cut(k) /\ cut(k) <= Len(s)
  BY <1>1, <1>5
<1>8. \A k \in 1..(count + 1) :
         /\ from(k) \in Int /\ 1 <= from(k)
         /\ to(k) \in Int /\ to(k) <= Len(s)
  <2> TAKE k \in 1..(count + 1)
  <2>1. k # 1 => k - 1 \in 1..count  BY <1>3
  <2>2. ~(k > count) => k \in 1..count  BY <1>3
  <2> QED  BY <1>1, <1>7, <2>1, <2>2
<1>9. Len(g) = count + 1 /\ DOMAIN g = 1..(count + 1)
  BY <1>3, <1>4
<1>10. \A k \in 1..(count + 1) : SubSeq(s, from(k), to(k)) \in Text
  <2> TAKE k \in 1..(count + 1)
  <2> HIDE DEF from, to
  <2>1. \A i \in from(k)..to(k) : s[i] \in Lexeme  BY <1>1, <1>8
  <2> QED  BY <1>8, <2>1, SubSeqProperties DEF Text
<1>11. \A k \in 1..(count + 1) : /\ g[k].text = SubSeq(s, from(k), to(k))
                                 /\ g[k].closed \in BOOLEAN
                                 /\ g[k].closed <=> k <= count
  <2> SUFFICES ASSUME NEW k \in 1..(count + 1)
               PROVE  /\ g[k].text = SubSeq(s, from(k), to(k))
                      /\ g[k].closed \in BOOLEAN
                      /\ g[k].closed <=> k <= count
    OBVIOUS
  <2> HIDE DEF from, to
  <2> DEFINE flag == k <= count
             part == SubSeq(s, from(k), to(k))
  <2>1. flag \in BOOLEAN  OBVIOUS
  <2>2. g[k] = [text |-> part, closed |-> flag]  BY <1>4
  <2>3. flag <=> k <= count  OBVIOUS
  <2> HIDE DEF flag, part
  <2>4. g[k].text = part /\ g[k].closed = flag  BY <2>2
  <2> QED  BY <2>1, <2>3, <2>4 DEF part
<1>12. 1 \in 1..(count + 1)  BY <1>3
<1>13. ASSUME FirstIn(s, separators)
       PROVE  g[1].text = <<>> /\ g[1].closed
  <2>1. 1 \in cuts  BY <1>1, <1>13, FirstFacts
  <2>2. from(1) = 1 /\ to(1) = 0 /\ 1 <= count  BY <1>3, <1>6, <2>1
  <2> HIDE DEF from, to
  <2> QED  BY <1>11, <1>12, <2>2, SubSeqEmpty
<1>14. ASSUME s = <<>>
       PROVE  Len(g) = 1 /\ g[1].text = <<>> /\ ~g[1].closed
  <2>1. Len(s) = 0 /\ cuts = {}  BY <1>14
  <2>2. count = 0  BY <2>1, FS_EmptySet DEF count
  <2>3. from(1) = 1 /\ to(1) = 0  BY <2>1, <2>2
  <2> HIDE DEF from, to, cuts
  <2> QED  BY <1>9, <1>11, <1>12, <2>2, <2>3, SubSeqEmpty
<1> HIDE DEF from, to, cuts
<1>15. \A k \in 1..Len(g) : g[k].text \in Text /\ g[k].closed \in BOOLEAN
  BY <1>9, <1>10, <1>11
<1>16. Len(g) \in Nat /\ Len(g) >= 1  BY <1>3, <1>9
<1> QED  BY <1>13, <1>14, <1>15, <1>16 DEF g

\* Each segment of a text but the last is closed, and no segment contains what
\* segments are cut at.
LEMMA SegmentsUncut ==
    ASSUME NEW s \in Text, NEW separators
    PROVE  LET g == Segments(s, separators)
           IN  \A k \in 1..Len(g) :
                  /\ k < Len(g) <=> g[k].closed
                  /\ \A i \in 1..Len(g[k].text) : g[k].text[i] \notin separators
<1> DEFINE cuts == {i \in 1..Len(s) : s[i] \in separators}
           count == Cardinality(cuts)
           C(i) == Cardinality({j \in cuts : j <= i})
           cut(k) == CHOOSE i \in cuts : Cardinality({j \in cuts : j <= i}) = k
           from(k) == IF k = 1 THEN 1 ELSE cut(k - 1) + 1
           to(k) == IF k > count THEN Len(s) ELSE cut(k) - 1
           g == Segments(s, separators)
<1>1. Len(s) \in Nat /\ \A i \in 1..Len(s) : s[i] \in Lexeme  BY TextFacts
<1>2. cuts \subseteq 1..Len(s)  OBVIOUS
<1>3. /\ count \in Nat
      /\ \A k \in 1..count :
            \E i \in cuts : Cardinality({j \in cuts : j <= i}) = k
  <2> HIDE DEF cuts
  <2> QED  BY <1>1, <1>2, KthPlace
<1>4. \A i \in cuts : /\ C(i) \in Nat /\ 1 <= C(i) /\ C(i) <= count
                      /\ \A j \in cuts : j < i => C(j) < C(i)
  <2> HIDE DEF cuts
  <2> QED  BY <1>1, <1>2, PlacesCounted
<1>5. g = [k \in 1..(count + 1) |->
              [text |-> SubSeq(s, from(k), to(k)), closed |-> k <= count]]
  BY DEF Segments
<1>6. \A k \in 1..count : cut(k) \in cuts /\ C(cut(k)) = k
  <2> HIDE DEF cuts, count
  <2> QED  BY <1>3
<1> HIDE DEF g, cut, count, C
<1>7. \A k \in 1..count : cut(k) \in Int /\ 1 <= cut(k) /\ cut(k) <= Len(s)
  BY <1>1, <1>6
<1>8. Len(g) = count + 1 /\ DOMAIN g = 1..(count + 1)
  BY <1>3, <1>5
<1> SUFFICES ASSUME NEW k \in 1..(count + 1)
             PROVE  /\ k < Len(g) <=> g[k].closed
                    /\ \A i \in 1..Len(g[k].text) : g[k].text[i] \notin separators
  BY <1>8 DEF g
<1>9. /\ from(k) \in Int /\ 1 <= from(k)
      /\ to(k) \in Int /\ to(k) <= Len(s)
  <2>1. k # 1 => k - 1 \in 1..count  BY <1>3
  <2>2. ~(k > count) => k \in 1..count  BY <1>3
  <2> QED  BY <1>1, <1>7, <2>1, <2>2
<1>10. \A i \in from(k)..to(k) : i \notin cuts
  <2> SUFFICES ASSUME NEW i \in from(k)..to(k), i \in cuts PROVE FALSE
    OBVIOUS
  <2>1. C(i) >= k
    <3>1. CASE k = 1  BY <1>4, <3>1
    <3>2. CASE k # 1
      <4>1. k - 1 \in 1..count /\ from(k) = cut(k - 1) + 1  BY <1>3, <3>2
      <4>2. cut(k - 1) \in cuts /\ C(cut(k - 1)) = k - 1 /\ cut(k - 1) < i
        BY <1>6, <1>7, <1>9, <4>1
      <4> HIDE DEF cuts
      <4>3. k - 1 < C(i)  BY <1>4, <4>2
      <4> QED  BY <1>3, <1>4, <4>3
    <3> QED  BY <3>1, <3>2
  <2>2. k <= count
    <3> HIDE DEF cuts
    <3> QED  BY <1>3, <1>4, <2>1
  <2>3. k \in 1..count /\ to(k) = cut(k) - 1  BY <1>3, <2>2
  <2>4. cut(k) \in cuts /\ C(cut(k)) = k /\ i < cut(k)
    BY <1>6, <1>7, <1>9, <2>3
  <2> HIDE DEF cuts
  <2>5. C(i) < k  BY <1>4, <2>4
  <2> QED  BY <1>4, <2>1, <2>5
<1>11. g[k].text = SubSeq(s, from(k), to(k)) /\ (k <= count <=> g[k].closed)
  <2> HIDE DEF from, to
  <2> DEFINE flag == k <= count
             part == SubSeq(s, from(k), to(k))
  <2>1. flag \in BOOLEAN  OBVIOUS
  <2>2. g[k] = [text |-> part, closed |-> flag]  BY <1>5
  <2>3. flag <=> k <= count  OBVIOUS
  <2> HIDE DEF flag, part
  <2>4. g[k].text = part /\ g[k].closed = flag  BY <2>2
  <2> QED  BY <2>1, <2>3, <2>4 DEF part
<1>12. k < Len(g) <=> g[k].closed  BY <1>3, <1>8, <1>11
<1> DEFINE a == from(k)
           b == to(k)
           part == SubSeq(s, a, b)
<1>13. \A i \in 1..Len(part) : part[i] \notin separators
  <2>1. a \in Int /\ 1 <= a /\ b \in Int /\ b <= Len(s)  BY <1>9
  <2>2. \A i \in a..b : s[i] \notin separators /\ s[i] \in Lexeme
    BY <1>1, <1>10, <2>1
  <2> HIDE DEF a, b
  <2>3. /\ Len(part) = IF a <= b THEN b - a + 1 ELSE 0
        /\ \A i \in 1..(b - a + 1) : part[i] = s[a + i - 1]
    BY <2>1, <2>2, SubSeqProperties
  <2>4. TAKE i \in 1..Len(part)
  <2>5. i \in 1..(b - a + 1) /\ a + i - 1 \in a..b  BY <2>1, <2>3
  <2> QED  BY <2>2, <2>3, <2>5
<1> QED  BY <1>11, <1>12, <1>13

\* The part of a loop over segments: what each of them is pushed onto.
Pushes(f, st, segments, set, type, n) ==
    f = [k \in 0..Len(segments) |->
            IF k = 0 THEN st
            ELSE PushSegment(f[k - 1], PercentEncode(segments[k].text, set),
                             segments[k].closed, type, n)]

\* The segments of a path, pushed one after another: there is one way to do
\* that, and nothing in front of the path is taken back.
LEMMA SegmentsPushed ==
    ASSUME NEW st \in PathStates, NEW n \in Nat, n <= Len(st.s), NEW type,
           NEW set \in SUBSET Escapable, NEW segments, Len(segments) \in Nat,
           \A k \in 1..Len(segments) : /\ segments[k].text \in Text
                                       /\ segments[k].closed \in BOOLEAN
    PROVE  LET g == CHOOSE f : Pushes(f, st, segments, set, type, n)
           IN  /\ Pushes(g, st, segments, set, type, n)
               /\ \A k \in 0..Len(segments) : /\ g[k] \in PathStates
                                              /\ Continues(g[k].s, st.s, n)
               /\ RootedAt(g[1].s, n) =>
                     \A k \in 1..Len(segments) : RootedAt(g[k].s, n)
<1> DEFINE m == Len(segments)
           V == {x \in PathStates : Continues(x.s, st.s, n)}
           next(k, r) == PushSegment(r, PercentEncode(segments[k].text, set),
                                     segments[k].closed, type, n)
           step == [x \in (1..m) \X V |-> next(x[1], x[2])]
           g == CHOOSE f : Pushes(f, st, segments, set, type, n)
<1>1. m \in Nat /\ st.s \in Text  BY DEF PathStates
<1>2. st \in V  BY <1>1, SameContinues
<1>3. \A k \in 1..m : \A r \in V : next(k, r) \in V
  <2> SUFFICES ASSUME NEW k \in 1..m, NEW r \in V PROVE next(k, r) \in V
    OBVIOUS
  <2>1. r \in PathStates /\ Continues(r.s, st.s, n) /\ n <= Len(r.s)
    BY DEF Continues, StartsAs
  <2> DEFINE segment == PercentEncode(segments[k].text, set)
  <2>2. segment \in Text /\ segments[k].closed \in BOOLEAN  BY EncodeFacts
  <2> HIDE DEF segment
  <2>3. /\ PushSegment(r, segment, segments[k].closed, type, n) \in PathStates
        /\ Continues(PushSegment(r, segment, segments[k].closed, type, n).s,
                     r.s, n)
    BY <2>1, <2>2, PushContinues
  <2>4. Continues(PushSegment(r, segment, segments[k].closed, type, n).s,
                  st.s, n)
    BY <2>1, <2>3, ContinuesOn
  <2> QED  BY <2>3, <2>4 DEF segment
<1>4. step \in [(1..m) \X V -> V]
  <2> HIDE DEF next, m, V
  <2> QED  BY <1>3
<1>5. PICK f \in [0..m -> V] : Iterates(f, m, st, step)
  <2> HIDE DEF step, m, V
  <2> QED  BY <1>1, <1>2, <1>4, Recursion
<1>6. \A k \in 1..m : f[k] = next(k, f[k - 1])
  <2> TAKE k \in 1..m
  <2>1. k - 1 \in 0..m  BY <1>1
  <2>2. f[k - 1] \in V  BY <2>1
  <2>3. f[k] = step[<<k, f[k - 1]>>]  BY <1>5 DEF Iterates
  <2> HIDE DEF next, m, V
  <2> QED  BY <2>2, <2>3
<1>7. f = [k \in 0..m |-> IF k = 0 THEN st ELSE next(k, f[k - 1])]
  <2> HIDE DEF step, next, V
  <2>1. \A k \in 0..m : k # 0 => k \in 1..m  BY <1>1
  <2> HIDE DEF m
  <2> QED  BY <1>5, <1>6, <2>1 DEF Iterates
<1>8. Pushes(g, st, segments, set, type, n)
  <2>1. Pushes(f, st, segments, set, type, n)  BY <1>7 DEF Pushes
  <2> QED  BY <2>1
<1>9. g = [k \in 0..m |-> IF k = 0 THEN st ELSE next(k, g[k - 1])]
  <2> HIDE DEF g
  <2> QED  BY <1>8 DEF Pushes
<1> HIDE DEF g, step
<1>10. g[0] \in V
  <2> HIDE DEF next, m, V
  <2> QED  BY <1>1, <1>2, <1>9
<1>11. \A k \in 1..m : g[k - 1] \in V => g[k] \in V
  <2> SUFFICES ASSUME NEW k \in 1..m, g[k - 1] \in V PROVE g[k] \in V
    OBVIOUS
  <2>1. k \in 0..m /\ k # 0  BY <1>1
  <2> HIDE DEF next, m, V
  <2>2. g[k] = next(k, g[k - 1])  BY <1>9, <2>1
  <2> QED  BY <1>3, <2>2
<1>12. \A k \in 0..m : g[k] \in V
  <2> HIDE DEF next, m, V
  <2> QED  BY <1>1, <1>10, <1>11, RecursionKeeps
<1>13. ASSUME RootedAt(g[1].s, n) PROVE \A k \in 1..m : RootedAt(g[k].s, n)
  <2> DEFINE S == {k \in 0..m : k = 0 \/ RootedAt(g[k].s, n)}
  <2>1. 0 \in S  BY <1>1
  <2>2. \A k \in 1..m : k - 1 \in S => k \in S
    <3> SUFFICES ASSUME NEW k \in 1..m, k - 1 \in S PROVE k \in S
      OBVIOUS
    <3>1. k \in 0..m /\ k # 0 /\ (k = 1 \/ k - 1 # 0) /\ k - 1 \in 0..m
      BY <1>1
    <3>2. CASE k = 1  BY <1>13, <3>1, <3>2
    <3>3. CASE k - 1 # 0
      <4>1. RootedAt(g[k - 1].s, n)  BY <3>3
      <4> HIDE DEF S
      <4>2. g[k] = next(k, g[k - 1])
        <5> HIDE DEF next, m, V
        <5> QED  BY <1>9, <3>1
      <4>3. g[k - 1] \in V  BY <1>12, <3>1
      <4>4. g[k - 1] \in PathStates /\ n <= Len(g[k - 1].s)
        BY <4>3 DEF Continues, StartsAs
      <4> DEFINE segment == PercentEncode(segments[k].text, set)
                 r == g[k - 1]
      <4>5. segment \in Text /\ segments[k].closed \in BOOLEAN
        BY EncodeFacts
      <4> HIDE DEF segment, r
      <4>6. Continues(PushSegment(r, segment, segments[k].closed, type, n).s,
                      r.s, n)
        BY <4>4, <4>5, PushContinues DEF r
      <4>7. RootedAt(PushSegment(r, segment, segments[k].closed, type, n).s, n)
        BY <4>1, <4>6 DEF Continues, r
      <4> QED  BY <3>1, <4>2, <4>7 DEF S, segment, r
    <3> QED  BY <3>1, <3>2, <3>3
  <2> HIDE DEF S
  <2>3. 0..m \subseteq S  BY <1>1, <2>1, <2>2, UpTo
  <2> TAKE k \in 1..m
  <2>4. k \in 0..m /\ k # 0  BY <1>1
  <2> QED  BY <2>3, <2>4 DEF S
<1> QED  BY <1>8, <1>12, <1>13 DEF g

\* Pushing segments one after another onto what holds no dot segments leaves
\* none.
LEMMA TidyLoop ==
    ASSUME NEW st \in PathStates, NEW n \in Nat, n <= Len(st.s), NEW type,
           NEW set \in SUBSET Escapable, NEW segments, Len(segments) \in Nat,
           \A k \in 1..Len(segments) :
              /\ segments[k].text \in Text /\ NoByte(segments[k].text, "/")
              /\ segments[k].closed \in BOOLEAN
              /\ k < Len(segments) => segments[k].closed,
           Tidy(st.s, n), Ready(st.s, n), NEW g,
           Pushes(g, st, segments, set, type, n),
           \A k \in 0..Len(segments) : /\ g[k] \in PathStates
                                       /\ Continues(g[k].s, st.s, n)
    PROVE  Tidy(g[Len(segments)].s, n)
<1> DEFINE m == Len(segments)
           S == {k \in 0..m : Tidy(g[k].s, n) /\ (k < m => Ready(g[k].s, n))}
<1>1. g = [k \in 0..m |->
             IF k = 0 THEN st
             ELSE PushSegment(g[k - 1], PercentEncode(segments[k].text, set),
                              segments[k].closed, type, n)]
  BY DEF Pushes
<1>2. 0 \in S
  <2>1. g[0] = st  BY <1>1
  <2> QED  BY <2>1
<1>3. \A k \in 1..m : k - 1 \in S => k \in S
  <2> SUFFICES ASSUME NEW k \in 1..m, k - 1 \in S PROVE k \in S
    OBVIOUS
  <2> DEFINE x == g[k - 1]
             part == PercentEncode(segments[k].text, set)
             closed == segments[k].closed
             y == PushSegment(x, part, closed, type, n)
  <2>1. k \in 0..m /\ k # 0 /\ k - 1 \in 0..m /\ k - 1 < m  OBVIOUS
  <2>2. g[k] = y
    <3> HIDE DEF m
    <3> QED  BY <1>1, <2>1
  <2>3. x \in PathStates /\ n <= Len(x.s) /\ Tidy(x.s, n) /\ Ready(x.s, n)
    BY <2>1 DEF Continues, StartsAs
  <2>4. closed \in BOOLEAN /\ (k < m => closed)  OBVIOUS
  <2>5. part \in Text /\ NoByte(part, "/")
    <3> DEFINE t == segments[k].text
    <3>1. t \in Text /\ NoByte(t, "/")  OBVIOUS
    <3> HIDE DEF t
    <3>2. /\ PercentEncode(t, set) \in Text
          /\ Len(PercentEncode(t, set)) = Len(t)
          /\ \A i \in 1..Len(t) : \/ PercentEncode(t, set)[i] = t[i]
                                  \/ PercentEncode(t, set)[i] \in Escape
      BY <3>1, EncodeFacts
    <3>3. "/" \notin Escape  BY DEF Escape
    <3>4. NoByte(PercentEncode(t, set), "/")  BY <3>1, <3>2, <3>3 DEF NoByte
    <3> QED  BY <3>2, <3>4 DEF t
  <2> HIDE DEF x, part, closed
  <2>6. Tidy(y.s, n) /\ (closed => Ready(y.s, n))  BY <2>3, <2>4, <2>5, TidyPush
  <2> HIDE DEF y
  <2> QED  BY <2>1, <2>2, <2>4, <2>6
<1> HIDE DEF S
<1>4. 0..m \subseteq S  BY <1>2, <1>3, UpTo
<1>5. m \in S  BY <1>4
<1> QED  BY <1>5 DEF S

\* The loop of parse_path.
LEMMA PathLoop ==
    ASSUME NEW s, NEW type, NEW hasHost, NEW n, NEW input, NEW context
    PROVE  LET end == IF context = "UrlParser" THEN Find(input, {"?", "#"})
                                               ELSE Len(input)
               cut == IF context = "PathSegmentSetter" THEN {}
                      ELSE Separators(type)
               segments == Segments(Take(input, end), cut)
               g == CHOOSE f : Pushes(f, [s |-> s, has_host |-> hasHost], segments,
                                      PathEncodeSet(type, context), type, n)
           IN  ParsePath(s, type, hasHost, n, input, context)
               = ParsedPath(g[Len(segments)], type, n, Drop(input, end))
  BY DEF ParsePath, Pushes

\* "//" and more in front of a file path are one slash.
LEMMA FilePathRooted ==
    ASSUME NEW s \in Text, NEW n \in Nat, n <= Len(s)
    PROVE  StartsAs(FilePath(s, n), s, n) /\ RootedAt(FilePath(s, n), n)
<1> DEFINE path == Drop(s, n)
           other == {i \in 1..Len(path) : path[i] # "/"}
           front == Take(s, n)
           rest == IF other = {} THEN <<>> ELSE Drop(path, Min(other) - 1)
<1>1. path \in Text  BY DropFacts
<1>2. front \in Text /\ Len(front) = n /\ \A i \in 1..n : front[i] = s[i]
  BY TakeFacts
<1>3. rest \in Text
  <2>1. CASE other = {}  BY <2>1, EmptySeq DEF Text
  <2>2. CASE other # {}
    <3>1. Len(path) \in Nat  BY <1>1, TextFacts
    <3>2. other \subseteq Nat /\ \A i \in other : 1 <= i /\ i <= Len(path)
      BY <3>1
    <3> DEFINE k == Min(other)
    <3>3. k \in other
      <4> HIDE DEF other
      <4> QED  BY <2>2, <3>2, MinFacts
    <3> HIDE DEF k
    <3>4. k - 1 \in Nat /\ k - 1 <= Len(path)
      <4>1. k \in Nat /\ 1 <= k /\ k <= Len(path)  BY <3>2, <3>3
      <4> QED  BY <3>1, <4>1
    <3> HIDE DEF path
    <3>5. Drop(path, k - 1) \in Text  BY <1>1, <3>4, DropFacts
    <3> QED  BY <2>2, <3>5 DEF k, path
  <2> QED  BY <2>1, <2>2
<1> HIDE DEF rest, front
<1> DEFINE slash == <<"/">>
<1>4. slash \in Text /\ FirstIn(slash, {"/"})
  BY OneLexeme, MarksApart DEF Mark, FirstIn
<1> HIDE DEF slash
<1>5. front \o slash \in Text /\ Continues(front \o slash, front, n)
      /\ RootedAt(front \o slash, n)
  <2>1. front \o slash \in Text  BY <1>2, <1>4, ConcatFacts
  <2>2. n <= Len(front)  BY <1>2
  <2>3. /\ Continues(front \o slash, front, n)
        /\ FirstIn(slash, {"/"}) /\ Len(front) = n => RootedAt(front \o slash, n)
    BY <1>2, <1>4, <2>2, ConcatContinues
  <2> QED  BY <1>2, <1>4, <2>1, <2>3
<1>6. n <= Len(front \o slash)  BY <1>5 DEF Continues, StartsAs
<1>7. Continues(front \o slash \o rest, front \o slash, n)
  BY <1>3, <1>5, <1>6, ConcatContinues
<1>8. FilePath(s, n) = front \o slash \o rest
  BY DEF FilePath, front, slash, rest
<1>9. StartsAs(front \o slash \o rest, s, n)
  BY <1>2, <1>5, <1>7 DEF Continues, StartsAs
<1> QED  BY <1>5, <1>7, <1>8, <1>9 DEF Continues

\* Where a path ends and what cuts it into segments, by context.
PathEnds(context) == IF context = "UrlParser" THEN {"?", "#"} ELSE {}
PathCuts(type, context) == IF context = "PathSegmentSetter" THEN {}
                           ELSE Separators(type)

\* What parse_path does to the serialization s whose path starts at n, given
\* what it returns: s is kept up to n, a path keeps its first '/', and so does
\* a text that is read right behind n; no text is no path.  Dots are resolved.
PathRead(p, s, n, type, input, context) ==
    /\ p.has_host \in BOOLEAN /\ p.rest \in Text
    /\ p.rest # <<>> => FirstIn(p.rest, PathEnds(context))
    /\ Continues(p.s, s, n)
    /\ type = "File" => RootedAt(p.s, n)
    /\ n = Len(s) /\ FirstIn(input, PathCuts(type, context)) => RootedAt(p.s, n)
    /\ type # "File" /\ n = Len(s) /\ (input = <<>> \/ FirstIn(input, PathEnds(context)))
          => p.s = s
    /\ /\ context # "PathSegmentSetter"
       /\ Tidy(s, n) /\ Ready(s, n)
       /\ type = "File" => \/ RootedAt(s, n)
                           \/ n = Len(s) /\ FirstIn(input, PathCuts(type, context))
       => Tidy(p.s, n)

\* parse_path only appends behind offset n, and says what it read.
LEMMA ParsedPathReads ==
    ASSUME NEW s \in Text, NEW type, NEW hasHost \in BOOLEAN, NEW n \in Nat,
           n <= Len(s), NEW input \in Text, NEW context
    PROVE  PathRead(ParsePath(s, type, hasHost, n, input, context),
                    s, n, type, input, context)
<1> DEFINE ends == PathEnds(context)
           end == Find(input, ends)
           cut == PathCuts(type, context)
           text == Take(input, end)
           segments == Segments(text, cut)
           set == PathEncodeSet(type, context)
           st == [s |-> s, has_host |-> hasHost]
           g == CHOOSE f : Pushes(f, st, segments, set, type, n)
           m == Len(segments)
           last == g[m]
           rest == Drop(input, end)
           p == ParsePath(s, type, hasHost, n, input, context)
<1>1. /\ text \in Text /\ rest \in Text /\ Len(text) = end
      /\ rest # <<>> => FirstIn(rest, ends)
      /\ \A i \in 1..end : text[i] = input[i] /\ input[i] \notin ends
  <2> HIDE DEF ends
  <2> QED  BY FoundFacts
<1>2. /\ end \in Nat /\ end <= Len(input)
      /\ end < Len(input) => input[end + 1] \in ends
  <2> HIDE DEF ends
  <2> QED  BY FindFacts
<1>3. st \in PathStates /\ st.s = s  BY DEF PathStates
<1>4. set \in SUBSET Escapable
  BY EncodeSets DEF PathEncodeSet
<1>5. p = ParsedPath(last, type, n, rest)
  <2>1. end = IF context = "UrlParser" THEN Find(input, {"?", "#"}) ELSE Len(input)
    <3>1. context # "UrlParser" => ends = {}  BY DEF PathEnds
    <3>2. context # "UrlParser" => end = Len(input)
      <4> HIDE DEF ends
      <4>1. Len(input) \in Nat  BY TextFacts
      <4> QED  BY <1>2, <3>1, <4>1
    <3> QED  BY <3>2 DEF PathEnds
  <2>2. cut = IF context = "PathSegmentSetter" THEN {} ELSE Separators(type)
    BY DEF PathCuts
  <2> HIDE DEF end, cut
  <2> QED  BY <2>1, <2>2, PathLoop
<1> HIDE DEF text
<1>6. /\ m \in Nat /\ m >= 1
      /\ \A k \in 1..m : segments[k].text \in Text /\ segments[k].closed \in BOOLEAN
      /\ FirstIn(text, cut) => segments[1].text = <<>> /\ segments[1].closed
      /\ text = <<>> => m = 1 /\ segments[1].text = <<>> /\ ~segments[1].closed
  BY <1>1, SegmentFacts
<1>6a. ASSUME context # "PathSegmentSetter"
       PROVE  \A k \in 1..m : /\ NoByte(segments[k].text, "/")
                              /\ k < m => segments[k].closed
  <2>1. "/" \in cut  BY <1>6a DEF PathCuts, Separators
  <2> HIDE DEF cut
  <2>2. \A k \in 1..m :
           /\ k < m <=> segments[k].closed
           /\ \A i \in 1..Len(segments[k].text) : segments[k].text[i] \notin cut
    BY <1>1, SegmentsUncut
  <2> HIDE DEF segments
  <2>3. \A k \in 1..m : NoByte(segments[k].text, "/")
    BY <2>1, <2>2 DEF NoByte
  <2> QED  BY <2>2, <2>3
<1> HIDE DEF segments, set, cut, rest, st, p, ends
<1>7. /\ Pushes(g, st, segments, set, type, n)
      /\ \A k \in 0..m : g[k] \in PathStates /\ Continues(g[k].s, st.s, n)
      /\ RootedAt(g[1].s, n) => \A k \in 1..m : RootedAt(g[k].s, n)
  BY <1>3, <1>4, <1>6, SegmentsPushed
<1> HIDE DEF g
<1>8. last \in PathStates /\ Continues(last.s, s, n)
  BY <1>3, <1>6, <1>7
<1>9. p = [s |-> IF type = "File" THEN FilePath(last.s, n) ELSE last.s,
           has_host |-> last.has_host, rest |-> rest]
  BY <1>5 DEF ParsedPath
<1>10. last.s \in Text /\ last.has_host \in BOOLEAN /\ n <= Len(last.s)
  BY <1>8 DEF PathStates, Continues, StartsAs
<1>11. ASSUME type = "File"
       PROVE  Continues(p.s, s, n) /\ RootedAt(p.s, n)
  <2>1. p.s = FilePath(last.s, n)  BY <1>9, <1>11
  <2>2. StartsAs(FilePath(last.s, n), last.s, n) /\ RootedAt(FilePath(last.s, n), n)
    BY <1>10, FilePathRooted
  <2>3. Continues(FilePath(last.s, n), last.s, n)  BY <2>2 DEF Continues
  <2> QED  BY <1>8, <2>1, <2>2, <2>3, ContinuesOn
<1>12. type # "File" => p.s = last.s  BY <1>9
<1>13. p.has_host \in BOOLEAN /\ p.rest = rest  BY <1>9, <1>10
<1>14. g[1] = PushSegment(st, PercentEncode(segments[1].text, set),
                          segments[1].closed, type, n)
  <2>1. 1 \in 0..m /\ 0 \in 0..m  BY <1>6
  <2>2. g = [k \in 0..m |->
               IF k = 0 THEN st
               ELSE PushSegment(g[k - 1], PercentEncode(segments[k].text, set),
                                segments[k].closed, type, n)]
    BY <1>7 DEF Pushes
  <2>3. g[0] = st  BY <2>1, <2>2
  <2>4. g[1] = PushSegment(g[1 - 1], PercentEncode(segments[1].text, set),
                           segments[1].closed, type, n)
    BY <2>1, <2>2
  <2>5. 1 - 1 = 0  OBVIOUS
  <2> QED  BY <2>3, <2>4, <2>5
<1>15. PercentEncode(<<>>, set) = <<>>
  <2>1. <<>> \in Text /\ Len(<<>>) = 0  BY EmptySeq DEF Text
  <2>2. PercentEncode(<<>>, set) \in Text /\ Len(PercentEncode(<<>>, set)) = 0
    BY <1>4, <2>1, EncodeFacts
  <2> QED  BY <2>2, TextFacts
<1>16. ASSUME n = Len(s), FirstIn(input, cut)
       PROVE  RootedAt(p.s, n) /\ RootedAt(g[1].s, n)
  <2>1. FirstIn(text, cut)
    <3>1. input[1] \in cut /\ Len(input) >= 1
      BY <1>16, FirstFacts
    <3>2. input[1] \notin ends
      <4>1. input[1] \in {"/", "BSLASH"}  BY <3>1 DEF cut, PathCuts, Separators
      <4>2. ends \subseteq {"?", "#"}  BY DEF ends, PathEnds
      <4> QED  BY <4>1, <4>2
    <3>3. end # 0  BY <1>2, <3>1, <3>2
    <3>4. 1 \in 1..end  BY <1>2, <3>3
    <3>5. text[1] = input[1] /\ text # <<>>
      BY <1>1, <3>3, <3>4, TextFacts
    <3> QED  BY <3>1, <3>5 DEF FirstIn
  <2>2. segments[1].text = <<>> /\ segments[1].closed = TRUE
    <3>1. 1 \in 1..m  BY <1>6
    <3> QED  BY <1>6, <2>1, <3>1
  <2>3. g[1] = PushSegment(st, <<>>, TRUE, type, n)
    BY <1>14, <1>15, <2>2
  <2>4. RootedAt(g[1].s, n)
    BY <1>3, <1>16, <2>3, PushFirst
  <2>5. m \in 1..m  BY <1>6
  <2>6. RootedAt(last.s, n)  BY <1>7, <2>4, <2>5
  <2> QED  BY <1>11, <1>12, <2>4, <2>6
<1>17. ASSUME type # "File", n = Len(s), input = <<>> \/ FirstIn(input, ends)
       PROVE  p.s = s
  <2>1. end = 0
    <3>1. CASE input = <<>>
      <4>1. Len(input) = 0  BY <3>1, TextFacts
      <4> QED  BY <1>2, <4>1
    <3>2. CASE FirstIn(input, ends)
      <4>1. input[1] \in ends  BY <3>2, FirstFacts
      <4>2. ~(1 \in 1..end)  BY <1>1, <4>1
      <4> QED  BY <1>2, <4>2
    <3> QED  BY <1>17, <3>1, <3>2
  <2>2. text = <<>>  BY <1>1, <2>1, TextFacts
  <2>3. m = 1 /\ segments[1].text = <<>> /\ segments[1].closed = FALSE
    <3>1. 1 \in 1..m  BY <1>6
    <3> QED  BY <1>6, <2>2, <3>1
  <2>4. g[1] = PushSegment(st, <<>>, FALSE, type, n)
    BY <1>14, <1>15, <2>3
  <2>5. g[1].s = st.s
    <3>1. \A c \in BOOLEAN : ~c => PushSegment(st, <<>>, c, type, n).s = st.s
      BY <1>3, <1>17, PushFirst
    <3> QED  BY <2>4, <3>1
  <2> QED  BY <1>3, <1>12, <1>17, <2>3, <2>5
<1>18. ASSUME context # "PathSegmentSetter", Tidy(s, n), Ready(s, n),
              type = "File" => RootedAt(s, n) \/ (n = Len(s) /\ FirstIn(input, cut))
       PROVE  Tidy(p.s, n)
  <2>1. Tidy(last.s, n)
    <3>1. \A k \in 1..Len(segments) :
             /\ segments[k].text \in Text /\ NoByte(segments[k].text, "/")
             /\ segments[k].closed \in BOOLEAN
             /\ k < Len(segments) => segments[k].closed
      BY <1>6, <1>6a, <1>18
    <3>2. n <= Len(st.s) /\ Tidy(st.s, n) /\ Ready(st.s, n)
      BY <1>3, <1>18
    <3>3. Len(segments) \in Nat  BY <1>6
    <3> QED  BY <1>3, <1>4, <1>7, <3>1, <3>2, <3>3, TidyLoop
  <2>2. CASE type # "File"  BY <1>12, <2>1, <2>2
  <2>3. CASE type = "File"
    <3>1. RootedAt(last.s, n)
      <4>1. CASE RootedAt(s, n)  BY <1>8, <4>1 DEF Continues
      <4>2. CASE n = Len(s) /\ FirstIn(input, cut)
        <5>1. m \in 1..m  BY <1>6
        <5> QED  BY <1>7, <1>16, <4>2, <5>1
      <4> QED  BY <1>18, <2>3, <4>1, <4>2
    <3>2. Tidy(FilePath(last.s, n), n)  BY <1>10, <2>1, <3>1, TidyFile
    <3> QED  BY <1>9, <2>3, <3>2
  <2> QED  BY <2>2, <2>3
<1> HIDE DEF last, m
<1>19. Continues(p.s, s, n)  BY <1>8, <1>11, <1>12
<1>20. /\ p.has_host \in BOOLEAN /\ p.rest \in Text
       /\ p.rest # <<>> => FirstIn(p.rest, ends)
  BY <1>1, <1>13 DEF rest
<1>21. PathRead(p, s, n, type, input, context)
  <2>1. cut = PathCuts(type, context) /\ ends = PathEnds(context)
    BY DEF cut, ends
  <2>2. type = "File" => RootedAt(p.s, n)  BY <1>11
  <2>3. n = Len(s) /\ FirstIn(input, cut) => RootedAt(p.s, n)  BY <1>16
  <2>4. /\ type # "File" /\ n = Len(s)
        /\ input = <<>> \/ FirstIn(input, ends)
        => p.s = s
    BY <1>17
  <2>5. /\ context # "PathSegmentSetter"
        /\ Tidy(s, n) /\ Ready(s, n)
        /\ type = "File" => RootedAt(s, n) \/ (n = Len(s) /\ FirstIn(input, cut))
        => Tidy(p.s, n)
    BY <1>18
  <2> QED
    BY <1>19, <1>20, <2>1, <2>2, <2>3, <2>4, <2>5 DEF PathRead
<1> QED  BY <1>21 DEF p

\* A path behind the serialization s: it is empty or starts with a '/'.
LEMMA PathStartReads ==
    ASSUME NEW s \in Text, NEW type, NEW hasHost \in BOOLEAN, NEW input \in Text,
           NEW context \in {"UrlParser", "Setter"}
    PROVE  LET p == ParsePathStart(s, type, hasHost, input, context)
           IN  /\ p.has_host \in BOOLEAN /\ p.rest \in Text
               /\ p.rest # <<>> => FirstIn(p.rest, {"?", "#"})
               /\ StartsAs(p.s, s, Len(s))
               /\ ~IsSpecialType(type) => p.s = s \/ RootedAt(p.s, Len(s))
               /\ IsSpecialType(type) /\ (EndsWith(s, "/") => type = "File")
                     => RootedAt(p.s, Len(s))
               /\ (IsSpecialType(type) => ~EndsWith(s, "/")) => Tidy(p.s, Len(s))
<1> DEFINE special == IsSpecialType(type)
           addsSlash == IF special THEN ~EndsWith(s, "/")
                        ELSE input # <<>> /\ ~FirstIn(input, {"/"})
           skips == special /\ addsSlash /\ FirstIn(input, {"/", "BSLASH"})
           n == Len(s)
           front == IF addsSlash THEN Append(s, "/") ELSE s
           text == IF skips THEN Tail(input) ELSE input
           q == ParsePath(front, type, hasHost, n, text, context)
           p == ParsePathStart(s, type, hasHost, input, context)
<1>1. n \in Nat  BY TextFacts
<1>2. CASE ~special /\ FirstIn(input, {"?", "#"})
  <2>1. p = [s |-> s, has_host |-> hasHost, rest |-> input]
    BY <1>2 DEF ParsePathStart
  <2>2. p.s = s /\ p.has_host = hasHost /\ p.rest = input  BY <2>1
  <2>3. StartsAs(s, s, n)  BY <1>1 DEF StartsAs
  <2> HIDE DEF p
  <2>4. StartsAs(p.s, s, n)  BY <2>2, <2>3
  <2>5. Tidy(p.s, n)  BY <1>1, <2>2 DEF Tidy
  <2> QED  BY <1>2, <2>2, <2>4, <2>5 DEF p
<1>3. CASE special \/ ~FirstIn(input, {"?", "#"})
  <2>1. p = q  BY <1>3 DEF ParsePathStart
  <2>2. text \in Text  BY FirstFacts
  <2>3. front \in Text /\ n <= Len(front) /\ Continues(front, s, n)
        /\ (addsSlash => RootedAt(front, n))
        /\ Tidy(front, n) /\ Ready(front, n)
    <3>1. CASE addsSlash
      <4>1. "/" \in Lexeme  BY MarksApart DEF Mark
      <4>2. /\ Append(s, "/") \in Text /\ Len(Append(s, "/")) = n + 1
            /\ \A i \in 1..n : Append(s, "/")[i] = s[i]
            /\ Append(s, "/")[n + 1] = "/"
        BY <4>1, AppendFacts
      <4>3. RootedAt(Append(s, "/"), n) /\ StartsAs(Append(s, "/"), s, n)
        BY <1>1, <4>2 DEF RootedAt, StartsAs
      <4>4. Tidy(Append(s, "/"), n) /\ Ready(Append(s, "/"), n)
        BY <1>1, <4>2 DEF Tidy, Ready, DotsBehind, Dot
      <4> QED  BY <1>1, <3>1, <4>2, <4>3, <4>4 DEF Continues
    <3>2. CASE ~addsSlash
      <4>1. Tidy(s, n) /\ Ready(s, n)  BY <1>1 DEF Tidy, Ready
      <4> QED  BY <1>1, <3>2, <4>1, SameContinues
    <3> QED  BY <3>1, <3>2
  <2> HIDE DEF front, text, q, p
  <2>4. PathRead(q, front, n, type, text, context)
    BY <1>1, <2>2, <2>3, ParsedPathReads DEF q
  <2>5. /\ q.has_host \in BOOLEAN /\ q.rest \in Text
        /\ q.rest # <<>> => FirstIn(q.rest, {"?", "#"})
        /\ Continues(q.s, front, n)
    BY <2>4 DEF PathRead, PathEnds, FirstIn
  <2>6. StartsAs(q.s, s, n)
    BY <1>1, <2>3, <2>5, ContinuesOn DEF Continues
  <2>7. addsSlash => RootedAt(q.s, n)  BY <2>3, <2>5 DEF Continues
  <2>8. special /\ (EndsWith(s, "/") => type = "File") => RootedAt(q.s, n)
    BY <2>4, <2>7 DEF PathRead
  <2>9. ASSUME ~special, ~addsSlash PROVE q.s = s \/ RootedAt(q.s, n)
    <3>1. front = s /\ text = input /\ n = Len(s)
      BY <2>9 DEF front, text
    <3>2. type # "File" /\ PathCuts(type, context) = {"/"}
      BY <2>9 DEF IsSpecialType, Separators, PathCuts
    <3>3. CASE input = <<>>
      BY <2>4, <3>1, <3>2, <3>3 DEF PathRead
    <3>4. CASE FirstIn(input, {"/"})
      BY <2>4, <3>1, <3>2, <3>4 DEF PathRead
    <3> QED  BY <2>9, <3>3, <3>4
  <2>10. ASSUME special => ~EndsWith(s, "/") PROVE Tidy(q.s, n)
    <3>1. type = "File" => RootedAt(front, n)
      BY <2>3, <2>10 DEF IsSpecialType
    <3> QED  BY <2>3, <2>4, <3>1 DEF PathRead
  <2> QED  BY <2>1, <2>5, <2>6, <2>7, <2>8, <2>9, <2>10 DEF p
<1> QED  BY <1>2, <1>3

\* An opaque path.
LEMMA OpaqueReads ==
    ASSUME NEW s \in Text, NEW input \in Text
    PROVE  LET p == ParseCannotBeABasePath(s, input, "UrlParser")
           IN  /\ p.rest \in Text /\ StartsAs(p.s, s, Len(s))
               /\ ~FirstIn(input, {"/"}) => ~RootedAt(p.s, Len(s))
<1> DEFINE end == Find(input, {"?", "#"})
           text == Take(input, end)
           path == PercentEncode(text, CONTROLS)
           rest == Drop(input, end)
           n == Len(s)
           p == ParseCannotBeABasePath(s, input, "UrlParser")
<1>1. /\ text \in Text /\ rest \in Text /\ Len(text) = end /\ end \in Nat
      /\ \A i \in 1..end : text[i] = input[i]
      /\ end <= Len(input)
  BY FoundFacts, FindFacts
<1>2. n \in Nat  BY TextFacts
<1>3. p = [s |-> s \o path, rest |-> rest]
  BY DEF ParseCannotBeABasePath
<1> HIDE DEF text, rest
<1>4. /\ path \in Text /\ Len(path) = end
      /\ \A i \in 1..end : path[i] = text[i] \/ path[i] \in Escape
  BY <1>1, EncodeFacts, EncodeSets
<1> HIDE DEF path, end
<1>5. /\ s \o path \in Text /\ Len(s \o path) = n + Len(path)
      /\ \A i \in 1..n : (s \o path)[i] = s[i]
      /\ \A i \in 1..Len(path) : (s \o path)[n + i] = path[i]
  BY <1>4, ConcatFacts
<1>6. StartsAs(s \o path, s, n)  BY <1>1, <1>2, <1>4, <1>5 DEF StartsAs
<1> HIDE DEF p
<1>7. p.s = s \o path /\ p.rest = rest  BY <1>3
<1>8. ASSUME RootedAt(s \o path, n) PROVE FirstIn(input, {"/"})
  <2>1. 1 \in 1..end /\ (s \o path)[n + 1] = "/"
    BY <1>1, <1>2, <1>4, <1>5, <1>8 DEF RootedAt
  <2>2. path[1] = "/" /\ "/" \notin Escape
    BY <1>4, <1>5, <2>1 DEF Escape
  <2>3. input[1] = "/" /\ Len(input) # 0  BY <1>1, <1>4, <2>1, <2>2
  <2> QED  BY <2>3, TextFacts DEF FirstIn
<1> QED  BY <1>1, <1>6, <1>7, <1>8 DEF p

(****************************************************************************)
(* Values.  One that is laid out and whose components can be told apart     *)
(* stays so when what stands behind its path is exchanged; one whose path   *)
(* is put behind its host becomes so.                                       *)
(****************************************************************************)
\* A host without text is stored as none.
HostNamed(u) == u.host_start = u.host_end => u.host = "None"

\* A file URL has no credentials.
FileBare(u) == TypeOf(u) = "File" => u.host_start = u.scheme_end + 3

\* A path with segments has no dot segments.
DotFree(u) == Rooted(Path(u)) => Tidy(Path(u), 0)

Parsed(u) ==
    Good(u) /\ ComponentsApart(u) /\ HostNamed(u) /\ FileBare(u) /\ DotFree(u)

\* No query and no fragment yet.
Untailed(u) == u.query_start = None /\ u.fragment_start = None

\* ComponentsApart as far as the host.
HeadApart(u) ==
    /\ u.host = "None" => u.host_start = u.host_end
    /\ TypeOf(u) = "SpecialNotFile" => u.host_start < u.host_end
    /\ u.host_start = u.host_end => u.username_end = u.host_start /\ u.port = None
    /\ u.port # None => TypeOf(u) # "File" /\ u.port # default_port(Scheme(u))
    /\ NoByte(HostText(u), "/")
    /\ HostNamed(u) /\ FileBare(u)

\* w has all that stands in front of u's path, and the same offsets into it.
KeepsHead(w, u) ==
    /\ w.scheme_end = u.scheme_end /\ w.username_end = u.username_end
    /\ w.host_start = u.host_start /\ w.host_end = u.host_end
    /\ w.host = u.host /\ w.port = u.port
    /\ StartsAs(w.ser, u.ser, u.path_start)

\* w has the scheme, credentials, host and port of u.
SameAuthority(w, u) ==
    /\ w.host_end = u.host_end /\ w.host = u.host /\ w.port = u.port
    /\ StartsAs(w.ser, u.ser, u.host_end)

\* ComponentsApart and DotFree as far as the path.
PathShaped(u) ==
    /\ DotFree(u)
    /\ ~cannot_be_a_base(u) => Path(u) = <<>> \/ Rooted(Path(u))
    /\ IsSpecial(u) => Path(u) # <<>>

\* Exchanging query and fragment keeps what the head and the path say.
LEMMA SamePathParsed ==
    ASSUME NEW u, Parsed(u), NEW w \in UrlSet, SameHead(u, w), TailCut(w),
           Path(w) = Path(u)
    PROVE  Parsed(w)
<1>1. Good(u) /\ Good(w)  BY HeadKept DEF Parsed, Good, WellFormed
<1>2. SameFrontParts(u, w)  BY <1>1, HeadPartsKept
<1>3. PartsApart(Parts(u))  BY <1>1, ApartRead DEF Parsed
<1>4. PartsApart(Parts(w)) <=> PartsApart(Parts(u))
  BY <1>2 DEF PartsApart, Parts, SameFrontParts
<1>5. ComponentsApart(w)  BY <1>1, <1>3, <1>4, ApartRead
<1>6. HostNamed(w) /\ FileBare(w)
  <2>1. TypeOf(w) = TypeOf(u)  BY <1>2 DEF SameFrontParts, TypeOf
  <2> QED  BY <2>1 DEF Parsed, HostNamed, FileBare, SameHead
<1>7. DotFree(w)  BY DEF Parsed, DotFree
<1> QED  BY <1>1, <1>5, <1>6, <1>7 DEF Parsed

\* The path ends with the serialization where nothing follows it.
LEMMA OpenPath ==
    ASSUME NEW u, u.query_start = None, u.fragment_start = None
    PROVE  PathEnd(u) = Len(u.ser) /\ Path(u) = Drop(u.ser, u.path_start)
  BY DEF PathEnd, Path, Slice, Drop, None

\* parse_query_and_fragment
LEMMA TailAdded ==
    ASSUME NEW u, Parsed(u), Untailed(u), NEW type, NEW input \in Text
    PROVE  LET w == WithQueryAndFragment(u, type, input)
           IN  Parsed(w) /\ SameHead(u, w) /\ KeepsHead(w, u)
<1> DEFINE end == IF FirstIn(input, {"?"}) THEN Find(input, {"#"}) ELSE 0
           set == QuerySet(type)
           front == Take(input, end)
           query == IF end = 0 THEN <<>>
                    ELSE <<"?">> \o PercentEncode(Tail(front), set)
           hash == Drop(input, end)
           fragment == IF hash = <<>> THEN <<>>
                       ELSE <<"#">> \o PercentEncode(Tail(hash), FRAGMENT)
           s == u.ser
           n == Len(s)
           p == u.path_start
           r == s \o query \o fragment
           w == WithQueryAndFragment(u, type, input)
<1>1. Good(u) /\ s \in Text /\ n \in Nat /\ p \in Nat /\ p <= n
  BY EditPlaces, TailFacts DEF Parsed
<1>2. end \in Nat /\ end <= Len(input)
  <2>1. Len(input) \in Nat  BY TextFacts
  <2> QED  BY <2>1, FindFacts
<1>3. /\ front \in Text /\ Len(front) = end /\ hash \in Text
  BY <1>2, TakeFacts, DropFacts
<1>4. \A t \in Text : t # <<>> => Tail(t) \in Text
  BY HeadTailProperties DEF Text
<1>5. set \in SUBSET Escapable  BY EncodeSets DEF QuerySet
<1> HIDE DEF end, front, hash, set
<1>6. query \in Text /\ (query # <<>> => Len(query) >= 1 /\ query[1] = "?")
  <2>1. CASE end = 0  BY <2>1, EmptySeq DEF Text
  <2>2. CASE end # 0
    <3>1. front # <<>>  BY <1>3, <2>2, TextFacts
    <3>2. PercentEncode(Tail(front), set) \in Text
      BY <1>3, <1>4, <1>5, <3>1, EncodeFacts
    <3> DEFINE t == PercentEncode(Tail(front), set)
    <3> HIDE DEF t
    <3>3. "?" \in Mark  BY DEF Mark
    <3>4. /\ <<"?">> \o t \in Text /\ Len(<<"?">> \o t) = 1 + Len(t)
          /\ Len(t) \in Nat /\ (<<"?">> \o t)[1] = "?"
      BY <3>2, <3>3, Delimited DEF t
    <3> QED  BY <2>2, <3>4 DEF t
  <2> QED  BY <2>1, <2>2
<1>7. fragment \in Text
      /\ (fragment # <<>> => Len(fragment) >= 1 /\ fragment[1] = "#")
  <2>1. CASE hash = <<>>  BY <2>1, EmptySeq DEF Text
  <2>2. CASE hash # <<>>
    <3>2. PercentEncode(Tail(hash), FRAGMENT) \in Text
      BY <1>3, <1>4, <2>2, EncodeFacts, EncodeSets
    <3> DEFINE t == PercentEncode(Tail(hash), FRAGMENT)
    <3> HIDE DEF t
    <3>3. "#" \in Mark  BY DEF Mark
    <3>4. /\ <<"#">> \o t \in Text /\ Len(<<"#">> \o t) = 1 + Len(t)
          /\ Len(t) \in Nat /\ (<<"#">> \o t)[1] = "#"
      BY <3>2, <3>3, Delimited DEF t
    <3> QED  BY <2>2, <3>4 DEF t
  <2> QED  BY <2>1, <2>2
<1>8. w = [u EXCEPT !.ser = r,
                    !.query_start = IF query = <<>> THEN None ELSE n,
                    !.fragment_start = IF fragment = <<>> THEN None
                                       ELSE Len(s \o query)]
  BY DEF WithQueryAndFragment, end, front, hash, set
<1> HIDE DEF query, fragment, s
<1>9. /\ s \o query \in Text /\ Len(s \o query) = n + Len(query)
      /\ \A i \in 1..n : (s \o query)[i] = s[i]
      /\ \A i \in 1..Len(query) : (s \o query)[n + i] = query[i]
      /\ Len(query) \in Nat /\ Len(fragment) \in Nat
  BY <1>1, <1>6, <1>7, ConcatFacts, TextFacts
<1> DEFINE sq == s \o query
<1> HIDE DEF sq
<1>10. /\ sq \o fragment \in Text
       /\ Len(sq \o fragment) = Len(sq) + Len(fragment)
       /\ \A i \in 1..Len(sq) : (sq \o fragment)[i] = sq[i]
       /\ \A i \in 1..Len(fragment) : (sq \o fragment)[Len(sq) + i] = fragment[i]
  BY <1>7, <1>9, ConcatFacts DEF sq
<1>11. r = sq \o fragment  BY DEF sq
<1> HIDE DEF r, n, p, w
<1>12. /\ r \in Text /\ Len(r) = n + Len(query) + Len(fragment)
       /\ \A i \in 1..n : r[i] = s[i]
  BY <1>1, <1>9, <1>10, <1>11 DEF sq
<1>13. query # <<>> => n < Len(r) /\ r[n + 1] = "?"
  <2> SUFFICES ASSUME query # <<>> PROVE n < Len(r) /\ r[n + 1] = "?"  OBVIOUS
  <2>1. 1 \in 1..Len(query) /\ n + 1 \in 1..Len(sq)
    BY <1>1, <1>6, <1>9 DEF sq
  <2>2. sq[n + 1] = "?"  BY <1>6, <1>9, <2>1 DEF sq
  <2>3. r[n + 1] = sq[n + 1]  BY <1>10, <1>11, <2>1
  <2> QED  BY <1>1, <1>6, <1>9, <1>12, <2>2, <2>3
<1>14. fragment # <<>> => /\ Len(sq) < Len(r) /\ r[Len(sq) + 1] = "#"
                          /\ query # <<>> => n < Len(sq)
  BY <1>1, <1>6, <1>7, <1>9, <1>10, <1>11 DEF sq
<1>15. /\ w.ser = r /\ w.path_start = p
       /\ w.query_start = IF query = <<>> THEN None ELSE n
       /\ w.fragment_start = IF fragment = <<>> THEN None ELSE Len(sq)
       /\ w.scheme_end = u.scheme_end /\ w.username_end = u.username_end
       /\ w.host_start = u.host_start /\ w.host_end = u.host_end
       /\ w.host = u.host /\ w.port = u.port
  BY <1>1, <1>8 DEF Good, UrlSet, p, sq
<1>16. Len(sq) \in Nat /\ n <= Len(sq)  BY <1>1, <1>9 DEF sq
<1>17. w \in UrlSet
  <2>1. w.query_start \in OptOffset /\ w.fragment_start \in OptOffset
    BY <1>1, <1>15, <1>16 DEF OptOffset
  <2>2. u \in UrlSet  BY <1>1 DEF Good
  <2> QED  BY <1>8, <1>12, <1>15, <2>1, <2>2 DEF UrlSet
<1>18. SameHead(u, w)
  BY <1>1, <1>9, <1>12, <1>15 DEF SameHead, p, s
<1>19. TailCut(w)
  BY <1>1, <1>13, <1>14, <1>15, <1>16 DEF TailCut, HasByte, ByteAt, None
<1>20. PathEnd(w) = n /\ PathEnd(u) = n
  <2>1. PathEnd(u) = n  BY OpenPath DEF Untailed, n, s
  <2>2. fragment = <<>> /\ query = <<>> => Len(r) = n
    <3>1. Len(<<>>) = 0  OBVIOUS
    <3> QED  BY <1>1, <1>12, <3>1
  <2>3. query = <<>> => Len(sq) = n
    <3>1. Len(<<>>) = 0  OBVIOUS
    <3> QED  BY <1>1, <1>9, <3>1 DEF sq
  <2> QED  BY <1>1, <1>15, <1>16, <2>1, <2>2, <2>3 DEF PathEnd, None
<1>21. Path(w) = Path(u)
  <2>1. SameElements(r, p, n, s, p, n)
    <3>1. s \in Text /\ n = Len(s) /\ n \in Nat /\ p \in Nat /\ p <= n
      BY <1>1 DEF n
    <3>2. n <= Len(r) /\ r \in Text  BY <1>9, <1>12, <3>1
    <3>3. \A i \in 1..(n - p) : r[p + i] = s[p + i]
      <4> TAKE i \in 1..(n - p)
      <4>1. p + i \in 1..n  BY <3>1
      <4> QED  BY <1>12, <4>1
    <3> QED  BY <3>1, <3>2, <3>3 DEF SameElements
  <2>2. Slice(r, p, n) = Slice(s, p, n)  BY <2>1, SlicesEqual
  <2> QED  BY <1>15, <1>20, <2>2 DEF Path, p, s
<1>22. Parsed(w)  BY <1>17, <1>18, <1>19, <1>21, SamePathParsed
<1>23. KeepsHead(w, u)  BY <1>12, <1>15, <1>18 DEF KeepsHead, SameHead, StartsAs
<1> QED  BY <1>18, <1>22, <1>23 DEF w

\* The path starts at the same '/' and is as long.
LEMMA PathOf ==
    ASSUME NEW x, Good(x), Untailed(x)
    PROVE  /\ Path(x) = <<>> <=> Len(x.ser) = x.path_start
           /\ Rooted(Path(x)) <=> RootedAt(x.ser, x.path_start)
           /\ HasByte(x.ser, x.path_start, "/") <=> Rooted(Path(x))
<1>1. PathEnd(x) = Len(x.ser)  BY OpenPath DEF Untailed
<1>2. Path(x) = <<>> <=> x.path_start = PathEnd(x)  BY PathFacts
<1>3. HasByte(x.ser, x.path_start, "/") <=> Rooted(Path(x))  BY PathSlashes
<1> QED  BY <1>1, <1>2, <1>3 DEF HasByte, ByteAt, RootedAt

\* Text put behind a value that ends with its path.
LEMMA PathBehindHead ==
    ASSUME NEW u, Good(u), HeadApart(u), Untailed(u), NEW r,
           StartsAs(r, u.ser, u.path_start)
    PROVE  LET x == [u EXCEPT !.ser = r]
           IN  /\ Good(x) /\ HeadApart(x) /\ Untailed(x)
               /\ x.ser = r /\ x.path_start = u.path_start
               /\ x.scheme_end = u.scheme_end
               /\ x.username_end = u.username_end
               /\ TypeOf(x) = TypeOf(u)
<1> DEFINE x == [u EXCEPT !.ser = r]
<1>1. /\ x.ser = r /\ x.path_start = u.path_start
      /\ x.query_start = u.query_start /\ x.fragment_start = u.fragment_start
      /\ x.scheme_end = u.scheme_end /\ x.username_end = u.username_end
      /\ x.host_start = u.host_start /\ x.host_end = u.host_end
      /\ x.host = u.host /\ x.port = u.port
  BY DEF Good, UrlSet
<1>2. r \in Text  BY DEF StartsAs
<1>3. x \in UrlSet  BY <1>2 DEF Good, UrlSet
<1> HIDE DEF x
<1>4. SameHead(u, x)  BY <1>1 DEF SameHead, StartsAs
<1>5. Untailed(x) /\ TailCut(x)  BY <1>1 DEF Untailed, TailCut
<1>6. Good(x)  BY <1>3, <1>4, <1>5, HeadKept DEF Good, WellFormed
<1>7. Scheme(x) = Scheme(u) /\ HostText(x) = HostText(u)
  BY <1>4, <1>6, HeadPartsKept DEF SameFrontParts
<1>8. HeadApart(x)  BY <1>1, <1>7 DEF HeadApart, HostNamed, FileBare, TypeOf
<1> QED  BY <1>1, <1>5, <1>6, <1>7, <1>8 DEF x, TypeOf

\* What may stand behind a head: nothing, a path from the root, and for a
\* scheme that is not special an opaque path.
PathFits(u, r) ==
    /\ StartsAs(r, u.ser, u.path_start)
    /\ IsSpecial(u) => RootedAt(r, u.path_start)
    /\ RootedAt(r, u.path_start) => Tidy(r, u.path_start)
    /\ \/ Len(r) = u.path_start \/ RootedAt(r, u.path_start)
       \/ u.path_start = u.scheme_end + 1

\* A path has no dot segments where it stands or standing alone.
LEMMA TidyDrop ==
    ASSUME NEW s \in Text, NEW n \in Nat, n <= Len(s)
    PROVE  Tidy(Drop(s, n), 0) <=> Tidy(s, n)
<1> DEFINE t == Drop(s, n)
           m == Len(s)
<1>1. /\ t \in Text /\ Len(t) = m - n /\ m \in Nat
      /\ \A i \in 1..(m - n) : t[i] = s[n + i]
  BY DropFacts, TextFacts
<1> HIDE DEF t, m
<1>2. \A i \in 1..(m - n) : DotsBehind(t, i) <=> DotsBehind(s, n + i)
  <2> SUFFICES ASSUME NEW i \in 1..(m - n)
               PROVE  DotsBehind(t, i) <=> DotsBehind(s, n + i)
    OBVIOUS
  <2> DEFINE j == n + i
  <2>1. \A d \in 1..3 : i + d <= m - n => t[i + d] = s[j + d]
    <3> TAKE d \in 1..3
    <3> SUFFICES ASSUME i + d <= m - n PROVE t[i + d] = s[j + d]
      OBVIOUS
    <3>1. i + d \in 1..(m - n) /\ n + (i + d) = j + d  BY <1>1
    <3> QED  BY <1>1, <3>1
  <2>2. \A d \in 1..3 : /\ i + d <= m - n <=> j + d <= m
                        /\ i + d = m - n <=> j + d = m
    BY <1>1
  <2>3. /\ i + 1 <= m - n => i + 1 = m - n \/ i + 2 <= m - n
        /\ i + 2 <= m - n => i + 2 = m - n \/ i + 3 <= m - n
    BY <1>1
  <2> HIDE DEF j
  <2>4. /\ i + 1 <= m - n => t[i + 1] = s[j + 1]
        /\ i + 2 <= m - n => t[i + 2] = s[j + 2]
        /\ i + 3 <= m - n => t[i + 3] = s[j + 3]
    BY <2>1
  <2>5. /\ i + 1 <= m - n <=> j + 1 <= m
        /\ i + 2 <= m - n <=> j + 2 <= m
        /\ i + 1 = m - n <=> j + 1 = m
        /\ i + 2 = m - n <=> j + 2 = m
    BY <2>2
  <2>6. DotsBehind(t, i) <=> DotsBehind(s, j)
    BY <1>1, <2>3, <2>4, <2>5 DEF DotsBehind, m
  <2> QED  BY <2>6 DEF j
<1>3. ASSUME Tidy(s, n) PROVE Tidy(t, 0)
  <2> SUFFICES ASSUME NEW i \in (0 + 1)..Len(t), t[i] = "/"
               PROVE  ~DotsBehind(t, i)
    BY DEF Tidy
  <2>1. i \in 1..(m - n) /\ n + i \in (n + 1)..m  BY <1>1
  <2>2. s[n + i] = "/"  BY <1>1, <2>1
  <2> QED  BY <1>2, <1>3, <2>1, <2>2 DEF Tidy, m
<1>4. ASSUME Tidy(t, 0) PROVE Tidy(s, n)
  <2> SUFFICES ASSUME NEW j \in (n + 1)..Len(s), s[j] = "/"
               PROVE  ~DotsBehind(s, j)
    BY DEF Tidy
  <2> DEFINE i == j - n
  <2>1. i \in 1..(m - n) /\ n + i = j /\ i \in (0 + 1)..Len(t)
    BY <1>1 DEF m
  <2> HIDE DEF i
  <2>2. t[i] = "/"  BY <1>1, <2>1
  <2> QED  BY <1>2, <1>4, <2>1, <2>2 DEF Tidy
<1> QED  BY <1>3, <1>4 DEF t

\* A path that fits a head has the shape its components need.
LEMMA PathBehindShaped ==
    ASSUME NEW u, Good(u), HeadApart(u), Untailed(u), NEW r, PathFits(u, r)
    PROVE  PathShaped([u EXCEPT !.ser = r])
<1> DEFINE x == [u EXCEPT !.ser = r]
<1>1. /\ Good(x) /\ Untailed(x)
      /\ x.ser = r /\ x.path_start = u.path_start
      /\ x.scheme_end = u.scheme_end /\ TypeOf(x) = TypeOf(u)
  BY PathBehindHead DEF PathFits
<1> HIDE DEF x
<1>2. /\ Path(x) = <<>> <=> Len(r) = u.path_start
      /\ Rooted(Path(x)) <=> RootedAt(r, u.path_start)
      /\ HasByte(r, u.path_start, "/") <=> Rooted(Path(x))
  BY <1>1, PathOf
<1>3. IsSpecial(x) => Path(x) # <<>>
  BY <1>1, <1>2 DEF PathFits, IsSpecial, Rooted
<1>4. ~cannot_be_a_base(x) => Path(x) = <<>> \/ Rooted(Path(x))
  BY <1>1, <1>2 DEF PathFits, cannot_be_a_base
<1>5. DotFree(x)
  <2>1. r \in Text /\ u.path_start \in Nat /\ u.path_start <= Len(r)
    BY <1>1, HeadPlaces
  <2>2. Path(x) = Drop(r, u.path_start)  BY <1>1, OpenPath DEF Untailed
  <2>3. Rooted(Path(x)) => Tidy(r, u.path_start)
    BY <1>2 DEF PathFits
  <2> QED  BY <2>1, <2>2, <2>3, TidyDrop DEF DotFree
<1> QED  BY <1>3, <1>4, <1>5 DEF PathShaped, x

\* Behind "//" there is an authority, or a path that would be taken for one.
LEMMA ShapedParsed ==
    ASSUME NEW x, Good(x), HeadApart(x), PathShaped(x), Untailed(x),
           ~(/\ x.path_start = x.scheme_end + 1
             /\ StartsWithTwoSlashes(Path(x)))
    PROVE  Parsed(x)
<1>1. has_authority(x) => Written(x)
  <2> SUFFICES ASSUME has_authority(x), ~Written(x) PROVE FALSE  OBVIOUS
  <2>1. x.host_start = x.scheme_end + 1 /\ x.host_end = x.scheme_end + 1
    BY AuthorityOrNone
  <2>2. x.port = None  BY <2>1 DEF HeadApart
  <2>3. Bare(x) /\ StartsWithTwoSlashes(Path(x))
    BY <2>2, WithoutAuthorityRead
  <2>4. Slice(x.ser, x.host_end, x.path_start) = <<>>
    BY <2>2, <2>3, GoodFacts
    DEF AuthorityIntact, PortWritten, Bare, DotPrefixed
  <2>5. /\ x.ser \in Text /\ x.host_end \in Nat /\ x.path_start \in Nat
        /\ x.host_end <= x.path_start /\ x.path_start <= Len(x.ser)
    BY HeadPlaces
  <2>6. x.host_end = x.path_start  BY <2>4, <2>5, SliceEmpty
  <2> QED  BY <2>1, <2>3, <2>6
<1> QED
  BY <1>1 DEF Parsed, ComponentsApart, HeadApart, PathShaped, Written

SlashDot == <<"/", ".">>

\* "/." is put in front of a path that would be taken for an authority.
LEMMA DotInserted ==
    ASSUME NEW x, Good(x), HeadApart(x), PathShaped(x), Untailed(x),
           x.path_start = x.scheme_end + 1, StartsWithTwoSlashes(Path(x)),
           NEW v \in UrlSet,
           v.ser = Splice(x.ser, x.path_start, x.path_start, SlashDot),
           v.path_start = x.path_start + 2, v.scheme_end = x.scheme_end,
           v.username_end = x.username_end, v.host_start = x.host_start,
           v.host_end = x.host_end, v.host = x.host, v.port = x.port,
           Untailed(v)
    PROVE  Parsed(v) /\ KeepsHead(v, x)
<1> DEFINE p == x.path_start
           s == x.ser
<1>1. /\ x \in UrlSet /\ s \in Text /\ Len(s) \in Nat /\ p \in Nat
      /\ x.scheme_end \in Nat /\ x.host_end \in Nat
      /\ x.scheme_end < x.username_end /\ x.username_end <= x.host_start
      /\ x.host_start <= x.host_end /\ x.host_end <= p /\ p <= Len(s)
      /\ x.username_end \in Nat /\ x.host_start \in Nat
  BY HeadPlaces DEF Good
<1>2. /\ p = x.scheme_end + 1 /\ x.username_end = p /\ x.host_start = p
      /\ x.host_end = p
  BY <1>1
<1>3. SlashDot \in Text /\ Len(SlashDot) = 2 /\ NoSpace(SlashDot)
  <2>1. "/" \in Lexeme /\ "." \in Lexeme  BY MarksApart DEF Mark
  <2> QED  BY <2>1 DEF Text, NoSpace, SlashDot
<1>5. /\ v.path_start = p + 2 /\ v.scheme_end = x.scheme_end
      /\ v.username_end = p /\ v.host_start = p /\ v.host_end = p
      /\ v.host = x.host /\ v.port = x.port
      /\ v.query_start = None /\ v.fragment_start = None
  BY <1>2 DEF Untailed
<1>8. Edit(x, v, p, p, SlashDot, 2)
  <2>1. 2 = p + Len(SlashDot) - p  BY <1>1, <1>3
  <2>2. ShiftOpt(x.query_start, 2) = None /\ ShiftOpt(x.fragment_start, 2) = None
    BY DEF ShiftOpt, Untailed
  <2> QED  BY <1>1, <1>3, <1>5, <2>1, <2>2 DEF Edit, Untailed
<1>9. Scheme(v) = Scheme(x) /\ ByteAt(v.ser, v.scheme_end) = ":"
  BY <1>1, <1>2, <1>5, <1>8, EditKeepsScheme
<1>10. ~IsSpecial(x)
  BY <1>1, <1>2, GoodFacts DEF AuthorityIntact, SpecialHasAuthority
<1>11. ~IsSpecial(v) /\ TypeOf(v) = TypeOf(x)
  BY <1>9, <1>10 DEF IsSpecial, TypeOf
<1>12. x.port = None  BY <1>2 DEF HeadApart
<1>13. /\ Path(v) = Path(x)
       /\ Slice(v.ser, p, p + 2) = SlashDot /\ HostText(v) = <<>>
  <2>1. PathEnd(x) = Len(s) /\ PathEnd(v) = Len(v.ser)
    BY <1>5, OpenPath DEF Untailed
  <2>2. /\ \A k \in Nat, m \in Nat : p <= k /\ k <= m /\ m <= Len(s) =>
              Slice(v.ser, k + 2, m + 2) = Slice(s, k, m)
        /\ \A k \in Nat, m \in Nat : k <= m /\ m <= Len(SlashDot) =>
              Slice(v.ser, p + k, p + m) = Slice(SlashDot, k, m)
    BY <1>8, EditSlices
  <2>3. v.ser \in Text /\ Len(v.ser) = Len(s) + 2 /\ Len(v.ser) \in Nat
    BY <1>8, EditFacts
  <2>4. Slice(v.ser, p + 2, Len(s) + 2) = Slice(s, p, Len(s))
    BY <1>1, <2>2
  <2>5. Path(v) = Path(x)
    BY <1>5, <2>1, <2>3, <2>4 DEF Path
  <2>6. Slice(v.ser, p + 0, p + 2) = Slice(SlashDot, 0, 2)
    <3> HIDE DEF p, s
    <3> QED  BY <1>3, <2>2
  <2>7. Slice(SlashDot, 0, 2) = SlashDot  BY <1>3, SliceWhole
  <2>8. p + 0 = p  BY <1>1
  <2>9. HostText(v) = <<>>
    <3>1. p <= Len(v.ser)  BY <1>1, <2>3
    <3> QED  BY <1>1, <1>5, <2>3, <3>1, SliceEmpty DEF HostText
  <2> QED  BY <2>5, <2>6, <2>7, <2>8, <2>9
<1>14. Good(v)
  <2>1. HeadOrder(v)  BY <1>1, <1>2, <1>5 DEF HeadOrder
  <2>2. AuthorityMarked(v)  BY <1>2, <1>5 DEF AuthorityMarked
  <2>3. SpecialHasAuthority(v)  BY <1>11 DEF SpecialHasAuthority
  <2>4. CredentialsClosed(v)  BY <1>1, <1>2, <1>5 DEF CredentialsClosed
  <2>5. HostWritten(v)
    BY <1>1, <1>2, <1>5, GoodFacts DEF AuthorityIntact, HostWritten
  <2>6. PortWritten(v)  BY <1>5, <1>12, <1>13 DEF PortWritten, SlashDot
  <2> QED  BY <1>3, <1>8, <1>9, <2>1, <2>2, <2>3, <2>4, <2>5, <2>6, Edited
<1>15. HeadApart(v)
  <2>1. NoByte(HostText(v), "/")  BY <1>13 DEF NoByte
  <2> QED
    BY <1>1, <1>2, <1>5, <1>9, <1>11, <1>12, <2>1
    DEF HeadApart, HostNamed, FileBare, IsSpecial, IsSpecialType
<1>16. PathShaped(v)
  BY <1>11, <1>13 DEF PathShaped, DotFree, StartsWithTwoSlashes, Rooted
<1>18. v.path_start # v.scheme_end + 1  BY <1>1, <1>2, <1>5
<1>19. KeepsHead(v, x)
  <2>1. /\ v.ser \in Text /\ Len(v.ser) = Len(s) + 2
        /\ \A i \in 1..p : v.ser[i] = s[i]
    BY <1>8, EditFacts
  <2> QED  BY <1>1, <2>1 DEF KeepsHead, StartsAs
<1> QED  BY <1>14, <1>15, <1>16, <1>18, <1>19, ShapedParsed

\* finish
LEMMA FinishParsed ==
    ASSUME NEW x, Good(x), HeadApart(x), PathShaped(x), Untailed(x),
           NEW input \in Text
    PROVE  /\ Finish(x, input).ok /\ Parsed(Finish(x, input).url)
           /\ KeepsHead(Finish(x, input).url, x)
<1> DEFINE path == Drop(x.ser, x.path_start)
           dotted == [x EXCEPT !.ser = Take(@, x.path_start)
                                       \o <<"/", ".">> \o path,
                               !.path_start = @ + 2]
           covered == /\ x.path_start = x.scheme_end + 1
                      /\ StartsWith(path, <<"/", "/">>)
           safe == IF covered THEN dotted ELSE x
<1>1. Path(x) = path  BY OpenPath DEF Untailed
<1>2. path \in Text
  BY HeadPlaces, DropFacts
<1>3. StartsWith(path, <<"/", "/">>) <=> StartsWithTwoSlashes(Path(x))
  <2>1. Len(path) \in Nat  BY <1>2, TextFacts
  <2> DEFINE two == <<"/", "/">>
             t == Take(path, 2)
  <2> HIDE DEF path
  <2>2. /\ Len(two) = 2 /\ two[1] = "/" /\ two[2] = "/"
        /\ two \in Seq(Lexeme)
    <3>1. "/" \in Lexeme  BY MarksApart DEF Mark
    <3> QED  BY <3>1
  <2>3. SubSeq(two, 1, 2) = two
    <3> HIDE DEF two
    <3> QED  BY <2>2, SubSeqFull
  <2>4. ASSUME Len(path) >= 2
        PROVE  t = two <=> path[1] = "/" /\ path[2] = "/"
    <3>1. t \in Text /\ Len(t) = 2 /\ \A i \in 1..2 : t[i] = path[i]
      BY <1>2, <2>1, <2>4, TakeFacts
    <3> HIDE DEF t, two
    <3>2. t[1] = path[1] /\ t[2] = path[2]  BY <3>1
    <3>3. t = [i \in 1..2 |-> t[i]] /\ two = [i \in 1..2 |-> two[i]]
      BY <2>2, <3>1, TextFacts DEF Text
    <3>4. \A i \in 1..2 : i = 1 \/ i = 2  OBVIOUS
    <3> QED  BY <2>2, <3>2, <3>3, <3>4
  <2>5. StartsWith(path, two) <=> Len(path) >= 2 /\ t = two
    <3> HIDE DEF two
    <3> QED  BY <2>1, <2>2, <2>3 DEF StartsWith, IsPrefix, Take
  <2> QED  BY <1>1, <2>4, <2>5 DEF StartsWithTwoSlashes
<1>4. Parsed(safe) /\ Untailed(safe) /\ KeepsHead(safe, x)
          /\ x.path_start <= safe.path_start /\ x.path_start \in Nat
          /\ safe.path_start \in Nat
  <2>1. CASE covered
    <3> DEFINE mid == <<"/", ".">>
               p == x.path_start
               ser == Splice(x.ser, p, p, mid)
    <3>1. dotted = [x EXCEPT !.ser = ser, !.path_start = p + 2]
      BY DEF Splice
    <3>2. mid \in Text
      <4>1. "/" \in Lexeme /\ "." \in Lexeme  BY MarksApart DEF Mark
      <4> QED  BY <4>1 DEF Text
    <3>3. x.ser \in Text /\ p \in Nat /\ p <= Len(x.ser) /\ x \in UrlSet
      BY HeadPlaces DEF Good
    <3> HIDE DEF mid, dotted
    <3>4. ser \in Text /\ p + 2 \in Nat
      <4> DEFINE t == x.ser
      <4>1. t \in Text /\ p \in Nat /\ p <= Len(t) /\ p <= p  BY <3>3
      <4> HIDE DEF t, p
      <4>2. Splice(t, p, p, mid) \in Text  BY <3>2, <4>1, SpliceFacts
      <4> QED  BY <4>1, <4>2 DEF t
    <3> HIDE DEF ser, p
    <3>5. dotted \in UrlSet  BY <3>1, <3>3, <3>4 DEF UrlSet
    <3>6. /\ dotted.ser = ser
          /\ dotted.path_start = p + 2 /\ dotted.scheme_end = x.scheme_end
          /\ dotted.username_end = x.username_end
          /\ dotted.host_start = x.host_start
          /\ dotted.host_end = x.host_end /\ dotted.host = x.host
          /\ dotted.port = x.port
          /\ dotted.query_start = x.query_start
          /\ dotted.fragment_start = x.fragment_start
      BY <3>1, <3>3 DEF UrlSet
    <3>7. Untailed(dotted)  BY <3>6 DEF Untailed
    <3>8. Parsed(dotted) /\ KeepsHead(dotted, x)
      BY <1>3, <2>1, <3>5, <3>6, <3>7, DotInserted DEF ser, p, mid, SlashDot
    <3>9. p <= dotted.path_start /\ p \in Nat /\ dotted.path_start \in Nat
      BY <3>3, <3>6
    <3> QED  BY <2>1, <3>7, <3>8, <3>9 DEF p
  <2>2. CASE ~covered
    <3>1. Parsed(x)  BY <1>3, <2>2, ShapedParsed
    <3>2. /\ x.ser \in Text /\ x.path_start \in Nat
          /\ x.path_start <= Len(x.ser) /\ x.path_start <= x.path_start
      BY HeadPlaces
    <3>3. KeepsHead(x, x)  BY <3>2 DEF KeepsHead, StartsAs
    <3> QED  BY <2>2, <3>1, <3>2, <3>3
  <2> QED  BY <2>1, <2>2
<1>5. Finish(x, input) = Ok(WithQueryAndFragment(safe, TypeOf(x), input))
  BY DEF Finish
<1> HIDE DEF safe
<1> DEFINE w == WithQueryAndFragment(safe, TypeOf(x), input)
<1>6. Parsed(w) /\ KeepsHead(w, safe)
  BY <1>4, TailAdded
<1> HIDE DEF w
<1>7. KeepsHead(w, x)
  <2>1. /\ \A i \in 1..safe.path_start : w.ser[i] = safe.ser[i]
        /\ w.ser \in Text /\ safe.path_start <= Len(w.ser)
        /\ \A i \in 1..x.path_start : safe.ser[i] = x.ser[i]
    BY <1>4, <1>6 DEF KeepsHead, StartsAs
  <2>2. \A i \in 1..x.path_start : i \in 1..safe.path_start  BY <1>4
  <2>3. Len(w.ser) \in Nat  BY <2>1, TextFacts
  <2>4. StartsAs(w.ser, x.ser, x.path_start)
    BY <1>4, <2>1, <2>2, <2>3 DEF StartsAs
  <2> QED  BY <1>4, <1>6, <2>4 DEF KeepsHead
<1> QED  BY <1>5, <1>6, <1>7 DEF Ok, w

\* The path read behind a head, with "/." in front of it where it has to be.
LEMMA FinishPathParsed ==
    ASSUME NEW u, Good(u), HeadApart(u), Untailed(u), NEW path,
           PathFits(u, path.s), path.rest \in Text
    PROVE  /\ FinishPath(u, path).ok /\ Parsed(FinishPath(u, path).url)
           /\ KeepsHead(FinishPath(u, path).url, u)
<1> DEFINE x == [u EXCEPT !.ser = path.s]
           w == FinishPath(u, path).url
<1>1. /\ Good(x) /\ HeadApart(x) /\ Untailed(x)
      /\ x.path_start = u.path_start
  BY PathBehindHead DEF PathFits
<1>2. PathShaped(x)  BY PathBehindShaped
<1>3. FinishPath(u, path) = Finish(x, path.rest)  BY DEF FinishPath
<1>4. KeepsHead(x, u)
  BY DEF Good, UrlSet, PathFits, KeepsHead
<1> HIDE DEF x
<1>5. FinishPath(u, path).ok /\ Parsed(w) /\ KeepsHead(w, x)
  BY <1>1, <1>2, <1>3, FinishParsed
<1> HIDE DEF w
<1>6. KeepsHead(w, u)  BY <1>1, <1>4, <1>5 DEF KeepsHead, StartsAs
<1> QED  BY <1>5, <1>6 DEF w

\* The path of a file URL, which never is taken for an authority.
LEMMA FinishFileParsed ==
    ASSUME NEW u, Good(u), HeadApart(u), Untailed(u), Written(u), NEW path,
           PathFits(u, path.s), path.rest \in Text
    PROVE  /\ FinishFile(u, path).ok /\ Parsed(FinishFile(u, path).url)
           /\ KeepsHead(FinishFile(u, path).url, u)
<1> DEFINE x == [u EXCEPT !.ser = path.s]
           type == "File"
           w == WithQueryAndFragment(x, type, path.rest)
<1>1. /\ Good(x) /\ HeadApart(x) /\ Untailed(x)
      /\ x.scheme_end = u.scheme_end /\ x.username_end = u.username_end
      /\ x.path_start = u.path_start
  BY PathBehindHead DEF PathFits
<1>2. PathShaped(x)  BY PathBehindShaped
<1>3. FinishFile(u, path) = Ok(w)
  BY DEF FinishFile
<1>3a. KeepsHead(x, u)
  BY DEF Good, UrlSet, PathFits, KeepsHead
<1> HIDE DEF x, type
<1>4. x.path_start # x.scheme_end + 1
  BY <1>1, HeadPlaces DEF Written
<1>5. Parsed(x)  BY <1>1, <1>2, <1>4, ShapedParsed
<1>6. Parsed(w) /\ KeepsHead(w, x)
  BY <1>1, <1>5, TailAdded
<1> HIDE DEF w
<1>7. KeepsHead(w, u)  BY <1>1, <1>3a, <1>6 DEF KeepsHead, StartsAs
<1> QED  BY <1>3, <1>6, <1>7 DEF Ok

\* w is u cut off at n, with its query at q.
CutAt(u, w, n, q) ==
    w = [u EXCEPT !.ser = Take(u.ser, n), !.query_start = q,
                  !.fragment_start = None]

\* A value cut off behind its path or behind its query.
LEMMA CutParsed ==
    ASSUME NEW u, Parsed(u), NEW n, NEW q, NEW w, CutAt(u, w, n, q),
           \/ n = QueryEnd(u) /\ q = u.query_start
           \/ n = PathEnd(u) /\ q = None
    PROVE  /\ Parsed(w) /\ SameHead(u, w) /\ TypeOf(w) = TypeOf(u)
           /\ w.ser = Take(u.ser, n) /\ Len(w.ser) = n
           /\ w.query_start = q /\ w.fragment_start = None
           /\ Path(w) = Path(u) /\ PathEnd(w) = PathEnd(u)
<1> DEFINE s == u.ser
           e == PathEnd(u)
           p == u.path_start
           r == Take(s, n)
<1>1. /\ u \in UrlSet /\ s \in Text /\ Len(s) \in Nat /\ p \in Nat /\ e \in Nat
      /\ QueryEnd(u) \in Nat /\ p <= e /\ e <= QueryEnd(u)
      /\ QueryEnd(u) <= Len(s) /\ Good(u)
  BY EditPlaces DEF Parsed
<1>2. /\ u.query_start \in OptOffset
      /\ u.query_start # None => u.query_start = e /\ e < QueryEnd(u)
                                 /\ HasByte(s, e, "?")
  BY <1>1, TailFacts, GoodFacts
<1>3. q = None => n = e
  BY DEF QueryEnd, PathEnd
<1>4. n \in Nat /\ e <= n /\ n <= Len(s) /\ q \in OptOffset
  BY <1>1, <1>2 DEF OptOffset
<1>5. r \in Text /\ Len(r) = n /\ \A i \in 1..n : r[i] = s[i]
  BY <1>1, <1>4, TakeFacts
<1>6. /\ w.ser = r /\ w.path_start = p
      /\ w.query_start = q /\ w.fragment_start = None
      /\ w.scheme_end = u.scheme_end /\ w.username_end = u.username_end
      /\ w.host_start = u.host_start /\ w.host_end = u.host_end
      /\ w.host = u.host /\ w.port = u.port
  BY <1>1 DEF UrlSet, CutAt
<1>7. w \in UrlSet
  <2>1. None \in OptOffset  BY DEF OptOffset
  <2> QED  BY <1>1, <1>4, <1>5, <2>1 DEF UrlSet, CutAt
<1> HIDE DEF r, s, e, p
<1>8. SameHead(u, w)
  BY <1>1, <1>4, <1>5, <1>6 DEF SameHead, p, s
<1>9. q # None => q = e /\ e < n /\ HasByte(r, e, "?")
  <2> SUFFICES ASSUME q # None PROVE q = e /\ e < n /\ HasByte(r, e, "?")
    OBVIOUS
  <2>1. q = u.query_start /\ n = QueryEnd(u)  OBVIOUS
  <2>2. q = e /\ e < n /\ HasByte(s, e, "?")  BY <1>2, <2>1
  <2>3. e + 1 \in 1..n  BY <1>1, <1>4, <2>2
  <2>4. r[e + 1] = s[e + 1]  BY <1>5, <2>3
  <2> QED  BY <1>5, <2>2, <2>4 DEF HasByte, ByteAt
<1>10. TailCut(w)  BY <1>1, <1>6, <1>9 DEF TailCut
<1>11. PathEnd(w) = e
  BY <1>3, <1>5, <1>6, <1>9 DEF PathEnd
<1>12. Path(w) = Path(u)
  <2>1. SameElements(r, p, e, s, p, e)
    <3>1. \A i \in 1..(e - p) : r[p + i] = s[p + i]
      <4> TAKE i \in 1..(e - p)
      <4>1. p + i \in 1..n  BY <1>1, <1>4
      <4> QED  BY <1>5, <4>1
    <3> QED  BY <1>1, <1>4, <1>5, <3>1 DEF SameElements
  <2>2. Slice(r, p, e) = Slice(s, p, e)  BY <2>1, SlicesEqual
  <2> QED  BY <1>6, <1>11, <2>2 DEF Path, p, s, e
<1>13. Parsed(w)  BY <1>7, <1>8, <1>10, <1>12, SamePathParsed
<1>14. Scheme(w) = Scheme(u)
  BY <1>1, <1>8, <1>13, HeadPartsKept DEF SameFrontParts, Parsed
<1> QED
  BY <1>5, <1>6, <1>8, <1>11, <1>12, <1>13, <1>14 DEF TypeOf, r, s, e

\* The base without its fragment.
LEMMA FragmentCut ==
    ASSUME NEW u, Parsed(u)
    PROVE  LET w == WithoutFragmentOf(u)
           IN  /\ Parsed(w) /\ w.fragment_start = None /\ SameHead(u, w)
               /\ w.query_start = u.query_start
               /\ PathEnd(w) = PathEnd(u) /\ Path(w) = Path(u)
<1> DEFINE w == WithoutFragmentOf(u)
           v == [u EXCEPT !.ser = Take(u.ser, QueryEnd(u)),
                          !.query_start = u.query_start, !.fragment_start = None]
<1>1. w = v
  <2>1. u \in UrlSet  BY DEF Parsed, Good
  <2> DEFINE t == Take(u.ser, QueryEnd(u))
  <2>2. w = [u EXCEPT !.ser = t, !.fragment_start = None]
    BY DEF WithoutFragmentOf
  <2> HIDE DEF t, w
  <2>3. [u EXCEPT !.ser = t, !.fragment_start = None]
        = [u EXCEPT !.ser = t, !.query_start = u.query_start,
                    !.fragment_start = None]
    BY <2>1 DEF UrlSet
  <2> QED  BY <2>2, <2>3 DEF t
<1> DEFINE n == QueryEnd(u)
           q == u.query_start
<1>2. CutAt(u, w, n, q)  BY <1>1 DEF CutAt
<1>3. n = QueryEnd(u) /\ q = u.query_start  OBVIOUS
<1> HIDE DEF w, n, q
<1>4. /\ Parsed(w) /\ w.query_start = q /\ w.fragment_start = None
      /\ Path(w) = Path(u) /\ PathEnd(w) = PathEnd(u) /\ SameHead(u, w)
  BY <1>2, <1>3, CutParsed
<1> QED  BY <1>4 DEF w, q

\* The base without its query and fragment.
LEMMA QueryCut ==
    ASSUME NEW u, Parsed(u)
    PROVE  LET w == WithoutQueryOf(u)
           IN  /\ Parsed(w) /\ Untailed(w) /\ SameHead(u, w)
               /\ TypeOf(w) = TypeOf(u) /\ Path(w) = Path(u)
               /\ w.ser = Take(u.ser, PathEnd(u)) /\ Len(w.ser) = PathEnd(u)
<1> DEFINE w == WithoutQueryOf(u)
<1> DEFINE n == PathEnd(u)
           q == None
<1>1. CutAt(u, w, n, q)  BY DEF WithoutQueryOf, CutAt
<1>2. n = PathEnd(u) /\ q = None  OBVIOUS
<1> HIDE DEF w, n, q
<1>3. /\ Parsed(w) /\ SameHead(u, w) /\ TypeOf(w) = TypeOf(u)
      /\ w.ser = Take(u.ser, n) /\ Len(w.ser) = n
      /\ w.query_start = q /\ w.fragment_start = None
      /\ Path(w) = Path(u)
  BY <1>1, <1>2, CutParsed
<1> QED  BY <1>3 DEF w, n, q, Untailed

\* What has the head of u and a text keeps it, and so does what keeps that.
LEMMA HeadStays ==
    ASSUME NEW u, NEW v, NEW w, SameHead(u, v)
    PROVE  /\ v.ser \in Text => KeepsHead(v, u)
           /\ KeepsHead(w, v) => KeepsHead(w, u)
  BY DEF SameHead, KeepsHead, StartsAs

\* fragment_only
LEMMA FragmentParsed ==
    ASSUME NEW base, Parsed(base), NEW input \in Text, input # <<>>
    PROVE  /\ WithFragmentOf(base, input).ok
           /\ Parsed(WithFragmentOf(base, input).url)
           /\ KeepsHead(WithFragmentOf(base, input).url, base)
<1> DEFINE u == WithoutFragmentOf(base)
           s == u.ser
           n == Len(s)
           p == u.path_start
           e == PathEnd(u)
           enc == PercentEncode(Tail(input), FRAGMENT)
           hash == <<"#">> \o enc
           r == s \o hash
           w == [u EXCEPT !.ser = @ \o <<"#">> \o enc, !.fragment_start = n]
<1>1. Parsed(u) /\ u.fragment_start = None /\ SameHead(base, u)
  BY FragmentCut
<1>2. WithFragmentOf(base, input) = Ok(w)  BY DEF WithFragmentOf
<1> HIDE DEF u
<1>3. /\ u \in UrlSet /\ s \in Text /\ n \in Nat /\ p \in Nat /\ e \in Nat
      /\ p <= e /\ e <= n /\ QueryEnd(u) = n /\ Good(u)
  <2>1. QueryEnd(u) = n  BY <1>1 DEF QueryEnd
  <2> QED  BY <1>1, <2>1, EditPlaces DEF Parsed
<1>4. enc \in Text
  <2>1. Tail(input) \in Text  BY HeadTailProperties DEF Text
  <2> QED  BY <2>1, EncodeFacts, EncodeSets
<1> HIDE DEF enc, s
<1>5. <<"#">> \in Text /\ "#" \in Mark  BY OneLexeme, MarksApart DEF Mark
<1>6. /\ hash \in Text /\ Len(hash) = 1 + Len(enc) /\ Len(enc) \in Nat
      /\ hash[1] = "#"
  BY <1>4, <1>5, Delimited
<1>7. (s \o <<"#">>) \o enc = r
  BY <1>3, <1>4, <1>5, ConcatAssociative DEF Text
<1> HIDE DEF hash
<1>8. /\ r \in Text /\ Len(r) = n + Len(hash)
      /\ \A i \in 1..n : r[i] = s[i]
      /\ \A i \in 1..Len(hash) : r[n + i] = hash[i]
  BY <1>3, <1>6, ConcatFacts
<1>9. w = [u EXCEPT !.ser = r, !.fragment_start = n]  BY <1>7 DEF s
<1> HIDE DEF r, n, p, e, w
<1>10. HasByte(r, n, "#")
  <2>1. 1 \in 1..Len(hash)  BY <1>6
  <2> QED  BY <1>3, <1>6, <1>8, <2>1 DEF HasByte, ByteAt
<1>11. /\ w.ser = r /\ w.path_start = p /\ w.fragment_start = n
       /\ w.query_start = u.query_start
       /\ w.scheme_end = u.scheme_end /\ w.username_end = u.username_end
       /\ w.host_start = u.host_start /\ w.host_end = u.host_end
       /\ w.host = u.host /\ w.port = u.port
  BY <1>3, <1>9 DEF UrlSet, p
<1>12. w \in UrlSet
  <2>1. n \in OptOffset  BY <1>3 DEF OptOffset
  <2> QED  BY <1>3, <1>8, <1>9, <2>1 DEF UrlSet
<1>13. SameHead(u, w)
  BY <1>3, <1>6, <1>8, <1>11 DEF SameHead, p, s
<1>14. u.query_start # None =>
          u.query_start = e /\ e < n /\ HasByte(s, e, "?")
  BY <1>3, TailFacts DEF e, s
<1>15. u.query_start # None => HasByte(r, e, "?")
  <2> SUFFICES ASSUME u.query_start # None PROVE HasByte(r, e, "?")  OBVIOUS
  <2>1. e + 1 \in 1..n /\ e < n  BY <1>3, <1>14
  <2> QED  BY <1>3, <1>6, <1>8, <1>14, <2>1 DEF HasByte, ByteAt
<1>16. TailCut(w)
  BY <1>3, <1>10, <1>11, <1>14, <1>15 DEF TailCut
<1>17. PathEnd(w) = e
  <2>1. u.query_start = None => e = n  BY <1>1 DEF e, PathEnd, n, s
  <2>2. n # None  BY <1>3 DEF None
  <2> QED  BY <1>11, <1>14, <2>1, <2>2 DEF PathEnd
<1>18. Path(w) = Path(u)
  <2>1. SameElements(r, p, e, s, p, e)
    <3>1. \A i \in 1..(e - p) : r[p + i] = s[p + i]
      <4> TAKE i \in 1..(e - p)
      <4>1. p + i \in 1..n  BY <1>3
      <4> QED  BY <1>8, <4>1
    <3>2. e <= Len(r) /\ e <= Len(s)  BY <1>3, <1>6, <1>8 DEF n
    <3> QED  BY <1>3, <1>8, <3>1, <3>2 DEF SameElements
  <2>2. Slice(r, p, e) = Slice(s, p, e)  BY <2>1, SlicesEqual
  <2> QED  BY <1>11, <1>17, <2>2 DEF Path, p, s, e
<1>19. Parsed(w)  BY <1>1, <1>12, <1>13, <1>16, <1>18, SamePathParsed
<1>20. KeepsHead(w, u)  BY <1>8, <1>11, <1>13, HeadStays
<1>21. KeepsHead(w, base)  BY <1>1, <1>20, HeadStays
<1> QED  BY <1>2, <1>19, <1>21 DEF Ok

(****************************************************************************)
(* Heads: what stands before the path.                                      *)
(****************************************************************************)
\* What stands in either half of two texts put together.
LEMMA ConcatSlices ==
    ASSUME NEW s \in Text, NEW t \in Text
    PROVE  /\ Slice(s \o t, Len(s), Len(s) + Len(t)) = t
           /\ \A k \in Nat, m \in Nat : k <= m /\ m <= Len(s) =>
                 Slice(s \o t, k, m) = Slice(s, k, m)
<1> DEFINE r == s \o t
           n == Len(s)
<1>1. /\ r \in Text /\ Len(r) = n + Len(t) /\ n \in Nat /\ Len(t) \in Nat
      /\ \A i \in 1..n : r[i] = s[i]
      /\ \A i \in 1..Len(t) : r[n + i] = t[i]
  BY ConcatFacts, TextFacts
<1> HIDE DEF r, n
<1>2. Slice(r, n, n + Len(t)) = t
  <2>1. SameElements(r, n, n + Len(t), t, 0, Len(t))
    <3>1. \A i \in 1..(Len(t) - 0) : r[n + i] = t[0 + i]
      <4> TAKE i \in 1..(Len(t) - 0)
      <4>1. i \in 1..Len(t) /\ 0 + i = i  BY <1>1
      <4> QED  BY <1>1, <4>1
    <3>2. n + Len(t) - n = Len(t) - 0  BY <1>1
    <3> QED  BY <1>1, <3>1, <3>2 DEF SameElements
  <2>2. Slice(t, 0, Len(t)) = t  BY SliceWhole
  <2> QED  BY <2>1, <2>2, SlicesEqual
<1>3. ASSUME NEW k \in Nat, NEW m \in Nat, k <= m, m <= n
      PROVE  Slice(r, k, m) = Slice(s, k, m)
  <2>1. SameElements(r, k, m, s, k, m)
    <3>1. \A i \in 1..(m - k) : r[k + i] = s[k + i]
      <4> TAKE i \in 1..(m - k)
      <4>1. k + i \in 1..n  BY <1>1, <1>3
      <4> QED  BY <1>1, <4>1
    <3>2. m <= Len(s) /\ m <= Len(r)  BY <1>1, <1>3 DEF n
    <3> QED  BY <1>1, <1>3, <3>1, <3>2 DEF SameElements
  <2> QED  BY <2>1, SlicesEqual
<1> QED  BY <1>2, <1>3 DEF r, n

\* The second of two texts put together.
LEMMA ConcatDrop ==
    ASSUME NEW s \in Text, NEW t \in Text
    PROVE  Drop(s \o t, Len(s)) = t
<1> DEFINE r == s \o t
           n == Len(s)
<1>1. r \in Text /\ Len(r) = n + Len(t)  BY ConcatFacts
<1>2. Slice(r, n, n + Len(t)) = t  BY ConcatSlices
<1> HIDE DEF r, n
<1> QED  BY <1>1, <1>2 DEF Drop, Slice, r, n

\* What keeps a head keeps its scheme.
LEMMA KeptScheme ==
    ASSUME NEW u, Good(u), NEW w, KeepsHead(w, u)
    PROVE  Scheme(w) = Scheme(u) /\ TypeOf(w) = TypeOf(u)
<1> DEFINE a == u.scheme_end
           s == u.ser
           r == w.ser
<1>1. /\ s \in Text /\ a \in Nat /\ a < u.path_start /\ u.path_start <= Len(s)
      /\ u.path_start \in Nat /\ Len(s) \in Nat
  BY HeadPlaces
<1>2. /\ r \in Text /\ u.path_start <= Len(r) /\ w.scheme_end = a
      /\ \A i \in 1..u.path_start : r[i] = s[i]
  BY DEF KeepsHead, StartsAs
<1>3. Len(r) \in Nat  BY <1>2, TextFacts
<1>4. a <= Len(s) /\ a <= Len(r) /\ \A i \in 1..a : i \in 1..u.path_start
  BY <1>1, <1>2, <1>3
<1> HIDE DEF a, s, r
<1>5. Take(r, a) = Take(s, a)
  <2>1. \A i \in 1..a : r[i] = s[i]  BY <1>2, <1>4
  <2> QED  BY <1>1, <1>2, <1>4, <2>1, TakesEqual
<1> QED  BY <1>2, <1>5 DEF Scheme, TypeOf, a, s, r

\* s is "scheme://" and the credentials before a host, whose name ends at
\* username_end.
Credentials(s, scheme_end, username_end) ==
    \/ username_end = scheme_end + 3 /\ Len(s) = username_end
    \/ /\ username_end > scheme_end + 3
       /\ Len(s) = username_end + 1
       /\ s[username_end + 1] = "@"
    \/ /\ Len(s) >= username_end + 3
       /\ s[username_end + 1] = ":"
       /\ s[Len(s)] = "@"

BeforeHost(s, scheme_end, username_end) ==
    /\ s \in Text /\ NoSpace(s)
    /\ scheme_end \in Nat /\ username_end \in Nat
    /\ scheme_end + 3 <= username_end /\ username_end <= Len(s)
    /\ StartsWithAuthority(s, scheme_end)
    /\ Credentials(s, scheme_end, username_end)

\* text can stand as a host of that kind.
HostFits(kind, text) ==
    /\ kind \in HostKind /\ text \in Text
    /\ kind = "None" <=> text = <<>>
    /\ kind \in {"Ipv4", "Ipv6"} => text # <<>>
    /\ text # <<>> => text[1] \notin {":", "@"}
    /\ NoByte(text, "/") /\ NoSpace(text)

\* A host and a port are there where they have to be and only where they may.
HostSuits(s, scheme_end, username_end, text, port) ==
    LET type == SchemeType(Take(s, scheme_end))
    IN  /\ text = <<>> => Len(s) = username_end /\ port = None
        /\ type = "SpecialNotFile" => text # <<>>
        /\ port # None => /\ port \in PortNumber
                          /\ type # "File"
                          /\ port # default_port(Take(s, scheme_end))
        /\ type = "File" => Len(s) = scheme_end + 3

SuffixOf(port) == IF port = None THEN <<>> ELSE PortSuffix(port)

\* A serialization with an authority, as far as its path.
LEMMA AuthorityHead ==
    ASSUME NEW s, NEW a, NEW b, BeforeHost(s, a, b), NEW kind, NEW text,
           HostFits(kind, text), NEW port, HostSuits(s, a, b, text, port)
    PROVE  LET r == (s \o text) \o SuffixOf(port)
               u == UpToPath(r, a, b, Len(s), Len(s) + Len(text), kind, port)
           IN  /\ Good(u) /\ HeadApart(u) /\ Untailed(u) /\ Written(u)
               /\ u.ser = r /\ u.path_start = Len(r) /\ u.scheme_end = a
               /\ Scheme(u) = Take(s, a)
<1> DEFINE n == Len(s)
           e == n + Len(text)
           suffix == SuffixOf(port)
           front == s \o text
           r == front \o suffix
           u == UpToPath(r, a, b, n, e, kind, port)
<1>1. /\ s \in Text /\ NoSpace(s) /\ a \in Nat /\ b \in Nat /\ n \in Nat
      /\ a + 3 <= b /\ b <= n /\ text \in Text /\ Len(text) \in Nat
      /\ e \in Nat /\ n <= e
  BY TextFacts DEF BeforeHost, HostFits
<1>2. suffix \in Text /\ NoSpace(suffix)
  <2>1. <<>> \in Text /\ NoSpace(<<>>)  BY EmptySeq DEF Text, NoSpace
  <2> QED  BY <2>1, PortSuffixFacts DEF SuffixOf
<1>3. port \in PortNumber \union {None}  BY DEF HostSuits
<1>4. /\ u.ser = r /\ u.path_start = Len(r) /\ u.scheme_end = a
      /\ u.username_end = b /\ u.host_start = n /\ u.host_end = e
      /\ u.host = kind /\ u.port = port
      /\ u.query_start = None /\ u.fragment_start = None
  BY DEF UpToPath
<1> HIDE DEF front, suffix, r
<1>5. /\ front \in Text /\ Len(front) = e
      /\ \A i \in 1..n : front[i] = s[i]
      /\ \A i \in 1..Len(text) : front[n + i] = text[i]
      /\ Slice(front, n, e) = text
  BY <1>1, ConcatFacts, ConcatSlices DEF front
<1>6. /\ r \in Text /\ Len(r) = e + Len(suffix) /\ Len(suffix) \in Nat
      /\ \A i \in 1..e : r[i] = front[i]
      /\ \A i \in 1..Len(suffix) : r[e + i] = suffix[i]
      /\ Slice(r, e, Len(r)) = suffix
      /\ Slice(r, n, e) = Slice(front, n, e)
  <2>1. r = front \o suffix  BY DEF r
  <2> DEFINE t == front \o suffix
  <2>2. /\ t \in Text /\ Len(t) = Len(front) + Len(suffix)
        /\ \A i \in 1..Len(front) : t[i] = front[i]
        /\ \A i \in 1..Len(suffix) : t[Len(front) + i] = suffix[i]
    BY <1>2, <1>5, ConcatFacts
  <2>3. /\ Slice(t, Len(front), Len(front) + Len(suffix)) = suffix
        /\ \A k \in Nat, m \in Nat : k <= m /\ m <= Len(front) =>
              Slice(t, k, m) = Slice(front, k, m)
    BY <1>2, <1>5, ConcatSlices
  <2> HIDE DEF t
  <2>4. Len(suffix) \in Nat  BY <1>2, TextFacts
  <2>5. Slice(r, n, e) = Slice(front, n, e)
    <3>1. Len(front) = e /\ e <= e  BY <1>1, <1>5
    <3> HIDE DEF n, e
    <3>2. Slice(t, n, e) = Slice(front, n, e)  BY <1>1, <2>3, <3>1
    <3> QED  BY <2>1, <3>2 DEF t
  <2>6. r = t  BY <2>1 DEF t
  <2> HIDE DEF n, e
  <2> QED  BY <1>5, <2>2, <2>3, <2>4, <2>5, <2>6
<1>7. \A i \in 1..n : r[i] = s[i]
  <2> TAKE i \in 1..n
  <2>1. i \in 1..e  BY <1>1
  <2> QED  BY <1>5, <1>6, <2>1
<1>8. Take(r, a) = Take(s, a)
  <2>1. \A i \in 1..a : r[i] = s[i]
    <3> TAKE i \in 1..a
    <3>1. i \in 1..n  BY <1>1
    <3> QED  BY <1>7, <3>1
  <2>2. a <= Len(r) /\ a <= Len(s)  BY <1>1, <1>6
  <2> QED  BY <1>1, <1>6, <2>1, <2>2, TakesEqual
<1>9. TypeOf(u) = SchemeType(Take(s, a)) /\ Scheme(u) = Take(s, a)
  BY <1>4, <1>8 DEF TypeOf, Scheme
<1>10. HostText(u) = text  BY <1>4, <1>5, <1>6 DEF HostText
<1> HIDE DEF u
<1>11. u \in UrlSet
  <2>1. u = UpToPath(r, a, b, n, e, kind, port) /\ kind \in HostKind
    BY DEF u, HostFits
  <2>2. None \in OptOffset  BY DEF OptOffset
  <2>3. Len(r) \in Nat  BY <1>1, <1>6
  <2> QED  BY <1>1, <1>3, <1>6, <2>1, <2>2, <2>3 DEF UrlSet, UpToPath
<1>12. /\ HasByte(s, a, ":") /\ HasByte(s, a + 1, "/") /\ HasByte(s, a + 2, "/")
  BY DEF BeforeHost, StartsWithAuthority
<1>13. /\ r[a + 1] = ":" /\ r[a + 2] = "/" /\ r[a + 3] = "/"
  <2>1. a + 1 \in 1..n /\ a + 2 \in 1..n /\ a + 3 \in 1..n  BY <1>1
  <2>2. s[a + 1] = ":" /\ s[(a + 1) + 1] = "/" /\ s[(a + 2) + 1] = "/"
    BY <1>12 DEF HasByte, ByteAt
  <2>3. (a + 1) + 1 = a + 2 /\ (a + 2) + 1 = a + 3  BY <1>1
  <2> QED  BY <1>7, <2>1, <2>2, <2>3
<1>14. has_authority(u)
  <2>1. a < Len(r) /\ a + 1 < Len(r) /\ a + 2 < Len(r)  BY <1>1, <1>6
  <2>2. (a + 1) + 1 = a + 2 /\ (a + 2) + 1 = a + 3  BY <1>1
  <2> QED
    BY <1>4, <1>13, <2>1, <2>2
    DEF has_authority, StartsWithAuthority, HasByte, ByteAt
<1>15. HeadCut(u)
  BY <1>1, <1>4, <1>6, <1>13 DEF HeadCut, ByteAt
<1>16. TailCut(u)  BY <1>4 DEF TailCut
<1>17. AuthorityMarked(u) /\ SpecialHasAuthority(u) /\ Written(u)
  BY <1>1, <1>4, <1>14 DEF AuthorityMarked, SpecialHasAuthority, Written
<1>18. CredentialsClosed(u)
  <2>1. Credentials(s, a, b)  BY DEF BeforeHost
  <2>2. b + 1 \in 1..n => r[b + 1] = s[b + 1]  BY <1>7
  <2>3. n \in 1..n => r[n] = s[n]  BY <1>7
  <2>4. (n - 1) + 1 = n  BY <1>1
  <2> HIDE DEF n
  <2>5. CASE b = a + 3 /\ n = b
    BY <1>1, <1>4, <2>5 DEF CredentialsClosed
  <2>6. CASE b > a + 3 /\ n = b + 1 /\ s[b + 1] = "@"
    <3>1. b + 1 \in 1..n  BY <1>1, <2>6
    <3> QED  BY <1>1, <1>4, <2>2, <2>6, <3>1 DEF CredentialsClosed, ByteAt
  <2>7. CASE n >= b + 3 /\ s[b + 1] = ":" /\ s[n] = "@"
    <3>1. b + 1 \in 1..n /\ n \in 1..n  BY <1>1, <2>7
    <3> QED
      BY <1>1, <1>4, <2>2, <2>3, <2>4, <2>7, <3>1 DEF CredentialsClosed, ByteAt
  <2> QED  BY <2>1, <2>5, <2>6, <2>7 DEF Credentials, n
<1>19. HostWritten(u)
  <2>1. n < e => r[n + 1] = text[1]
    <3> SUFFICES ASSUME n < e PROVE r[n + 1] = text[1]  OBVIOUS
    <3>1. 1 \in 1..Len(text) /\ n + 1 \in 1..e  BY <1>1
    <3> QED  BY <1>5, <1>6, <3>1
  <2>2. text # <<>> <=> n < e  BY <1>1, TextFacts
  <2> QED  BY <1>4, <2>1, <2>2 DEF HostFits, HostWritten, ByteAt
<1>20. PortWritten(u)
  BY <1>4, <1>6 DEF PortWritten, suffix, SuffixOf
<1>21. HeadHasNoSpace(u)
  <2>1. ASSUME NEW i \in 1..Len(r) PROVE r[i] # "SP"
    <3>1. CASE i <= n
      <4>1. i \in 1..n  BY <1>1, <3>1
      <4> QED  BY <1>1, <1>7, <4>1 DEF NoSpace
    <3>2. CASE n < i /\ i <= e
      <4>1. i - n \in 1..Len(text) /\ i \in 1..e /\ n + (i - n) = i
        BY <1>1, <3>2
      <4>2. r[i] = text[i - n]  BY <1>5, <1>6, <4>1
      <4> QED  BY <4>1, <4>2 DEF HostFits, NoSpace
    <3>3. CASE e < i
      <4>1. i - e \in 1..Len(suffix) /\ e + (i - e) = i  BY <1>1, <1>6, <3>3
      <4>2. r[i] = suffix[i - e]  BY <1>6, <4>1
      <4> QED  BY <1>2, <4>1, <4>2 DEF NoSpace
    <3> QED  BY <1>1, <3>1, <3>2, <3>3
  <2> QED  BY <1>4, <2>1 DEF HeadHasNoSpace
<1>22. Good(u)
  BY <1>11, <1>15, <1>16, <1>17, <1>18, <1>19, <1>20, <1>21
  DEF Good, WellFormed, AuthorityIntact
<1>23. HeadApart(u)
  <2>1. text = <<>> <=> n = e  BY <1>1, TextFacts
  <2> QED
    BY <1>4, <1>9, <1>10, <2>1
    DEF HeadApart, HostFits, HostSuits, HostNamed, FileBare
<1>24. Untailed(u)  BY <1>4 DEF Untailed
<1> QED
  BY <1>4, <1>9, <1>17, <1>22, <1>23, <1>24 DEF u, r, front, suffix, n, e

\* No space in either half, no space in both.
LEMMA NoSpaceConcat ==
    ASSUME NEW s \in Text, NEW t \in Text, NoSpace(s), NoSpace(t)
    PROVE  NoSpace(s \o t)
<1> DEFINE n == Len(s)
           r == s \o t
<1>1. /\ Len(r) = n + Len(t) /\ n \in Nat /\ Len(t) \in Nat
      /\ \A i \in 1..n : r[i] = s[i]
      /\ \A i \in 1..Len(t) : r[n + i] = t[i]
  BY ConcatFacts, TextFacts
<1> HIDE DEF n, r
<1>2. ASSUME NEW i \in 1..Len(r) PROVE r[i] # "SP"
  <2>1. CASE i <= n
    <3>1. i \in 1..n  BY <1>1, <2>1
    <3> QED  BY <1>1, <3>1 DEF NoSpace, n
  <2>2. CASE i > n
    <3>1. i - n \in 1..Len(t) /\ n + (i - n) = i  BY <1>1, <2>2
    <3>2. r[i] = t[i - n]  BY <1>1, <3>1
    <3> QED  BY <3>1, <3>2 DEF NoSpace
  <2> QED  BY <1>1, <2>1, <2>2
<1> QED  BY <1>2 DEF NoSpace, r

\* Credentials are written without spaces.
LEMMA EncodedCredential ==
    ASSUME NEW t \in Text
    PROVE  LET e == PercentEncode(t, USERINFO)
           IN  e \in Text /\ Len(e) = Len(t) /\ NoSpace(e)
<1> DEFINE e == PercentEncode(t, USERINFO)
<1>1. /\ e \in Text /\ Len(e) = Len(t)
      /\ \A i \in 1..Len(t) : \/ e[i] = t[i] /\ t[i] \notin USERINFO
                              \/ e[i] \in Escape
  BY EncodeFacts, EncodeSets
<1>2. "SP" \in USERINFO /\ "SP" \notin Escape
  BY DEF USERINFO, PATH, FRAGMENT, Escape
<1> HIDE DEF e
<1>3. NoSpace(e)  BY <1>1, <1>2 DEF NoSpace
<1> QED  BY <1>1, <1>3 DEF e

\* s is "scheme://".
SchemeSlashes(s, scheme_end) ==
    /\ s \in Text /\ NoSpace(s) /\ scheme_end \in Nat
    /\ Len(s) = scheme_end + 3
    /\ StartsWithAuthority(s, scheme_end)

\* More text keeps the "scheme://" in front of it.
LEMMA SlashesKept ==
    ASSUME NEW s, NEW a, SchemeSlashes(s, a), NEW t \in Text
    PROVE  /\ s \o t \in Text /\ Len(s \o t) = Len(s) + Len(t)
           /\ StartsWithAuthority(s \o t, a)
           /\ Take(s \o t, a) = Take(s, a)
<1> DEFINE r == s \o t
<1>1. s \in Text /\ a \in Nat /\ Len(s) = a + 3 /\ Len(t) \in Nat
  BY TextFacts DEF SchemeSlashes
<1>2. /\ r \in Text /\ Len(r) = Len(s) + Len(t)
      /\ \A i \in 1..Len(s) : r[i] = s[i]
  BY <1>1, ConcatFacts
<1> HIDE DEF r
<1>3. \A i \in 0..(a + 2) : r[i + 1] = s[i + 1] /\ i < Len(r)
  <2> TAKE i \in 0..(a + 2)
  <2>1. i + 1 \in 1..Len(s) /\ i < Len(r)  BY <1>1, <1>2
  <2> QED  BY <1>2, <2>1
<1>4. a \in 0..(a + 2) /\ a + 1 \in 0..(a + 2) /\ a + 2 \in 0..(a + 2)
  BY <1>1
<1>5. StartsWithAuthority(r, a)
  BY <1>3, <1>4 DEF SchemeSlashes, StartsWithAuthority, HasByte, ByteAt
<1>6. Take(r, a) = Take(s, a)
  <2>1. \A i \in 1..a : r[i] = s[i]
    <3> TAKE i \in 1..a
    <3>1. i \in 1..Len(s)  BY <1>1
    <3> QED  BY <1>2, <3>1
  <2> QED  BY <1>1, <1>2, <2>1, TakesEqual
<1> QED  BY <1>2, <1>5, <1>6 DEF r

\* What is written for a name and, behind a ':', a password.
CredentialText(name, password) ==
    (name \o password) \o (IF name \o password = <<>> THEN <<>> ELSE <<"@">>)

\* parse_userinfo leaves credentials closed by an '@', or none.
LEMMA CredentialsWritten ==
    ASSUME NEW s, NEW a, SchemeSlashes(s, a),
           NEW name \in Text, NoSpace(name),
           NEW password \in Text, NoSpace(password),
           password # <<>> => Len(password) >= 2 /\ password[1] = ":"
    PROVE  LET r == s \o CredentialText(name, password)
           IN  BeforeHost(r, a, Len(s) + Len(name)) /\ Take(r, a) = Take(s, a)
<1> DEFINE r == s \o CredentialText(name, password)
           n == Len(s)
           b == n + Len(name)
           written == name \o password
           mark == IF written = <<>> THEN <<>> ELSE <<"@">>
           text == written \o mark
<1>1. /\ s \in Text /\ NoSpace(s) /\ a \in Nat /\ n = a + 3
      /\ Len(name) \in Nat /\ Len(password) \in Nat
      /\ password = <<>> <=> Len(password) = 0
  BY TextFacts DEF SchemeSlashes
<1>2. /\ written \in Text /\ Len(written) = Len(name) + Len(password)
      /\ \A i \in 1..Len(name) : written[i] = name[i]
      /\ \A i \in 1..Len(password) : written[Len(name) + i] = password[i]
      /\ NoSpace(written)
  BY ConcatFacts, NoSpaceConcat
<1> HIDE DEF written
<1>3. written = <<>> <=> Len(written) = 0  BY <1>2, TextFacts
<1>4. mark \in Text /\ NoSpace(mark)
      /\ IF Len(written) = 0 THEN Len(mark) = 0 ELSE Len(mark) = 1 /\ mark[1] = "@"
  <2>1. <<>> \in Text /\ Len(<<>>) = 0  BY EmptySeq DEF Text
  <2>2. <<"@">> \in Text /\ Len(<<"@">>) = 1 /\ <<"@">>[1] = "@"
    BY OneLexeme, MarksApart DEF Mark
  <2>3. NoSpace(<<>>)  BY <2>1 DEF NoSpace
  <2>4. NoSpace(<<"@">>)
    <3> DEFINE at == <<"@">>
    <3>1. at \in Text /\ Len(at) = 1 /\ at[1] = "@"  BY <2>2
    <3> HIDE DEF at
    <3>2. NoSpace(at)  BY <3>1 DEF NoSpace
    <3> QED  BY <3>2 DEF at
  <2> QED  BY <1>3, <2>1, <2>2, <2>3, <2>4
<1> HIDE DEF mark
<1>5. /\ text \in Text /\ Len(text) = Len(written) + Len(mark)
      /\ \A i \in 1..Len(written) : text[i] = written[i]
      /\ \A i \in 1..Len(mark) : text[Len(written) + i] = mark[i]
      /\ NoSpace(text)
  BY <1>2, <1>4, ConcatFacts, NoSpaceConcat
<1>6. r = s \o text  BY DEF CredentialText, written, mark
<1> HIDE DEF text
<1> DEFINE t == s \o text
<1>7. /\ t \in Text /\ Len(t) = n + Len(text)
      /\ \A i \in 1..Len(text) : t[n + i] = text[i]
      /\ NoSpace(t) /\ StartsWithAuthority(t, a) /\ Take(t, a) = Take(s, a)
  BY <1>1, <1>5, ConcatFacts, NoSpaceConcat, SlashesKept
<1> HIDE DEF t, n, r
<1>8. r = t  BY <1>6 DEF t
<1>9. Len(mark) \in Nat /\ Len(written) \in Nat /\ Len(text) \in Nat
  BY <1>2, <1>4, <1>5, TextFacts
<1>10. Credentials(t, a, b)
  <2>1. CASE Len(written) = 0
    <3>1. Len(name) = 0 /\ Len(text) = 0  BY <1>1, <1>2, <1>4, <1>5, <2>1
    <3> QED  BY <1>1, <1>7, <3>1 DEF Credentials
  <2>2. CASE Len(written) # 0
    <3>1. Len(mark) = 1 /\ mark[1] = "@"  BY <1>4, <2>2
    <3>2. 1 \in 1..Len(mark) /\ Len(written) + 1 \in 1..Len(text)
      BY <1>5, <1>9, <3>1
    <3>3. text[Len(written) + 1] = "@"  BY <1>5, <3>1, <3>2
    <3>4. t[n + (Len(written) + 1)] = "@"  BY <1>7, <3>2, <3>3
    <3>5. Len(t) = n + (Len(written) + 1)  BY <1>1, <1>5, <1>7, <1>9, <3>1
    <3>6. CASE password = <<>>
      <4>1. Len(written) = Len(name) /\ n + (Len(written) + 1) = b + 1
        BY <1>1, <1>2, <3>6
      <4>2. b > a + 3  BY <1>1, <2>2, <4>1
      <4> QED  BY <3>4, <3>5, <4>1, <4>2 DEF Credentials
    <3>7. CASE Len(password) >= 2 /\ password[1] = ":"
      <4>1. /\ 1 \in 1..Len(password) /\ Len(name) + 1 \in 1..Len(written)
            /\ Len(name) + 1 \in 1..Len(text)
        BY <1>1, <1>2, <1>5, <1>9, <3>7
      <4>2. text[Len(name) + 1] = ":"  BY <1>2, <1>5, <3>7, <4>1
      <4>3. t[n + (Len(name) + 1)] = ":"  BY <1>7, <4>1, <4>2
      <4>4. n + (Len(name) + 1) = b + 1  BY <1>1
      <4>5. Len(t) >= b + 3  BY <1>1, <1>2, <1>9, <3>5, <3>7
      <4> QED  BY <3>4, <3>5, <4>3, <4>4, <4>5 DEF Credentials
    <3> QED  BY <3>6, <3>7
  <2> QED  BY <2>1, <2>2
<1>11. b \in Nat /\ a + 3 <= b /\ b <= Len(t)
  BY <1>1, <1>2, <1>5, <1>7, <1>9
<1>12. BeforeHost(t, a, b)
  BY <1>1, <1>7, <1>10, <1>11 DEF BeforeHost
<1> QED  BY <1>7, <1>8, <1>12 DEF n, r

\* parse_userinfo
LEMMA UserinfoRead ==
    ASSUME NEW s, NEW a, SchemeSlashes(s, a), NEW input \in Text, NEW type,
           ParseUserinfo(s, input, type).ok
    PROVE  LET p == ParseUserinfo(s, input, type)
           IN  /\ BeforeHost(p.s, a, p.username_end)
               /\ Take(p.s, a) = Take(s, a) /\ p.rest \in Text
<1> DEFINE end == Find(input, Separators(type) \union {"?", "#"})
           ats == {i \in 1..end : input[i] = "@"}
           at == Max(ats)
           info == Take(input, at - 1)
           rest == Drop(input, at)
           colon == Find(info, {":"})
           name == PercentEncode(Take(info, colon), USERINFO)
           secret == PercentEncode(Drop(info, colon + 1), USERINFO)
           password == IF colon + 1 < Len(info) THEN <<":">> \o secret ELSE <<>>
           written == name \o password
           text == CredentialText(name, password)
           p == ParseUserinfo(s, input, type)
<1>1. end \in Nat /\ end <= Len(input)  BY FindFacts
<1>2. s \in Text /\ Len(s) \in Nat /\ Len(s) = a + 3 /\ a \in Nat
  BY TextFacts DEF SchemeSlashes
<1>3. CASE ats = {}
  <2>1. p.s = s /\ p.username_end = Len(s) /\ p.rest = input
    BY <1>3 DEF ParseUserinfo
  <2>2. BeforeHost(s, a, Len(s))
    BY <1>2 DEF BeforeHost, SchemeSlashes, Credentials
  <2> HIDE DEF p
  <2> QED  BY <2>1, <2>2 DEF p
<1>4. CASE ats # {}
  <2>1. at \in 1..end
    <3>1. ats \subseteq Int /\ end \in Int /\ \A t \in ats : t <= end
      BY <1>1
    <3>2. Max(ats) \in ats
      <4> HIDE DEF ats, end
      <4> QED  BY <1>4, <3>1, MaxFacts
    <3> QED  BY <3>2
  <2>2. p = [ok |-> TRUE,
             s |-> (s \o written) \o (IF written = <<>> THEN <<>> ELSE <<"@">>),
             username_end |-> Len(s) + Len(name), rest |-> rest]
    BY <1>4 DEF ParseUserinfo, Err
  <2>3. info \in Text /\ rest \in Text
    <3>1. at - 1 \in Nat /\ at - 1 <= Len(input) /\ at \in Nat
          /\ at <= Len(input) /\ Len(input) \in Nat
      BY <1>1, <2>1, TextFacts
    <3> HIDE DEF at
    <3> QED  BY <3>1, TakeFacts, DropFacts
  <2> HIDE DEF info, rest, p
  <2>4. colon \in Nat /\ colon <= Len(info) /\ Len(info) \in Nat
    BY <2>3, FindFacts, TextFacts
  <2>5. Take(info, colon) \in Text  BY <2>3, <2>4, TakeFacts
  <2>6. name \in Text /\ NoSpace(name)  BY <2>5, EncodedCredential
  <2>7. password \in Text /\ NoSpace(password)
        /\ (password # <<>> => Len(password) >= 2 /\ password[1] = ":")
    <3>1. CASE colon + 1 < Len(info)
      <4>1. Drop(info, colon + 1) \in Text
            /\ Len(Drop(info, colon + 1)) = Len(info) - (colon + 1)
        BY <2>3, <2>4, <3>1, DropFacts
      <4>2. secret \in Text /\ Len(secret) >= 1 /\ NoSpace(secret)
        BY <2>4, <3>1, <4>1, EncodedCredential
      <4>3. ":" \in Mark  BY DEF Mark
      <4> HIDE DEF secret
      <4>4. /\ <<":">> \o secret \in Text /\ Len(<<":">> \o secret) = 1 + Len(secret)
            /\ (<<":">> \o secret)[1] = ":"
        BY <4>2, <4>3, Delimited
      <4>5. Len(secret) \in Nat  BY <4>2, TextFacts
      <4>6. NoSpace(<<":">> \o secret)
        <5> DEFINE c == <<":">>
        <5>1. c \in Text /\ Len(c) = 1 /\ c[1] = ":"
          BY <4>3, OneLexeme, MarksApart
        <5> HIDE DEF c
        <5>2. NoSpace(c)  BY <5>1 DEF NoSpace
        <5>3. NoSpace(c \o secret)  BY <4>2, <5>1, <5>2, NoSpaceConcat
        <5> QED  BY <5>3 DEF c
      <4> QED  BY <3>1, <4>2, <4>4, <4>5, <4>6
    <3>2. CASE ~(colon + 1 < Len(info))
      <4>1. password = <<>>  BY <3>2
      <4>2. <<>> \in Text  BY EmptySeq DEF Text
      <4> QED  BY <4>1, <4>2 DEF NoSpace
    <3> QED  BY <3>1, <3>2
  <2> HIDE DEF name, password
  <2>8. written \in Text  BY <2>6, <2>7, ConcatFacts
  <2>9. p.s = s \o text
    <3> DEFINE mark == IF written = <<>> THEN <<>> ELSE <<"@">>
    <3>1. mark \in Text
      <4>1. <<>> \in Text  BY EmptySeq DEF Text
      <4>2. <<"@">> \in Text  BY OneLexeme, MarksApart DEF Mark
      <4> QED  BY <4>1, <4>2
    <3>2. p.s = (s \o written) \o mark  BY <2>2
    <3>3. text = written \o mark  BY DEF CredentialText
    <3> HIDE DEF written, mark, text
    <3>4. (s \o written) \o mark = s \o (written \o mark)
      BY <1>2, <2>8, <3>1, ConcatAssociative DEF Text
    <3> QED  BY <3>2, <3>3, <3>4
  <2>10. p.username_end = Len(s) + Len(name) /\ p.rest = rest  BY <2>2
  <2>11. /\ BeforeHost(s \o text, a, Len(s) + Len(name))
         /\ Take(s \o text, a) = Take(s, a)
    BY <2>6, <2>7, CredentialsWritten
  <2> QED  BY <2>3, <2>9, <2>10, <2>11 DEF p
<1> QED  BY <1>3, <1>4

\* The host of a URL that is not a file URL: a special URL has one, and
\* without one there is no port.
LEMMA HostRead ==
    ASSUME NEW input \in Text, NEW end \in Nat, end <= Len(input), NEW type,
           HostUpTo(end, input, type).ok
    PROVE  LET h == HostUpTo(end, input, type)
           IN  /\ HostLike(h) /\ h.rest \in Text
               /\ IsSpecialType(type) => h.text # <<>>
               /\ FirstIn(h.rest, {":"}) => h.text # <<>>
<1> DEFINE front == Take(input, end)
           rest == Drop(input, end)
           host == HostParser(type, front)
           h == HostUpTo(end, input, type)
<1>1. front \in Text /\ rest \in Text /\ Len(rest) = Len(input) - end
      /\ \A i \in 1..(Len(input) - end) : rest[i] = input[end + i]
  BY TakeFacts, DropFacts
<1>2. /\ host.ok
      /\ host.text = <<>> => ~HasByte(input, end, ":") /\ ~IsSpecialType(type)
      /\ h = HostBefore(host, rest)
  BY DEF HostUpTo, Try, Err
<1>3. HostLike(host)  BY <1>1, <1>2, ParsedHost
<1> HIDE DEF host, rest, front, h
<1>4. h.kind = host.kind /\ h.text = host.text /\ h.rest = rest
  BY <1>2 DEF HostBefore
<1>5. FirstIn(rest, {":"}) => HasByte(input, end, ":")
  <2> SUFFICES ASSUME FirstIn(rest, {":"}) PROVE HasByte(input, end, ":")
    OBVIOUS
  <2>1. Len(rest) >= 1 /\ rest[1] = ":" /\ Len(input) \in Nat
    BY <1>1, FirstFacts, TextFacts
  <2>2. 1 \in 1..(Len(input) - end) /\ end < Len(input)  BY <1>1, <2>1
  <2> QED  BY <1>1, <2>1, <2>2 DEF HasByte, ByteAt
<1>6. HostLike(h)  BY <1>3, <1>4 DEF HostLike
<1> QED  BY <1>1, <1>2, <1>4, <1>5, <1>6 DEF h

\* A port, if there is one, is not the scheme's default.
LEMMA OptionalPortRead ==
    ASSUME NEW input \in Text, NEW default, OptionalPort(input, default).ok
    PROVE  LET p == OptionalPort(input, default)
           IN  /\ p.port \in PortNumber \union {None} /\ p.rest \in Text
               /\ p.port # None => p.port # default /\ FirstIn(input, {":"})
<1> DEFINE p == OptionalPort(input, default)
<1>1. CASE FirstIn(input, {":"})
  <2>1. Tail(input) \in Text  BY <1>1, FirstFacts
  <2>2. p = ParsePort(Tail(input), default)  BY <1>1 DEF OptionalPort
  <2> DEFINE t == Tail(input)
  <2> HIDE DEF t
  <2>3. t \in Text /\ p = ParsePort(t, default) /\ p.ok  BY <2>1, <2>2 DEF t
  <2> HIDE DEF p
  <2>4. /\ p.port \in PortNumber \union {None}
        /\ p.port # None => p.port # default
        /\ p.rest \in Text
    BY <2>3, ParsedPort
  <2> QED  BY <1>1, <2>4 DEF p
<1>2. CASE ~FirstIn(input, {":"})
  BY <1>2 DEF OptionalPort
<1> QED  BY <1>1, <1>2

\* A host that was parsed can stand behind credentials.
LEMMA HostLikeFits ==
    ASSUME NEW h, HostLike(h)
    PROVE  HostFits(h.kind, h.text)
<1>1. /\ h.text \in Text /\ Len(h.text) \in Nat
      /\ h.text = <<>> <=> Len(h.text) = 0
  BY TextFacts DEF HostLike
<1>2. h.text # <<>> => 1 \in 1..Len(h.text)  BY <1>1
<1> QED  BY <1>2 DEF HostLike, HostFits, NoByte, NoSpace

\* What parse_host_and_port appends to s: text and, with a host, a port.
HostPortRead(p, s, text, type, default) ==
    /\ HostFits(p.host, text)
    /\ p.host = "None" <=> text = <<>>
    /\ IsSpecialType(type) => text # <<>>
    /\ p.port # None => p.port \in PortNumber /\ p.port # default /\ text # <<>>
    /\ p.s = (s \o text) \o SuffixOf(p.port)
    /\ p.host_end = Len(s) + Len(text)
    /\ p.rest \in Text

\* parse_host_and_port: what it appends is one host and one port.
LEMMA HostAndPortRead ==
    ASSUME NEW s, NEW a, NEW input \in Text, NEW type,
           ParseHostAndPort(s, input, a, type).ok
    PROVE  \E text \in Text :
              HostPortRead(ParseHostAndPort(s, input, a, type), s, text, type,
                           default_port(Take(s, a)))
<1> DEFINE end == Find(input, Separators(type) \union {":", "?", "#"})
           host == HostUpTo(end, input, type)
           default == default_port(Take(s, a))
           port == OptionalPort(host.rest, default)
           p == ParseHostAndPort(s, input, a, type)
<1>1. end \in Nat /\ end <= Len(input)  BY FindFacts
<1>2. /\ host.ok /\ port.ok
      /\ p = [ok |-> TRUE, rest |-> port.rest, host |-> host.kind,
              port |-> port.port, host_end |-> Len(s) + Len(host.text),
              s |-> s \o host.text
                      \o (IF port.port = None THEN <<>>
                          ELSE PortSuffix(port.port))]
  BY DEF ParseHostAndPort, Try
<1> HIDE DEF end
<1>3. /\ HostLike(host) /\ host.rest \in Text
      /\ IsSpecialType(type) => host.text # <<>>
      /\ FirstIn(host.rest, {":"}) => host.text # <<>>
  BY <1>1, <1>2, HostRead
<1> HIDE DEF host, default
<1>4. /\ port.port \in PortNumber \union {None} /\ port.rest \in Text
      /\ port.port # None => port.port # default /\ FirstIn(host.rest, {":"})
  BY <1>2, <1>3, OptionalPortRead
<1>5. HostFits(host.kind, host.text)  BY <1>3, HostLikeFits
<1> HIDE DEF port, p
<1>6. /\ p.rest = port.rest /\ p.host = host.kind /\ p.port = port.port
      /\ p.host_end = Len(s) + Len(host.text)
      /\ p.s = (s \o host.text) \o SuffixOf(port.port)
  BY <1>2 DEF SuffixOf
<1>7. HostPortRead(p, s, host.text, type, default)
  BY <1>3, <1>4, <1>5, <1>6 DEF HostPortRead, HostLike
<1>8. host.text \in Text  BY <1>3 DEF HostLike
<1> QED  BY <1>7, <1>8 DEF p, default

\* No '/' stands in a port.
LEMMA SuffixWithoutSlash ==
    ASSUME NEW port
    PROVE  SuffixOf(port) \in Text /\ NoByte(SuffixOf(port), "/")
<1>1. CASE port = None
  <2>1. <<>> \in Text /\ SuffixOf(port) = <<>>
    BY <1>1, EmptySeq DEF Text, SuffixOf
  <2> QED  BY <2>1 DEF NoByte
<1>2. CASE port # None
  <2> DEFINE digits == Decimal(port)
  <2>1. \A d : DigitLexeme(d) \in Digit  BY DEF DigitLexeme, Digit
  <2>2. digits \in Seq(Digit)  BY <2>1, DecimalType
  <2>3. digits \in Text
    <3>1. \A d : DigitLexeme(d) \in Lexeme  BY <2>1, MarksApart
    <3> QED  BY <3>1, DecimalType DEF Text
  <2> HIDE DEF digits
  <2>4. \A i \in 1..Len(digits) : digits[i] # "/"
    <3>1. "/" \notin Digit  BY DEF Digit
    <3> QED  BY <2>2, <3>1, ElementOfSeq
  <2> DEFINE t == <<":">> \o digits
  <2>5. ":" \in Mark  BY DEF Mark
  <2>6. /\ t \in Text /\ Len(t) = 1 + Len(digits) /\ Len(digits) \in Nat
        /\ t[1] = ":" /\ \A i \in 1..Len(digits) : t[1 + i] = digits[i]
    BY <2>3, <2>5, Delimited
  <2>7. SuffixOf(port) = t  BY <1>2 DEF SuffixOf, PortSuffix, digits
  <2> HIDE DEF t
  <2>8. ASSUME NEW i \in 1..Len(t) PROVE t[i] # "/"
    <3>1. CASE i = 1  BY <2>6, <3>1
    <3>2. CASE i # 1
      <4>1. i - 1 \in 1..Len(digits) /\ 1 + (i - 1) = i  BY <2>6, <3>2
      <4>2. t[i] = digits[i - 1]  BY <2>6, <4>1
      <4> QED  BY <2>4, <4>1, <4>2
    <3> QED  BY <3>1, <3>2
  <2> QED  BY <2>6, <2>7, <2>8 DEF NoByte
<1> QED  BY <1>1, <1>2

\* A host, with or without a port, does not end in a '/'.
LEMMA EndsWithHost ==
    ASSUME NEW s \in Text, NEW text \in Text, NEW port, text # <<>>,
           NoByte(text, "/")
    PROVE  /\ (s \o text) \o SuffixOf(port) \in Text
           /\ ~EndsWith((s \o text) \o SuffixOf(port), "/")
<1> DEFINE suffix == SuffixOf(port)
           front == s \o text
           r == front \o suffix
<1>1. suffix \in Text /\ NoByte(suffix, "/")  BY SuffixWithoutSlash
<1>2. Len(s) \in Nat /\ Len(text) \in Nat /\ Len(text) # 0 /\ Len(suffix) \in Nat
  BY <1>1, TextFacts
<1> HIDE DEF suffix
<1>3. /\ front \in Text /\ Len(front) = Len(s) + Len(text)
      /\ \A i \in 1..Len(text) : front[Len(s) + i] = text[i]
  BY ConcatFacts
<1> HIDE DEF front
<1>4. /\ r \in Text /\ Len(r) = Len(front) + Len(suffix)
      /\ \A i \in 1..Len(front) : r[i] = front[i]
      /\ \A i \in 1..Len(suffix) : r[Len(front) + i] = suffix[i]
  BY <1>1, <1>3, ConcatFacts
<1> HIDE DEF r
<1>5. CASE Len(suffix) = 0
  <2>1. /\ Len(text) \in 1..Len(text) /\ Len(r) = Len(s) + Len(text)
        /\ Len(r) \in 1..Len(front)
    BY <1>2, <1>3, <1>4, <1>5
  <2>2. r[Len(r)] = text[Len(text)]  BY <1>3, <1>4, <2>1
  <2> QED  BY <1>4, <2>1, <2>2 DEF EndsWith, NoByte, r, front, suffix
<1>6. CASE Len(suffix) # 0
  <2>1. Len(suffix) \in 1..Len(suffix)  BY <1>2, <1>6
  <2>2. r[Len(r)] = suffix[Len(suffix)]  BY <1>4, <2>1
  <2>3. suffix[Len(suffix)] # "/"  BY <1>1, <2>1 DEF NoByte
  <2>4. ~EndsWith(r, "/")  BY <2>2, <2>3 DEF EndsWith
  <2> QED  BY <1>4, <2>4 DEF r, front, suffix
<1> QED  BY <1>5, <1>6

\* s is "scheme:".
SchemeColon(s, scheme_end) ==
    /\ s \in Text /\ NoSpace(s) /\ scheme_end \in Nat
    /\ Len(s) = scheme_end + 1 /\ s[scheme_end + 1] = ":"

\* "//" put behind "scheme:".
LEMMA SlashesAdded ==
    ASSUME NEW s, NEW a, SchemeColon(s, a)
    PROVE  LET t == s \o <<"/", "/">>
           IN  SchemeSlashes(t, a) /\ Take(t, a) = Take(s, a)
<1> DEFINE two == <<"/", "/">>
           t == s \o two
<1>1. /\ s \in Text /\ NoSpace(s) /\ a \in Nat /\ Len(s) = a + 1
      /\ s[a + 1] = ":"
  BY DEF SchemeColon
<1>2. two \in Text /\ Len(two) = 2 /\ two[1] = "/" /\ two[2] = "/"
  <2>1. "/" \in Lexeme  BY MarksApart DEF Mark
  <2> QED  BY <2>1 DEF Text
<1> HIDE DEF two
<1>3. NoSpace(two)
  <2>1. \A i \in 1..2 : i = 1 \/ i = 2  OBVIOUS
  <2> QED  BY <1>2, <2>1 DEF NoSpace
<1>4. /\ t \in Text /\ Len(t) = a + 3 /\ NoSpace(t)
      /\ \A i \in 1..(a + 1) : t[i] = s[i]
      /\ \A i \in 1..2 : t[(a + 1) + i] = two[i]
  <2>1. /\ t \in Text /\ Len(t) = Len(s) + Len(two)
        /\ \A i \in 1..Len(s) : t[i] = s[i]
        /\ \A i \in 1..Len(two) : t[Len(s) + i] = two[i]
        /\ NoSpace(t)
    BY <1>1, <1>2, <1>3, ConcatFacts, NoSpaceConcat
  <2> HIDE DEF t
  <2> QED  BY <1>1, <1>2, <2>1
<1> HIDE DEF t
<1>5. /\ t[a + 1] = ":" /\ t[(a + 1) + 1] = "/" /\ t[(a + 2) + 1] = "/"
  <2>1. a + 1 \in 1..(a + 1) /\ (a + 1) + 2 = (a + 2) + 1
        /\ 1 \in 1..2 /\ 2 \in 1..2
    BY <1>1
  <2>2. t[(a + 1) + 1] = two[1] /\ t[(a + 1) + 2] = two[2]
    BY <1>4, <2>1
  <2> QED  BY <1>1, <1>2, <1>4, <2>1, <2>2
<1>6. StartsWithAuthority(t, a)
  BY <1>1, <1>4, <1>5 DEF StartsWithAuthority, HasByte, ByteAt
<1>7. Take(t, a) = Take(s, a)
  <2>1. \A i \in 1..a : t[i] = s[i]
    <3> TAKE i \in 1..a
    <3>1. i \in 1..(a + 1)  BY <1>1
    <3> QED  BY <1>4, <3>1
  <2> QED  BY <1>1, <1>4, <2>1, TakesEqual
<1> QED  BY <1>1, <1>4, <1>6, <1>7 DEF SchemeSlashes, t, two

\* after_double_slash
LEMMA AuthorityParsed ==
    ASSUME NEW s, NEW a, SchemeColon(s, a), NEW input \in Text,
           NEW type, type = SchemeType(Take(s, a)), type # "File",
           AfterDoubleSlash(s, input, type, a).ok
    PROVE  /\ Parsed(AfterDoubleSlash(s, input, type, a).url)
           /\ Scheme(AfterDoubleSlash(s, input, type, a).url) = Take(s, a)
<1> DEFINE start == s \o <<"/", "/">>
           user == ParseUserinfo(start, input, type)
           host == ParseHostAndPort(user.s, user.rest, a, type)
           u == UpToPath(host.s, a, user.username_end, Len(user.s),
                         host.host_end, host.host, host.port)
           path == ParsePathStart(host.s, type, TRUE, host.rest, "UrlParser")
           result == AfterDoubleSlash(s, input, type, a)
<1>1. /\ user.ok /\ host.ok
      /\ ~(host.host = "None" /\ Len(user.s) # Len(start))
      /\ result = FinishPath(u, path)
  BY DEF AfterDoubleSlash, Try, Err
<1>2. SchemeSlashes(start, a) /\ Take(start, a) = Take(s, a)
  BY SlashesAdded
<1> HIDE DEF start, result
<1>3. /\ BeforeHost(user.s, a, user.username_end)
      /\ Take(user.s, a) = Take(s, a) /\ user.rest \in Text
  BY <1>1, <1>2, UserinfoRead
<1> HIDE DEF user
<1>4. PICK text \in Text : HostPortRead(host, user.s, text, type,
                                        default_port(Take(user.s, a)))
  BY <1>1, <1>3, HostAndPortRead
<1> HIDE DEF host
<1>5. /\ HostFits(host.host, text)
      /\ host.host = "None" <=> text = <<>>
      /\ IsSpecialType(type) => text # <<>>
      /\ host.port # None => /\ host.port \in PortNumber /\ text # <<>>
                             /\ host.port # default_port(Take(s, a))
      /\ host.s = (user.s \o text) \o SuffixOf(host.port)
      /\ host.host_end = Len(user.s) + Len(text) /\ host.rest \in Text
  BY <1>3, <1>4 DEF HostPortRead
<1>6. HostSuits(user.s, a, user.username_end, text, host.port)
  <2>1. ASSUME text = <<>>
        PROVE  Len(user.s) = user.username_end /\ host.port = None
    <3>1. Len(user.s) = a + 3
      BY <1>1, <1>2, <1>5, <2>1 DEF SchemeSlashes
    <3> QED  BY <1>3, <1>5, <2>1, <3>1, TextFacts DEF BeforeHost
  <2> QED  BY <1>3, <1>5, <2>1 DEF HostSuits, IsSpecialType
<1>7. /\ Good(u) /\ HeadApart(u) /\ Untailed(u) /\ Written(u)
      /\ u.ser = host.s /\ u.path_start = Len(host.s)
      /\ Scheme(u) = Take(s, a)
  <2> DEFINE f == user.s
             b == user.username_end
             kind == host.host
             port == host.port
             r == (f \o text) \o SuffixOf(port)
             v == UpToPath(r, a, b, Len(f), Len(f) + Len(text), kind, port)
  <2>1. u = v /\ host.s = r  BY <1>5
  <2>2. /\ BeforeHost(f, a, b) /\ HostFits(kind, text)
        /\ HostSuits(f, a, b, text, port)
    BY <1>3, <1>5, <1>6
  <2> HIDE DEF f, b, kind, port
  <2>3. /\ Good(v) /\ HeadApart(v) /\ Untailed(v) /\ Written(v)
        /\ v.ser = r /\ v.path_start = Len(r)
        /\ Scheme(v) = Take(f, a)
    BY <2>2, AuthorityHead
  <2>4. Take(f, a) = Take(s, a)  BY <1>3 DEF f
  <2> HIDE DEF u, v, r
  <2> QED  BY <2>1, <2>3, <2>4
<1>8. host.s \in Text /\ (IsSpecialType(type) => ~EndsWith(host.s, "/"))
  <2>1. user.s \in Text  BY <1>3 DEF BeforeHost
  <2>4. text \in Text /\ NoByte(text, "/")  BY <1>5 DEF HostFits
  <2>2. host.s \in Text  BY <1>7, GoodFacts
  <2>3. text # <<>> => ~EndsWith(host.s, "/")  BY <1>5, <2>1, <2>4, EndsWithHost
  <2> QED  BY <1>5, <2>2, <2>3
<1>9. /\ path.rest \in Text
      /\ StartsAs(path.s, host.s, Len(host.s))
      /\ path.s = host.s \/ RootedAt(path.s, Len(host.s))
      /\ IsSpecialType(type) => RootedAt(path.s, Len(host.s))
      /\ Tidy(path.s, Len(host.s))
  <2> DEFINE c == TRUE
             context == "UrlParser"
             rest == host.rest
             t == host.s
  <2>1. c \in BOOLEAN /\ context \in {"UrlParser", "Setter"}  OBVIOUS
  <2>2. path = ParsePathStart(t, type, c, rest, context)
    OBVIOUS
  <2>3. t \in Text /\ rest \in Text /\ (IsSpecialType(type) => ~EndsWith(t, "/"))
    BY <1>5, <1>8
  <2> HIDE DEF c, path, context, t, rest
  <2>4. /\ path.rest \in Text
        /\ StartsAs(path.s, t, Len(t))
        /\ ~IsSpecialType(type) => path.s = t \/ RootedAt(path.s, Len(t))
        /\ IsSpecialType(type) => RootedAt(path.s, Len(t))
        /\ Tidy(path.s, Len(t))
    BY <2>1, <2>2, <2>3, PathStartReads
  <2> QED  BY <2>4 DEF t
<1> HIDE DEF u, path
<1>10. PathFits(u, path.s)
  BY <1>7, <1>9 DEF PathFits, IsSpecial, TypeOf
<1>11. Parsed(result.url) /\ KeepsHead(result.url, u)
  BY <1>1, <1>7, <1>9, <1>10, FinishPathParsed
<1> HIDE DEF result
<1>12. Scheme(result.url) = Scheme(u)  BY <1>7, <1>11, KeptScheme
<1> QED  BY <1>7, <1>11, <1>12 DEF result

\* A serialization without an authority, as far as its path.
LEMMA BareHead ==
    ASSUME NEW s, NEW a, SchemeColon(s, a), SchemeType(Take(s, a)) = "NotSpecial"
    PROVE  LET u == UpToPath(s, a, a + 1, a + 1, a + 1, "None", None)
           IN  /\ Good(u) /\ HeadApart(u) /\ Untailed(u)
               /\ u.ser = s /\ u.path_start = a + 1 /\ u.scheme_end = a
               /\ ~IsSpecial(u)
<1> DEFINE u == UpToPath(s, a, a + 1, a + 1, a + 1, "None", None)
<1>1. /\ s \in Text /\ NoSpace(s) /\ a \in Nat /\ Len(s) = a + 1
      /\ s[a + 1] = ":"
  BY DEF SchemeColon
<1>2. /\ u.ser = s /\ u.path_start = a + 1 /\ u.scheme_end = a
      /\ u.username_end = a + 1 /\ u.host_start = a + 1 /\ u.host_end = a + 1
      /\ u.host = "None" /\ u.port = None
      /\ u.query_start = None /\ u.fragment_start = None
  BY <1>1 DEF UpToPath
<1>3. u \in UrlSet
  <2>1. None \in OptOffset /\ "None" \in HostKind  BY DEF OptOffset, HostKind
  <2> QED  BY <1>1, <2>1 DEF UrlSet, UpToPath
<1> HIDE DEF u
<1>4. ~IsSpecial(u) /\ TypeOf(u) = "NotSpecial"
  BY <1>2 DEF IsSpecial, TypeOf, IsSpecialType, Scheme
<1>5. HeadCut(u) /\ TailCut(u)  BY <1>1, <1>2 DEF HeadCut, TailCut, ByteAt
<1>6. /\ Slice(u.ser, u.host_end, u.path_start) = <<>> /\ HostText(u) = <<>>
  <2>1. a + 1 \in Nat /\ a + 1 <= Len(s)  BY <1>1
  <2>2. Slice(s, a + 1, a + 1) = <<>>
    <3> DEFINE k == a + 1
    <3> HIDE DEF k
    <3>1. k \in Nat /\ k <= Len(s) /\ k <= k  BY <2>1 DEF k
    <3>2. Slice(s, k, k) = <<>>  BY <1>1, <3>1, SliceEmpty
    <3> QED  BY <3>2 DEF k
  <2> QED  BY <1>2, <2>2 DEF HostText
<1>7. AuthorityIntact(u)
  <2>1. AuthorityMarked(u) /\ SpecialHasAuthority(u) /\ CredentialsClosed(u)
    BY <1>1, <1>2, <1>4
    DEF AuthorityMarked, SpecialHasAuthority, CredentialsClosed
  <2>2. HostWritten(u) /\ PortWritten(u)
    BY <1>1, <1>2, <1>6 DEF HostWritten, PortWritten
  <2>3. HeadHasNoSpace(u)  BY <1>1, <1>2 DEF HeadHasNoSpace, NoSpace
  <2> QED  BY <2>1, <2>2, <2>3 DEF AuthorityIntact
<1>8. HeadApart(u)
  BY <1>2, <1>4, <1>6 DEF HeadApart, HostNamed, FileBare, NoByte
<1> QED
  BY <1>2, <1>3, <1>4, <1>5, <1>7, <1>8 DEF Good, WellFormed, Untailed, u

\* ':' put behind a scheme.
LEMMA ColonAdded ==
    ASSUME NEW scheme \in Text, NoSpace(scheme)
    PROVE  LET s == Append(scheme, ":")
           IN  SchemeColon(s, Len(scheme)) /\ Take(s, Len(scheme)) = scheme
<1> DEFINE s == Append(scheme, ":")
           n == Len(scheme)
<1>1. n \in Nat /\ ":" \in Lexeme  BY TextFacts, MarksApart DEF Mark
<1>2. /\ s \in Text /\ Len(s) = n + 1
      /\ \A i \in 1..n : s[i] = scheme[i]
      /\ s[n + 1] = ":"
  BY <1>1, AppendFacts
<1> HIDE DEF s
<1>3. NoSpace(s)
  <2> SUFFICES ASSUME NEW i \in 1..Len(s) PROVE s[i] # "SP"  BY DEF NoSpace
  <2>1. CASE i = n + 1  BY <1>2, <2>1
  <2>2. CASE i # n + 1
    <3>1. i \in 1..n  BY <1>1, <1>2, <2>2
    <3> QED  BY <1>2, <3>1 DEF NoSpace
  <2> QED  BY <2>1, <2>2
<1>4. Take(s, n) = scheme
  <2>1. n <= Len(s) /\ n <= Len(scheme) /\ \A i \in 1..n : s[i] = scheme[i]
    BY <1>1, <1>2
  <2>2. Take(s, n) = Take(scheme, n)
    <3> HIDE DEF n
    <3> QED  BY <1>1, <1>2, <2>1, TakesEqual
  <2>3. Take(scheme, n) = scheme  BY SubSeqFull DEF Take, Text
  <2> QED  BY <2>2, <2>3
<1> QED  BY <1>1, <1>2, <1>3, <1>4 DEF SchemeColon, s

\* What stands behind two slashes.
LEMMA SlashesDropped ==
    ASSUME NEW input \in Text, StartsWith(input, <<"/", "/">>)
    PROVE  Drop(input, 2) \in Text
<1>1. Len(input) \in Nat  BY TextFacts
<1>2. Len(<<"/", "/">>) <= Len(input)  BY DEF StartsWith, IsPrefix
<1>3. Len(<<"/", "/">>) = 2  OBVIOUS
<1>4. 2 \in Nat /\ 2 <= Len(input)  BY <1>2, <1>3
<1> QED  BY <1>4, DropFacts

\* parse_non_special
LEMMA NonSpecialParsed ==
    ASSUME NEW scheme \in Text, NoSpace(scheme), NEW input \in Text,
           SchemeType(scheme) = "NotSpecial", ParseNonSpecial(scheme, input).ok
    PROVE  Parsed(ParseNonSpecial(scheme, input).url)
<1> DEFINE s == Append(scheme, ":")
           a == Len(scheme)
           n == Len(s)
           u == UpToPath(s, a, n, n, n, "None", None)
           rooted == ParsePath(Append(s, "/"), "NotSpecial", FALSE, n,
                               Tail(input), "UrlParser")
           opaque == ParseCannotBeABasePath(s, input, "UrlParser")
           result == ParseNonSpecial(scheme, input)
<1>1. SchemeColon(s, a) /\ Take(s, a) = scheme  BY ColonAdded
<1>2. s \in Text /\ n \in Nat /\ n = a + 1
  BY <1>1, TextFacts DEF SchemeColon
<1>3. CASE StartsWith(input, <<"/", "/">>)
  <2> DEFINE type == "NotSpecial"
             rest == Drop(input, 2)
  <2>1. result = AfterDoubleSlash(s, rest, type, a)
    BY <1>3 DEF ParseNonSpecial
  <2>2. type = SchemeType(Take(s, a)) /\ type # "File"  BY <1>1
  <2>3. rest \in Text  BY <1>3, SlashesDropped
  <2> HIDE DEF s, a, type, rest, result
  <2>4. AfterDoubleSlash(s, rest, type, a).ok  BY <2>1 DEF result
  <2>5. Parsed(AfterDoubleSlash(s, rest, type, a).url)
    BY <1>1, <2>2, <2>3, <2>4, AuthorityParsed
  <2> QED  BY <2>1, <2>5 DEF result
<1>4. CASE ~StartsWith(input, <<"/", "/">>)
  <2> DEFINE path == IF FirstIn(input, {"/"}) THEN rooted ELSE opaque
  <2>1. result = FinishPath(u, path)  BY <1>4 DEF ParseNonSpecial
  <2>2. /\ Good(u) /\ HeadApart(u) /\ Untailed(u) /\ ~IsSpecial(u)
        /\ u.ser = s /\ u.path_start = n /\ u.scheme_end = a
    <3> HIDE DEF s, a, n
    <3>1. SchemeType(Take(s, a)) = "NotSpecial"  BY <1>1
    <3> QED  BY <1>1, <1>2, <3>1, BareHead
  <2>3. /\ path.rest \in Text /\ StartsAs(path.s, s, n)
        /\ RootedAt(path.s, n) => Tidy(path.s, n)
    <3>1. CASE FirstIn(input, {"/"})
      <4> DEFINE t == Append(s, "/")
                 rest == Tail(input)
                 no == FALSE
                 type == "NotSpecial"
      <4>1. "/" \in Lexeme  BY MarksApart DEF Mark
      <4>2. /\ t \in Text /\ Len(t) = n + 1 /\ \A i \in 1..n : t[i] = s[i]
            /\ t[n + 1] = "/"
        BY <1>2, <4>1, AppendFacts
      <4>2a. Tidy(t, n) /\ Ready(t, n)
        BY <1>2, <4>2 DEF Tidy, Ready, DotsBehind, Dot
      <4>3. rest \in Text /\ no \in BOOLEAN  BY <3>1, FirstFacts
      <4>4. path = ParsePath(t, type, no, n, rest, "UrlParser")  BY <3>1
      <4>5. StartsAs(t, s, n) /\ n <= Len(t)  BY <1>2, <4>2 DEF StartsAs
      <4> DEFINE context == "UrlParser"
      <4> HIDE DEF path, t, rest, no, type, n, context
      <4>6. PathRead(path, t, n, type, rest, context)
        BY <1>2, <4>2, <4>3, <4>4, <4>5, ParsedPathReads DEF context
      <4>7. path.rest \in Text /\ StartsAs(path.s, t, n) /\ Tidy(path.s, n)
        BY <4>2a, <4>6 DEF PathRead, Continues, context, type
      <4> QED  BY <1>2, <4>5, <4>7 DEF StartsAs
    <3>2. CASE ~FirstIn(input, {"/"})
      <4>1. path = opaque  BY <3>2
      <4> HIDE DEF s, path
      <4> QED  BY <1>2, <3>2, <4>1, OpaqueReads
    <3> QED  BY <3>1, <3>2
  <2> HIDE DEF path, u
  <2>4. PathFits(u, path.s)  BY <1>2, <2>2, <2>3 DEF PathFits
  <2> QED  BY <2>1, <2>2, <2>3, <2>4, FinishPathParsed
<1> QED  BY <1>3, <1>4

(****************************************************************************)
(* Resolving against a base that was parsed.                                *)
(****************************************************************************)
\* A path put behind a base's authority.
LEMMA ResolvedParsed ==
    ASSUME NEW base, Parsed(base), NEW s \in Text, NEW input \in Text,
           StartsAs(s, base.ser, base.path_start), RootedAt(s, base.path_start),
           Tidy(s, base.path_start), Ready(s, base.path_start)
    PROVE  /\ ResolvePath(base, s, input).ok
           /\ Parsed(ResolvePath(base, s, input).url)
           /\ KeepsHead(ResolvePath(base, s, input).url, base)
<1> DEFINE u == WithoutQueryOf(base)
           n == base.path_start
           yes == TRUE
           type == TypeOf(base)
           path == ParsePath(s, type, yes, n, input, "UrlParser")
<1>1. /\ Parsed(u) /\ Untailed(u) /\ SameHead(base, u)
      /\ TypeOf(u) = TypeOf(base)
  BY QueryCut
<1>2. ResolvePath(base, s, input) = FinishPath(u, path)
  BY DEF ResolvePath
<1>3. n \in Nat /\ n <= Len(s)
  BY EditPlaces DEF Parsed, StartsAs
<1>4. yes \in BOOLEAN  OBVIOUS
<1> HIDE DEF u, path, yes, n, type
<1> DEFINE context == "UrlParser"
<1>5. PathRead(path, s, n, type, input, context)
  BY <1>3, <1>4, ParsedPathReads DEF path
<1>6. /\ path.rest \in Text /\ StartsAs(path.s, s, n) /\ RootedAt(path.s, n)
      /\ Tidy(path.s, n)
  BY <1>5 DEF PathRead, Continues, n, type, context
<1>7. u.path_start = n /\ \A i \in 1..n : u.ser[i] = base.ser[i]
  BY <1>1 DEF SameHead, n
<1>8. PathFits(u, path.s)
  BY <1>3, <1>6, <1>7 DEF PathFits, StartsAs, n
<1>9. Good(u) /\ HeadApart(u)
  BY <1>1 DEF Parsed, ComponentsApart, HeadApart
<1> DEFINE result == FinishPath(u, path)
<1>10. result.ok /\ Parsed(result.url) /\ KeepsHead(result.url, u)
  BY <1>1, <1>6, <1>8, <1>9, FinishPathParsed
<1> HIDE DEF result
<1>11. KeepsHead(result.url, base)  BY <1>1, <1>10, HeadStays
<1> QED  BY <1>2, <1>10, <1>11 DEF result

\* What a base's scheme is: its "scheme:" can start a URL of its own.
LEMMA SchemeTaken ==
    ASSUME NEW u, Good(u)
    PROVE  /\ SchemeColon(Take(u.ser, u.scheme_end + 1), u.scheme_end)
           /\ Take(Take(u.ser, u.scheme_end + 1), u.scheme_end) = Scheme(u)
<1> DEFINE s == u.ser
           a == u.scheme_end
           t == Take(s, a + 1)
<1>1. /\ s \in Text /\ Len(s) \in Nat /\ a \in Nat /\ a + 1 <= u.path_start
      /\ u.path_start <= Len(s) /\ u.path_start \in Nat
  BY HeadPlaces
<1>2. s[a + 1] = ":" /\ \A i \in 1..u.path_start : s[i] # "SP"
  BY GoodFacts DEF HeadCut, AuthorityIntact, HeadHasNoSpace, ByteAt
<1> HIDE DEF s, a
<1>3. /\ t \in Text /\ Len(t) = a + 1 /\ \A i \in 1..(a + 1) : t[i] = s[i]
  BY <1>1, TakeFacts
<1> HIDE DEF t
<1>4. t[a + 1] = ":" /\ NoSpace(t)
  <2>1. a + 1 \in 1..(a + 1)  BY <1>1
  <2>2. \A i \in 1..(a + 1) : i \in 1..u.path_start  BY <1>1
  <2> QED  BY <1>2, <1>3, <2>1, <2>2 DEF NoSpace
<1>5. Take(t, a) = Take(s, a)
  <2>1. \A i \in 1..a : t[i] = s[i]
    <3> TAKE i \in 1..a
    <3>1. i \in 1..(a + 1)  BY <1>1
    <3> QED  BY <1>3, <3>1
  <2>2. a <= Len(t) /\ a <= Len(s)  BY <1>1, <1>3
  <2> QED  BY <1>1, <1>3, <2>1, <2>2, TakesEqual
<1> QED  BY <1>1, <1>3, <1>4, <1>5 DEF SchemeColon, Scheme, s, a, t

\* A base's path starts with a '/', or there is none.
LEMMA BasePath ==
    ASSUME NEW u, Parsed(u), ~cannot_be_a_base(u)
    PROVE  LET w == WithoutQueryOf(u)
           IN  /\ w.ser \in Text /\ u.path_start \in Nat
               /\ u.path_start <= Len(w.ser)
               /\ StartsAs(w.ser, u.ser, u.path_start)
               /\ Len(w.ser) = u.path_start \/ RootedAt(w.ser, u.path_start)
               /\ Tidy(w.ser, u.path_start)
<1> DEFINE w == WithoutQueryOf(u)
           n == u.path_start
<1>1. /\ Good(w) /\ Untailed(w) /\ SameHead(u, w) /\ Path(w) = Path(u)
      /\ Parsed(w)
  BY QueryCut DEF Parsed
<1> HIDE DEF w
<1>2. /\ w.ser \in Text /\ w.path_start = n /\ n \in Nat /\ n <= Len(w.ser)
      /\ \A i \in 1..n : w.ser[i] = u.ser[i]
  BY <1>1, HeadPlaces DEF SameHead
<1>3. Path(w) = <<>> \/ Rooted(Path(w))
  BY <1>1 DEF Parsed, ComponentsApart
<1>4. Len(w.ser) = n \/ RootedAt(w.ser, n)
  BY <1>1, <1>2, <1>3, PathOf
<1>5. Tidy(w.ser, n)
  <2>1. CASE Len(w.ser) = n  BY <1>2, <2>1 DEF Tidy
  <2>2. CASE RootedAt(w.ser, n)
    <3>1. Tidy(Path(w), 0)  BY <1>1, <1>2, <2>2, PathOf DEF Parsed, DotFree
    <3>2. Path(w) = Drop(w.ser, n)  BY <1>1, <1>2, OpenPath DEF Untailed
    <3> QED  BY <1>2, <3>1, <3>2, TidyDrop
  <2> QED  BY <1>4, <2>1, <2>2
<1> QED  BY <1>2, <1>4, <1>5 DEF StartsAs, w

\* What ".." leaves ends with a slash or a drive letter.
LEMMA PopReady ==
    ASSUME NEW s \in Text, NEW n \in Nat, n <= Len(s), NEW type
    PROVE  /\ Ready(pop_path(s, type, n), n)
           /\ Ready(shorten_path(s, type, n), n)
<1>1. Len(s) \in Nat  BY TextFacts
<1>2. ASSUME NEW k \in Nat, k <= Len(s),
             is_normalized_windows_drive_letter(Drop(s, k))
      PROVE  Ready(s, n)
  <2>1. /\ Len(Drop(s, k)) = Len(s) - k
        /\ \A i \in 1..(Len(s) - k) : Drop(s, k)[i] = s[k + i]
    BY <1>2, DropFacts
  <2>2. Len(Drop(s, k)) = 2 /\ Drop(s, k)[2] = ":"
    BY <1>2 DEF is_normalized_windows_drive_letter, is_windows_drive_letter
  <2>3. k + 2 = Len(s) /\ s[k + 2] = ":"
    <3>1. Len(s) - k = 2  BY <2>1, <2>2
    <3>2. 2 \in 1..(Len(s) - k)  BY <3>1
    <3> QED  BY <1>1, <1>2, <2>1, <2>2, <3>1, <3>2
  <2> QED  BY <2>3 DEF Ready, Dot
<1> DEFINE rest == Drop(s, n)
           m == n + LastSlash(rest) + 1
<1>3. Ready(pop_path(s, type, n), n)
  <2>1. CASE Len(s) <= n
    <3>1. Len(s) = n /\ pop_path(s, type, n) = s  BY <1>1, <2>1 DEF pop_path
    <3> QED  BY <3>1 DEF Ready
  <2>2. CASE Len(s) > n
    <3>1. /\ rest \in Text /\ Len(rest) = Len(s) - n
          /\ \A i \in 1..(Len(s) - n) : rest[i] = s[n + i]
      BY DropFacts
    <3>2. /\ LastSlash(rest) \in Int /\ -1 <= LastSlash(rest)
          /\ LastSlash(rest) < Len(rest) \/ LastSlash(rest) = -1
          /\ LastSlash(rest) # -1 => rest[LastSlash(rest) + 1] = "/"
      BY <3>1, LastSlashFacts
    <3> HIDE DEF rest
    <3>3. m \in Nat /\ n <= m /\ m <= Len(s)  BY <1>1, <2>2, <3>1, <3>2
    <3>4. m = n \/ s[m] = "/"
      <4> SUFFICES ASSUME m # n PROVE s[m] = "/"  OBVIOUS
      <4> DEFINE k == LastSlash(rest) + 1
      <4>1. k \in 1..(Len(s) - n) /\ m = n + k  BY <1>1, <3>1, <3>2
      <4>2. rest[k] = "/"  BY <3>2
      <4> HIDE DEF k, m
      <4> QED  BY <3>1, <4>1, <4>2
    <3>5. \/ pop_path(s, type, n) = Take(s, m)
          \/ /\ pop_path(s, type, n) = s
             /\ is_normalized_windows_drive_letter(Drop(s, m))
      BY <1>1, <2>2 DEF pop_path, rest
    <3> HIDE DEF m
    <3>6. Ready(Take(s, m), n)
      <4>1. /\ Len(Take(s, m)) = m
            /\ \A i \in 1..m : Take(s, m)[i] = s[i]
        BY <3>3, TakeFacts
      <4>2. m # n => m \in 1..m  BY <3>3
      <4> QED  BY <3>4, <4>1, <4>2 DEF Ready, Dot
    <3> QED  BY <1>2, <3>3, <3>5, <3>6
  <2> QED  BY <1>1, <2>1, <2>2
<1>4. \/ shorten_path(s, type, n) = pop_path(s, type, n)
      \/ /\ shorten_path(s, type, n) = s
         /\ is_normalized_windows_drive_letter(Drop(s, n))
  BY DEF shorten_path
<1> QED  BY <1>2, <1>3, <1>4

\* The path a relative reference is put behind, with the base's last segment
\* taken off.
LEMMA ParentRooted ==
    ASSUME NEW u, Parsed(u), ~cannot_be_a_base(u), NEW type
    PROVE  LET n == u.path_start
               popped == pop_path(WithoutQueryOf(u).ser, type, n)
               parent == IF Len(popped) = n THEN Append(popped, "/") ELSE popped
           IN  /\ parent \in Text /\ StartsAs(parent, u.ser, n)
               /\ RootedAt(parent, n) /\ Tidy(parent, n) /\ Ready(parent, n)
<1> DEFINE n == u.path_start
           s == WithoutQueryOf(u).ser
           popped == pop_path(s, type, n)
           parent == IF Len(popped) = n THEN Append(popped, "/") ELSE popped
<1>1. /\ s \in Text /\ n \in Nat /\ n <= Len(s) /\ StartsAs(s, u.ser, n)
      /\ Len(s) = n \/ RootedAt(s, n)
      /\ Tidy(s, n)
  BY BasePath
<1> HIDE DEF s, n
<1>2. Continues(popped, s, n)  BY <1>1, PopContinues
<1>2a. Tidy(popped, n) /\ Ready(popped, n)  BY <1>1, TidyPop, PopReady
<1>3. Len(s) = n => popped = s  BY <1>1 DEF pop_path
<1> HIDE DEF popped
<1>4. /\ popped \in Text /\ n <= Len(popped) /\ StartsAs(popped, u.ser, n)
      /\ Len(popped) # n => RootedAt(popped, n)
  BY <1>1, <1>2, <1>3 DEF Continues, StartsAs
<1>5. CASE Len(popped) = n
  <2> DEFINE t == Append(popped, "/")
  <2>1. "/" \in Lexeme  BY MarksApart DEF Mark
  <2>2. /\ t \in Text /\ Len(t) = n + 1 /\ t[n + 1] = "/"
        /\ \A i \in 1..n : t[i] = popped[i]
    BY <1>4, <1>5, <2>1, AppendFacts
  <2>3. parent = t  BY <1>5
  <2> HIDE DEF t, parent
  <2>4. StartsAs(t, u.ser, n) /\ RootedAt(t, n)
    BY <1>1, <1>4, <2>2 DEF StartsAs, RootedAt
  <2>5. Tidy(t, n) /\ Ready(t, n)
    BY <1>1, <2>2 DEF Tidy, Ready, DotsBehind, Dot
  <2> QED  BY <2>2, <2>3, <2>4, <2>5 DEF parent, popped, s, n
<1>6. CASE Len(popped) # n
  BY <1>2a, <1>4, <1>6 DEF popped, s, n
<1> QED  BY <1>5, <1>6

\* The base's authority and the '/' a path from the root starts with.
LEMMA RootBehindHead ==
    ASSUME NEW u, Good(u)
    PROVE  LET s == Append(Take(u.ser, u.path_start), "/")
           IN  /\ s \in Text /\ StartsAs(s, u.ser, u.path_start)
               /\ RootedAt(s, u.path_start)
               /\ Tidy(s, u.path_start) /\ Ready(s, u.path_start)
<1> DEFINE n == u.path_start
           front == Take(u.ser, n)
           s == Append(front, "/")
<1>1. u.ser \in Text /\ n \in Nat /\ n <= Len(u.ser)  BY HeadPlaces
<1> HIDE DEF n
<1>2. /\ front \in Text /\ Len(front) = n
      /\ \A i \in 1..n : front[i] = u.ser[i]
  BY <1>1, TakeFacts
<1> HIDE DEF front
<1>3. "/" \in Lexeme  BY MarksApart DEF Mark
<1>4. /\ s \in Text /\ Len(s) = n + 1 /\ s[n + 1] = "/"
      /\ \A i \in 1..n : s[i] = front[i]
  BY <1>2, <1>3, AppendFacts
<1> HIDE DEF s
<1>5. StartsAs(s, u.ser, n) /\ RootedAt(s, n)
  BY <1>1, <1>2, <1>4 DEF StartsAs, RootedAt
<1>6. Tidy(s, n) /\ Ready(s, n)
  BY <1>1, <1>4 DEF Tidy, Ready, DotsBehind, Dot
<1> QED  BY <1>4, <1>5, <1>6 DEF s, front, n

\* parse_relative
LEMMA RelativeParsed ==
    ASSUME NEW input \in Text, NEW base, Parsed(base), TypeOf(base) # "File",
           ~cannot_be_a_base(base), ParseRelative(input, base).ok
    PROVE  /\ Parsed(ParseRelative(input, base).url)
           /\ Find(input, Lexeme \ {"/", "BSLASH"}) < 2 =>
                 KeepsHead(ParseRelative(input, base).url, base)
<1> DEFINE type == TypeOf(base)
           slashes == Find(input, Lexeme \ {"/", "BSLASH"})
           n == base.path_start
           head == Take(base.ser, n)
           popped == pop_path(WithoutQueryOf(base).ser, type, n)
           parent == IF Len(popped) = n THEN Append(popped, "/") ELSE popped
           result == ParseRelative(input, base)
<1>1. slashes \in Nat /\ slashes <= Len(input)
      /\ (input = <<>> => slashes = 0)
      /\ \A i \in 1..slashes : input[i] \notin Lexeme \ {"/", "BSLASH"}
  BY FindFacts, TextFacts
<1>2. FirstIn(input, {"?", "#"}) => slashes = 0
  <2> SUFFICES ASSUME FirstIn(input, {"?", "#"}), slashes # 0 PROVE FALSE
    OBVIOUS
  <2>1. 1 \in 1..slashes  BY <1>1
  <2>2. input[1] \in {"?", "#"}  BY FirstFacts
  <2>3. input[1] \in Lexeme \ {"/", "BSLASH"}  BY <2>2, MarksApart DEF Mark
  <2> QED  BY <1>1, <2>1, <2>3
<1> HIDE DEF slashes
<1>3. CASE input = <<>>
  <2>1. result = Ok(WithoutFragmentOf(base))
    BY <1>1, <1>3 DEF ParseRelative, FirstIn, slashes
  <2> DEFINE w == WithoutFragmentOf(base)
  <2>2. Parsed(w) /\ SameHead(base, w) /\ w.ser \in Text
    BY FragmentCut DEF Parsed, Good, UrlSet
  <2>3. KeepsHead(w, base)  BY <2>2, HeadStays
  <2> QED  BY <2>1, <2>2, <2>3 DEF Ok, result
<1>4. CASE FirstIn(input, {"?"})
  <2>1. result = Ok(WithQueryAndFragment(WithoutQueryOf(base), type, input))
    BY <1>1, <1>2, <1>4 DEF ParseRelative, FirstIn, slashes
  <2> DEFINE w == WithoutQueryOf(base)
             v == WithQueryAndFragment(w, type, input)
  <2>2. Parsed(w) /\ Untailed(w) /\ SameHead(base, w)  BY QueryCut
  <2> HIDE DEF w, type
  <2>3. Parsed(v) /\ KeepsHead(v, w)  BY <2>2, TailAdded
  <2> HIDE DEF v
  <2>4. KeepsHead(v, base)  BY <2>2, <2>3, HeadStays
  <2> QED  BY <2>1, <2>3, <2>4 DEF Ok, v, w, type, result
<1>5. CASE FirstIn(input, {"#"})
  <2>1. result = WithFragmentOf(base, input)
    BY <1>1, <1>2, <1>5 DEF ParseRelative, FirstIn, slashes
  <2> QED  BY <1>5, <2>1, FragmentParsed DEF FirstIn
<1>6. CASE slashes >= 2
  <2>0. ~(slashes < 2)  BY <1>1, <1>6
  <2> DEFINE s == Take(base.ser, base.scheme_end + 1)
             a == base.scheme_end
             rest == IF StartsWith(input, <<"/", "/">>)
                     THEN Drop(input, 2) ELSE Drop(input, slashes)
  <2>1. result = AfterDoubleSlash(s, rest, type, a)
    BY <1>1, <1>2, <1>6 DEF ParseRelative, FirstIn, slashes
  <2>2. rest \in Text
    <3>1. Drop(input, slashes) \in Text  BY <1>1, DropFacts
    <3> QED  BY <3>1, SlashesDropped
  <2>3. SchemeColon(s, a) /\ Take(s, a) = Scheme(base)
    BY SchemeTaken DEF Parsed
  <2>4. type = SchemeType(Take(s, a)) /\ type # "File"
    BY <2>3 DEF TypeOf
  <2> HIDE DEF s, a, rest, type, result
  <2>5. AfterDoubleSlash(s, rest, type, a).ok  BY <2>1 DEF result
  <2>6. Parsed(AfterDoubleSlash(s, rest, type, a).url)
    BY <2>2, <2>3, <2>4, <2>5, AuthorityParsed
  <2> QED  BY <2>0, <2>1, <2>6 DEF result, slashes
<1>7. CASE slashes = 1
  <2> DEFINE s == Append(head, "/")
             rest == Tail(input)
  <2>1. result = ResolvePath(base, s, rest)
    BY <1>1, <1>2, <1>7 DEF ParseRelative, FirstIn, slashes
  <2>2. input # <<>>  BY <1>1, <1>7
  <2>3. rest \in Text  BY <2>2, HeadTailProperties DEF Text
  <2>4. /\ s \in Text /\ StartsAs(s, base.ser, n) /\ RootedAt(s, n)
        /\ Tidy(s, n) /\ Ready(s, n)
    BY RootBehindHead DEF Parsed
  <2> HIDE DEF s, rest
  <2> QED  BY <2>1, <2>3, <2>4, ResolvedParsed
<1>8. CASE /\ input # <<>> /\ ~FirstIn(input, {"?"}) /\ ~FirstIn(input, {"#"})
           /\ ~(slashes >= 2) /\ slashes # 1
  <2>1. result = ResolvePath(base, parent, input)
    BY <1>8 DEF ParseRelative, slashes
  <2>2. /\ parent \in Text /\ StartsAs(parent, base.ser, n) /\ RootedAt(parent, n)
        /\ Tidy(parent, n) /\ Ready(parent, n)
    BY ParentRooted
  <2> HIDE DEF parent
  <2> QED  BY <2>1, <2>2, ResolvedParsed
<1> QED  BY <1>3, <1>4, <1>5, <1>6, <1>7, <1>8

(****************************************************************************)
(* File URLs.                                                               *)
(****************************************************************************)
\* "file://"
LEMMA FileStart ==
    ASSUME FileScheme \in Text
    PROVE  /\ SchemeSlashes(FileAuthority, 1) /\ FileAuthority \in Text
           /\ Len(FileAuthority) = 4 /\ Len(FileScheme) = 1
           /\ Take(FileAuthority, 1) = FileScheme
<1> DEFINE s == FileScheme \o <<":">>
<1>1. /\ Len(FileScheme) = 1 /\ FileScheme[1] = "file"  BY DEF FileScheme
<1>2. NoSpace(FileScheme)  BY <1>1 DEF NoSpace
<1>3. "/" \in Lexeme /\ ":" \in Lexeme  BY MarksApart DEF Mark
<1>4. s = Append(FileScheme, ":")
  <2> DEFINE f == FileScheme
  <2>1. f \in Seq(Lexeme)  BY DEF Text
  <2> HIDE DEF f
  <2>2. f \o <<":">> = Append(f, ":")  BY <1>3, <2>1
  <2> QED  BY <2>2 DEF f
<1>5. SchemeColon(s, 1) /\ Take(s, 1) = FileScheme
  <2> DEFINE f == FileScheme
  <2>1. f \in Text /\ NoSpace(f)  BY <1>2
  <2> HIDE DEF f
  <2>2. SchemeColon(Append(f, ":"), Len(f)) /\ Take(Append(f, ":"), Len(f)) = f
    BY <2>1, ColonAdded
  <2> QED  BY <1>1, <1>4, <2>2 DEF f
<1>6. FileAuthority = s \o <<"/", "/">>
  <2> DEFINE f == FileScheme
  <2>1. f \in Seq(Lexeme)  BY DEF Text
  <2> HIDE DEF f
  <2>2. f \o <<":", "/", "/">> = (f \o <<":">>) \o <<"/", "/">>
    BY <1>3, <2>1
  <2> QED  BY <2>2 DEF FileAuthority, f
<1> HIDE DEF s
<1>7. LET t == s \o <<"/", "/">>
      IN  SchemeSlashes(t, 1) /\ Take(t, 1) = Take(s, 1)
  BY <1>5, SlashesAdded
<1>8. SchemeSlashes(FileAuthority, 1) /\ Take(FileAuthority, 1) = FileScheme
  BY <1>5, <1>6, <1>7
<1> QED  BY <1>1, <1>8 DEF SchemeSlashes

\* A file URL as far as its path.
LEMMA FileHead ==
    ASSUME FileScheme \in Text, NEW kind, NEW text, HostFits(kind, text)
    PROVE  LET s == FileAuthority \o text
               u == UpToFilePath(s, kind)
           IN  /\ Good(u) /\ HeadApart(u) /\ Untailed(u) /\ Written(u)
               /\ u.ser = s /\ u.path_start = Len(s) /\ s \in Text
               /\ Scheme(u) = FileScheme
<1> DEFINE f == FileAuthority
           s == f \o text
           port == None
           r == s \o SuffixOf(port)
           u == UpToFilePath(s, kind)
           v == UpToPath(r, 1, 4, Len(f), Len(f) + Len(text), kind, port)
<1>1. /\ SchemeSlashes(f, 1) /\ f \in Text
      /\ Len(f) = 4 /\ Len(FileScheme) = 1 /\ Take(f, 1) = FileScheme
  BY FileStart
<1>2. BeforeHost(f, 1, 4)
  <2> HIDE DEF f
  <2>1. Credentials(f, 1, 4)  BY <1>1 DEF Credentials
  <2> QED  BY <1>1, <2>1 DEF BeforeHost, SchemeSlashes
<1>3. HostSuits(f, 1, 4, text, port)
  <2>1. SchemeType(Take(f, 1)) = "File"  BY <1>1 DEF SchemeType
  <2> HIDE DEF f
  <2> QED  BY <1>1, <2>1 DEF HostSuits
<1> HIDE DEF f
<1>4. s \in Text /\ Len(s) = Len(f) + Len(text)
  BY <1>1, ConcatFacts DEF HostFits
<1>5. r = s
  <2>1. SuffixOf(port) = <<>>  BY DEF SuffixOf
  <2> HIDE DEF s
  <2>2. s \o <<>> = s  BY <1>4, ConcatEmptySeq DEF Text
  <2> QED  BY <2>1, <2>2
<1>6. u = v
  <2> HIDE DEF s, r
  <2> QED  BY <1>1, <1>4, <1>5 DEF UpToFilePath, f
<1> HIDE DEF port
<1>7. /\ Good(v) /\ HeadApart(v) /\ Untailed(v) /\ Written(v)
      /\ v.ser = r /\ v.path_start = Len(r) /\ Scheme(v) = Take(f, 1)
  BY <1>2, <1>3, AuthorityHead
<1> HIDE DEF u, v, r, s
<1> QED  BY <1>1, <1>4, <1>5, <1>6, <1>7 DEF u, s, f

\* A path from the root behind the host of a file URL.
LEMMA FilePathParsed ==
    ASSUME FileScheme \in Text, NEW kind, NEW text, HostFits(kind, text),
           NEW s, s = FileAuthority \o text, NEW path, path.rest \in Text,
           StartsAs(path.s, s, Len(s)), RootedAt(path.s, Len(s)),
           Tidy(path.s, Len(s))
    PROVE  /\ FinishFile(UpToFilePath(s, kind), path).ok
           /\ Parsed(FinishFile(UpToFilePath(s, kind), path).url)
           /\ KeepsHead(FinishFile(UpToFilePath(s, kind), path).url,
                        UpToFilePath(s, kind))
           /\ Scheme(FinishFile(UpToFilePath(s, kind), path).url) = FileScheme
<1> DEFINE u == UpToFilePath(s, kind)
           w == FinishFile(u, path).url
<1>1. /\ Good(u) /\ HeadApart(u) /\ Untailed(u) /\ Written(u)
      /\ u.ser = s /\ u.path_start = Len(s) /\ Scheme(u) = FileScheme
  BY FileHead
<1> HIDE DEF u
<1>2. PathFits(u, path.s)  BY <1>1 DEF PathFits
<1>3. FinishFile(u, path).ok /\ Parsed(w) /\ KeepsHead(w, u)
  BY <1>1, <1>2, FinishFileParsed
<1> HIDE DEF w
<1>4. Scheme(w) = FileScheme  BY <1>1, <1>3, KeptScheme
<1> QED  BY <1>3, <1>4 DEF u, w

\* A path can be read behind s without leaving dots: a slash is there or comes.
StartsFilePath(s, n, input) ==
    /\ Tidy(s, n) /\ Ready(s, n)
    /\ RootedAt(s, n) \/ (n = Len(s) /\ FirstIn(input, {"/", "BSLASH"}))

\* A file URL's path read behind text that extends its host.
LEMMA FilePathReads ==
    ASSUME NEW s \in Text, NEW n \in Nat, n <= Len(s), NEW input \in Text,
           StartsFilePath(s, n, input)
    PROVE  LET p == ParsePath(s, "File", FALSE, n, input, "UrlParser")
           IN  /\ p.rest \in Text /\ p.has_host \in BOOLEAN
               /\ StartsAs(p.s, s, n) /\ RootedAt(p.s, n) /\ Tidy(p.s, n)
<1> DEFINE no == FALSE
           type == "File"
           p == ParsePath(s, type, no, n, input, "UrlParser")
<1>1. no \in BOOLEAN /\ type = "File"  OBVIOUS
<1> HIDE DEF no, type
<1> DEFINE context == "UrlParser"
<1>2. PathRead(p, s, n, type, input, context)  BY <1>1, ParsedPathReads
<1> HIDE DEF p
<1>3. PathCuts(type, context) = {"/", "BSLASH"}
  BY <1>1 DEF PathCuts, Separators, IsSpecialType
<1>4. context # "PathSegmentSetter"  OBVIOUS
<1> HIDE DEF context
<1>5. /\ p.rest \in Text /\ p.has_host \in BOOLEAN
      /\ StartsAs(p.s, s, n) /\ RootedAt(p.s, n)
  BY <1>1, <1>2 DEF PathRead, Continues
<1>6. Tidy(p.s, n)
  BY <1>1, <1>2, <1>3, <1>4 DEF PathRead, StartsFilePath
<1> QED  BY <1>5, <1>6 DEF p, no, type, context

\* file_host, parse_file_host
LEMMA FileHostRead ==
    ASSUME NEW input \in Text, ParseFileHost(input).ok
    PROVE  LET h == ParseFileHost(input)
           IN  /\ HostFits(h.kind, h.text) /\ h.rest \in Text
               /\ h.kind = "None" <=> h.text = <<>>
<1> DEFINE end == Find(input, {"/", "BSLASH", "?", "#"})
           text == Take(input, end)
           rest == Drop(input, end)
           host == ParseHost(text)
           none(r) == [ok |-> TRUE, kind |-> "None", text |-> <<>>, rest |-> r]
           h == ParseFileHost(input)
<1>1. text \in Text /\ rest \in Text  BY FoundFacts
<1>2. \/ h = none(input) \/ h = none(rest)
      \/ host.ok /\ h = HostBefore(host, rest)
  BY DEF ParseFileHost, Try, Err
<1> HIDE DEF rest, text, h
<1>3. HostFits("None", <<>>)
  <2>1. <<>> \in Text /\ Len(<<>>) = 0  BY EmptySeq DEF Text
  <2> QED  BY <2>1 DEF HostFits, HostKind, NoByte, NoSpace
<1>4. CASE h = none(input) \/ h = none(rest)
  <2>1. h.kind = "None" /\ h.text = <<>> /\ h.rest \in Text  BY <1>1, <1>4
  <2> QED  BY <1>3, <2>1 DEF h
<1>5. CASE host.ok /\ h = HostBefore(host, rest)
  <2>1. HostLike(host)  BY <1>1, <1>5, ParsedDomain
  <2>2. HostFits(host.kind, host.text)  BY <2>1, HostLikeFits
  <2> HIDE DEF host
  <2>3. h.kind = host.kind /\ h.text = host.text /\ h.rest = rest
    BY <1>5 DEF HostBefore
  <2> QED  BY <1>1, <2>1, <2>2, <2>3 DEF HostLike, h
<1> QED  BY <1>2, <1>4, <1>5

\* What parse_path returns.
LEMMA PathRecord ==
    ASSUME NEW s, NEW type, NEW hasHost, NEW n, NEW input
    PROVE  \E r, h, t : ParsePath(s, type, hasHost, n, input, "UrlParser")
                        = [s |-> r, has_host |-> h, rest |-> t]
<1> DEFINE context == "UrlParser"
           end == IF context = "UrlParser" THEN Find(input, {"?", "#"})
                                           ELSE Len(input)
           cut == IF context = "PathSegmentSetter" THEN {} ELSE Separators(type)
           segments == Segments(Take(input, end), cut)
           g == CHOOSE f : Pushes(f, [s |-> s, has_host |-> hasHost], segments,
                                  PathEncodeSet(type, context), type, n)
<1>1. ParsePath(s, type, hasHost, n, input, context)
      = ParsedPath(g[Len(segments)], type, n, Drop(input, end))
  BY PathLoop
<1> HIDE DEF g, segments, end
<1> QED  BY <1>1 DEF ParsedPath

\* What parse_path_start returns.
LEMMA PathStartRecord ==
    ASSUME NEW s, NEW type, NEW hasHost, NEW input
    PROVE  \E r, h, t : ParsePathStart(s, type, hasHost, input, "UrlParser")
                        = [s |-> r, has_host |-> h, rest |-> t]
<1> DEFINE special == IsSpecialType(type)
           addsSlash == IF special THEN ~EndsWith(s, "/")
                        ELSE input # <<>> /\ ~FirstIn(input, {"/"})
           skips == special /\ addsSlash /\ FirstIn(input, {"/", "BSLASH"})
           front == IF addsSlash THEN Append(s, "/") ELSE s
           text == IF skips THEN Tail(input) ELSE input
           n == Len(s)
           result == ParsePathStart(s, type, hasHost, input, "UrlParser")
<1>1. \/ result = [s |-> s, has_host |-> hasHost, rest |-> input]
      \/ result = ParsePath(front, type, hasHost, n, text, "UrlParser")
  BY DEF ParsePathStart
<1> HIDE DEF front, text, n, result
<1>2. \E r, h, t : ParsePath(front, type, hasHost, n, text, "UrlParser")
                   = [s |-> r, has_host |-> h, rest |-> t]
  BY PathRecord
<1>3. \E r, h, t : result = [s |-> r, has_host |-> h, rest |-> t]
  BY <1>1, <1>2
<1> QED  BY <1>3 DEF result

\* The host of a file URL stays, or goes because of a drive letter.
LEMMA KeptHostParsed ==
    ASSUME FileScheme \in Text, NEW kind, NEW text, HostFits(kind, text),
           NEW s, s = FileAuthority \o text, NEW path, path.rest \in Text,
           path.has_host \in BOOLEAN,
           StartsAs(path.s, s, Len(s)), RootedAt(path.s, Len(s)),
           Tidy(path.s, Len(s)),
           \E r, h, t : path = [s |-> r, has_host |-> h, rest |-> t]
    PROVE  /\ KeepFileHost(s, kind, path).ok
           /\ Parsed(KeepFileHost(s, kind, path).url)
           /\ Scheme(KeepFileHost(s, kind, path).url) = FileScheme
<1>1. CASE path.has_host
  <2>1. KeepFileHost(s, kind, path) = FinishFile(UpToFilePath(s, kind), path)
    BY <1>1 DEF KeepFileHost
  <2> QED  BY <2>1, FilePathParsed
<1>2. CASE ~path.has_host
  <2> DEFINE f == FileAuthority
             rest == Drop(path.s, Len(s))
             moved == [path EXCEPT !.s = f \o rest]
  <2>1. KeepFileHost(s, kind, path) = FinishFile(UpToFilePath(f, "None"), moved)
    BY <1>2 DEF KeepFileHost
  <2>2. f \in Text /\ Len(f) = 4  BY FileStart
  <2>3. moved.s = f \o rest /\ moved.rest = path.rest  OBVIOUS
  <2> HIDE DEF moved, f
  <2>4. /\ path.s \in Text /\ Len(s) <= Len(path.s) /\ Len(s) \in Nat
        /\ path.s[Len(s) + 1] = "/" /\ Len(s) < Len(path.s)
        /\ Len(path.s) \in Nat
    <3>1. s \in Text  BY FileHead
    <3> QED  BY <3>1, TextFacts DEF StartsAs, RootedAt
  <2>5. rest \in Text /\ FirstIn(rest, {"/"}) /\ Tidy(rest, 0)
    <3> DEFINE t == path.s
               n == Len(s)
    <3> HIDE DEF t, n
    <3>1. t \in Text /\ n \in Nat /\ n <= Len(t) /\ n < Len(t) /\ t[n + 1] = "/"
          /\ Len(t) \in Nat
      BY <2>4 DEF t, n
    <3>2. /\ Drop(t, n) \in Text /\ Len(Drop(t, n)) = Len(t) - n
          /\ \A i \in 1..(Len(t) - n) : Drop(t, n)[i] = t[n + i]
      BY <3>1, DropFacts
    <3>3. 1 \in 1..(Len(t) - n)  BY <3>1
    <3>4. Drop(t, n)[1] = "/" /\ Drop(t, n) # <<>>
      BY <3>1, <3>2, <3>3, TextFacts
    <3>5. Tidy(Drop(t, n), 0)
      <4>1. Tidy(t, n)  BY DEF t, n
      <4> QED  BY <3>1, <4>1, TidyDrop
    <3> QED  BY <3>2, <3>4, <3>5 DEF FirstIn, t, n
  <2> HIDE DEF rest
  <2>6. /\ f \o rest \in Text /\ StartsAs(f \o rest, f, Len(f))
        /\ RootedAt(f \o rest, Len(f)) /\ Tidy(f \o rest, Len(f))
    <3>1. Len(f) \in Nat /\ Len(f) <= Len(f)  BY <2>2
    <3>2. Continues(f \o rest, f, Len(f)) /\ RootedAt(f \o rest, Len(f))
      BY <2>2, <2>5, <3>1, ConcatContinues
    <3>3. Drop(f \o rest, Len(f)) = rest  BY <2>2, <2>5, ConcatDrop
    <3>4. f \o rest \in Text /\ Len(f) <= Len(f \o rest)
      BY <3>2 DEF Continues, StartsAs
    <3> DEFINE t == f \o rest
               n == Len(f)
    <3> HIDE DEF t, n
    <3>5. Drop(t, n) = rest /\ t \in Text /\ n \in Nat /\ n <= Len(t)
      BY <3>1, <3>3, <3>4 DEF t, n
    <3>6. Tidy(t, n)  BY <2>5, <3>5, TidyDrop
    <3> QED  BY <3>2, <3>6 DEF Continues, StartsAs, t, n
  <2>7. HostFits("None", <<>>) /\ f = FileAuthority \o <<>>
    <3>1. <<>> \in Text /\ Len(<<>>) = 0  BY EmptySeq DEF Text
    <3>2. f \o <<>> = f  BY <2>2, ConcatEmptySeq DEF Text
    <3> QED  BY <3>1, <3>2 DEF HostFits, HostKind, NoByte, NoSpace, f
  <2> DEFINE no == "None"
             empty == <<>>
  <2>8. HostFits(no, empty) /\ f = FileAuthority \o empty  BY <2>7
  <2>9. /\ moved.rest \in Text /\ StartsAs(moved.s, f, Len(f))
        /\ RootedAt(moved.s, Len(f)) /\ Tidy(moved.s, Len(f))
    BY <2>3, <2>6
  <2> HIDE DEF no, empty
  <2>10. /\ FinishFile(UpToFilePath(f, no), moved).ok
         /\ Parsed(FinishFile(UpToFilePath(f, no), moved).url)
         /\ Scheme(FinishFile(UpToFilePath(f, no), moved).url) = FileScheme
    BY <2>8, <2>9, FilePathParsed
  <2> QED  BY <2>1, <2>10 DEF no
<1> QED  BY <1>1, <1>2

\* "file://" and a host or none.
LEMMA FileAuthorityParsed ==
    ASSUME FileScheme \in Text, NEW input \in Text, ParseFileAuthority(input).ok
    PROVE  /\ Parsed(ParseFileAuthority(input).url)
           /\ Scheme(ParseFileAuthority(input).url) = FileScheme
<1> DEFINE host == ParseFileHost(input)
           s == FileAuthority \o host.text
           path == IF host.kind # "None"
                   THEN ParsePathStart(s, "File", TRUE, host.rest, "UrlParser")
                   ELSE ParsePath(Append(s, "/"), "File", FALSE, Len(s), host.rest,
                                  "UrlParser")
           result == ParseFileAuthority(input)
<1>1. host.ok /\ result = KeepFileHost(s, host.kind, path)
  BY DEF ParseFileAuthority, Try
<1>2. /\ HostFits(host.kind, host.text) /\ host.rest \in Text
      /\ host.kind = "None" <=> host.text = <<>>
  BY <1>1, FileHostRead
<1> HIDE DEF host, result
<1>3. s \in Text /\ Len(s) \in Nat
  <2> DEFINE text == host.text
  <2>1. text \in Text  BY <1>2 DEF HostFits
  <2> HIDE DEF text
  <2>2. FileAuthority \o text \in Text  BY <2>1, FileStart, ConcatFacts
  <2> QED  BY <2>2, TextFacts DEF text
<1>4. /\ path.rest \in Text /\ path.has_host \in BOOLEAN
      /\ StartsAs(path.s, s, Len(s)) /\ RootedAt(path.s, Len(s))
      /\ Tidy(path.s, Len(s))
      /\ \E r, h, t : path = [s |-> r, has_host |-> h, rest |-> t]
  <2>1. CASE host.kind # "None"
    <3> DEFINE type == "File"
               yes == TRUE
               context == "UrlParser"
    <3>1. path = ParsePathStart(s, type, yes, host.rest, context)
      BY <2>1
    <3>2. ~EndsWith(s, "/")
      <4> DEFINE f == FileAuthority
                 text == host.text
                 port == None
      <4>1. f \in Text  BY FileStart
      <4>2. text \in Text /\ text # <<>> /\ NoByte(text, "/")
        BY <1>2, <2>1 DEF HostFits
      <4>3. SuffixOf(port) = <<>>  BY DEF SuffixOf
      <4> HIDE DEF f, text, port
      <4>4. ~EndsWith((f \o text) \o SuffixOf(port), "/")
        BY <4>1, <4>2, EndsWithHost
      <4>5. (f \o text) \o <<>> = f \o text
        <5>1. f \o text \in Text  BY <4>1, <4>2, ConcatFacts
        <5> QED  BY <5>1, ConcatEmptySeq DEF Text
      <4> QED  BY <4>3, <4>4, <4>5 DEF f, text
    <3>3. /\ IsSpecialType(type) /\ yes \in BOOLEAN
          /\ context \in {"UrlParser", "Setter"}
      BY DEF IsSpecialType
    <3> DEFINE t == host.rest
    <3>4. t \in Text  BY <1>2
    <3> HIDE DEF path, s, type, yes, t, context
    <3>5. /\ path.has_host \in BOOLEAN /\ path.rest \in Text
          /\ StartsAs(path.s, s, Len(s)) /\ RootedAt(path.s, Len(s))
          /\ Tidy(path.s, Len(s))
      BY <1>3, <3>1, <3>2, <3>3, <3>4, PathStartReads DEF t
    <3>6. \E r, h, w : path = [s |-> r, has_host |-> h, rest |-> w]
      BY <3>1, PathStartRecord DEF context
    <3> QED  BY <3>5, <3>6
  <2>2. CASE host.kind = "None"
    <3> DEFINE f == Append(s, "/")
               n == Len(s)
               t == host.rest
    <3>1. path = ParsePath(f, "File", FALSE, n, t, "UrlParser")
      BY <2>2
    <3>2. "/" \in Lexeme  BY MarksApart DEF Mark
    <3>3. /\ f \in Text /\ Len(f) = n + 1 /\ \A i \in 1..n : f[i] = s[i]
          /\ f[n + 1] = "/"
      BY <1>3, <3>2, AppendFacts
    <3>4. n \in Nat /\ n <= Len(f) /\ t \in Text /\ StartsAs(f, s, n)
      BY <1>2, <1>3, <3>3 DEF StartsAs
    <3>8. StartsFilePath(f, n, t)
      <4> HIDE DEF f, n, t
      <4> QED
        BY <3>3, <3>4 DEF StartsFilePath, Tidy, Ready, RootedAt, DotsBehind, Dot
    <3> HIDE DEF path, s, f, n, t
    <3>5. /\ path.rest \in Text /\ path.has_host \in BOOLEAN
          /\ StartsAs(path.s, f, n) /\ RootedAt(path.s, n) /\ Tidy(path.s, n)
      BY <3>1, <3>3, <3>4, <3>8, FilePathReads
    <3>6. StartsAs(path.s, s, n)  BY <3>4, <3>5 DEF StartsAs
    <3>7. \E r, h, w : path = [s |-> r, has_host |-> h, rest |-> w]
      BY <3>1, PathRecord
    <3> QED  BY <3>5, <3>6, <3>7 DEF n
  <2> QED  BY <2>1, <2>2
<1> HIDE DEF path, s
<1>5. s = FileAuthority \o host.text  BY DEF s
<1> QED  BY <1>1, <1>2, <1>4, <1>5, KeptHostParsed DEF result

\* The first segment of a path.
LEMMA FirstSegmentText ==
    ASSUME NEW u, Good(u)
    PROVE  FirstPathSegment(u) \in Text
<1> DEFINE path == Path(u)
           rest == Tail(path)
<1>1. path \in Text  BY PathFacts
<1>2. FirstPathSegment(u) = IF FirstIn(path, {"/"}) THEN Take(rest, Find(rest, {"/"}))
                            ELSE <<>>
  BY DEF FirstPathSegment
<1> HIDE DEF path
<1>3. FirstIn(path, {"/"}) => rest \in Text  BY <1>1, FirstFacts
<1> HIDE DEF rest
<1>4. FirstIn(path, {"/"}) => Take(rest, Find(rest, {"/"})) \in Text
  BY <1>3, FoundFacts
<1>5. <<>> \in Text  BY EmptySeq DEF Text
<1> QED  BY <1>2, <1>4, <1>5

\* The host of a base can stand in another URL, and so can none.
LEMMA BaseHostFits ==
    ASSUME NEW u, Parsed(u)
    PROVE  HostFits(u.host, HostText(u))
<1> DEFINE text == HostText(u)
           a == u.host_start
           b == u.host_end
           s == u.ser
           n == u.path_start
<1>1. Good(u) /\ ComponentsApart(u)  BY DEF Parsed
<1>2. /\ text \in Text /\ (text = <<>> <=> a = b)
      /\ u.host \in HostKind
  BY <1>1, HostFacts, GoodFacts
<1>3. /\ s \in Text /\ a \in Nat /\ b \in Nat /\ n \in Nat /\ Len(s) \in Nat
      /\ a <= b /\ b <= n /\ n <= Len(s)
  BY <1>1, GoodFacts DEF HeadCut
<1>4. /\ u.host \in {"Ipv4", "Ipv6"} => a < b
      /\ a < b => s[a + 1] \notin {":", "@"}
      /\ \A i \in 1..n : s[i] # "SP"
      /\ u.host = "None" => a = b
      /\ NoByte(text, "/")
  BY <1>1, GoodFacts
  DEF AuthorityIntact, HostWritten, HeadHasNoSpace, ComponentsApart, ByteAt
<1>5. text = Slice(s, a, b)  BY DEF HostText
<1> HIDE DEF s, a, b, n, text
<1>6. /\ Slice(s, a, b) \in Text /\ Len(Slice(s, a, b)) = b - a
      /\ \A i \in 1..(b - a) : Slice(s, a, b)[i] = s[a + i]
  <2>1. b <= Len(s)  BY <1>3
  <2> QED  BY <1>3, <2>1, SliceFacts
<1>7. NoSpace(text)
  <2>1. \A i \in 1..(b - a) : a + i \in 1..n  BY <1>3
  <2> QED  BY <1>4, <1>5, <1>6, <2>1 DEF NoSpace
<1>8. text # <<>> => text[1] \notin {":", "@"}
  <2>1. a # b => 1 \in 1..(b - a) /\ a < b  BY <1>3
  <2> QED  BY <1>2, <1>4, <1>5, <1>6, <2>1
<1>9. HostFits(u.host, text)
  <2>1. u.host = "None" => text = <<>>  BY <1>2, <1>4
  <2>2. u.host \in {"Ipv4", "Ipv6"} => text # <<>>
    <3>1. a < b => a # b  BY <1>3
    <3> QED  BY <1>2, <1>4, <3>1
  <2>3. text = <<>> => u.host = "None"
    BY <1>2 DEF Parsed, HostNamed, a, b
  <2> QED  BY <1>2, <1>4, <1>7, <1>8, <2>1, <2>2, <2>3 DEF HostFits
<1> QED  BY <1>9 DEF text

\* A host that is not there fits.
LEMMA NoHostFits ==
    /\ HostFits("None", <<>>)
    /\ FileScheme \in Text => FileAuthority \o <<>> = FileAuthority
<1>1. <<>> \in Text /\ Len(<<>>) = 0  BY EmptySeq DEF Text
<1>2. FileScheme \in Text => FileAuthority \o <<>> = FileAuthority
  <2> DEFINE f == FileAuthority
  <2>1. FileScheme \in Text => f \in Seq(Lexeme)  BY FileStart DEF Text
  <2> HIDE DEF f
  <2>2. f \in Seq(Lexeme) => f \o <<>> = f  BY ConcatEmptySeq
  <2> QED  BY <2>1, <2>2 DEF f
<1> QED  BY <1>1, <1>2 DEF HostFits, HostKind, NoByte, NoSpace

\* A path read behind a host, and possibly the base's drive letter.
LEMMA FilePathBehind ==
    ASSUME FileScheme \in Text, NEW kind, NEW text, HostFits(kind, text),
           NEW tail \in Text, NEW input \in Text, StartsFilePath(tail, 0, input)
    PROVE  LET start == FileAuthority \o text
               path == ParsePath(start \o tail, "File", FALSE, Len(start), input,
                                 "UrlParser")
               result == FinishFile(UpToFilePath(start, kind), path)
           IN  /\ result.ok /\ Parsed(result.url)
               /\ KeepsHead(result.url, UpToFilePath(start, kind))
               /\ Scheme(result.url) = FileScheme
<1> DEFINE start == FileAuthority \o text
           n == Len(start)
           s == start \o tail
           path == ParsePath(s, "File", FALSE, n, input, "UrlParser")
           result == FinishFile(UpToFilePath(start, kind), path)
<1>1. start \in Text  BY FileHead
<1> HIDE DEF start
<1>2. /\ s \in Text /\ Len(s) = n + Len(tail) /\ n \in Nat /\ Len(tail) \in Nat
      /\ \A i \in 1..n : s[i] = start[i]
  BY <1>1, ConcatFacts, TextFacts
<1>3. n <= Len(s)  BY <1>2
<1>3a. /\ \A i \in 1..Len(tail) : s[n + i] = tail[i]
       /\ Drop(s, n) = tail
  BY <1>1, ConcatFacts, ConcatDrop
<1> HIDE DEF s, n
<1>3b. StartsFilePath(s, n, input)
  <2>1. Tidy(s, n)
    <3>1. Tidy(Drop(s, n), 0)  BY <1>3a DEF StartsFilePath
    <3> QED  BY <1>2, <1>3, <3>1, TidyDrop
  <2>2. Len(tail) # 0 => s[Len(s)] = tail[Len(tail)]
    <3>1. Len(tail) # 0 => Len(tail) \in 1..Len(tail)  BY <1>2
    <3> QED  BY <1>2, <1>3a, <3>1
  <2>3. Ready(s, n)  BY <1>2, <2>2 DEF StartsFilePath, Ready
  <2>4. RootedAt(tail, 0) => RootedAt(s, n)
    <3> SUFFICES ASSUME RootedAt(tail, 0) PROVE RootedAt(s, n)  OBVIOUS
    <3>1. 1 \in 1..Len(tail) /\ tail[1] = "/"  BY <1>2 DEF RootedAt
    <3>2. s[n + 1] = "/" /\ n < Len(s)  BY <1>2, <1>3a, <3>1
    <3> QED  BY <3>2 DEF RootedAt
  <2>5. 0 = Len(tail) => n = Len(s)  BY <1>2
  <2> QED  BY <2>1, <2>3, <2>4, <2>5 DEF StartsFilePath
<1>4. /\ path.rest \in Text /\ StartsAs(path.s, s, n) /\ RootedAt(path.s, n)
      /\ Tidy(path.s, n)
  BY <1>2, <1>3, <1>3b, FilePathReads
<1> HIDE DEF path
<1>5. StartsAs(path.s, start, n)  BY <1>2, <1>4 DEF StartsAs
<1>6. /\ result.ok /\ Parsed(result.url) /\ Scheme(result.url) = FileScheme
      /\ KeepsHead(result.url, UpToFilePath(start, kind))
  BY <1>4, <1>5, FilePathParsed DEF start, n
<1> QED  BY <1>6 DEF path, s, n, start

\* What keeps the head of a value has its authority.
LEMMA KeptAuthority ==
    ASSUME NEW u, Good(u), NEW w, KeepsHead(w, u)
    PROVE  SameAuthority(w, u)
<1> DEFINE a == u.host_end
           n == u.path_start
           s == u.ser
           r == w.ser
<1>1. a \in Nat /\ n \in Nat /\ a <= n  BY GoodFacts DEF HeadCut
<1>2. r \in Text /\ n <= Len(r) /\ \A i \in 1..n : r[i] = s[i]
  BY DEF KeepsHead, StartsAs
<1>3. Len(r) \in Nat  BY <1>2, TextFacts
<1> HIDE DEF a, n, s, r
<1>4. a <= Len(r) /\ \A i \in 1..a : i \in 1..n  BY <1>1, <1>2, <1>3
<1>5. StartsAs(r, s, a)  BY <1>2, <1>4 DEF StartsAs
<1> QED  BY <1>5 DEF KeepsHead, SameAuthority, a, r, s

\* "file" is a text where there is a file URL.
LEMMA FileSchemeKnown ==
    ASSUME NEW u, Good(u), TypeOf(u) = "File"
    PROVE  FileScheme \in Text /\ Scheme(u) = FileScheme
<1> DEFINE a == u.scheme_end
           b == u.path_start
           m == Len(u.ser)
<1>1. a \in Nat /\ b \in Nat /\ m \in Nat /\ a + 1 <= b /\ b <= m
      /\ u.ser \in Text
  BY HeadPlaces, GoodFacts
<1> HIDE DEF a, b, m
<1>2. a <= m  BY <1>1
<1>3. Scheme(u) \in Text  BY <1>1, <1>2, TakeFacts DEF Scheme, a, m
<1>4. Scheme(u) = FileScheme  BY DEF TypeOf, SchemeType
<1> QED  BY <1>3, <1>4

\* Written again, the authority of a file URL is the same.
LEMMA FileHeadAgain ==
    ASSUME NEW u, Parsed(u), TypeOf(u) = "File"
    PROVE  SameAuthority(UpToFilePath(FileAuthority \o HostText(u), u.host), u)
<1> DEFINE f == FileAuthority
           text == HostText(u)
           r == f \o text
           s == u.ser
           a == u.host_start
           b == u.host_end
           v == UpToFilePath(r, u.host)
<1>1. Good(u) /\ ComponentsApart(u) /\ IsSpecial(u)
  BY DEF Parsed, IsSpecial, IsSpecialType
<1>2. FileScheme \in Text /\ Scheme(u) = FileScheme  BY <1>1, FileSchemeKnown
<1>3. /\ StartsWithAuthority(f, 1) /\ f \in Text /\ Len(f) = 4
      /\ Len(FileScheme) = 1 /\ Take(f, 1) = FileScheme
  BY <1>2, FileStart DEF SchemeSlashes
<1>4. /\ s \in Text /\ a \in Nat /\ b \in Nat /\ Len(s) \in Nat
      /\ a <= b /\ b <= Len(s) /\ u.path_start \in Nat
      /\ u.scheme_end \in Nat /\ u.scheme_end < Len(s)
  <2> DEFINE m == u.path_start
             e == u.scheme_end
             n == Len(s)
  <2>1. /\ s \in Text /\ a \in Nat /\ b \in Nat /\ n \in Nat
        /\ a <= b /\ b <= m /\ m <= n /\ m \in Nat /\ e \in Nat /\ e < m
    BY <1>1, GoodFacts, HeadPlaces DEF HeadCut
  <2> HIDE DEF s, a, b, m, n, e
  <2>2. b <= n /\ e < n  BY <2>1
  <2> QED  BY <2>1, <2>2 DEF m, n, e
<1>5. u.scheme_end = 1
  <2> DEFINE e == u.scheme_end
  <2>1. e \in Nat /\ e <= Len(s)  BY <1>4
  <2> HIDE DEF e, s
  <2>2. Len(Take(s, e)) = e  BY <1>4, <2>1, TakeFacts
  <2> QED  BY <1>2, <1>3, <2>2 DEF Scheme, e, s
<1>6. a = 4  BY <1>5 DEF Parsed, FileBare
<1>7. StartsWithAuthority(s, 1)
  <2>1. u.username_end >= u.scheme_end + 3 /\ u.username_end \in Nat
        /\ AuthorityMarked(u)
    BY <1>1, GoodFacts DEF AuthorityIntact, SpecialHasAuthority
  <2>2. has_authority(u)  BY <1>5, <2>1 DEF AuthorityMarked
  <2> QED  BY <1>5, <2>2 DEF has_authority
<1>8. s[1] = f[1]
  <2>1. Take(s, 1) = Take(f, 1)  BY <1>2, <1>3, <1>5 DEF Scheme
  <2>2. 1 <= Len(s) /\ 1 <= Len(f) /\ 1 \in Nat /\ 1 \in 1..1
    BY <1>3, <1>4, <1>5
  <2> HIDE DEF s, f
  <2>3. Take(s, 1)[1] = s[1] /\ Take(f, 1)[1] = f[1]
    BY <1>3, <1>4, <2>2, TakeFacts
  <2> QED  BY <2>1, <2>3
<1>9. \A i \in 1..4 : s[i] = f[i]
  <2>1. /\ s[1 + 1] = ":" /\ s[2 + 1] = "/" /\ s[3 + 1] = "/"
        /\ f[1 + 1] = ":" /\ f[2 + 1] = "/" /\ f[3 + 1] = "/"
    <3> HIDE DEF s, f
    <3> QED  BY <1>3, <1>7 DEF StartsWithAuthority, HasByte, ByteAt
  <2> HIDE DEF s, f
  <2>2. s[2] = f[2] /\ s[3] = f[3] /\ s[4] = f[4]  BY <2>1
  <2>3. \A i \in 1..4 : i = 1 \/ i = 2 \/ i = 3 \/ i = 4  OBVIOUS
  <2> QED  BY <1>8, <2>2, <2>3
<1>10. /\ text \in Text /\ Len(text) = b - a
       /\ \A i \in 1..(b - a) : text[i] = s[a + i]
  <2>1. text = Slice(s, a, b)  BY DEF HostText
  <2> HIDE DEF text, s, a, b
  <2> QED  BY <1>4, <2>1, SliceFacts
<1>11. v.host_end = Len(r) /\ v.ser = r /\ v.host = u.host /\ v.port = None
  BY DEF UpToFilePath, UpToPath
<1>12. u.port = None  BY <1>1 DEF ComponentsApart
<1> HIDE DEF f, text, s, a, b, v
<1>13. /\ r \in Text /\ Len(r) = b
       /\ \A i \in 1..4 : r[i] = f[i]
       /\ \A i \in 1..(b - a) : r[4 + i] = text[i]
  <2>1. /\ r \in Text /\ Len(r) = Len(f) + Len(text)
        /\ \A i \in 1..Len(f) : r[i] = f[i]
        /\ \A i \in 1..Len(text) : r[Len(f) + i] = text[i]
    BY <1>3, <1>10, ConcatFacts
  <2> HIDE DEF r
  <2>2. Len(f) + Len(text) = b  BY <1>3, <1>4, <1>6, <1>10
  <2> QED  BY <1>3, <1>10, <2>1, <2>2
<1> HIDE DEF r
<1>14. \A i \in 1..b : r[i] = s[i]
  <2> TAKE i \in 1..b
  <2>1. CASE i <= 4  BY <1>9, <1>13, <2>1
  <2>2. CASE i > 4
    <3>1. i - 4 \in 1..(b - a) /\ 4 + (i - 4) = i  BY <1>4, <1>6, <2>2
    <3> QED  BY <1>6, <1>10, <1>13, <3>1
  <2> QED  BY <1>4, <2>1, <2>2
<1>15. StartsAs(r, s, b)
  <2>1. b <= Len(r)  BY <1>4, <1>13
  <2> QED  BY <1>13, <1>14, <2>1 DEF StartsAs
<1> QED  BY <1>11, <1>12, <1>13, <1>15 DEF SameAuthority, v, r, f, text, s, b

\* Where the first segment of a path is a drive letter, so the path starts.
LEMMA DriveInFront ==
    ASSUME NEW u, Good(u), is_normalized_windows_drive_letter(FirstPathSegment(u))
    PROVE  StartsWithDriveLetter(Tail(Path(u)))
<1> DEFINE path == Path(u)
           rest == Tail(path)
           slash == {"/"}
           e == Find(rest, slash)
           first == FirstPathSegment(u)
<1>1. path \in Text  BY PathFacts
<1>2. first = IF FirstIn(path, slash) THEN Take(rest, e) ELSE <<>>
  BY DEF FirstPathSegment
<1>3. /\ Len(first) = 2 /\ is_windows_drive_letter(first)
  BY DEF is_normalized_windows_drive_letter, is_windows_drive_letter
<1>4. Len(<<>>) = 0  OBVIOUS
<1> HIDE DEF path, first
<1>5. FirstIn(path, slash) /\ first = Take(rest, e)
  <2>1. first # <<>>  BY <1>3, <1>4
  <2> QED  BY <1>2, <2>1
<1>6. rest \in Text  BY <1>1, <1>5, FirstFacts
<1> HIDE DEF rest, slash
<1>7. /\ e \in Nat /\ e <= Len(rest) /\ Len(Take(rest, e)) = e
      /\ e < Len(rest) => rest[e + 1] \in slash
  BY <1>6, FindFacts, FoundFacts
<1> HIDE DEF e
<1>8. e = 2  BY <1>3, <1>5, <1>7
<1>9. Len(rest) > 2 => rest[3] = "/"  BY <1>7, <1>8 DEF slash
<1>10. Len(rest) >= 2 /\ first = Take(rest, 2)  BY <1>5, <1>7, <1>8
<1>11. StartsWithDriveLetter(rest)
  BY <1>3, <1>9, <1>10 DEF StartsWithDriveLetter
<1> QED  BY <1>11 DEF rest, path

\* A single slash.
LEMMA FileSlashParsed ==
    ASSUME FileScheme \in Text, NEW input \in Text, FirstIn(input, {"/", "BSLASH"}),
           NEW hasBase \in BOOLEAN, NEW base, hasBase => Parsed(base)
    PROVE  /\ ParseFileSlash(input, hasBase, base).ok
           /\ Parsed(ParseFileSlash(input, hasBase, base).url)
           /\ Scheme(ParseFileSlash(input, hasBase, base).url) = FileScheme
           /\ /\ hasBase /\ TypeOf(base) = "File"
              /\ ~StartsWithDriveLetter(Tail(input)) /\ ~HostBeforeDrive(base)
              => SameAuthority(ParseFileSlash(input, hasBase, base).url, base)
<1> DEFINE first == FirstPathSegment(base)
           inherit == hasBase /\ ~StartsWithDriveLetter(Tail(input))
           drive == inherit /\ is_normalized_windows_drive_letter(first)
           host == inherit /\ ~drive /\ has_host(base)
           text == IF host THEN HostText(base) ELSE <<>>
           kind == IF host THEN base.host ELSE "None"
           tail == IF drive THEN <<"/">> \o first ELSE <<>>
           start == FileAuthority \o text
           path == ParsePath(start \o tail, "File", FALSE, Len(start), input,
                             "UrlParser")
           result == FinishFile(UpToFilePath(start, kind), path)
<1>1. ParseFileSlash(input, hasBase, base) = result  BY DEF ParseFileSlash
<1>2. HostFits(kind, text)
  <2>1. CASE host
    <3>1. kind = base.host /\ text = HostText(base)  BY <2>1
    <3>2. Parsed(base)  BY <2>1
    <3> QED  BY <3>1, <3>2, BaseHostFits
  <2>2. CASE ~host
    <3>1. kind = "None" /\ text = <<>>  BY <2>2
    <3> QED  BY <3>1, NoHostFits
  <2> QED  BY <2>1, <2>2
<1>3. tail \in Text /\ StartsFilePath(tail, 0, input)
  <2>1. CASE drive
    <3>1. first \in Text  BY <2>1, FirstSegmentText DEF Parsed
    <3>2. <<"/">> \in Text  BY OneLexeme, MarksApart DEF Mark
    <3> DEFINE slash == <<"/">>
    <3> HIDE DEF slash, first
    <3>3. slash \o first \in Text  BY <3>1, <3>2, ConcatFacts DEF slash
    <3>4. tail = slash \o first  BY <2>1 DEF slash
    <3>5. Len(first) = 2 /\ first[2] = ":" /\ first[1] \in Letter
      BY <2>1 DEF is_normalized_windows_drive_letter, is_windows_drive_letter
    <3>6. Len(slash) = 1 /\ slash[1] = "/"  BY DEF slash
    <3>7. /\ Len(slash \o first) = 3
          /\ \A i \in 1..1 : (slash \o first)[i] = slash[i]
          /\ \A i \in 1..2 : (slash \o first)[1 + i] = first[i]
      <4>1. slash \in Text  BY <3>2 DEF slash
      <4>2. /\ Len(slash \o first) = Len(slash) + Len(first)
            /\ \A i \in 1..Len(slash) : (slash \o first)[i] = slash[i]
            /\ \A i \in 1..Len(first) : (slash \o first)[Len(slash) + i] = first[i]
        BY <3>1, <4>1, ConcatFacts
      <4> QED  BY <3>5, <3>6, <4>2
    <3> DEFINE r == slash \o first
    <3>8. Len(r) = 3 /\ r[1] = "/" /\ r[2] = first[1] /\ r[3] = ":"
      <4>1. 1 \in 1..1 /\ 1 \in 1..2 /\ 2 \in 1..2 /\ 1 + 1 = 2 /\ 1 + 2 = 3
        OBVIOUS
      <4> HIDE DEF r
      <4> QED  BY <3>5, <3>6, <3>7, <4>1 DEF r
    <3> HIDE DEF r
    <3>9. \A c \in Letter : c \notin Dot /\ c # "/"
      BY WordAssumption, MarksApart DEF Mark, Dot
    <3>10. StartsFilePath(r, 0, input)
      <4>1. Ready(r, 0)  BY <3>8 DEF Ready, Dot
      <4>2. RootedAt(r, 0)  BY <3>8 DEF RootedAt
      <4>3. Tidy(r, 0)
        <5> SUFFICES ASSUME NEW i \in (0 + 1)..Len(r), r[i] = "/"
                     PROVE  ~DotsBehind(r, i)
          BY DEF Tidy
        <5>1. i = 1  BY <3>5, <3>8, <3>9
        <5> QED  BY <3>5, <3>8, <3>9, <5>1 DEF DotsBehind
      <4> QED  BY <4>1, <4>2, <4>3 DEF StartsFilePath
    <3> QED  BY <3>3, <3>4, <3>10 DEF r
  <2>2. CASE ~drive
    <3>1. tail = <<>>  BY <2>2
    <3> DEFINE e == <<>>
    <3>2. e \in Text /\ Len(e) = 0  BY EmptySeq DEF Text
    <3> HIDE DEF e
    <3>3. StartsFilePath(e, 0, input)
      BY <3>2 DEF StartsFilePath, Tidy, Ready
    <3> QED  BY <3>1, <3>2, <3>3 DEF e
  <2> QED  BY <2>1, <2>2
<1>3a. ASSUME hasBase, TypeOf(base) = "File", ~HostBeforeDrive(base),
              ~StartsWithDriveLetter(Tail(input))
       PROVE  kind = base.host /\ text = HostText(base)
  <2>1. inherit /\ Good(base) /\ ComponentsApart(base) /\ HostNamed(base)
    BY <1>3a DEF Parsed
  <2>2. CASE host  BY <2>2
  <2>3. CASE ~host
    <3>1. base.host = "None" \/ drive  BY <2>1, <2>3 DEF has_host
    <3>2. base.host_start = base.host_end
      <4>1. CASE base.host = "None"  BY <2>1, <4>1 DEF ComponentsApart
      <4>2. CASE drive
        <5>1. StartsWithDriveLetter(Tail(Path(base)))
          BY <2>1, <4>2, DriveInFront
        <5>2. ~(base.host_start < base.host_end)
          BY <1>3a, <5>1 DEF HostBeforeDrive
        <5>3. base.host_start \in Nat /\ base.host_end \in Nat
              /\ base.host_start <= base.host_end
          BY <2>1, GoodFacts DEF HeadCut
        <5> QED  BY <5>2, <5>3
      <4> QED  BY <3>1, <4>1, <4>2
    <3>3. base.host = "None"  BY <2>1, <3>2 DEF HostNamed
    <3>4. HostText(base) = <<>>  BY <2>1, <3>2, HostFacts
    <3> QED  BY <2>3, <3>3, <3>4
  <2> QED  BY <2>2, <2>3
<1> HIDE DEF kind, text, tail
<1>4. /\ result.ok /\ Parsed(result.url) /\ Scheme(result.url) = FileScheme
      /\ KeepsHead(result.url, UpToFilePath(start, kind))
  BY <1>2, <1>3, FilePathBehind
<1>5. Good(UpToFilePath(start, kind))  BY <1>2, FileHead
<1>6. SameAuthority(result.url, UpToFilePath(start, kind))
  <2> DEFINE w == result.url
             v == UpToFilePath(start, kind)
  <2>1. KeepsHead(w, v) /\ Good(v)  BY <1>4, <1>5
  <2> HIDE DEF w, v
  <2>2. SameAuthority(w, v)  BY <2>1, KeptAuthority
  <2> QED  BY <2>2 DEF w, v
<1> HIDE DEF result
<1>7. ASSUME hasBase, TypeOf(base) = "File", ~HostBeforeDrive(base),
             ~StartsWithDriveLetter(Tail(input))
      PROVE  SameAuthority(result.url, base)
  <2>1. kind = base.host /\ text = HostText(base)  BY <1>3a, <1>7
  <2>2. SameAuthority(UpToFilePath(start, kind), base)
    BY <1>7, <2>1, FileHeadAgain
  <2> QED  BY <1>6, <2>2 DEF SameAuthority, StartsAs
<1> QED  BY <1>1, <1>4, <1>7

\* A path that stands alone.
LEMMA FilePathAlone ==
    ASSUME FileScheme \in Text, NEW input \in Text
    PROVE  /\ ParseFilePath(input).ok /\ Parsed(ParseFilePath(input).url)
           /\ Scheme(ParseFilePath(input).url) = FileScheme
<1> DEFINE kind == "None"
           text == <<>>
           tail == <<"/">>
           f == FileAuthority
           start == f \o text
           path == ParsePath(start \o tail, "File", FALSE, Len(start), input,
                             "UrlParser")
           result == FinishFile(UpToFilePath(start, kind), path)
<1>1. HostFits(kind, text) /\ start = f  BY NoHostFits
<1>2. tail \in Text /\ "/" \in Lexeme  BY OneLexeme, MarksApart DEF Mark
<1>2a. StartsFilePath(tail, 0, input)
  <2>1. Len(tail) = 1 /\ tail[1] = "/"  OBVIOUS
  <2> HIDE DEF tail
  <2> QED
    BY <2>1 DEF StartsFilePath, Tidy, Ready, RootedAt, DotsBehind, Dot
<1>3. f \in Seq(Lexeme)  BY FileStart DEF Text
<1>4. f \o tail = Append(f, "/")
  <2> HIDE DEF f
  <2> QED  BY <1>2, <1>3
<1>5. ParseFilePath(input)
      = FinishFile(UpToFilePath(f, kind),
                   ParsePath(f \o tail, "File", FALSE, Len(f), input, "UrlParser"))
  BY <1>4 DEF ParseFilePath
<1> HIDE DEF kind, text, tail
<1>6. result.ok /\ Parsed(result.url) /\ Scheme(result.url) = FileScheme
  BY <1>1, <1>2, <1>2a, FilePathBehind
<1> HIDE DEF f
<1>7. result = ParseFilePath(input)  BY <1>1, <1>5
<1> QED  BY <1>6, <1>7

\* A URL whose scheme has a type other than NotSpecial can be a base.
LEMMA SpecialIsABase ==
    ASSUME NEW u, Parsed(u), TypeOf(u) # "NotSpecial"
    PROVE  ~cannot_be_a_base(u)
<1>1. IsSpecial(u)
  BY DEF IsSpecial, IsSpecialType, TypeOf, SchemeType
<1>2. u.username_end >= u.scheme_end + 3
  BY <1>1, GoodFacts DEF Parsed, AuthorityIntact, SpecialHasAuthority
<1>3. u.scheme_end \in Nat /\ u.username_end \in Nat
      /\ AuthorityMarked(u)
  BY GoodFacts DEF Parsed, AuthorityIntact
<1>4. has_authority(u)  BY <1>2, <1>3 DEF AuthorityMarked
<1> QED  BY <1>4 DEF has_authority, StartsWithAuthority, cannot_be_a_base

\* The path of a file URL without its last segment.
LEMMA ShortenedBase ==
    ASSUME NEW u, Parsed(u), TypeOf(u) = "File", NEW type
    PROVE  LET n == u.path_start
               s == shorten_path(WithoutQueryOf(u).ser, type, n)
           IN  /\ s \in Text /\ StartsAs(s, u.ser, n)
               /\ RootedAt(s, n) /\ Tidy(s, n) /\ Ready(s, n)
<1> DEFINE n == u.path_start
           w == WithoutQueryOf(u)
           t == w.ser
           s == shorten_path(t, type, n)
<1>1. /\ Good(w) /\ Untailed(w) /\ SameHead(u, w) /\ Path(w) = Path(u)
      /\ ~cannot_be_a_base(u) /\ Path(u) # <<>>
  <2>1. IsSpecial(u)  BY DEF IsSpecial, IsSpecialType, TypeOf
  <2> QED
    BY <2>1, QueryCut, SpecialIsABase DEF Parsed, ComponentsApart
<1>2. /\ t \in Text /\ n \in Nat /\ n <= Len(t) /\ StartsAs(t, u.ser, n)
      /\ Len(t) = n \/ RootedAt(t, n)
      /\ Tidy(t, n)
  BY <1>1, BasePath
<1>3. Len(t) # n
  <2>1. w.path_start = n  BY <1>1 DEF SameHead
  <2> HIDE DEF w
  <2>2. Path(w) = <<>> <=> w.path_start = PathEnd(w)  BY <1>1, PathFacts
  <2>3. PathEnd(w) = Len(w.ser)  BY <1>1, OpenPath DEF Untailed
  <2> QED  BY <1>1, <2>1, <2>2, <2>3
<1> HIDE DEF w, t, n
<1>4. Continues(s, t, n)  BY <1>2, ShortenContinues
<1>5. Tidy(s, n) /\ Ready(s, n)
  BY <1>2, TidyPop, PopReady DEF shorten_path
<1> HIDE DEF s
<1>6. s \in Text /\ StartsAs(s, u.ser, n) /\ RootedAt(s, n)
  BY <1>2, <1>3, <1>4 DEF Continues, StartsAs
<1> QED  BY <1>5, <1>6 DEF s, t, w, n

\* A reference without a slash, resolved against a file URL.
LEMMA FileRelativeParsed ==
    ASSUME FileScheme \in Text, NEW input \in Text, NEW base, Parsed(base),
           TypeOf(base) = "File", NEW result,
           result = IF input = <<>> THEN Ok(WithoutFragmentOf(base))
                    ELSE IF FirstIn(input, {"?"})
                    THEN Ok(WithQueryAndFragment(WithoutQueryOf(base), "File", input))
                    ELSE IF FirstIn(input, {"#"}) THEN WithFragmentOf(base, input)
                    ELSE IF StartsWithDriveLetter(input) THEN ParseFilePath(input)
                    ELSE ResolvePath(base,
                                     shorten_path(WithoutQueryOf(base).ser, "File",
                                                  base.path_start),
                                     input)
    PROVE  /\ Parsed(result.url)
           /\ ~StartsWithDriveLetter(input) => KeepsHead(result.url, base)
<1> DEFINE type == "File"
           s == shorten_path(WithoutQueryOf(base).ser, type, base.path_start)
<1>1. CASE input = <<>>
  <2> DEFINE w == WithoutFragmentOf(base)
  <2>1. result = Ok(w)  BY <1>1
  <2>2. Parsed(w) /\ SameHead(base, w) /\ w.ser \in Text
    BY FragmentCut DEF Parsed, Good, UrlSet
  <2>3. KeepsHead(w, base)  BY <2>2, HeadStays
  <2> QED  BY <2>1, <2>2, <2>3 DEF Ok
<1>2. CASE input # <<>> /\ FirstIn(input, {"?"})
  <2> DEFINE w == WithoutQueryOf(base)
             v == WithQueryAndFragment(w, type, input)
  <2>1. result = Ok(v)  BY <1>2
  <2>2. Parsed(w) /\ Untailed(w) /\ SameHead(base, w)  BY QueryCut
  <2> HIDE DEF w, type
  <2>3. Parsed(v) /\ KeepsHead(v, w)  BY <2>2, TailAdded
  <2> HIDE DEF v
  <2>4. KeepsHead(v, base)  BY <2>2, <2>3, HeadStays
  <2> QED  BY <2>1, <2>3, <2>4 DEF Ok
<1>3. CASE input # <<>> /\ ~FirstIn(input, {"?"}) /\ FirstIn(input, {"#"})
  <2>1. result = WithFragmentOf(base, input)  BY <1>3
  <2> QED  BY <1>3, <2>1, FragmentParsed
<1>4. CASE /\ input # <<>> /\ ~FirstIn(input, {"?"}) /\ ~FirstIn(input, {"#"})
           /\ StartsWithDriveLetter(input)
  <2>1. result = ParseFilePath(input)  BY <1>4
  <2> QED  BY <1>4, <2>1, FilePathAlone
<1>5. CASE /\ input # <<>> /\ ~FirstIn(input, {"?"}) /\ ~FirstIn(input, {"#"})
           /\ ~StartsWithDriveLetter(input)
  <2>1. result = ResolvePath(base, s, input)  BY <1>5
  <2> DEFINE t == type
  <2>2. /\ s \in Text /\ StartsAs(s, base.ser, base.path_start)
        /\ RootedAt(s, base.path_start)
        /\ Tidy(s, base.path_start) /\ Ready(s, base.path_start)
    <3> HIDE DEF type
    <3> QED  BY ShortenedBase
  <2> HIDE DEF s
  <2>3. /\ Parsed(ResolvePath(base, s, input).url)
        /\ KeepsHead(ResolvePath(base, s, input).url, base)
    BY <2>2, ResolvedParsed
  <2> QED  BY <2>1, <2>3
<1> QED  BY <1>1, <1>2, <1>3, <1>4, <1>5

\* A text that starts with two slashes.
LEMMA TwoSlashes ==
    ASSUME NEW input \in Text, FirstIn(input, {"/", "BSLASH"}),
           FirstIn(Tail(input), {"/", "BSLASH"})
    PROVE  ~(Find(input, Lexeme \ {"/", "BSLASH"}) < 2)
<1> DEFINE slash == {"/", "BSLASH"}
           others == Lexeme \ slash
           rest == Tail(input)
           e == Find(input, others)
<1>1. /\ input[1] \in slash /\ rest \in Text /\ Len(rest) = Len(input) - 1
      /\ \A i \in 1..(Len(input) - 1) : rest[i] = input[i + 1]
  BY FirstFacts DEF FirstIn
<1>2. Len(input) \in Nat /\ Len(rest) >= 1 /\ rest[1] \in slash
  <2>1. FirstIn(rest, slash)  OBVIOUS
  <2> HIDE DEF rest, slash
  <2> QED  BY <1>1, <2>1, FirstFacts, TextFacts DEF FirstIn
<1> HIDE DEF rest, slash
<1>3. /\ e \in Nat
      /\ e < Len(input) => input[e + 1] \notin slash
  BY FindFacts DEF others
<1> HIDE DEF others, e
<1>4. input[2] \in slash /\ Len(input) >= 2
  <2>1. 1 \in 1..(Len(input) - 1)  BY <1>1, <1>2
  <2> QED  BY <1>1, <1>2, <2>1
<1>5. SUFFICES ASSUME e < 2 PROVE FALSE  BY DEF e, others, slash
<1>6. e = 0 \/ e = 1  BY <1>3, <1>5
<1> QED  BY <1>1, <1>2, <1>3, <1>4, <1>6

\* parse_file
LEMMA FileParsed ==
    ASSUME FileScheme \in Text, NEW input \in Text, NEW hasBase \in BOOLEAN,
           NEW base, hasBase => Parsed(base) /\ TypeOf(base) = "File",
           ParseFile(input, hasBase, base).ok
    PROVE  /\ Parsed(ParseFile(input, hasBase, base).url)
           /\ ~hasBase => Scheme(ParseFile(input, hasBase, base).url) = FileScheme
           /\ /\ hasBase /\ Find(input, Lexeme \ {"/", "BSLASH"}) < 2
              /\ ~ChangesVolume(base, input) /\ ~HostBeforeDrive(base)
              => SameAuthority(ParseFile(input, hasBase, base).url, base)
<1> DEFINE slash == {"/", "BSLASH"}
           one == FirstIn(input, slash)
           two == FirstIn(Tail(input), slash)
           result == ParseFile(input, hasBase, base)
           relative ==
               IF input = <<>> THEN Ok(WithoutFragmentOf(base))
               ELSE IF FirstIn(input, {"?"})
               THEN Ok(WithQueryAndFragment(WithoutQueryOf(base), "File", input))
               ELSE IF FirstIn(input, {"#"}) THEN WithFragmentOf(base, input)
               ELSE IF StartsWithDriveLetter(input) THEN ParseFilePath(input)
               ELSE ResolvePath(base,
                                shorten_path(WithoutQueryOf(base).ser, "File",
                                             base.path_start),
                                input)
<1>1. result = CASE one /\ two  -> ParseFileAuthority(Drop(input, 2))
                 [] one /\ ~two -> ParseFileSlash(input, hasBase, base)
                 [] ~one /\ ~hasBase -> ParseFilePath(input)
                 [] OTHER -> relative
  BY DEF ParseFile
<1>2. one /\ two => Drop(input, 2) \in Text
  <2> DEFINE rest == Tail(input)
  <2> SUFFICES ASSUME one, two PROVE Drop(input, 2) \in Text
    OBVIOUS
  <2>1. rest \in Text /\ Len(rest) = Len(input) - 1  BY FirstFacts
  <2>2. Len(rest) >= 1
    <3>1. FirstIn(rest, slash)  OBVIOUS
    <3> HIDE DEF rest, slash
    <3> QED  BY <2>1, <3>1, FirstFacts
  <2>3. 2 <= Len(input) /\ Len(input) \in Nat /\ 2 \in Nat
    <3>1. Len(input) \in Nat  BY TextFacts
    <3> QED  BY <2>1, <2>2, <3>1
  <2> QED  BY <2>3, DropFacts
<1>3. \/ one /\ two /\ result = ParseFileAuthority(Drop(input, 2))
      \/ one /\ result = ParseFileSlash(input, hasBase, base)
      \/ ~hasBase /\ result = ParseFilePath(input)
      \/ hasBase /\ result = relative
  <2> HIDE DEF one, two, result, relative
  <2> QED  BY <1>1
<1>3a. one /\ two => ~(Find(input, Lexeme \ {"/", "BSLASH"}) < 2)
  BY TwoSlashes
<1>4. CASE one /\ two /\ result = ParseFileAuthority(Drop(input, 2))
  <2> DEFINE rest == Drop(input, 2)
  <2>1. rest \in Text  BY <1>2, <1>4
  <2>2. ParseFileAuthority(rest).ok  BY <1>4
  <2> HIDE DEF rest
  <2>3. /\ Parsed(ParseFileAuthority(rest).url)
        /\ Scheme(ParseFileAuthority(rest).url) = FileScheme
    BY <2>1, <2>2, FileAuthorityParsed
  <2> HIDE DEF one, two, relative
  <2> QED  BY <1>3a, <1>4, <2>3 DEF rest
<1>5. CASE one /\ result = ParseFileSlash(input, hasBase, base)
  <2>1. hasBase /\ ~ChangesVolume(base, input)
           => TypeOf(base) = "File" /\ ~StartsWithDriveLetter(Tail(input))
    BY <1>5 DEF ChangesVolume
  <2> HIDE DEF relative
  <2> QED  BY <1>5, <2>1, FileSlashParsed
<1>6. CASE ~hasBase /\ result = ParseFilePath(input)
  BY <1>6, FilePathAlone
<1>7. CASE hasBase /\ result = relative
  <2> DEFINE w == relative.url
  <2>1. Parsed(w) /\ (~StartsWithDriveLetter(input) => KeepsHead(w, base))
    BY <1>7, FileRelativeParsed
  <2>2. ~ChangesVolume(base, input) => ~StartsWithDriveLetter(input)
    BY <1>7 DEF ChangesVolume
  <2>3. result.url = w /\ Good(base)  BY <1>7 DEF Parsed
  <2> HIDE DEF w, result, relative
  <2>4. ~ChangesVolume(base, input) => SameAuthority(w, base)
    BY <2>1, <2>2, <2>3, KeptAuthority
  <2> QED  BY <1>7, <2>1, <2>3, <2>4 DEF result
<1> QED  BY <1>3, <1>4, <1>5, <1>6, <1>7

(****************************************************************************)
(* Entry points.                                                            *)
(****************************************************************************)
\* parse_with_scheme
LEMMA SchemeParsed ==
    ASSUME NEW scheme \in Text, NoSpace(scheme), NEW input \in Text,
           NEW hasBase \in BOOLEAN, NEW base, hasBase => Parsed(base),
           ParseWithScheme(scheme, input, hasBase, base).ok
    PROVE  /\ Parsed(ParseWithScheme(scheme, input, hasBase, base).url)
           /\ ~hasBase /\ SchemeType(scheme) # "NotSpecial"
              => Scheme(ParseWithScheme(scheme, input, hasBase, base).url) = scheme
<1> DEFINE type == SchemeType(scheme)
           slashes == Find(input, Lexeme \ {"/", "BSLASH"})
           same == hasBase /\ Scheme(base) = scheme
           s == Append(scheme, ":")
           n == Len(scheme)
           rest == Drop(input, slashes)
           result == ParseWithScheme(scheme, input, hasBase, base)
<1>1. type \in SchemeTypes /\ (type = "File" => scheme = FileScheme)
  BY DEF SchemeType, SchemeTypes
<1>2. rest \in Text  BY FoundFacts
<1>3. SchemeColon(s, n) /\ Take(s, n) = scheme  BY ColonAdded
<1>4. result = CASE type = "File" -> ParseFile(input, same, base)
                 [] IsRelative(type, same, input) -> ParseRelative(input, base)
                 [] type = "NotSpecial" -> ParseNonSpecial(scheme, input)
                 [] OTHER -> AfterDoubleSlash(s, rest, type, n)
  BY DEF ParseWithScheme
<1>5. same \in BOOLEAN /\ (same => Parsed(base) /\ TypeOf(base) = type)
  BY DEF TypeOf
<1>6. IsRelative(type, same, input) => type = "SpecialNotFile" /\ same
  BY DEF IsRelative
<1>6a. ~hasBase => ~same  OBVIOUS
<1>7. result.ok  OBVIOUS
<1>8. SchemeType(scheme) = type  OBVIOUS
<1> HIDE DEF type, same, s, n, rest, result
<1>9. CASE type = "File"
  <2>1. result = ParseFile(input, same, base)  BY <1>4, <1>6, <1>9
  <2>2. FileScheme \in Text  BY <1>1, <1>9
  <2>3. /\ Parsed(ParseFile(input, same, base).url)
        /\ ~same => Scheme(ParseFile(input, same, base).url) = FileScheme
    BY <1>5, <1>7, <1>9, <2>1, <2>2, FileParsed
  <2> QED  BY <1>1, <1>6a, <1>9, <2>1, <2>3 DEF result
<1>10. CASE IsRelative(type, same, input)
  <2>1. result = ParseRelative(input, base)  BY <1>4, <1>6, <1>10
  <2>2. Parsed(base) /\ TypeOf(base) # "File" /\ ~cannot_be_a_base(base)
    BY <1>5, <1>6, <1>10, SpecialIsABase
  <2>3. Parsed(ParseRelative(input, base).url)
    BY <1>7, <2>1, <2>2, RelativeParsed
  <2> QED  BY <1>6, <1>6a, <1>10, <2>1, <2>3 DEF result
<1>11. CASE type = "NotSpecial"
  <2>1. result = ParseNonSpecial(scheme, input)  BY <1>4, <1>6, <1>11
  <2>2. Parsed(ParseNonSpecial(scheme, input).url)
    BY <1>7, <1>8, <1>11, <2>1, NonSpecialParsed
  <2> QED  BY <1>8, <1>11, <2>1, <2>2 DEF result
<1>12. CASE type = "SpecialNotFile" /\ ~IsRelative(type, same, input)
  <2>1. result = AfterDoubleSlash(s, rest, type, n)  BY <1>4, <1>12
  <2>2. type = SchemeType(Take(s, n)) /\ type # "File"
    BY <1>3, <1>8, <1>12
  <2>3. /\ Parsed(AfterDoubleSlash(s, rest, type, n).url)
        /\ Scheme(AfterDoubleSlash(s, rest, type, n).url) = Take(s, n)
    BY <1>2, <1>3, <1>7, <2>1, <2>2, AuthorityParsed
  <2> QED  BY <1>3, <2>1, <2>3 DEF result
<1> QED  BY <1>1, <1>9, <1>10, <1>11, <1>12 DEF SchemeTypes

\* parse_url_full
LEMMA AgainstParsed ==
    ASSUME NEW text \in Text, NEW hasBase \in BOOLEAN, NEW base,
           hasBase => Parsed(base), ParseAgainst(text, hasBase, base).ok
    PROVE  Parsed(ParseAgainst(text, hasBase, base).url)
<1> DEFINE trimmed == TrimSpaces(text)
           input == SkipTabs(trimmed)
           p == ParseScheme(input, "UrlParser")
           scheme == p.scheme
           rest == p.rest
           result == ParseAgainst(text, hasBase, base)
<1>1. input \in Text
  <2>1. trimmed \in Text  BY TrimmedText
  <2> HIDE DEF trimmed
  <2> QED  BY <2>1, SkippedText
<1>2. result = IF p.ok THEN ParseWithScheme(scheme, rest, hasBase, base)
               ELSE IF ~hasBase THEN Err("RelativeUrlWithoutBase")
               ELSE IF FirstIn(input, {"#"}) THEN WithFragmentOf(base, input)
               ELSE IF cannot_be_a_base(base)
               THEN Err("RelativeUrlWithCannotBeABaseBase")
               ELSE IF TypeOf(base) = "File" THEN ParseFile(input, TRUE, base)
               ELSE ParseRelative(input, base)
  BY DEF ParseAgainst, Input
<1>3. result.ok  OBVIOUS
<1> HIDE DEF input, result
<1>4. p.ok => scheme \in Text /\ NoSpace(scheme) /\ rest \in Text
  <2> DEFINE context == "UrlParser"
  <2> HIDE DEF context
  <2>1. ParseScheme(input, context).ok =>
           LET q == ParseScheme(input, context)
           IN  /\ q.scheme \in Text /\ Len(q.scheme) > 0 /\ NoSpace(q.scheme)
               /\ q.rest \in Text
    BY <1>1, ParsedScheme
  <2> QED  BY <2>1 DEF context
<1> HIDE DEF p
<1>5. CASE p.ok
  <2>1. result = ParseWithScheme(scheme, rest, hasBase, base)  BY <1>2, <1>5
  <2>2. scheme \in Text /\ NoSpace(scheme) /\ rest \in Text  BY <1>4, <1>5
  <2> HIDE DEF scheme, rest
  <2>3. Parsed(ParseWithScheme(scheme, rest, hasBase, base).url)
    BY <1>3, <2>1, <2>2, SchemeParsed
  <2> QED  BY <2>1, <2>3 DEF result
<1>6. CASE ~p.ok /\ hasBase /\ FirstIn(input, {"#"})
  <2>1. result = WithFragmentOf(base, input)  BY <1>2, <1>6
  <2>2. input # <<>>  BY <1>6 DEF FirstIn
  <2>3. Parsed(WithFragmentOf(base, input).url)
    BY <1>1, <1>6, <2>2, FragmentParsed
  <2> QED  BY <2>1, <2>3 DEF result
<1>7. CASE /\ ~p.ok /\ hasBase /\ ~FirstIn(input, {"#"}) /\ ~cannot_be_a_base(base)
           /\ TypeOf(base) = "File"
  <2> DEFINE yes == TRUE
  <2>1. result = ParseFile(input, yes, base)  BY <1>2, <1>7
  <2>2. FileScheme \in Text  BY <1>7, FileSchemeKnown DEF Parsed
  <2>3. yes \in BOOLEAN /\ Parsed(base) /\ TypeOf(base) = "File"  BY <1>7
  <2> HIDE DEF yes
  <2>4. Parsed(ParseFile(input, yes, base).url)
    BY <1>1, <1>3, <2>1, <2>2, <2>3, FileParsed
  <2> QED  BY <2>1, <2>4 DEF result
<1>8. CASE /\ ~p.ok /\ hasBase /\ ~FirstIn(input, {"#"}) /\ ~cannot_be_a_base(base)
           /\ TypeOf(base) # "File"
  <2>1. result = ParseRelative(input, base)  BY <1>2, <1>8
  <2>2. Parsed(ParseRelative(input, base).url)
    BY <1>1, <1>3, <1>8, <2>1, RelativeParsed
  <2> QED  BY <2>1, <2>2 DEF result
<1>9. CASE ~p.ok /\ (~hasBase \/ (~FirstIn(input, {"#"}) /\ cannot_be_a_base(base)))
  <2>1. result = Err("RelativeUrlWithoutBase")
        \/ result = Err("RelativeUrlWithCannotBeABaseBase")
    BY <1>2, <1>9
  <2> QED  BY <1>3, <2>1 DEF Err
<1> QED  BY <1>5, <1>6, <1>7, <1>8, <1>9

\* Where no tab is, skipping tabs keeps what a text starts with.
LEMMA SkipKeepsFront ==
    ASSUME NEW s \in Text, NEW k \in Nat, k <= Len(s),
           \A i \in 1..k : s[i] # "TAB"
    PROVE  StartsAs(SkipTabs(s), s, k)
<1> DEFINE n == Len(s)
<1>1. PICK g : /\ SkipTabs(s) = g[n] /\ g[0] = <<>>
               /\ \A j \in 1..n :
                     g[j] = IF s[j] = "TAB" THEN g[j - 1] ELSE Append(g[j - 1], s[j])
  BY SkipLoop
<1>2. n \in Nat /\ k <= n /\ \A j \in 1..n : s[j] \in Lexeme  BY TextFacts
<1> DEFINE Starts(j) == /\ g[j] \in Text
                        /\ j <= k => Len(g[j]) = j
                        /\ j > k => Len(g[j]) >= k
                        /\ \A i \in 1..k : i <= j => g[j][i] = s[i]
           h == [j \in 0..n |-> IF Starts(j) THEN 0 ELSE 1]
<1>3. Starts(0)
  <2>1. <<>> \in Text /\ Len(<<>>) = 0  BY EmptySeq DEF Text
  <2> QED  BY <1>1, <2>1
<1> HIDE DEF n
<1>4. ASSUME NEW j \in 1..n, Starts(j - 1)
      PROVE  Starts(j)
  <2>1. /\ g[j - 1] \in Text /\ Len(g[j - 1]) \in Nat /\ s[j] \in Lexeme
        /\ j \in Nat /\ j >= 1
    BY <1>2, <1>4, TextFacts
  <2> DEFINE r == g[j - 1]
             t == Append(r, s[j])
  <2>2. /\ t \in Text /\ Len(t) = Len(r) + 1
        /\ \A i \in 1..Len(r) : t[i] = r[i]
        /\ t[Len(r) + 1] = s[j]
    BY <2>1, AppendFacts
  <2>3. g[j] = IF s[j] = "TAB" THEN r ELSE t  BY <1>1
  <2>4. /\ r \in Text /\ Len(r) \in Nat
        /\ j - 1 <= k => Len(r) = j - 1
        /\ j - 1 > k => Len(r) >= k
        /\ \A i \in 1..k : i <= j - 1 => r[i] = s[i]
    BY <1>4, <2>1
  <2> HIDE DEF r, t
  <2>5. CASE j <= k
    <3>1. j \in 1..k  BY <2>1, <2>5
    <3>2. g[j] = t  BY <2>3, <3>1
    <3>3. Len(r) = j - 1 /\ Len(t) = j  BY <2>1, <2>2, <2>4, <2>5
    <3>4. \A i \in 1..k : i <= j => t[i] = s[i]
      <4> TAKE i \in 1..k
      <4>1. CASE i = j  BY <2>1, <2>2, <3>3, <4>1
      <4>2. CASE i <= j - 1
        <5>1. i \in 1..Len(r)  BY <2>1, <3>3, <4>2
        <5> QED  BY <2>2, <2>4, <4>2, <5>1
      <4> QED  BY <2>1, <4>1, <4>2
    <3> QED  BY <2>1, <2>2, <2>5, <3>2, <3>3, <3>4
  <2>6. CASE j > k
    <3>1. Len(r) >= k  BY <2>1, <2>4, <2>6
    <3>2. \A i \in 1..k : i \in 1..Len(r) /\ i <= j - 1  BY <2>1, <2>4, <2>6, <3>1
    <3>3. \A i \in 1..k : r[i] = s[i] /\ t[i] = s[i]  BY <2>2, <2>4, <3>2
    <3>4. Len(t) >= k  BY <2>2, <2>4, <3>1
    <3> QED  BY <2>1, <2>2, <2>3, <2>4, <2>6, <3>1, <3>3, <3>4
  <2> QED  BY <2>1, <2>5, <2>6
<1> DEFINE zero == {0}
<1>5. h[0] \in zero /\ \A j \in 1..n : h[j - 1] \in zero => h[j] \in zero
  <2> HIDE DEF Starts
  <2>1. 0 \in 0..n /\ \A j \in 1..n : j \in 0..n /\ j - 1 \in 0..n
    BY <1>2
  <2> QED  BY <1>3, <1>4, <2>1
<1> HIDE DEF h, zero
<1>6. h[n] \in zero
  <2>1. \A j \in 0..n : h[j] \in zero  BY <1>2, <1>5, RecursionKeeps
  <2> QED  BY <1>2, <2>1
<1>7. Starts(n)
  <2> HIDE DEF Starts
  <2> QED  BY <1>2, <1>6 DEF h, zero
<1>8. Len(g[n]) >= k /\ \A i \in 1..k : i <= n  BY <1>2, <1>7
<1> QED  BY <1>1, <1>7, <1>8 DEF StartsAs

\* The parser sees what a text starts with, if it is no space.
LEMMA InputKeepsFront ==
    ASSUME NEW s \in Text, NEW k \in Nat, 1 <= k, k <= Len(s),
           \A i \in 1..k : s[i] \notin {"SP", "TAB"}
    PROVE  StartsAs(Input(s), s, k)
<1> DEFINE kept == {i \in 1..Len(s) : s[i] \notin {"SP", "TAB"}}
           a == Min(kept)
           b == Max(kept)
           r == TrimSpaces(s)
<1>1. Len(s) \in Nat  BY TextFacts
<1>2. 1 \in kept /\ k \in kept  BY <1>1
<1>3. /\ kept \subseteq Nat /\ kept \subseteq Int /\ kept # {} /\ Len(s) \in Int
      /\ \A i \in kept : 1 <= i /\ i <= Len(s)
  BY <1>1, <1>2
<1>4. r = SubSeq(s, a, b)  BY <1>2 DEF TrimSpaces
<1>5. r \in Text  BY TrimmedText
<1> HIDE DEF kept
<1>6. a \in kept /\ \A i \in kept : a <= i  BY <1>3, MinFacts
<1>7. b \in kept /\ \A i \in kept : i <= b  BY <1>3, MaxFacts
<1> HIDE DEF a, b, r
<1>8. a = 1 /\ k <= b /\ b \in Nat /\ b <= Len(s)
  <2>1. a \in Nat /\ b \in Nat /\ 1 <= a /\ b <= Len(s)
    BY <1>3, <1>6, <1>7
  <2>2. a <= 1 /\ k <= b  BY <1>2, <1>6, <1>7
  <2> QED  BY <2>1, <2>2
<1>9. Len(r) = b /\ \A i \in 1..b : r[i] = s[i]
  <2>1. r = SubSeq(s, 1, b) /\ s \in Seq(Lexeme)  BY <1>4, <1>8 DEF Text
  <2> QED  BY <1>1, <1>8, <2>1
<1>10. k <= Len(r) /\ \A i \in 1..k : r[i] = s[i]  BY <1>8, <1>9
<1>11. \A i \in 1..k : r[i] # "TAB"  BY <1>10
<1>12. StartsAs(SkipTabs(r), r, k)  BY <1>5, <1>10, <1>11, SkipKeepsFront
<1> QED  BY <1>10, <1>12 DEF StartsAs, Input, r

\* A scheme in front of ":" and two slashes, as the parser reads it.
LEMMA SchemeFound ==
    ASSUME NEW input \in Text, NEW a \in Nat, a + 3 <= Len(input),
           \A i \in 1..a : input[i] \in Word \union Digit \union {".", "+"},
           StartsWithAuthority(input, a), ParseScheme(input, "UrlParser").ok
    PROVE  LET rest == ParseScheme(input, "UrlParser").rest
           IN  /\ rest \in Text
               /\ FirstIn(rest, {"/", "BSLASH"})
               /\ FirstIn(Tail(rest), {"/", "BSLASH"})
<1> DEFINE chars == Lexeme \ (Word \union Digit \union {".", "+"})
           e == Find(input, chars)
           rest == ParseScheme(input, "UrlParser").rest
           slash == {"/", "BSLASH"}
<1>1. Len(input) \in Nat  BY TextFacts
<1>2. /\ e \in Nat /\ e <= Len(input)
      /\ \A i \in 1..e : input[i] \notin chars
      /\ e < Len(input) => input[e + 1] \in chars
  BY FindFacts
<1>3. rest = Drop(input, e + 1)  BY DEF ParseScheme, Err
<1>4. input[a + 1] = ":" /\ input[a + 2] = "/" /\ input[a + 3] = "/"
  <2>1. input[a + 1] = ":" /\ input[(a + 1) + 1] = "/" /\ input[(a + 2) + 1] = "/"
    BY DEF StartsWithAuthority, HasByte, ByteAt
  <2>2. (a + 1) + 1 = a + 2 /\ (a + 2) + 1 = a + 3  OBVIOUS
  <2> QED  BY <2>1, <2>2
<1>5. ":" \in chars  BY MarksApart DEF Mark, Digit
<1>6. \A i \in 1..a : input[i] \notin chars  OBVIOUS
<1> HIDE DEF chars, e, rest
<1>7. e = a
  <2>1. CASE e < a
    <3>1. e + 1 \in 1..a /\ e < Len(input)  BY <1>1, <1>2, <2>1
    <3> QED  BY <1>2, <1>6, <3>1
  <2>2. CASE a < e
    <3>1. a + 1 \in 1..e  BY <1>2, <2>2
    <3> QED  BY <1>2, <1>4, <1>5, <3>1
  <2> QED  BY <1>2, <2>1, <2>2
<1>8. a + 1 \in Nat /\ a + 1 <= Len(input)  BY <1>1
<1>9. /\ rest \in Text /\ Len(rest) = Len(input) - (a + 1)
      /\ \A i \in 1..(Len(input) - (a + 1)) : rest[i] = input[(a + 1) + i]
  BY <1>3, <1>7, <1>8, DropFacts
<1>10. Len(rest) >= 2 /\ rest[1] = "/" /\ rest[2] = "/"
  <2>1. 1 \in 1..(Len(input) - (a + 1)) /\ 2 \in 1..(Len(input) - (a + 1))
    BY <1>1
  <2>2. (a + 1) + 1 = a + 2 /\ (a + 1) + 2 = a + 3  OBVIOUS
  <2> QED  BY <1>1, <1>4, <1>9, <2>1, <2>2
<1>11. FirstIn(rest, slash)
  <2>1. rest # <<>>  BY <1>9, <1>10, TextFacts
  <2> QED  BY <1>10, <2>1 DEF FirstIn
<1> DEFINE t == Tail(rest)
<1>12. /\ t \in Text /\ Len(t) = Len(rest) - 1
       /\ \A i \in 1..(Len(rest) - 1) : t[i] = rest[i + 1]
  BY <1>9, <1>11, FirstFacts
<1> HIDE DEF t
<1>13. FirstIn(t, slash)
  <2>1. Len(rest) \in Nat  BY <1>9, TextFacts
  <2>2. 1 \in 1..(Len(rest) - 1) /\ Len(t) >= 1  BY <1>10, <1>12, <2>1
  <2>3. t[1] = "/"  BY <1>10, <1>12, <2>2
  <2>4. t # <<>>  BY <1>12, <2>2, TextFacts
  <2> QED  BY <2>3, <2>4 DEF FirstIn
<1> QED  BY <1>9, <1>11, <1>13 DEF rest, t

\* Behind two slashes no base is looked at.
LEMMA BaseIgnored ==
    ASSUME NEW scheme, NEW rest \in Text,
           \/ SchemeType(scheme) = "NotSpecial"
           \/ /\ FirstIn(rest, {"/", "BSLASH"})
              /\ FirstIn(Tail(rest), {"/", "BSLASH"}),
           NEW base, NEW other
    PROVE  ParseWithScheme(scheme, rest, TRUE, base)
           = ParseWithScheme(scheme, rest, FALSE, other)
<1> DEFINE type == SchemeType(scheme)
           far == ~(Find(rest, Lexeme \ {"/", "BSLASH"}) < 2)
           same == Scheme(base) = scheme
           slashes == Find(rest, Lexeme \ {"/", "BSLASH"})
           plain == AfterDoubleSlash(Append(scheme, ":"), Drop(rest, slashes), type,
                                     Len(scheme))
<1>1. type \in {"File", "SpecialNotFile", "NotSpecial"}  BY DEF SchemeType
<1>2. /\ ParseWithScheme(scheme, rest, TRUE, base)
         = CASE type = "File" -> ParseFile(rest, same, base)
             [] IsRelative(type, same, rest) -> ParseRelative(rest, base)
             [] type = "NotSpecial" -> ParseNonSpecial(scheme, rest)
             [] OTHER -> plain
      /\ ParseWithScheme(scheme, rest, FALSE, other)
         = CASE type = "File" -> ParseFile(rest, FALSE, other)
             [] IsRelative(type, FALSE, rest) -> ParseRelative(rest, other)
             [] type = "NotSpecial" -> ParseNonSpecial(scheme, rest)
             [] OTHER -> plain
  BY DEF ParseWithScheme
<1>3. ~IsRelative(type, FALSE, rest)  BY DEF IsRelative
<1> HIDE DEF plain, same
<1>4. CASE type = "NotSpecial"
  <2>1. ~IsRelative(type, same, rest)  BY <1>4 DEF IsRelative
  <2> HIDE DEF type
  <2> QED  BY <1>2, <1>3, <1>4, <2>1
<1>5. CASE type = "SpecialNotFile"
  <2>1. far  BY <1>5, TwoSlashes
  <2>2. ~IsRelative(type, same, rest)  BY <2>1 DEF IsRelative
  <2> HIDE DEF type
  <2> QED  BY <1>2, <1>3, <1>5, <2>2
<1>6. CASE type = "File"
  <2> DEFINE authority == ParseFileAuthority(Drop(rest, 2))
  <2>1. /\ FirstIn(rest, {"/", "BSLASH"})
        /\ FirstIn(Tail(rest), {"/", "BSLASH"})
    BY <1>6
  <2>2. /\ ParseFile(rest, same, base) = authority
        /\ ParseFile(rest, FALSE, other) = authority
    BY <2>1 DEF ParseFile
  <2>3. ~IsRelative(type, same, rest)  BY <1>6 DEF IsRelative
  <2> HIDE DEF type, authority
  <2> QED  BY <1>2, <1>3, <1>6, <2>2, <2>3
<1> QED  BY <1>1, <1>4, <1>5, <1>6

\* A URL that parses back does so whatever it is resolved against.
LEMMA AbsoluteKept ==
    ASSUME NEW u, Parsed(u), RoundTrips(u), NEW base
    PROVE  Join(base, u.ser) = Ok(u)
<1> DEFINE s == u.ser
           input == Input(s)
           context == "UrlParser"
           p == ParseScheme(input, context)
           scheme == p.scheme
           rest == p.rest
           no == FALSE
           yes == TRUE
           none == NoBase
           a == u.scheme_end
           result == ParseWithScheme(scheme, rest, no, none)
<1>1. s \in Text  BY GoodFacts DEF Parsed
<1>2. input \in Text
  <2> DEFINE trimmed == TrimSpaces(s)
  <2>1. trimmed \in Text  BY <1>1, TrimmedText
  <2> HIDE DEF trimmed
  <2>2. SkipTabs(trimmed) \in Text  BY <2>1, SkippedText
  <2> QED  BY <2>2 DEF Input, trimmed
<1>3. Parse(s) = Ok(u)  BY DEF RoundTrips
<1>4. /\ Parse(s) = IF p.ok THEN result ELSE Err("RelativeUrlWithoutBase")
      /\ p.ok => Join(base, s) = ParseWithScheme(scheme, rest, yes, base)
  BY DEF Parse, Join, ParseAgainst
<1>5. p.ok /\ result = Ok(u)
  <2>1. Err("RelativeUrlWithoutBase") # Ok(u)
    <3>1. ~Err("RelativeUrlWithoutBase").ok /\ Ok(u).ok  BY DEF Err, Ok
    <3> QED  BY <3>1
  <2> HIDE DEF result, p
  <2> QED  BY <1>3, <1>4, <2>1
<1>6. result.ok /\ result.url = u
  <2>1. Ok(u).ok /\ Ok(u).url = u  BY DEF Ok
  <2> HIDE DEF result
  <2> QED  BY <1>5, <2>1
<1> HIDE DEF input, context
<1>7. /\ scheme \in Text /\ NoSpace(scheme) /\ rest \in Text
      /\ \A i \in 1..Len(scheme) : scheme[i] \in Word \union Digit \union {".", "+"}
  BY <1>2, <1>5, ParsedScheme
<1>8. no \in BOOLEAN /\ (no => Parsed(none)) /\ ~no  OBVIOUS
<1>9. \/ SchemeType(scheme) = "NotSpecial"
      \/ FirstIn(rest, {"/", "BSLASH"}) /\ FirstIn(Tail(rest), {"/", "BSLASH"})
  <2> SUFFICES ASSUME SchemeType(scheme) # "NotSpecial"
               PROVE  /\ FirstIn(rest, {"/", "BSLASH"})
                      /\ FirstIn(Tail(rest), {"/", "BSLASH"})
    OBVIOUS
  <2>1. Scheme(u) = scheme
    <3> HIDE DEF p, no, none
    <3>1. scheme \in Text /\ rest \in Text  BY <1>7
    <3> HIDE DEF scheme, rest
    <3>2. Scheme(ParseWithScheme(scheme, rest, no, none).url) = scheme
      BY <1>6, <1>7, <1>8, <3>1, SchemeParsed
    <3> QED  BY <1>6, <3>2
  <2>2. Good(u) /\ IsSpecial(u)
    BY <2>1 DEF Parsed, IsSpecial, IsSpecialType, TypeOf
  <2>3. has_authority(u)
    <3>1. u.username_end >= u.scheme_end + 3 /\ u.username_end \in Nat
          /\ AuthorityMarked(u) /\ u.scheme_end \in Nat
      BY <2>2, GoodFacts DEF AuthorityIntact, SpecialHasAuthority
    <3> QED  BY <3>1 DEF AuthorityMarked
  <2>4. a \in Nat /\ Len(s) \in Nat /\ a + 3 <= Len(s)
    <3>1. a \in Nat /\ Len(s) \in Nat  BY <1>1, <2>2, GoodFacts, TextFacts
    <3>2. a + 2 < Len(s)  BY <2>3 DEF has_authority, StartsWithAuthority, HasByte
    <3> QED  BY <3>1, <3>2
  <2> HIDE DEF p
  <2>5. Len(scheme) = a /\ \A i \in 1..a : scheme[i] = s[i]
    <3>1. scheme = Take(s, a)  BY <2>1 DEF Scheme
    <3>2. a <= Len(s)  BY <2>4
    <3> HIDE DEF scheme, s, a
    <3> QED  BY <1>1, <2>4, <3>1, <3>2, TakeFacts
  <2> HIDE DEF scheme
  <2>6. StartsWithAuthority(s, a)  BY <2>3 DEF has_authority
  <2> HIDE DEF s, a
  <2>7. s[a + 1] = ":" /\ s[a + 2] = "/" /\ s[a + 3] = "/"
    <3>1. s[a + 1] = ":" /\ s[(a + 1) + 1] = "/" /\ s[(a + 2) + 1] = "/"
      BY <2>6 DEF StartsWithAuthority, HasByte, ByteAt
    <3>2. (a + 1) + 1 = a + 2 /\ (a + 2) + 1 = a + 3  BY <2>4
    <3> QED  BY <3>1, <3>2
  <2>8. \A i \in 1..(a + 3) : s[i] \notin {"SP", "TAB"}
    <3> TAKE i \in 1..(a + 3)
    <3>1. CASE i <= a
      <4>1. i \in 1..a  BY <2>4, <3>1
      <4>2. s[i] \in Word \union Digit \union {".", "+"}  BY <1>7, <2>5, <4>1
      <4>3. {"SP", "TAB"} \intersect (Word \union Digit \union {".", "+"}) = {}
        BY MarksApart DEF Mark, Digit
      <4> QED  BY <4>2, <4>3
    <3>2. CASE i > a
      <4>1. i = a + 1 \/ i = a + 2 \/ i = a + 3  BY <2>4, <3>2
      <4> QED  BY <2>7, <4>1
    <3> QED  BY <2>4, <3>1, <3>2
  <2> DEFINE k == a + 3
  <2>9. k \in Nat /\ 1 <= k /\ k <= Len(s) /\ \A i \in 1..a : i \in 1..k
    BY <2>4
  <2>10. \A i \in 1..k : s[i] \notin {"SP", "TAB"}  BY <2>8
  <2>10a. a + 1 \in 1..k /\ a + 2 \in 1..k /\ a + 3 \in 1..k  BY <2>4
  <2>10b. k = a + 3  OBVIOUS
  <2> HIDE DEF k
  <2>11. StartsAs(input, s, k)  BY <1>1, <2>9, <2>10, InputKeepsFront DEF input
  <2>12. /\ k <= Len(input) /\ \A i \in 1..k : input[i] = s[i]
         /\ Len(input) \in Nat
    BY <1>2, <2>11, TextFacts DEF StartsAs
  <2>13. \A i \in 1..a : input[i] \in Word \union Digit \union {".", "+"}
    BY <1>7, <2>5, <2>9, <2>12
  <2>14. a + 3 <= Len(input)  BY <2>10b, <2>12
  <2>15. StartsWithAuthority(input, a)
    <3>1. input[a + 1] = ":" /\ input[a + 2] = "/" /\ input[a + 3] = "/"
      BY <2>7, <2>10a, <2>12
    <3>2. (a + 1) + 1 = a + 2 /\ (a + 2) + 1 = a + 3
          /\ a < Len(input) /\ a + 1 < Len(input) /\ a + 2 < Len(input)
      BY <2>4, <2>12, <2>14
    <3> QED  BY <3>1, <3>2 DEF StartsWithAuthority, HasByte, ByteAt
  <2> QED
    BY <1>2, <1>5, <2>4, <2>13, <2>14, <2>15, SchemeFound DEF p, context
<1> HIDE DEF scheme, rest
<1>10. ParseWithScheme(scheme, rest, yes, base) = result
  BY <1>7, <1>9, BaseIgnored
<1> HIDE DEF result, p
<1> QED  BY <1>4, <1>5, <1>10

\* A reference that is relative has no scheme.
LEMMA RelativeHasNoScheme ==
    ASSUME NEW input \in Text, Relative(input)
    PROVE  ~ParseScheme(input, "UrlParser").ok
<1> DEFINE context == "UrlParser"
           chars == Lexeme \ (Word \union Digit \union {".", "+"})
           colon == {":"}
           ends == {"/", "BSLASH", "?", "#"}
           e == Find(input, chars)
           c == Find(input, colon)
           d == Find(input, ends)
<1> SUFFICES ASSUME ParseScheme(input, context).ok PROVE FALSE  OBVIOUS
<1>1. FirstIn(input, Word) /\ e < Len(input) /\ input[e + 1] = ":"
  BY DEF ParseScheme, Err, ByteAt
<1>2. c >= d  BY DEF Relative
<1>3. /\ e \in Nat /\ e <= Len(input)
      /\ \A i \in 1..e : input[i] \notin chars
  BY FindFacts
<1>4. /\ c \in Nat /\ c <= Len(input)
      /\ \A i \in 1..c : input[i] # ":"
  BY FindFacts
<1>5. /\ d \in Nat /\ d <= Len(input)
      /\ d < Len(input) => input[d + 1] \in ends
  BY FindFacts
<1>6. Len(input) \in Nat /\ \A i \in 1..Len(input) : input[i] \in Lexeme
  BY TextFacts
<1> HIDE DEF e, c, d
<1>7. c <= e
  <2> SUFFICES ASSUME c > e PROVE FALSE  BY <1>3, <1>4
  <2>1. e + 1 \in 1..c  BY <1>3, <1>4
  <2> QED  BY <1>1, <1>4, <2>1
<1>8. d <= e /\ d < Len(input)  BY <1>1, <1>2, <1>3, <1>4, <1>5, <1>7
<1>9. CASE d = e  BY <1>1, <1>5, <1>8, <1>9 DEF ends
<1>10. CASE d < e
  <2>1. d + 1 \in 1..e  BY <1>3, <1>5, <1>10
  <2>2. input[d + 1] \notin chars /\ input[d + 1] \in ends  BY <1>3, <1>5, <1>8, <2>1
  <2>3. ends \subseteq chars  BY MarksApart DEF Mark, Digit
  <2> QED  BY <2>2, <2>3
<1> QED  BY <1>3, <1>5, <1>8, <1>9, <1>10

\* It stays with the authority it is resolved against.
LEMMA RelativeStays ==
    ASSUME NEW text \in Text, NEW base, Parsed(base), Join(base, text).ok,
           Relative(Input(text)), ~ChangesVolume(base, Input(text)),
           ~HostBeforeDrive(base)
    PROVE  SameAuthority(Join(base, text).url, base)
<1> DEFINE input == Input(text)
           p == ParseScheme(input, "UrlParser")
           yes == TRUE
           result == Join(base, text)
<1>1. input \in Text
  <2> DEFINE trimmed == TrimSpaces(text)
  <2>1. trimmed \in Text  BY TrimmedText
  <2> HIDE DEF trimmed
  <2>2. SkipTabs(trimmed) \in Text  BY <2>1, SkippedText
  <2> QED  BY <2>2 DEF Input, trimmed
<1>2. result = IF p.ok THEN ParseWithScheme(p.scheme, p.rest, yes, base)
               ELSE IF ~yes THEN Err("RelativeUrlWithoutBase")
               ELSE IF FirstIn(input, {"#"}) THEN WithFragmentOf(base, input)
               ELSE IF cannot_be_a_base(base)
               THEN Err("RelativeUrlWithCannotBeABaseBase")
               ELSE IF TypeOf(base) = "File" THEN ParseFile(input, yes, base)
               ELSE ParseRelative(input, base)
  BY DEF Join, ParseAgainst
<1>3. /\ result.ok /\ Relative(input) /\ ~ChangesVolume(base, input)
      /\ Good(base)
  BY DEF Parsed
<1> HIDE DEF input, result
<1>4. ~p.ok  BY <1>1, <1>3, RelativeHasNoScheme
<1>5. Find(input, Lexeme \ {"/", "BSLASH"}) < 2  BY <1>3 DEF Relative
<1> HIDE DEF p
<1>6. CASE FirstIn(input, {"#"})
  <2>1. result = WithFragmentOf(base, input)  BY <1>2, <1>4, <1>6
  <2>2. input # <<>>  BY <1>6 DEF FirstIn
  <2>3. KeepsHead(result.url, base)  BY <1>1, <1>6, <2>1, <2>2, FragmentParsed
  <2> DEFINE w == result.url
  <2> HIDE DEF w
  <2>4. SameAuthority(w, base)  BY <1>3, <2>3, KeptAuthority DEF w
  <2> QED  BY <2>4 DEF w, result
<1>7. CASE ~FirstIn(input, {"#"}) /\ ~cannot_be_a_base(base) /\ TypeOf(base) = "File"
  <2>1. result = ParseFile(input, yes, base)  BY <1>2, <1>4, <1>7
  <2>2. FileScheme \in Text  BY <1>3, <1>7, FileSchemeKnown
  <2>3. yes \in BOOLEAN /\ yes  OBVIOUS
  <2> HIDE DEF yes
  <2>4. SameAuthority(ParseFile(input, yes, base).url, base)
    BY <1>1, <1>3, <1>5, <1>7, <2>1, <2>2, <2>3, FileParsed
  <2> QED  BY <2>1, <2>4 DEF result
<1>8. CASE ~FirstIn(input, {"#"}) /\ ~cannot_be_a_base(base) /\ TypeOf(base) # "File"
  <2>1. result = ParseRelative(input, base)  BY <1>2, <1>4, <1>8
  <2>2. KeepsHead(result.url, base)
    BY <1>1, <1>3, <1>5, <1>8, <2>1, RelativeParsed
  <2> DEFINE w == result.url
  <2> HIDE DEF w
  <2>3. SameAuthority(w, base)  BY <1>3, <2>2, KeptAuthority DEF w
  <2> QED  BY <2>3 DEF w, result
<1>9. CASE ~FirstIn(input, {"#"}) /\ cannot_be_a_base(base)
  <2>1. result = Err("RelativeUrlWithCannotBeABaseBase")  BY <1>2, <1>4, <1>9
  <2> QED  BY <1>3, <2>1 DEF Err
<1> QED  BY <1>6, <1>7, <1>8, <1>9

(****************************************************************************)
(* What the setters rely on.  UrlSetters and UrlGuards assume of the texts  *)
(* they are handed what is shown here of every text the parser hands them.  *)
(****************************************************************************)
\* A host is good for the kind of scheme it is parsed for.
LEMMA HostIsGood ==
    ASSUME NEW type, NEW s \in Text
    PROVE  GoodHost(type, HostParser(type, s))
<1> DEFINE host == HostParser(type, s)
<1> SUFFICES ASSUME host.ok PROVE GoodHost(type, host)
  BY DEF GoodHost
<1>1. HostLike(host)  BY ParsedHost
<1>2. type # "NotSpecial" => host.kind # "None"
  <2> SUFFICES ASSUME type # "NotSpecial" PROVE host.kind # "None"
    OBVIOUS
  <2> DEFINE domain == Lower(PercentDecode(s))
  <2>1. host = ParseHost(s)  BY DEF HostParser, IsSpecialType
  <2>2. /\ Len(domain) = Len(s)
        /\ domain \in Text
    BY DecodeFacts, LowerFacts
  <2>3. \/ host = BracketedHost(s)
        \/ host = Ipv4Host(domain)
        \/ s # <<>> /\ host = DomainHost(domain)
    BY <2>1 DEF ParseHost, Err
  <2>4. s # <<>> => domain # <<>>  BY <2>2, TextFacts
  <2> HIDE DEF domain
  <2> QED
    BY <2>3, <2>4 DEF BracketedHost, Ipv4Host, DomainHost, Host, Err
<1> HIDE DEF host
<1>3. \A c \in {"SP", "@", ":", "/"} : NoByte(host.text, c)
  BY <1>1 DEF HostLike, NoByte
<1> QED  BY <1>1, <1>2, <1>3 DEF GoodHost, HostLike

\* So is a scheme, and what is written for a username or a password.
LEMMA SchemeIsGood ==
    ASSUME NEW s \in Text
    PROVE  GoodScheme(SetterScheme(s))
<1> DEFINE t == SkipTabs(s)
           context == "Setter"
           p == ParseScheme(t, context)
<1>1. t \in Text  BY SkippedText
<1>2. CASE ~p.ok
  <2>1. SetterScheme(s) = [ok |-> FALSE]  BY <1>2 DEF SetterScheme
  <2> QED  BY <2>1 DEF GoodScheme
<1>3. CASE p.ok
  <2>1. SetterScheme(s) = [ok |-> TRUE, scheme |-> p.scheme, done |-> p.rest = <<>>]
    BY <1>3 DEF SetterScheme
  <2> HIDE DEF t, context
  <2>2. p.scheme \in Text /\ Len(p.scheme) > 0 /\ NoSpace(p.scheme)
    BY <1>1, <1>3, ParsedScheme
  <2> HIDE DEF p
  <2>3. p.scheme # <<>>  BY <2>2, TextFacts
  <2> QED  BY <2>1, <2>2, <2>3 DEF GoodScheme, NoSpace, NoByte
<1> QED  BY <1>2, <1>3

LEMMA UserinfoIsGood ==
    ASSUME NEW s \in Text
    PROVE  GoodUserinfo(s, SetterUserinfo(s))
<1> DEFINE e == PercentEncode(s, USERINFO)
<1>1. e \in Text /\ Len(e) = Len(s) /\ NoSpace(e)  BY EncodedCredential
<1>2. SetterUserinfo(s) = e  BY DEF SetterUserinfo
<1> HIDE DEF e
<1>3. s # <<>> => e # <<>>  BY <1>1, TextFacts
<1> QED  BY <1>1, <1>2, <1>3 DEF GoodUserinfo, NoSpace, NoByte

\* A path set behind a '/' or not.
LEMMA PathIsGood ==
    ASSUME NEW type \in SchemeTypes, NEW afterSlash \in BOOLEAN, NEW text \in Text
    PROVE  GoodPath(type, afterSlash, SetterPath(type, afterSlash, text))
<1> DEFINE s == IF afterSlash THEN <<"/">> ELSE <<":">>
           input == SkipTabs(text)
           yes == TRUE
           context == "Setter"
           p == ParsePathStart(s, type, yes, input, context)
           path == Drop(p.s, 1)
<1>1. /\ s \in Text /\ Len(s) = 1 /\ s[1] = IF afterSlash THEN "/" ELSE ":"
      /\ input \in Text
  BY SkippedText, MarksApart, OneLexeme DEF Mark
<1>2. EndsWith(s, "/") <=> afterSlash  BY <1>1 DEF EndsWith
<1>3. SetterPath(type, afterSlash, text) = path  BY DEF SetterPath
<1>4. yes \in BOOLEAN /\ context \in {"UrlParser", "Setter"}  OBVIOUS
<1> HIDE DEF s, input, yes, context
<1>5. /\ StartsAs(p.s, s, Len(s))
      /\ ~IsSpecialType(type) => p.s = s \/ RootedAt(p.s, Len(s))
      /\ IsSpecialType(type) /\ (EndsWith(s, "/") => type = "File")
            => RootedAt(p.s, Len(s))
  BY <1>1, <1>4, PathStartReads
<1> HIDE DEF p
<1> DEFINE t == p.s
<1>6. t \in Text /\ 1 <= Len(t)  BY <1>1, <1>5 DEF StartsAs
<1>7. /\ path \in Text /\ Len(path) = Len(t) - 1
      /\ RootedAt(t, 1) => Rooted(path)
      /\ t = s => path = <<>>
  <2>1. Len(t) \in Nat  BY <1>6, TextFacts
  <2> HIDE DEF t
  <2>2. /\ Drop(t, 1) \in Text /\ Len(Drop(t, 1)) = Len(t) - 1
        /\ \A i \in 1..(Len(t) - 1) : Drop(t, 1)[i] = t[1 + i]
    BY <1>6, <2>1, DropFacts
  <2> DEFINE r == Drop(t, 1)
  <2> HIDE DEF r
  <2>3. RootedAt(t, 1) => Rooted(r)
    <3> SUFFICES ASSUME RootedAt(t, 1) PROVE Rooted(r)
      OBVIOUS
    <3>1. 1 < Len(t) /\ t[1 + 1] = "/"  BY DEF RootedAt
    <3>2. 1 \in 1..(Len(t) - 1)  BY <2>1, <3>1
    <3>3. r[1] = t[1 + 1]  BY <2>2, <3>2 DEF r
    <3>4. Len(r) # 0  BY <2>1, <2>2, <3>1 DEF r
    <3> QED  BY <2>2, <3>1, <3>3, <3>4, TextFacts DEF Rooted, r
  <2>4. t = s => r = <<>>  BY <1>1, <2>2, TextFacts DEF r
  <2> QED  BY <2>2, <2>3, <2>4 DEF r, t
<1>8. type \in {"File", "SpecialNotFile", "NotSpecial"}  BY DEF SchemeTypes
<1> HIDE DEF path
<1> QED
  BY <1>1, <1>2, <1>3, <1>5, <1>7, <1>8 DEF GoodPath, IsSpecialType, t

\* What the other setters and the guards write are texts.
LEMMA TailsAreTexts ==
    ASSUME NEW type, NEW s \in Text
    PROVE  /\ SetterOpaquePath(s) \in Text
           /\ SetterQuery(type, s) \in Text /\ SetterFragment(s) \in Text
<1> DEFINE t == SkipTabs(s)
           text == Take(t, Len(t))
<1>1. t \in Text  BY SkippedText
<1>2. QuerySet(type) \in SUBSET Escapable  BY EncodeSets DEF QuerySet
<1>3. SetterQuery(type, s) = PercentEncode(t, QuerySet(type))
      /\ SetterFragment(s) = PercentEncode(t, FRAGMENT)
  BY DEF SetterQuery, SetterFragment
<1>4. SetterOpaquePath(s) = <<>> \o PercentEncode(text, CONTROLS)
  BY DEF SetterOpaquePath, ParseCannotBeABasePath
<1> HIDE DEF t
<1>5. Len(t) \in Nat  BY <1>1, TextFacts
<1>6. text \in Text  BY <1>1, <1>5, TakeFacts
<1> HIDE DEF text
<1>7. PercentEncode(text, CONTROLS) \in Text
  BY <1>6, EncodeFacts, EncodeSets
<1>8. <<>> \in Text  BY EmptySeq DEF Text
<1>9. <<>> \o PercentEncode(text, CONTROLS) \in Text
  BY <1>7, <1>8, ConcatFacts
<1>10. PercentEncode(t, QuerySet(type)) \in Text
  BY <1>1, <1>2, EncodeFacts
<1>11. PercentEncode(t, FRAGMENT) \in Text
  BY <1>1, EncodeFacts, EncodeSets
<1> QED  BY <1>3, <1>4, <1>9, <1>10, <1>11

\* What is pushed behind a path leaves a text.
LEMMA PushedIsText ==
    ASSUME NEW type, NEW path \in Text, NEW segment \in Text
    PROVE  ParsePath(path, type, TRUE, 0, SkipTabs(segment), "PathSegmentSetter").s
              \in Text
<1> DEFINE input == SkipTabs(segment)
           yes == TRUE
           context == "PathSegmentSetter"
           n == 0
           p == ParsePath(path, type, yes, n, input, context)
<1>1. input \in Text /\ yes \in BOOLEAN /\ n \in Nat /\ n <= Len(path)
  BY SkippedText, TextFacts
<1> HIDE DEF input, yes, context, n
<1>2. PathRead(p, path, n, type, input, context)
  BY <1>1, ParsedPathReads
<1>3. p.s \in Text  BY <1>2 DEF PathRead, Continues, StartsAs
<1> QED  BY <1>3 DEF p, input, yes, context, n

\* The names a form is written from: what byte_serialize knows an escape for.
NameText == Seq({c \in Lexeme : Unchanged(c)} \union Escapable)

\* A name is serialized as a text.
LEMMA FormIsText ==
    ASSUME NEW name \in NameText
    PROVE  byte_serialize(name) \in Text
<1> DEFINE chars == {c \in Lexeme : Unchanged(c)} \union Escapable
           e == byte_serialize(name)
<1>1. /\ Len(name) \in Nat
      /\ \A i \in 1..Len(name) : name[i] \in chars
  BY LenProperties, ElementOfSeq DEF NameText
<1>2. /\ "+" \in Lexeme
      /\ \A c \in chars : Unchanged(c) => c \in Lexeme
  BY DEF Lexeme, Mark, Unchanged
<1>3. \A c \in chars : ~Unchanged(c) => EscapeOf(c) \in Lexeme
  BY EscapeFacts DEF Lexeme
<1> HIDE DEF chars
<1> DEFINE n == Len(name)
           v(i) == CASE name[i] = "SP" -> "+" [] Unchanged(name[i]) -> name[i]
                     [] OTHER -> EscapeOf(name[i])
<1>4. ~Unchanged("SP")  BY MarksApart DEF Unchanged, Mark, Digit
<1>5. \A i \in 1..n : v(i) \in Lexeme
  <2> SUFFICES ASSUME NEW i \in 1..n PROVE v(i) \in Lexeme
    OBVIOUS
  <2> DEFINE c == name[i]
  <2>1. c \in chars  BY <1>1
  <2> HIDE DEF c
  <2>2. CASE c = "SP"
    <3>1. v(i) = "+"  BY <1>4, <2>2 DEF c
    <3> QED  BY <1>2, <3>1
  <2>3. CASE Unchanged(c)
    <3>1. c # "SP"  BY <1>4, <2>3
    <3>2. v(i) = c  BY <2>3, <3>1 DEF c
    <3> QED  BY <1>2, <2>1, <2>3, <3>2
  <2>4. CASE c # "SP" /\ ~Unchanged(c)
    <3>1. v(i) = EscapeOf(c)  BY <2>4 DEF c
    <3> QED  BY <1>3, <2>1, <2>4, <3>1
  <2> QED  BY <2>2, <2>3, <2>4
<1>6. e = [i \in 1..n |-> v(i)]  BY DEF byte_serialize
<1> HIDE DEF v
<1> HIDE DEF n, e
<1>7. e \in [1..n -> Lexeme]  BY <1>5, <1>6
<1> QED  BY <1>1, <1>7, SeqDef DEF Text, e, n

(****************************************************************************)
(* The specification.                                                       *)
(****************************************************************************)
\* Inductive: whatever the program holds was parsed.
DocParsed == Opened => Parsed(doc)

\* The steps of a program keep it: a base was parsed, so what is resolved
\* against it is.
LEMMA DocStaysParsed ==
    ASSUME DocParsed, [Next]_vars
    PROVE  DocParsed'
<1>1. CASE \E text \in Openings : Open(text)
  <2> PICK text \in Openings : Open(text)  BY <1>1
  <2> DEFINE no == FALSE
             result == ParseAgainst(text, no, NoBase)
  <2>1. result.ok /\ doc' = result.url  BY DEF Open, GoTo, Parse
  <2>2. text \in Text  BY TextsAssumption
  <2>3. no \in BOOLEAN /\ (no => Parsed(NoBase))  OBVIOUS
  <2> HIDE DEF no
  <2>4. Parsed(result.url)  BY <2>1, <2>2, <2>3, AgainstParsed
  <2> QED  BY <2>1, <2>4 DEF DocParsed
<1>2. CASE \E text \in References : Follow(text)
  <2> PICK text \in References : Follow(text)  BY <1>2
  <2> DEFINE yes == TRUE
             result == ParseAgainst(text, yes, doc)
  <2>1. result.ok /\ doc' = result.url /\ doc # NoBase
    BY DEF Follow, GoTo, Join
  <2>2. text \in Text /\ Parsed(doc)
    BY <2>1, TextsAssumption DEF DocParsed, Opened
  <2>3. yes \in BOOLEAN  OBVIOUS
  <2> HIDE DEF yes
  <2>4. Parsed(result.url)  BY <2>1, <2>2, <2>3, AgainstParsed
  <2> QED  BY <2>1, <2>4 DEF DocParsed
<1>3. CASE \E text \in References : Fail(text)
  BY <1>3 DEF Fail, vars, DocParsed, Opened
<1>4. CASE Close
  BY <1>4 DEF Close, DocParsed, Opened
<1>5. CASE UNCHANGED vars
  BY <1>5 DEF vars, DocParsed, Opened
<1> QED  BY <1>1, <1>2, <1>3, <1>4, <1>5 DEF Next

\* A parsed value has everything the setters and accessors rely on.
LEMMA ParsedIsWellFormed ==
    ASSUME NEW u, Parsed(u)
    PROVE  Good(u) /\ ComponentsApart(u) /\ NetworkHasHost(u)
<1>1. Good(u) /\ ComponentsApart(u)  BY DEF Parsed
<1>2. NetworkHasHost(u)
  <2>1. TypeOf(u) = "SpecialNotFile" => u.host_start < u.host_end
    BY <1>1 DEF ComponentsApart
  <2>2. u.host = "None" => u.host_start = u.host_end
    BY <1>1 DEF ComponentsApart
  <2>3. u.host_start \in Nat /\ u.host_end \in Nat  BY <1>1, GoodFacts
  <2>4. u.host_start < u.host_end => u.host_start # u.host_end  BY <2>3
  <2> QED  BY <2>1, <2>2, <2>4 DEF NetworkHasHost, has_host
<1> QED  BY <1>1, <1>2

\* Every value the parser hands out, of a text or of a text and a base of any
\* length, is laid out, its components can be told apart, and a network URL
\* has a host.
THEOREM ParserHandsOutWellFormed == Spec => []ParserOutputWellFormed
<1>1. Init => DocParsed  BY DEF Init, DocParsed, Opened
<1>2. DocParsed /\ [Next]_vars => DocParsed'  BY DocStaysParsed
<1>3. DocParsed => ParserOutputWellFormed
  BY ParsedIsWellFormed DEF DocParsed, ParserOutputWellFormed
<1> QED  BY <1>1, <1>2, <1>3, PTL DEF Spec

\* In every such value the positions are in their order and cut the text
\* where the accessors do.
THEOREM ParserKeepsPositions == Spec => []PositionsAgree
<1>1. ParserOutputWellFormed => PositionsAgree
  BY PositionsOfWellFormed DEF ParserOutputWellFormed, PositionsAgree
<1> QED  BY <1>1, ParserHandsOutWellFormed, PTL

\* A segment that is "." or ".." is dots behind the slash in front of it.
LEMMA DotSegmentBehind ==
    ASSUME NEW s \in Text, NEW i \in 1..Len(s), NEW stop \in Nat, i < stop,
           stop = Len(s) + 1 \/ (stop <= Len(s) /\ s[stop] = "/"),
           SubSeq(s, i + 1, stop - 1) \in DotSegment
    PROVE  DotsBehind(s, i)
<1> DEFINE k == stop - 1
           segment == Slice(s, i, k)
<1>1. /\ Len(s) \in Nat /\ k \in Nat /\ i \in Nat /\ i <= k /\ k <= Len(s)
      /\ k + 1 = stop
  BY TextFacts
<1>2. segment \in DotSegment  BY DEF Slice
<1> HIDE DEF k
<1>3. /\ segment \in Text /\ Len(segment) = k - i
      /\ \A j \in 1..(k - i) : segment[j] = s[i + j]
  BY <1>1, SliceFacts
<1> HIDE DEF segment
<1>4. PICK n \in 1..2 : segment \in [1..n -> {".", "%2e"}]
  BY <1>2 DEF DotSegment
<1>5. k - i = n
  <2>1. DOMAIN segment = 1..n /\ DOMAIN segment = 1..(k - i)
    BY <1>3, <1>4, LenProperties DEF Text
  <2>2. CASE n < k - i
    <3>1. n + 1 \in 1..(k - i) /\ n + 1 \notin 1..n  BY <1>1, <2>2
    <3> QED  BY <2>1, <3>1
  <2>3. CASE k - i < n
    <3>1. n \in 1..n /\ n \notin 1..(k - i)  BY <1>1, <2>3
    <3> QED  BY <2>1, <3>1
  <2> QED  BY <1>1, <2>2, <2>3
<1>6. \A j \in 1..n : s[i + j] \in Dot  BY <1>3, <1>4, <1>5 DEF Dot
<1>7. i + n = k /\ (k = Len(s) \/ s[i + n + 1] = "/")  BY <1>1, <1>5
<1>8. CASE n = 1
  <2>1. s[i + 1] \in Dot  BY <1>6, <1>8
  <2> QED  BY <1>1, <1>7, <1>8, <2>1 DEF DotsBehind
<1>9. CASE n = 2
  <2>1. s[i + 1] \in Dot /\ s[i + 2] \in Dot
    <3>1. 1 \in 1..n /\ 2 \in 1..n  BY <1>9
    <3> QED  BY <1>6, <3>1
  <2>2. k = Len(s) \/ s[i + 3] = "/"  BY <1>7, <1>9
  <2> QED  BY <1>1, <1>7, <1>9, <2>1, <2>2 DEF DotsBehind
<1> QED  BY <1>4, <1>8, <1>9

\* No path the parser leaves has a segment "." or "..", escaped or not, out
\* of whatever bases and references it was put together.
THEOREM ParserResolvesDots == Spec => []DotSegmentsResolved
<1>1. Init => DocParsed  BY DEF Init, DocParsed, Opened
<1>2. DocParsed /\ [Next]_vars => DocParsed'  BY DocStaysParsed
<1>3. ASSUME DocParsed PROVE DotSegmentsResolved
  <2> DEFINE path == Path(doc)
             cuts == {i \in 1..Len(path) : path[i] = "/"}
             stops == cuts \union {Len(path) + 1}
             stop(i) == Min({j \in stops : j > i})
  <2> SUFFICES ASSUME Opened, ~cannot_be_a_base(doc), NEW i \in cuts,
                      SubSeq(path, i + 1, stop(i) - 1) \in DotSegment
               PROVE  FALSE
    BY DEF DotSegmentsResolved
  <2>1. Good(doc) /\ ComponentsApart(doc) /\ DotFree(doc)
    BY <1>3 DEF DocParsed, Parsed
  <2>2. path \in Text /\ Len(path) \in Nat /\ i \in 1..Len(path) /\ path[i] = "/"
    BY <2>1, PathFacts, TextFacts
  <2>3. Tidy(path, 0)
    <3>1. path # <<>>
      <4>1. Len(path) # 0  BY <2>2
      <4> QED  BY <2>2, <4>1, TextFacts
    <3>2. Rooted(path)  BY <2>1, <3>1 DEF ComponentsApart
    <3> QED  BY <2>1, <3>2 DEF DotFree
  <2> DEFINE later == {j \in stops : j > i}
             k == stop(i)
  <2>4. k \in later
    <3>1. later \subseteq Nat  BY <2>2
    <3>2. Len(path) + 1 \in later  BY <2>2
    <3> HIDE DEF later
    <3>3. Min(later) \in later  BY <3>1, <3>2, MinFacts
    <3> QED  BY <3>3 DEF later
  <2>5. k \in Nat /\ i < k
        /\ (k = Len(path) + 1 \/ (k <= Len(path) /\ path[k] = "/"))
    <3> HIDE DEF k
    <3> QED  BY <2>2, <2>4
  <2>6. SubSeq(path, i + 1, k - 1) \in DotSegment  OBVIOUS
  <2> HIDE DEF path, k
  <2>7. DotsBehind(path, i)  BY <2>2, <2>5, <2>6, DotSegmentBehind
  <2> QED  BY <2>2, <2>3, <2>7 DEF Tidy
<1> QED  BY <1>1, <1>2, <1>3, PTL DEF Spec

\* What has a value's authority has its text as far as the path.
LEMMA SameAuthorityText ==
    ASSUME NEW u, Good(u), NEW w, SameAuthority(w, u)
    PROVE  /\ SliceInBounds(w.ser, 0, w.host_end)
           /\ Take(w.ser, w.host_end) = Take(u.ser, u.host_end)
           /\ w.host = u.host /\ w.port = u.port
<1> DEFINE a == u.host_end
           s == u.ser
           r == w.ser
           m == u.path_start
<1>1. /\ a \in Nat /\ s \in Text /\ Len(s) \in Nat /\ a <= m /\ m <= Len(s)
      /\ m \in Nat
  BY GoodFacts, HeadPlaces DEF HeadCut
<1>2. /\ w.host_end = a /\ r \in Text /\ a <= Len(r)
      /\ \A i \in 1..a : r[i] = s[i]
  BY DEF SameAuthority, StartsAs
<1> HIDE DEF a, s, r, m
<1>3. a <= Len(s)  BY <1>1
<1>4. Take(r, a) = Take(s, a)  BY <1>1, <1>2, <1>3, TakesEqual
<1>5. SliceInBounds(r, 0, a)  BY <1>1, <1>2 DEF SliceInBounds
<1> QED  BY <1>2, <1>4, <1>5 DEF a, s, r, SameAuthority

\* A relative reference, however many of them were followed before it, stays
\* with the scheme, credentials, host and port of its base.
THEOREM ParserKeepsAuthority == Spec => RelativeKeepsAuthority
<1>1. Init => DocParsed  BY DEF Init, DocParsed, Opened
<1>2. DocParsed /\ [Next]_vars => DocParsed'  BY DocStaysParsed
<1> DEFINE Keeps ==
        /\ doc # NoBase /\ doc' # NoBase
           /\ Relative(Input(reference'))
           /\ ~ChangesVolume(doc, Input(reference'))
           /\ ~HostBeforeDrive(doc)
        => /\ SliceInBounds(doc'.ser, 0, doc'.host_end)
           /\ Take(doc'.ser, doc'.host_end) = Take(doc.ser, doc.host_end)
           /\ doc'.host = doc.host /\ doc'.port = doc.port
<1>3. DocParsed /\ [Next]_vars => [Keeps]_vars
  <2> SUFFICES ASSUME DocParsed, Next, doc # NoBase, doc' # NoBase,
                      Relative(Input(reference')), ~HostBeforeDrive(doc),
                      ~ChangesVolume(doc, Input(reference'))
               PROVE  /\ SliceInBounds(doc'.ser, 0, doc'.host_end)
                      /\ Take(doc'.ser, doc'.host_end) = Take(doc.ser, doc.host_end)
                      /\ doc'.host = doc.host /\ doc'.port = doc.port
    BY DEF Keeps
  <2>1. Parsed(doc) /\ Good(doc)  BY DEF DocParsed, Opened, Parsed
  <2>2. SameAuthority(doc', doc)
    <3>1. CASE \E text \in Openings : Open(text)  BY <3>1 DEF Open
    <3>2. CASE \E text \in References : Follow(text)
      <4> PICK text \in References : Follow(text)  BY <3>2
      <4>1. /\ Join(doc, text).ok /\ doc' = Join(doc, text).url
            /\ reference' = text /\ text \in Text
        BY TextsAssumption DEF Follow, GoTo
      <4> QED  BY <2>1, <4>1, RelativeStays
    <3>3. CASE \E text \in References : Fail(text)
      <4>1. doc' = doc  BY <3>3 DEF Fail, vars
      <4>2. /\ doc.ser \in Text /\ doc.host_end \in Nat
            /\ doc.host_end <= Len(doc.ser)
        <5> DEFINE a == doc.host_end
                   m == doc.path_start
                   n == Len(doc.ser)
        <5>1. /\ a \in Nat /\ m \in Nat /\ n \in Nat /\ a <= m /\ m <= n
              /\ doc.ser \in Text
          BY <2>1, GoodFacts, HeadPlaces DEF HeadCut
        <5> HIDE DEF a, m, n
        <5>2. a <= n  BY <5>1
        <5> QED  BY <5>1, <5>2 DEF a, n
      <4> QED  BY <4>1, <4>2 DEF SameAuthority, StartsAs
    <3>4. CASE Close  BY <3>4 DEF Close
    <3> QED  BY <3>1, <3>2, <3>3, <3>4 DEF Next
  <2> DEFINE w == doc'
  <2> HIDE DEF w
  <2>3. /\ SliceInBounds(w.ser, 0, w.host_end)
        /\ Take(w.ser, w.host_end) = Take(doc.ser, doc.host_end)
        /\ w.host = doc.host /\ w.port = doc.port
    BY <2>1, <2>2, SameAuthorityText DEF w
  <2> QED  BY <2>3 DEF w
<1>4. (Spec => [][Keeps]_vars) => (Spec => RelativeKeepsAuthority)
  BY DEF RelativeKeepsAuthority
<1> QED  BY <1>1, <1>2, <1>3, <1>4, PTL DEF Spec

\* A URL that parses back resolves to itself, whatever was reached after it.
THEOREM ParserIgnoresBases == Spec => AbsoluteIgnoresBase
<1>1. Init => DocParsed  BY DEF Init, DocParsed, Opened
<1>2. DocParsed /\ [Next]_vars => DocParsed'  BY DocStaysParsed
<1> DEFINE Ignores == \/ NoBase \in {doc, doc'}
                      \/ Join(doc', doc.ser) = Ok(doc)
                      \/ ~RoundTrips(doc)
<1>3. DocParsed => Ignores
  <2> SUFFICES ASSUME DocParsed, doc # NoBase, RoundTrips(doc)
               PROVE  Join(doc', doc.ser) = Ok(doc)
    BY DEF Ignores
  <2>1. Parsed(doc)  BY DEF DocParsed, Opened
  <2> QED  BY <2>1, AbsoluteKept
<1>4. DocParsed /\ [Next]_vars => [Ignores]_vars  BY <1>3
<1>5. (Spec => [][Ignores]_vars) => (Spec => AbsoluteIgnoresBase)
  BY DEF AbsoluteIgnoresBase
<1> QED  BY <1>1, <1>2, <1>4, <1>5, PTL DEF Spec

\* What UrlSetters and UrlGuards assume of the texts they are handed holds of
\* every text: whatever a setter or a guard is called with, the parser hands it
\* a scheme, credentials, host, path, query, fragment, segment or name that
\* leaves a good value.
THEOREM ParserKeepsItsPromises ==
    /\ \A s \in Text :
          /\ GoodScheme(SetterScheme(s))
          /\ GoodUserinfo(s, SetterUserinfo(s))
          /\ SetterOpaquePath(s) \in Text /\ SetterFragment(s) \in Text
    /\ \A type \in SchemeTypes, s \in Text :
          /\ GoodHost(type, HostParser(type, s))
          /\ \A afterSlash \in BOOLEAN :
                GoodPath(type, afterSlash, SetterPath(type, afterSlash, s))
          /\ SetterQuery(type, s) \in Text
          /\ \A path \in Text :
                ParsePath(path, type, TRUE, 0, SkipTabs(s), "PathSegmentSetter").s
                   \in Text
    /\ \A name \in NameText : byte_serialize(name) \in Text
<1>1. \A s \in Text : GoodScheme(SetterScheme(s)) /\ GoodUserinfo(s, SetterUserinfo(s))
  BY SchemeIsGood, UserinfoIsGood
<1>2. \A type \in SchemeTypes, s \in Text :
         /\ GoodHost(type, HostParser(type, s))
         /\ \A afterSlash \in BOOLEAN :
               GoodPath(type, afterSlash, SetterPath(type, afterSlash, s))
  BY HostIsGood, PathIsGood
<1>3. \A type \in SchemeTypes, s \in Text :
         SetterQuery(type, s) \in Text /\ SetterOpaquePath(s) \in Text
         /\ SetterFragment(s) \in Text
  BY TailsAreTexts
<1>4. "File" \in SchemeTypes  BY DEF SchemeTypes
<1>5. \A type \in SchemeTypes, s \in Text, path \in Text :
         ParsePath(path, type, TRUE, 0, SkipTabs(s), "PathSegmentSetter").s \in Text
  BY PushedIsText
<1> QED  BY <1>1, <1>2, <1>3, <1>4, <1>5, FormIsText
==============================================================================
