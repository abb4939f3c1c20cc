------------------------ MODULE UrlComponentsTheorems ------------------------
(****************************************************************************)
(* Careful calls implement UrlComponents.  Each edit of UrlSetters is shown *)
(* to exchange some parts of a value and keep the others; so each setter,   *)
(* given which parts its edits exchange, is the setter of that name on the  *)
(* record of components.  That components can be read off the parts needs   *)
(* ComponentsApart, which careful calls keep.                               *)
(****************************************************************************)
EXTENDS UrlApi, UrlPartsTheorems, UrlSettersTheorems, FunctionTheorems

\* The components that are read off a value with these parts.
Shown(p) ==
    [scheme   |-> p.scheme,
     username |-> p.username,
     password |-> p.password,
     host     |-> p.host,
     port     |-> p.port,
     path     |-> p.path,
     opaque   |-> p.bare /\ ~Rooted(p.path),
     query    |-> p.query,
     fragment |-> p.fragment]

\* And so are the components, once they are told apart.
LEMMA ShownRead ==
    ASSUME NEW u, Good(u), PartsApart(Parts(u))
    PROVE  Components(u) = Shown(Parts(u))
<1>0. ComponentsApart(u)  BY ApartRead
<1>1. Username(u) = UsernamePart(u)  BY UsernameRead
<1>2. Password(u) = PasswordPart(u)  BY <1>0, PasswordRead
<1>3. cannot_be_a_base(u) = (Bare(u) /\ ~Rooted(Path(u)))
  <2>1. CASE Written(u)
    BY <2>1, AuthorityOrNone
    DEF Bare, has_authority, StartsWithAuthority, cannot_be_a_base
  <2>2. CASE ~Written(u)
    <3>1. u.host_start = u.host_end  BY <2>2, AuthorityOrNone
    <3>2. u.port = None  BY <1>0, <3>1 DEF ComponentsApart
    <3> QED  BY <2>2, <3>2, WithoutAuthorityRead DEF cannot_be_a_base, Bare
  <2> QED  BY <2>1, <2>2
<1> QED  BY <1>1, <1>2, <1>3 DEF Components, Shown, Parts, QueryPart, FragmentPart

-----------------------------------------------------------------------------
(****************************************************************************)
(* The setters, part by part.                                               *)
(****************************************************************************)
\* A value that takes credentials has its authority written.
LEMMA TakesCredentialsWritten ==
    ASSUME NEW u, Good(u), TakesCredentials(u)
    PROVE  Written(u) /\ ~Bare(u)
BY TakesCredentialsFacts DEF Written, Bare

\* An edit of the credentials keeps all other parts.
LEMMA CredentialsEditParts ==
    ASSUME NEW u, Good(u), Written(u), NEW v, Good(v),
           NEW a, NEW b, NEW mid, NEW d, NEW x,
           Edit(u, v, a, b, mid, d), u.scheme_end + 3 <= a, b <= u.host_start,
           HostMoved(u, v, d, Splice(u.ser, a, b, mid), u.scheme_end, x),
           u.scheme_end + 3 <= x
    PROVE  /\ Scheme(v) = Scheme(u) /\ HostText(v) = HostText(u)
           /\ v.host = u.host /\ v.port = u.port /\ Bare(v) = Bare(u)
           /\ SameTailParts(u, v) /\ Written(v)
<1>1. /\ v.scheme_end = u.scheme_end /\ v.username_end = x
      /\ v.host_start = u.host_start + d /\ v.host_end = u.host_end + d
      /\ v.host = u.host /\ v.port = u.port
  BY DEF HostMoved
<1>2. Written(v)  BY <1>1 DEF Written
<1>3. u.scheme_end < a
  <2>1. u.scheme_end \in Nat /\ a \in Nat  BY HeadPlaces, EditLengths
  <2> QED  BY <2>1
<1>4. Scheme(v) = Scheme(u)  BY <1>1, <1>3, EditKeepsScheme
<1>5. HostText(v) = HostText(u)  BY <1>1, HostMovedPart
<1>6. Bare(v) = Bare(u)  BY <1>2 DEF Bare
<1>7. SameTailParts(u, v)  BY TailPartsKept
<1> QED  BY <1>1, <1>2, <1>4, <1>5, <1>6, <1>7

\* set_username exchanges the username.
LEMMA WithUsernameParts ==
    ASSUME NEW u, Good(u), TakesCredentials(u),
           NEW name \in Text, NoSpace(name), NEW v, v = WithUsername(u, name)
    PROVE  /\ Good(v) /\ UsernamePart(v) = name
           /\ PasswordPart(v) = PasswordPart(u)
           /\ Scheme(v) = Scheme(u) /\ HostText(v) = HostText(u)
           /\ v.host = u.host /\ v.port = u.port /\ Bare(v) = Bare(u)
           /\ SameTailParts(u, v)
<1> DEFINE a     == u.scheme_end + 3
           x     == u.username_end
           y     == u.host_start
           k     == Len(name)
           next  == HasByte(u.ser, u.username_end, "@")
           drops == name = <<>> /\ next
           adds  == name # <<>> /\ ~next /\ ~HasByte(u.ser, u.username_end, ":")
           b     == x + (IF drops THEN 1 ELSE 0)
           mid   == name \o (IF adds THEN <<"@">> ELSE <<>>)
           m     == Len(mid)
           d     == a + m - b
<1>1. v = [ShiftHost(u, d) EXCEPT !.ser = Splice(u.ser, a, b, mid),
                                  !.username_end = a + k]
  BY DEF WithUsername
<1>2. /\ x \in Nat /\ y \in Nat /\ a \in Nat /\ x <= y /\ a <= x
      /\ y < Len(u.ser) /\ CredentialsClosed(u)
      /\ ByteAt(u.ser, u.host_start) \notin {":", "@"}
  BY CredentialsPlace
<1>3. k \in Nat  BY LenProperties DEF Text
<1>4. Written(u)  BY TakesCredentialsWritten
<1>5. Good(v)  BY WithUsernameGood
\* The three places a username can stand at.
<1>6. \/ ~next /\ ~HasByte(u.ser, u.username_end, ":") /\ y = x
      \/ next /\ ~HasByte(u.ser, u.username_end, ":") /\ y = x + 1
      \/ ~next /\ HasByte(u.ser, u.username_end, ":") /\ y >= x + 3
  <2> DEFINE c == ByteAt(u.ser, x)
             n == Len(u.ser)
  <2>1. x < n
    <3>1. n \in Nat /\ y < n  BY <1>2, GoodFacts
    <3> HIDE DEF x, y, n
    <3> QED  BY <1>2, <3>1
  <2>2. /\ next <=> c = "@"
        /\ HasByte(u.ser, u.username_end, ":") <=> c = ":"
    BY <2>1 DEF HasByte
  <2>3. \/ y = x /\ c \notin {":", "@"}
        \/ y = x + 1 /\ c = "@"
        \/ y >= x + 3 /\ c = ":"
    BY <1>2 DEF CredentialsClosed
  <2> HIDE DEF c, next
  <2> QED  BY <2>2, <2>3
<1>7. /\ mid \in Text /\ m \in Nat /\ m = k + (IF adds THEN 1 ELSE 0)
      /\ \A i \in 1..k : mid[i] = name[i]
  <2>1. CASE adds
    <3>1. mid = name \o <<"@">>  BY <2>1
    <3>2. mid \in Text /\ m = k + 1 /\ \A i \in 1..k : mid[i] = name[i]
      BY <3>1, Closed
    <3> HIDE DEF mid, m, k, adds
    <3> QED  BY <1>3, <2>1, <3>2
  <2>2. CASE ~adds
    <3>1. mid = name
      <4>1. mid = name \o << >>  BY <2>2
      <4> QED  BY <4>1, ConcatEmptySeq DEF Text
    <3>2. m = k  BY <3>1
    <3>3. m = k + 0 /\ m \in Nat
      <4> HIDE DEF m, k
      <4> QED  BY <1>3, <3>2
    <3> HIDE DEF mid, m, adds
    <3> QED  BY <2>2, <3>1, <3>3
  <2> QED  BY <2>1, <2>2
<1>8. d = a + Len(mid) - b  OBVIOUS
<1>9. b = x + (IF drops THEN 1 ELSE 0) /\ d = a + m - b  OBVIOUS
<1>10. drops <=> name = <<>> /\ next  OBVIOUS
<1>11. adds => ~next /\ ~HasByte(u.ser, u.username_end, ":")  OBVIOUS
<1> DEFINE colon == HasByte(u.ser, u.username_end, ":")
<1>12. name = <<>> => k = 0  BY EmptySeq
<1> HIDE DEF b, d, mid, m, drops, adds, next, colon
<1>13. b \in Nat /\ x <= b /\ b <= y /\ d \in Int
  <2>1. CASE drops
    <3>1. b = x + 1 /\ y = x + 1  BY <1>6, <1>9, <1>10, <2>1
    <3> HIDE DEF a, x, y, k
    <3> QED  BY <1>2, <1>3, <1>7, <1>9, <3>1
  <2>2. CASE ~drops
    <3>1. b = x + 0  BY <1>9, <2>2
    <3> HIDE DEF a, x, y, k
    <3> QED  BY <1>2, <1>3, <1>7, <1>9, <3>1
  <2> QED  BY <2>1, <2>2
<1>14. a <= b /\ b <= u.host_start /\ a + k \in Nat /\ u.scheme_end + 3 <= a + k
  <2>1. a <= b /\ a + k \in Nat /\ a <= a + k
    <3> HIDE DEF a, x, y, k
    <3> QED  BY <1>2, <1>3, <1>13
  <2> QED  BY <1>13, <2>1
<1>15. /\ Edit(u, v, a, b, mid, d)
       /\ HostMoved(u, v, d, Splice(u.ser, a, b, mid), u.scheme_end, a + k)
  BY <1>1, <1>2, <1>7, <1>8, <1>13, <1>14, CredentialsMoved
<1>16. u.scheme_end + 3 <= a
  <2>1. a <= a  BY <1>2
  <2> QED  BY <2>1
<1>17. /\ Scheme(v) = Scheme(u) /\ HostText(v) = HostText(u)
       /\ v.host = u.host /\ v.port = u.port /\ Bare(v) = Bare(u)
       /\ SameTailParts(u, v) /\ Written(v)
  BY <1>4, <1>5, <1>14, <1>15, <1>16, CredentialsEditParts
<1>18. v.scheme_end = u.scheme_end /\ v.username_end = a + k
       /\ v.host_start = y + d
  BY <1>15 DEF HostMoved
<1>19. UsernamePart(v) = name
  <2>1. 0 \in Nat /\ 0 <= k /\ k <= m
    <3> HIDE DEF a, x, y, k
    <3> QED  BY <1>3, <1>7
  <2>2. Slice(v.ser, a + 0, a + k) = Slice(mid, 0, k)
    BY <1>3, <1>15, <2>1, EditSlices DEF m
  <2>3. Slice(mid, 0, k) = Slice(name, 0, k)
    <3>1. \A i \in 1..(k - 0) : mid[0 + i] = name[0 + i]
      <4>1. k - 0 = k /\ \A i \in 1..k : 0 + i = i
        <5> HIDE DEF k
        <5> QED  BY <1>3
      <4> QED  BY <1>7, <4>1
    <3>2. k <= Len(mid) /\ k <= Len(name)
      <4>1. k <= k /\ k <= m
        <5> HIDE DEF k
        <5> QED  BY <1>3, <2>1
      <4> QED  BY <4>1 DEF m
    <3>3. SameElements(mid, 0, k, name, 0, k)
      <4> HIDE DEF k
      <4> QED  BY <1>3, <1>7, <2>1, <3>1, <3>2 DEF SameElements
    <3> QED  BY <3>3, SlicesEqual, SMTT(40)
  <2>4. Slice(name, 0, k) = name  BY SliceWhole
  <2>5. a + 0 = a
    <3> HIDE DEF a
    <3> QED  BY <1>2
  <2> QED  BY <1>17, <1>18, <2>2, <2>3, <2>4, <2>5 DEF UsernamePart
<1>20. PasswordPart(v) = PasswordPart(u)
  <2>1. CASE y >= x + 3
    <3>1. ~next /\ colon
      <4> HIDE DEF x, y
      <4> QED  BY <1>2, <1>6, <2>1 DEF colon
    <3>2. ~drops /\ ~adds  BY <1>10, <1>11, <3>1 DEF colon
    <3>3. b = x + 0 /\ m = k + 0  BY <1>7, <1>9, <3>2
    <3>4. b <= x /\ x + d = a + k
      <4> HIDE DEF a, x, y, k
      <4> QED  BY <1>2, <1>3, <1>9, <3>3
    <3> QED  BY <1>15, <1>18, <3>4, PasswordMovedPart
  <2>2. CASE ~(y >= x + 3)
    <3>1. y <= x + 1 /\ y + d <= (a + k) + 1
      <4>1. \/ ~next /\ ~colon /\ y = x
            \/ next /\ ~colon /\ y = x + 1
        BY <1>6, <2>2 DEF colon
      <4>2. CASE ~next /\ y = x
        <5>1. ~drops  BY <1>10, <4>2
        <5>2. b = x + 0  BY <1>9, <5>1
        <5> HIDE DEF a, x, y, k
        <5>3. m <= k + 1  BY <1>3, <1>7
        <5> QED  BY <1>2, <1>3, <1>7, <1>9, <4>2, <5>2, <5>3
      <4>3. CASE next /\ y = x + 1
        <5>1. ~adds  BY <1>11, <4>3
        <5>2. m = k + 0  BY <1>7, <5>1
        <5> HIDE DEF a, x, y, k
        <5> QED  BY <1>2, <1>3, <1>9, <1>13, <4>3, <5>2
      <4> QED  BY <4>1, <4>2, <4>3
    <3>2. PasswordPart(v) = <<>>
      <4>1. v.host_start <= v.username_end + 1  BY <1>18, <3>1
      <4> QED  BY <1>5, <4>1, CredentialParts
    <3>3. PasswordPart(u) = <<>>  BY <3>1, CredentialParts
    <3> QED  BY <3>2, <3>3
  <2> QED  BY <2>1, <2>2
<1> QED  BY <1>5, <1>17, <1>19, <1>20

\* set_password(Some(password)) exchanges the password.
LEMMA WithPasswordParts ==
    ASSUME NEW u, Good(u), TakesCredentials(u),
           NEW password \in Text, password # <<>>, NoSpace(password),
           NEW v, v = WithPassword(u, password)
    PROVE  /\ Good(v) /\ PasswordPart(v) = password
           /\ UsernamePart(v) = UsernamePart(u)
           /\ Scheme(v) = Scheme(u) /\ HostText(v) = HostText(u)
           /\ v.host = u.host /\ v.port = u.port /\ Bare(v) = Bare(u)
           /\ SameTailParts(u, v)
<1> DEFINE a    == u.username_end
           b    == u.host_start
           text == <<":">> \o password
           mid  == text \o <<"@">>
           k    == Len(password)
           d    == a + Len(mid) - b
<1>1. /\ a \in Nat /\ b \in Nat /\ a <= b /\ u.scheme_end + 3 <= a
      /\ Written(u) /\ b <= u.host_start
  <2>1. /\ a \in Nat /\ b \in Nat /\ a <= b /\ u.scheme_end + 3 <= a
    BY CredentialsPlace
  <2>2. b <= b  BY <2>1
  <2> QED  BY <2>1, <2>2, TakesCredentialsWritten
<1>2. Good(v)  BY WithPasswordGood
<1>3. k \in Nat /\ k > 0  BY LenProperties, EmptySeq DEF Text
<1>4. /\ text \in Text /\ Len(text) = 1 + k
      /\ \A i \in 1..k : text[1 + i] = password[i]
  <2>1. ":" \in Mark  BY DEF Mark
  <2> QED  BY <2>1, Delimited
<1>5. v = [ShiftHost(u, d) EXCEPT !.ser = Splice(u.ser, a, b, mid)]
  BY DEF WithPassword
<1> HIDE DEF text
<1>6. /\ mid \in Text /\ Len(mid) = Len(text) + 1
      /\ \A i \in 1..Len(text) : mid[i] = text[i]
  BY <1>4, Closed
<1> HIDE DEF mid
<1>7. d = a + Len(mid) - b  OBVIOUS
<1>8. /\ Edit(u, v, a, b, mid, d)
      /\ HostMoved(u, v, d, Splice(u.ser, a, b, mid), u.scheme_end, a)
  BY <1>1, <1>5, <1>6, PasswordMoved
<1>9. /\ Scheme(v) = Scheme(u) /\ HostText(v) = HostText(u)
      /\ v.host = u.host /\ v.port = u.port /\ Bare(v) = Bare(u)
      /\ SameTailParts(u, v) /\ Written(v)
  BY <1>1, <1>2, <1>8, CredentialsEditParts
<1>10. /\ v.scheme_end = u.scheme_end /\ v.username_end = a
       /\ v.host_start = b + d
  BY <1>8 DEF HostMoved
<1>11. UsernamePart(v) = UsernamePart(u)
  <2>1. u.username_end <= a  BY <1>1
  <2> QED  BY <1>8, <1>10, <2>1, UsernameKeptPart
<1>12. Len(mid) = k + 2  BY <1>3, <1>4, <1>6
<1>13. PasswordPart(v) = password
  <2>1. b + d = a + (k + 2)
    <3> HIDE DEF a, b, k
    <3>1. d = a + (k + 2) - b  BY <1>12
    <3> HIDE DEF d
    <3> QED  BY <1>1, <1>3, <3>1
  <2>2. /\ b + d > a + 1 /\ (b + d) - 1 = a + (1 + k)
        /\ 1 \in Nat /\ 1 + k \in Nat /\ 1 <= 1 + k /\ 1 + k <= k + 2
    <3> DEFINE e == b + d
    <3>1. e = a + (k + 2)  BY <2>1
    <3> HIDE DEF a, k, e
    <3>2. e > a + 1 /\ e - 1 = a + (1 + k) /\ 1 <= 1 + k /\ 1 + k <= k + 2
      BY <1>1, <1>3, <3>1
    <3> QED  BY <1>3, <3>2 DEF e
  <2>3. Slice(v.ser, a + 1, a + (1 + k)) = Slice(mid, 1, 1 + k)
    <3>1. 1 + k <= Len(mid)  BY <1>12, <2>2
    <3> HIDE DEF a, b, k, d
    <3> QED  BY <1>8, <2>2, <3>1, EditSlices
  <2>4. Slice(mid, 1, 1 + k) = Slice(password, 0, k)
    <3> HIDE DEF k
    <3>1. \A i \in 1..k : mid[1 + i] = password[i]
      <4> SUFFICES ASSUME NEW i \in 1..k PROVE mid[1 + i] = password[i]
        OBVIOUS
      <4>1. 1 + i \in 1..Len(text)  BY <1>3, <1>4
      <4> QED  BY <1>4, <1>6, <4>1
    <3>2. /\ (1 + k) - 1 = k - 0 /\ k - 0 = k /\ 0 <= k /\ 0 \in Nat
          /\ \A i \in 1..k : 0 + i = i
      BY <1>3
    <3>3. k <= Len(password) /\ 1 + k <= Len(mid)
      <4>1. k = Len(password)  BY DEF k
      <4>2. k <= k  BY <1>3
      <4> QED  BY <1>12, <2>2, <4>1, <4>2
    <3>4. SameElements(mid, 1, 1 + k, password, 0, k)
      BY <1>3, <1>6, <2>2, <3>1, <3>2, <3>3 DEF SameElements
    <3> QED  BY <3>4, SlicesEqual
  <2>5. Slice(password, 0, k) = password  BY SliceWhole
  <2>6. PasswordPart(v) = Slice(v.ser, a + 1, a + (1 + k))
    BY <1>10, <2>2 DEF PasswordPart
  <2> QED  BY <2>3, <2>4, <2>5, <2>6
<1> QED  BY <1>2, <1>9, <1>11, <1>13

\* set_password(None) leaves an empty one.
LEMMA WithoutPasswordParts ==
    ASSUME NEW u, Good(u), TakesCredentials(u),
           HasByte(u.ser, u.username_end, ":"),
           NEW v, v = WithoutPassword(u)
    PROVE  /\ Good(v) /\ PasswordPart(v) = <<>>
           /\ UsernamePart(v) = UsernamePart(u)
           /\ Scheme(v) = Scheme(u) /\ HostText(v) = HostText(u)
           /\ v.host = u.host /\ v.port = u.port /\ Bare(v) = Bare(u)
           /\ SameTailParts(u, v)
<1> DEFINE a   == u.username_end
           b   == PasswordEnd(u)
           y   == u.host_start
           mid == <<>>
           d   == a + Len(mid) - b
<1>1. /\ a \in Nat /\ y \in Nat /\ u.scheme_end + 3 <= a /\ Written(u)
  BY CredentialsPlace, TakesCredentialsWritten
<1>2. b \in Nat /\ a <= b /\ b <= y /\ (b = y \/ b + 1 = y)
  BY PasswordDrained
<1>3. mid \in Text /\ Len(mid) = 0
  BY EmptySeq DEF Text
<1>4. v = [ShiftHost(u, d) EXCEPT !.ser = Splice(u.ser, a, b, mid)]
  <2>1. Len(mid) = 0  BY <1>3
  <2> HIDE DEF b
  <2>2. a - b = a + 0 - b  BY <1>1, <1>2
  <2>3. a - b = d  BY <2>1, <2>2
  <2> QED  BY <2>3 DEF WithoutPassword, b
<1>5. Good(v)  BY WithoutPasswordGood
<1> HIDE DEF mid, b
<1>6. d = a + Len(mid) - b  OBVIOUS
<1>7. d = a - b  BY <1>1, <1>2, <1>3
<1>8. b <= u.host_start  BY <1>2
<1>9. /\ Edit(u, v, a, b, mid, d)
      /\ HostMoved(u, v, d, Splice(u.ser, a, b, mid), u.scheme_end, a)
  BY <1>1, <1>2, <1>3, <1>4, <1>8, PasswordMoved
<1>10. /\ Scheme(v) = Scheme(u) /\ HostText(v) = HostText(u)
       /\ v.host = u.host /\ v.port = u.port /\ Bare(v) = Bare(u)
       /\ SameTailParts(u, v) /\ Written(v)
  BY <1>1, <1>5, <1>8, <1>9, CredentialsEditParts
<1>11. /\ v.scheme_end = u.scheme_end /\ v.username_end = a
       /\ v.host_start = y + d
  BY <1>9 DEF HostMoved
<1>12. UsernamePart(v) = UsernamePart(u)
  <2>1. u.username_end <= a  BY <1>1
  <2> QED  BY <1>9, <1>11, <2>1, UsernameKeptPart
<1>13. PasswordPart(v) = <<>>
  <2>1. y + d <= a + 1
    <3> HIDE DEF a, y, d
    <3> QED  BY <1>1, <1>2, <1>7
  <2>2. v.host_start <= v.username_end + 1  BY <1>11, <2>1
  <2> QED  BY <1>5, <2>2, CredentialParts
<1> QED  BY <1>5, <1>10, <1>12, <1>13

\* set_port exchanges the port; a "/." in front of the path is not there when a
\* URL takes a port.
LEMMA WithPortParts ==
    ASSUME NEW u, Good(u), Written(u), NEW port \in PortNumber \union {None},
           NEW v, v = WithPort(u, port)
    PROVE  /\ Good(v) /\ v.port = port
           /\ UsernamePart(v) = UsernamePart(u)
           /\ PasswordPart(v) = PasswordPart(u)
           /\ Scheme(v) = Scheme(u) /\ HostText(v) = HostText(u)
           /\ v.host = u.host /\ Bare(v) = Bare(u)
           /\ SameTailParts(u, v)
<1> DEFINE mid == IF port = None THEN <<>> ELSE PortSuffix(port)
           a == u.host_end
           b == u.path_start
           d == a + Len(mid) - b
<1>1. CASE port = u.port
  <2>1. v = u  BY <1>1 DEF WithPort
  <2> QED  BY <1>1, <2>1 DEF SameTailParts
<1>2. CASE port # u.port
  <2>1. mid \in Text
    <3>1. << >> \in Text  BY EmptySeq DEF Text
    <3> QED  BY <3>1, PortSuffixFacts
  <2>2. /\ a \in Nat /\ b \in Nat /\ a <= b /\ b <= u.path_start
        /\ u.host_start <= a /\ u.username_end <= a /\ u.scheme_end < a
        /\ u.host_end <= a
    <3> DEFINE y == u.host_start
               x == u.username_end
               e == u.scheme_end
    <3>1. /\ a \in Nat /\ b \in Nat /\ y \in Nat /\ x \in Nat /\ e \in Nat
          /\ e < x /\ x <= y /\ y <= a /\ a <= b
      BY HeadPlaces
    <3> HIDE DEF a, b, y, x, e
    <3>2. b <= b /\ x <= a /\ e < a /\ a <= a  BY <3>1
    <3> QED  BY <3>1, <3>2 DEF a, b, y, x, e
  <2>3. /\ v.ser = Splice(u.ser, a, b, mid) /\ v.port = port
        /\ v.scheme_end = u.scheme_end /\ v.username_end = u.username_end
        /\ v.host_start = u.host_start /\ v.host_end = u.host_end
        /\ v.host = u.host /\ v.path_start = u.path_start + d
        /\ v.query_start = ShiftOpt(u.query_start, d)
        /\ v.fragment_start = ShiftOpt(u.fragment_start, d)
    BY <1>2 DEF WithPort, ShiftPath, ShiftAfterPath, Good, UrlSet
  <2>4. Good(v)  BY WithPortGood
  <2>5. Edit(u, v, a, b, mid, d)
    BY <2>1, <2>2, <2>3, <2>4 DEF Edit, Good
  <2> HIDE DEF mid, d
  <2>6. UsernamePart(v) = UsernamePart(u) /\ (Written(v) <=> Written(u))
    BY <2>2, <2>3, <2>5, UsernameKeptPart
  <2>7. PasswordPart(v) = PasswordPart(u)
    BY <2>2, <2>3, <2>5, PasswordKeptPart
  <2>8. Scheme(v) = Scheme(u)  BY <2>2, <2>3, <2>5, EditKeepsScheme
  <2>9. HostText(v) = HostText(u)  BY <2>2, <2>3, <2>5, HostKeptPart
  <2>10. Bare(v) = Bare(u)  BY <2>6 DEF Bare
  <2>11. SameTailParts(u, v)  BY <2>4, <2>5, TailPartsKept
  <2> QED  BY <2>3, <2>4, <2>6, <2>7, <2>8, <2>9, <2>10, <2>11
<1> QED  BY <1>1, <1>2

\* set_scheme exchanges the scheme, before it looks at the port again.
LEMMA WithSchemeParts ==
    ASSUME NEW u, Good(u), NEW new \in Text, new # <<>>, NoSpace(new),
           IsSpecialType(SchemeType(new)) = IsSpecial(u),
           NEW v, v = WithScheme(u, new)
    PROVE  /\ Good(v) /\ Scheme(v) = new
           /\ UsernamePart(v) = UsernamePart(u)
           /\ PasswordPart(v) = PasswordPart(u)
           /\ HostText(v) = HostText(u) /\ v.host = u.host /\ v.port = u.port
           /\ Bare(v) = Bare(u) /\ (Written(v) <=> Written(u))
           /\ SameTailParts(u, v)
<1> DEFINE d == Len(new) - u.scheme_end
           b == u.scheme_end
           n == Len(new)
           x == u.username_end
           y == u.host_start
           z == u.host_end
           m == Len(u.ser)
<1>1. /\ n \in Nat /\ b \in Nat /\ x \in Nat /\ y \in Nat /\ z \in Nat
      /\ b < x /\ x <= y /\ y <= z /\ m \in Nat /\ x <= m
  BY HeadPlaces, LenProperties DEF Text
<1>2. v = [ShiftHost(u, d) EXCEPT !.ser = Splice(u.ser, 0, b, new),
                                  !.scheme_end = n,
                                  !.username_end = x + d]
  BY DEF WithScheme, ShiftHost, ShiftPath, ShiftAfterPath, Good, UrlSet
<1>3. Good(v)  BY WithSchemeGood
<1>4. d = n - b  OBVIOUS
<1> HIDE DEF d, n, b, x, y, z, m
<1>5. /\ d \in Int /\ d = 0 + n - b /\ x + d \in Nat /\ 0 <= b
      /\ b <= y /\ b <= z /\ b <= x /\ 0 + n = n
  BY <1>1, <1>4
<1>6. /\ Edit(u, v, 0, b, new, d)
      /\ HostMoved(u, v, d, Splice(u.ser, 0, b, new), n, x + d)
  <2>1. b <= u.host_start /\ d = 0 + Len(new) - b  BY <1>5 DEF y, n
  <2> QED  BY <1>1, <1>2, <1>5, <2>1, HostMovedEdit
<1>7. /\ v.scheme_end = n /\ v.username_end = x + d
      /\ v.host_start = y + d /\ v.host_end = z + d
      /\ v.host = u.host /\ v.port = u.port
  BY <1>6 DEF HostMoved, y, z
<1>8. /\ b <= u.host_start /\ b <= u.username_end /\ b <= u.host_end
      /\ v.username_end = u.username_end + d
      /\ v.host_start = u.host_start + d /\ v.host_end = u.host_end + d
  BY <1>5, <1>7 DEF x, y, z
<1>9. Scheme(v) = new
  <2>1. Slice(v.ser, 0 + 0, 0 + n) = Slice(new, 0, n)
    <3>1. 0 \in Nat /\ 0 <= n /\ n <= n  BY <1>1
    <3> QED  BY <1>1, <1>6, <3>1, EditSlices DEF n
  <2>2. Slice(new, 0, n) = new  BY SliceWhole DEF n
  <2>3. Slice(v.ser, 0, n) = new  BY <1>5, <2>1, <2>2
  <2> QED  BY <1>7, <2>3 DEF Scheme, Take, Slice
<1>10. Written(v) <=> Written(u)
  <2>1. x + d >= n + 3 <=> x >= b + 3  BY <1>1, <1>4
  <2> QED  BY <1>7, <2>1 DEF Written, x, b
<1>11. UsernamePart(v) = UsernamePart(u)
  <2>1. CASE Written(u)
    <3>1. /\ b + 3 \in Nat /\ b + 3 <= x /\ b <= b + 3 /\ (b + 3) + d = n + 3
      <4>1. x >= b + 3  BY <2>1 DEF Written, x, b
      <4> QED  BY <1>1, <1>4, <4>1
    <3>2. Slice(v.ser, (b + 3) + d, x + d) = Slice(u.ser, b + 3, x)
      BY <1>1, <1>6, <3>1, SliceMoved DEF m
    <3> QED  BY <1>7, <1>10, <2>1, <3>1, <3>2 DEF UsernamePart, b, x
  <2>2. CASE ~Written(u)  BY <1>10, <2>2 DEF UsernamePart
  <2> QED  BY <2>1, <2>2
<1>12. PasswordPart(v) = PasswordPart(u)  BY <1>6, <1>8, PasswordMovedPart
<1>13. HostText(v) = HostText(u)  BY <1>6, <1>8, HostMovedPart
<1>14. Bare(v) = Bare(u)  BY <1>6, <1>8, <1>10, BareKept
<1>15. SameTailParts(u, v)  BY <1>3, <1>6, TailPartsKept
<1> QED
  BY <1>3, <1>7, <1>9, <1>10, <1>11, <1>12, <1>13, <1>14, <1>15

\* set_host(Some) and set_ip_host exchange the host, and write "//" in front of
\* it when there was no authority.
LEMMA WithHostParts ==
    ASSUME NEW u, Good(u), NEW host, WritableHost(host),
           NEW v, v = WithHost(u, host)
    PROVE  /\ Good(v) /\ HostText(v) = host.text /\ v.host = host.kind
           /\ Scheme(v) = Scheme(u)
           /\ UsernamePart(v) = UsernamePart(u)
           /\ PasswordPart(v) = PasswordPart(u)
           /\ v.port = u.port /\ ~Bare(v)
           /\ SameTailParts(u, v)
<1> DEFINE marked  == StartsWithAuthority(Take(u.ser, u.host_start),
                                          u.scheme_end)
           slashes == IF marked THEN <<>> ELSE <<"/", "/">>
           j       == Len(slashes)
           t       == host.text
           k       == Len(t)
           mid     == slashes \o host.text
           m       == Len(mid)
           a       == u.host_start
           b       == u.host_end
           d       == u.host_start + Len(mid) - u.host_end
<1>1. slashes \in Text /\ j \in Nat
  <2>1. "/" \in Lexeme  BY DEF Lexeme, Mark
  <2>2. <<>> \in Text /\ <<"/", "/">> \in Text /\ Len(<<"/", "/">>) = 2
        /\ Len(<<>>) = 0
    BY <2>1, EmptySeq DEF Text
  <2> HIDE DEF marked
  <2>3. CASE marked  BY <2>2, <2>3
  <2>4. CASE ~marked  BY <2>2, <2>4
  <2> QED  BY <2>3, <2>4
<1>2. v = [ShiftPath(u, d) EXCEPT
              !.ser          = Splice(u.ser, u.host_start, u.host_end, mid),
              !.username_end = @ + j,
              !.host_start   = @ + j,
              !.host_end     = @ + d,
              !.host         = host.kind]
  BY DEF WithHost
<1>3. t \in Text /\ k \in Nat /\ host.kind \in HostKind
  BY LenProperties DEF WritableHost, Text
<1>4. marked => slashes = <<>> /\ j = 0
  <2>1. marked => slashes = <<>>  OBVIOUS
  <2> QED  BY <2>1, EmptySeq
<1>5. ~marked => slashes = <<"/", "/">> /\ j = 2
  OBVIOUS
<1> HIDE DEF slashes, t, marked
<1>6. /\ mid \in Text /\ Len(mid) = j + k
      /\ \A i \in 1..k : mid[j + i] = t[i]
  BY <1>1, <1>3, ConcatFacts DEF t
<1> HIDE DEF mid
<1>7. Good(v)  BY WithHostGood
<1>8. d = u.host_start + Len(mid) - u.host_end /\ d = a + m - b  OBVIOUS
<1>9. /\ Edit(u, v, u.host_start, u.host_end, mid, d)
      /\ HostReplaced(u, v, d, j, host.kind)
  <2> HIDE DEF d, j
  <2> QED  BY <1>1, <1>2, <1>3, <1>6, <1>8, HostEdit
<1>10. Edit(u, v, a, b, mid, d)  BY <1>9
<1>11. /\ v.scheme_end = u.scheme_end /\ v.username_end = u.username_end + j
       /\ v.host_start = a + j /\ v.host_end = b + d
       /\ v.host = host.kind /\ v.port = u.port
  BY <1>9 DEF HostReplaced
<1> DEFINE e == u.scheme_end
           x == u.username_end
<1>12. /\ e \in Nat /\ x \in Nat /\ a \in Nat /\ b \in Nat
       /\ e < x /\ x <= a /\ a <= b
  BY HeadPlaces
<1> HIDE DEF d, m, j, k
<1>13. m = j + k  BY <1>6 DEF m
<1>14. /\ e < a /\ b + d = a + (j + k) /\ m \in Nat /\ x <= a /\ a <= a
  <2> HIDE DEF e, x, a, b
  <2> QED  BY <1>1, <1>3, <1>8, <1>12, <1>13
<1>15. Scheme(v) = Scheme(u)
  <2>1. u.scheme_end < a  BY <1>14
  <2> QED  BY <1>10, <1>11, <2>1, EditKeepsScheme
<1>16. SameTailParts(u, v)  BY <1>7, <1>10, TailPartsKept
<1>17. HostText(v) = host.text
  <2>1. Slice(v.ser, a + j, a + (j + k)) = Slice(mid, j, j + k)
    <3>1. j <= j + k /\ j + k \in Nat /\ j + k <= m
      BY <1>1, <1>3, <1>13
    <3> HIDE DEF a, b
    <3> QED  BY <1>1, <1>10, <3>1, EditSlices DEF m
  <2>2. Slice(mid, j, j + k) = Slice(t, 0, k)
    <3>1. \A i \in 1..((j + k) - j) : mid[j + i] = t[0 + i]
      <4>1. (j + k) - j = k /\ \A i \in 1..k : 0 + i = i
        BY <1>1, <1>3
      <4> QED  BY <1>6, <4>1
    <3>2. /\ (j + k) - j = k - 0 /\ 0 <= k /\ j <= j + k /\ j + k \in Nat
          /\ j + k <= m /\ k <= k
      BY <1>1, <1>3, <1>13
    <3>3. SameElements(mid, j, j + k, t, 0, k)
      BY <1>1, <1>3, <1>6, <3>1, <3>2 DEF SameElements, m, k
    <3> QED  BY <3>3, SlicesEqual, SMTT(40)
  <2>3. Slice(t, 0, k) = t  BY <1>3, SliceWhole DEF k
  <2> QED  BY <1>11, <1>14, <2>1, <2>2, <2>3 DEF HostText, t
<1>18. CASE marked
  <2>1. e + 3 <= x
    BY <1>18, AuthorityBeforeHost DEF marked
  <2>2. j = 0  BY <1>4, <1>18
  <2>3. v.username_end = u.username_end /\ v.host_start = u.host_start
    <3>1. x + 0 = x /\ a + 0 = a
      <4> HIDE DEF x, a
      <4> QED  BY <1>12
    <3> QED  BY <1>11, <2>2, <3>1
  <2>4. u.username_end <= a /\ u.host_start <= a  BY <1>14
  <2>5. UsernamePart(v) = UsernamePart(u) /\ (Written(v) <=> Written(u))
    BY <1>10, <1>11, <2>3, <2>4, UsernameKeptPart
  <2>6. PasswordPart(v) = PasswordPart(u)
    BY <1>10, <2>3, <2>4, PasswordKeptPart
  <2>7. x >= e + 3
    <3> DEFINE y == e + 3
    <3>1. y \in Nat /\ y <= x  BY <1>12, <2>1
    <3> HIDE DEF y, x
    <3>2. x >= y  BY <1>12, <3>1
    <3> QED  BY <3>2 DEF y
  <2>8. ~Bare(v)  BY <2>5, <2>7 DEF Written, Bare
  <2> QED
    BY <1>7, <1>11, <1>15, <1>16, <1>17, <2>5, <2>6, <2>8
<1>19. CASE ~marked
  <2>1. x = e + 1 /\ a = e + 1
    BY <1>19, AuthorityBeforeHost DEF marked
  <2>2. j = 2  BY <1>5, <1>19
  <2>3. x + j >= e + 3 /\ x + j = a + j /\ ~(x >= e + 3) /\ x = a
    <3> HIDE DEF e, x, a
    <3> QED  BY <1>12, <2>1, <2>2
  <2>4. Written(v) /\ ~Written(u)  BY <1>11, <2>3 DEF Written
  <2>5. v.username_end = v.host_start  BY <1>11, <2>3
  <2>6. UsernamePart(v) = <<>> /\ PasswordPart(v) = <<>>
    BY <1>7, <2>5, CredentialParts
  <2>7. UsernamePart(u) = <<>> /\ PasswordPart(u) = <<>>
    BY <2>4, CredentialParts
  <2>8. ~Bare(v)  BY <2>4 DEF Bare
  <2> QED
    BY <1>7, <1>11, <1>15, <1>16, <1>17, <2>6, <2>7, <2>8
<1> QED  BY <1>18, <1>19

\* set_host(None) first writes a path where nothing stands behind the head.
LEMMA WithSomePathParts ==
    ASSUME NEW u, Good(u), NEW w, w = WithSomePath(u),
           Path(u) = <<>> => Len(u.ser) = u.path_start
    PROVE  /\ Good(w) /\ w.scheme_end = u.scheme_end
           /\ SameFrontParts(u, w)
           /\ Path(w) = IF Path(u) = <<>> THEN <<"/">> ELSE Path(u)
           /\ QueryPart(w) = QueryPart(u) /\ FragmentPart(w) = FragmentPart(u)
<1> DEFINE n == Len(u.ser)
           p == u.path_start
           e == PathEnd(u)
           q == QueryEnd(u)
<1>1. /\ n \in Nat /\ p \in Nat /\ e \in Nat /\ q \in Nat
      /\ p <= e /\ e <= q /\ q <= n /\ u.ser \in Text
  BY EditPlaces
<1>2. CASE Path(u) # <<>>
  <2>1. p # e  BY <1>2, PathFacts
  <2>2. n # p
    <3> HIDE DEF n, p, e, q
    <3> QED  BY <1>1, <2>1
  <2>3. w = u  BY <2>2 DEF WithSomePath
  <2> QED  BY <1>2, <2>3 DEF SameFrontParts
<1>3. CASE Path(u) = <<>>
  <2>1. n = p  BY <1>3
  <2> DEFINE r == u.ser \o <<"/">>
             z == [u EXCEPT !.ser = r]
  <2>2. w = z  BY <2>1 DEF WithSomePath
  <2>3. Good(z)  BY <2>1, SlashAppended
  <2>4. <<"/">> \in Text /\ Len(<<"/">>) = 1
    <3>1. "/" \in Lexeme  BY DEF Lexeme, Mark
    <3> QED  BY <3>1 DEF Text
  <2>5. /\ r \in Text /\ Len(r) = Len(u.ser) + Len(<<"/">>)
        /\ \A i \in 1..Len(u.ser) : r[i] = u.ser[i]
        /\ \A i \in 1..Len(<<"/">>) : r[Len(u.ser) + i] = <<"/">>[i]
    BY <1>1, <2>4, ConcatFacts
  <2>6. /\ z.ser = r /\ z.scheme_end = u.scheme_end
        /\ z.username_end = u.username_end /\ z.host_start = u.host_start
        /\ z.host_end = u.host_end /\ z.host = u.host /\ z.port = u.port
        /\ z.path_start = u.path_start /\ z.query_start = u.query_start
        /\ z.fragment_start = u.fragment_start
    BY DEF Good, UrlSet
  <2> HIDE DEF r, z
  <2> DEFINE l == Len(r)
  <2>7. l = p + 1 /\ \A i \in 1..p : r[i] = u.ser[i]
    BY <2>1, <2>4, <2>5
  <2>8. r[p + 1] = "/"
    <3>1. 1 \in 1..Len(<<"/">>)  BY <2>4
    <3> QED  BY <2>1, <2>5, <3>1
  <2>9. u.query_start = None /\ u.fragment_start = None
    <3>1. /\ u.query_start # None => e < q
          /\ u.fragment_start # None => q < n
      BY TailFacts
    <3> HIDE DEF n, p, e, q
    <3> QED  BY <1>1, <2>1, <3>1
  <2>10. SameHead(u, z)
    <3>1. p <= l
      <4> HIDE DEF l, p
      <4> QED  BY <1>1, <2>7
    <3> QED  BY <2>6, <2>7, <3>1 DEF SameHead
  <2>11. SameFrontParts(u, z)  BY <2>3, <2>10, HeadPartsKept
  <2>12. Path(z) = <<"/">>
    <3>1. Path(z) = Slice(r, p, l)  BY <2>6, <2>9 DEF Path, PathEnd
    <3> DEFINE y == Slice(r, p, l)
    <3> HIDE DEF n
    <3>2. p <= l /\ l \in Nat /\ l - p = 1
      <4> HIDE DEF l, p
      <4> QED  BY <1>1, <2>7
    <3>3. l <= Len(r)
      <4> DEFINE g == Len(r)
      <4>1. l = g /\ g \in Nat  BY <3>2
      <4> HIDE DEF l, g
      <4> QED  BY <4>1 DEF g
    <3>4. y \in Text /\ Len(y) = l - p /\ \A i \in 1..(l - p) : y[i] = r[p + i]
      <4> HIDE DEF l, p
      <4> QED  BY <1>1, <2>5, <3>2, <3>3, SliceFacts, ZenonT(40)
    <3>5. y \in Seq(Lexeme) /\ Len(y) = 1 /\ y[1] = "/"
      <4>1. 1 \in 1..(l - p)  BY <3>2
      <4> QED  BY <2>8, <3>2, <3>4, <4>1 DEF Text
    <3> HIDE DEF y
    <3>6. y = <<"/">>  BY <3>5
    <3> QED  BY <3>1, <3>6 DEF y
  <2>13. /\ QueryPart(z) = <<>> /\ FragmentPart(z) = <<>>
         /\ QueryPart(u) = <<>> /\ FragmentPart(u) = <<>>
    BY <2>6, <2>9 DEF QueryPart, FragmentPart, Optional
  <2> QED  BY <1>3, <2>2, <2>3, <2>6, <2>11, <2>12, <2>13
<1> QED  BY <1>2, <1>3

\* Dropping the authority keeps the scheme and what starts with the path.
LEMMA AuthorityDroppedParts ==
    ASSUME NEW u, Good(u), u.host \notin {"Ipv4", "Ipv6"},
           NEW start, \/ start = u.scheme_end + 1 /\ ~IsSpecial(u)
                      \/ start = u.scheme_end + 3 /\ IsSpecial(u),
           NEW v, v = WithoutAuthority(u, start)
    PROVE  /\ Good(v) /\ Scheme(v) = Scheme(u)
           /\ UsernamePart(v) = <<>> /\ PasswordPart(v) = <<>>
           /\ HostText(v) = <<>> /\ v.host = u.host /\ v.port = None
           /\ Bare(v) = ~IsSpecial(u)
           /\ SameTailParts(u, v)
<1> DEFINE n == u.scheme_end
           p == u.path_start
           mid == <<>>
           d == start - p
           r == Splice(u.ser, start, p, mid)
           w == [u EXCEPT !.query_start = ShiftOpt(u.query_start, d),
                          !.fragment_start = ShiftOpt(u.fragment_start, d)]
<1>0. Good(v)  BY AuthorityDropped
<1>1. n \in Nat /\ p \in Nat /\ AuthorityIntact(u)  BY GoodFacts
<1>2. start \in Nat /\ n < start /\ start <= p
  <2> DEFINE x == u.username_end
             y == u.host_start
             z == u.host_end
  <2>1. /\ n \in Nat /\ x \in Nat /\ y \in Nat /\ z \in Nat /\ p \in Nat
        /\ n < x /\ x <= y /\ y <= z /\ z <= p
    BY GoodFacts DEF HeadCut
  <2>2. IsSpecial(u) => x >= n + 3
    BY <1>1 DEF AuthorityIntact, SpecialHasAuthority
  <2>3. start = n + 1 \/ (start = n + 3 /\ IsSpecial(u))  OBVIOUS
  <2> HIDE DEF n, x, y, z, p
  <2> QED  BY <2>1, <2>2, <2>3
<1>3. mid \in Text /\ Len(mid) = 0
  BY EmptySeq DEF Text
<1>4. d = start + Len(mid) - p
  <2> HIDE DEF mid, p
  <2> QED  BY <1>1, <1>2, <1>3
<1>5. ShiftAfterPath(u, d) = w  BY DEF ShiftAfterPath, Good, UrlSet
<1>6. /\ w.query_start = ShiftOpt(u.query_start, d)
      /\ w.fragment_start = ShiftOpt(u.fragment_start, d)
      /\ w.scheme_end = n /\ w.host = u.host
      /\ DOMAIN w = DOMAIN u
  BY DEF Good, UrlSet
<1>7. v = [w EXCEPT !.ser = r, !.path_start = start, !.username_end = start,
                    !.host_start = start, !.host_end = start, !.port = None]
  BY <1>5 DEF WithoutAuthority
<1> HIDE DEF r
<1>8. /\ v.ser = r /\ v.path_start = start /\ v.username_end = start
      /\ v.host_start = start /\ v.host_end = start /\ v.port = None
      /\ v.scheme_end = n /\ v.host = u.host
      /\ v.query_start = ShiftOpt(u.query_start, d)
      /\ v.fragment_start = ShiftOpt(u.fragment_start, d)
  BY <1>7 DEF Good, UrlSet
<1>9. start = p + d /\ p <= u.path_start
  <2> DEFINE e == d
  <2>1. e = start - p  OBVIOUS
  <2> HIDE DEF e
  <2>2. start = p + e
    <3> HIDE DEF p
    <3> QED  BY <1>1, <1>2, <2>1
  <2> QED  BY <1>1, <2>2 DEF e
<1> HIDE DEF d, w
<1>10. Edit(u, v, start, p, mid, d)
  BY <1>0, <1>1, <1>2, <1>3, <1>4, <1>8, <1>9 DEF Edit, Good, r
<1> HIDE DEF mid
<1>11. Scheme(v) = Scheme(u)
  BY <1>2, <1>8, <1>10, EditKeepsScheme
<1>12. SameTailParts(u, v)  BY <1>0, <1>10, TailPartsKept
<1>13. UsernamePart(v) = <<>> /\ PasswordPart(v) = <<>> /\ HostText(v) = <<>>
  <2>1. v.username_end = v.host_start /\ v.host_start = v.host_end
    BY <1>8
  <2> QED  BY <1>0, <2>1, CredentialParts, HostFacts
<1>14. ~DotPrefixed(v)
  <2>1. v.host_end \in Nat /\ v.host_end <= v.path_start /\ v.path_start \in Nat
        /\ v.path_start <= Len(v.ser) /\ v.ser \in Text
        /\ v.host_end = v.path_start
    BY <1>0, <1>8, HeadPlaces
  <2>2. Slice(v.ser, v.host_end, v.path_start) = <<>>
    BY <2>1, SliceEmpty
  <2> QED  BY <2>2 DEF DotPrefixed
<1>15. Written(v) <=> IsSpecial(u)
  <2>1. Written(v) <=> start >= n + 3  BY <1>8 DEF Written
  <2>2. \/ start = n + 1 /\ ~IsSpecial(u)
        \/ start = n + 3 /\ IsSpecial(u)
    OBVIOUS
  <2>3. /\ start = n + 1 => ~(start >= n + 3)
        /\ start = n + 3 => start >= n + 3
    <3> HIDE DEF n
    <3> QED  BY <1>1
  <2> QED  BY <2>1, <2>2, <2>3
<1>16. Bare(v) = ~IsSpecial(u)  BY <1>14, <1>15 DEF Bare, IsSpecial, IsSpecialType
<1> QED  BY <1>0, <1>8, <1>11, <1>12, <1>13, <1>16

\* set_host(None) leaves scheme, path, query and fragment.
LEMMA WithoutHostParts ==
    ASSUME NEW u, Good(u), u.host = "Domain", TypeOf(u) # "SpecialNotFile",
           Path(u) = <<>> => Len(u.ser) = u.path_start,
           NEW v, v = WithoutHost(u)
    PROVE  /\ Good(v) /\ Scheme(v) = Scheme(u)
           /\ UsernamePart(v) = <<>> /\ PasswordPart(v) = <<>>
           /\ HostText(v) = <<>> /\ v.host = u.host /\ v.port = None
           /\ Bare(v) = ~IsSpecial(u)
           /\ Path(v) = IF Path(u) = <<>> THEN <<"/">> ELSE Path(u)
           /\ QueryPart(v) = QueryPart(u) /\ FragmentPart(v) = FragmentPart(u)
<1> DEFINE start == u.scheme_end + (IF TypeOf(u) = "File" THEN 3 ELSE 1)
           w     == WithSomePath(u)
<1>1. \/ start = u.scheme_end + 1 /\ ~IsSpecial(u)
      \/ start = u.scheme_end + 3 /\ IsSpecial(u)
  <2>1. TypeOf(u) \in {"File", "NotSpecial", "SpecialNotFile"}
    BY DEF TypeOf, SchemeType
  <2> QED  BY <2>1 DEF IsSpecial, IsSpecialType
<1> HIDE DEF start
<1>2. /\ Good(w) /\ w.scheme_end = u.scheme_end
      /\ SameFrontParts(u, w)
      /\ Path(w) = IF Path(u) = <<>> THEN <<"/">> ELSE Path(u)
      /\ QueryPart(w) = QueryPart(u) /\ FragmentPart(w) = FragmentPart(u)
  BY WithSomePathParts
<1>3. v = WithoutAuthority(w, start)  BY DEF WithoutHost, start
<1> HIDE DEF w
<1>4. Scheme(w) = Scheme(u) /\ w.host = "Domain" /\ IsSpecial(w) = IsSpecial(u)
  BY <1>2 DEF SameFrontParts, IsSpecial, TypeOf
<1>5. /\ Good(v) /\ Scheme(v) = Scheme(w)
      /\ UsernamePart(v) = <<>> /\ PasswordPart(v) = <<>>
      /\ HostText(v) = <<>> /\ v.host = w.host /\ v.port = None
      /\ Bare(v) = ~IsSpecial(w)
      /\ SameTailParts(w, v)
  <2>1. w.host \notin {"Ipv4", "Ipv6"}  BY <1>4
  <2>2. \/ start = w.scheme_end + 1 /\ ~IsSpecial(w)
        \/ start = w.scheme_end + 3 /\ IsSpecial(w)
    BY <1>1, <1>2, <1>4
  <2> QED  BY <1>2, <1>3, <2>1, <2>2, AuthorityDroppedParts
<1> QED  BY <1>2, <1>4, <1>5 DEF SameTailParts

\* v is u with a piece behind the path's start exchanged.
TailSpliced(u, v, a, b, mid, d) ==
    /\ BehindPath(u, a, b, mid, d)
    /\ v.ser = Splice(u.ser, a, b, mid)
    /\ v.scheme_end = u.scheme_end /\ v.username_end = u.username_end
    /\ v.host_start = u.host_start /\ v.host_end = u.host_end
    /\ v.host = u.host /\ v.port = u.port /\ v.path_start = u.path_start

\* That keeps the head; what else it keeps, as slices.
LEMMA TailSplicedFacts ==
    ASSUME NEW u, Good(u), NEW v, Good(v), NEW a, NEW b, NEW mid, NEW d,
           TailSpliced(u, v, a, b, mid, d)
    PROVE  /\ SameFrontParts(u, v)
           /\ Len(v.ser) = Len(u.ser) + d /\ d \in Int /\ Len(mid) \in Nat
           /\ d = a + Len(mid) - b /\ a \in Nat /\ b \in Nat
           /\ \A k \in Nat, m \in Nat : k <= m /\ m <= a =>
                 Slice(v.ser, k, m) = Slice(u.ser, k, m)
           /\ \A k \in Nat, m \in Nat : b <= k /\ k <= m /\ m <= Len(u.ser) =>
                 Slice(v.ser, k + d, m + d) = Slice(u.ser, k, m)
           /\ \A k \in Nat, m \in Nat : k <= m /\ m <= Len(mid) =>
                 Slice(v.ser, a + k, a + m) = Slice(mid, k, m)
<1> DEFINE r == v.ser
           s == u.ser
<1>1. /\ a \in Nat /\ b \in Nat /\ a <= b /\ b <= Len(s) /\ mid \in Text
      /\ d = a + Len(mid) - b /\ s \in Text /\ BehindPath(u, a, b, mid, d)
      /\ r = Splice(s, a, b, mid)
  BY GoodFacts DEF TailSpliced, BehindPath
<1>0. /\ s \in Text /\ mid \in Text /\ a \in Nat /\ b \in Nat /\ a <= b
      /\ b <= Len(s) /\ r = Splice(s, a, b, mid) /\ d = a + Len(mid) - b
  BY <1>1
<1>2. SameHead(u, v)
  <2>1. /\ u.path_start <= Len(r)
        /\ \A i \in 1..u.path_start : r[i] = s[i]
    BY <1>1, BehindPathFacts, SMTT(40)
  <2> QED  BY <2>1 DEF SameHead, TailSpliced
<1>3. SameFrontParts(u, v)  BY <1>2, HeadPartsKept
<1>4. /\ Len(r) = Len(s) + d /\ d \in Int /\ Len(mid) \in Nat
      /\ \A k \in Nat, m \in Nat : k <= m /\ m <= a =>
            Slice(r, k, m) = Slice(s, k, m)
      /\ \A k \in Nat, m \in Nat : b <= k /\ k <= m /\ m <= Len(s) =>
            Slice(r, k + d, m + d) = Slice(s, k, m)
      /\ \A k \in Nat, m \in Nat : k <= m /\ m <= Len(mid) =>
            Slice(r, a + k, a + m) = Slice(mid, k, m)
  <2> HIDE DEF r, s
  <2>1. Len(r) = Len(s) + d /\ d \in Int /\ Len(mid) \in Nat
    BY <1>1, SpliceSlices, SMTT(40)
  <2>2. /\ \A k \in Nat, m \in Nat : k <= m /\ m <= a =>
              Slice(r, k, m) = Slice(s, k, m)
        /\ \A k \in Nat, m \in Nat : b <= k /\ k <= m /\ m <= Len(s) =>
              Slice(r, k + d, m + d) = Slice(s, k, m)
        /\ \A k \in Nat, m \in Nat : k <= m /\ m <= Len(mid) =>
              Slice(r, a + k, a + m) = Slice(mid, k, m)
    BY <1>0, SpliceSlices, SMTT(60)
  <2> QED  BY <2>1, <2>2
<1> QED  BY <1>1, <1>3, <1>4

\* The head is kept, and the length is that of the edit.
LEMMA TailSplicedHead ==
    ASSUME NEW u, Good(u), NEW v, Good(v), NEW a, NEW b, NEW mid, NEW d,
           TailSpliced(u, v, a, b, mid, d)
    PROVE  SameFrontParts(u, v) /\ Len(v.ser) = Len(u.ser) + d
BY TailSplicedFacts

\* A query and a fragment behind an edit keep their texts.
LEMMA TailBehind ==
    ASSUME NEW u, Good(u), NEW v, Good(v), NEW a, NEW b, NEW mid, NEW d,
           TailSpliced(u, v, a, b, mid, d)
    PROVE  /\ /\ b <= PathEnd(u) /\ PathEnd(v) = PathEnd(u) + d
              /\ QueryEnd(v) = QueryEnd(u) + d
              /\ v.query_start = None <=> u.query_start = None
              => QueryPart(v) = QueryPart(u)
           /\ /\ b <= QueryEnd(u) /\ QueryEnd(v) = QueryEnd(u) + d
              /\ v.fragment_start = None <=> u.fragment_start = None
              => FragmentPart(v) = FragmentPart(u)
<1> DEFINE s == u.ser
           r == v.ser
           n == Len(s)
           e == PathEnd(u)
           q == QueryEnd(u)
<1>1. /\ e \in Nat /\ q \in Nat /\ n \in Nat /\ e <= q /\ q <= n
  BY EditPlaces
<1>2. /\ Len(r) = n + d /\ d \in Int /\ b \in Nat
      /\ \A k \in Nat, m \in Nat : b <= k /\ k <= m /\ m <= n =>
            Slice(r, k + d, m + d) = Slice(s, k, m)
  BY TailSplicedFacts
<1>3. /\ u.query_start # None => e < q
      /\ u.fragment_start # None => q < n
  BY TailFacts
<1>4. /\ QueryPart(u) = IF u.query_start = None THEN <<>>
                        ELSE <<Slice(s, e + 1, q)>>
      /\ FragmentPart(u) = IF u.fragment_start = None THEN <<>>
                           ELSE <<Slice(s, q + 1, n)>>
  BY TailParts
<1>5. /\ QueryPart(v) = IF v.query_start = None THEN <<>>
                        ELSE <<Slice(r, PathEnd(v) + 1, QueryEnd(v))>>
      /\ FragmentPart(v) = IF v.fragment_start = None THEN <<>>
                           ELSE <<Slice(r, QueryEnd(v) + 1, n + d)>>
  BY <1>2, TailParts
<1> HIDE DEF s, r, n, e, q
<1>6. ASSUME b <= e, PathEnd(v) = e + d, QueryEnd(v) = q + d,
             v.query_start = None <=> u.query_start = None
      PROVE  QueryPart(v) = QueryPart(u)
  <2>1. CASE u.query_start = None  BY <1>4, <1>5, <1>6, <2>1
  <2>2. CASE u.query_start # None
    <3>1. /\ e + 1 \in Nat /\ b <= e + 1 /\ e + 1 <= q /\ q <= n
          /\ (e + d) + 1 = (e + 1) + d
      BY <1>1, <1>2, <1>3, <1>6, <2>2
    <3>2. Slice(r, (e + 1) + d, q + d) = Slice(s, e + 1, q)
      BY <1>1, <1>2, <3>1
    <3> QED  BY <1>4, <1>5, <1>6, <2>2, <3>1, <3>2
  <2> QED  BY <2>1, <2>2
<1>7. ASSUME b <= q, QueryEnd(v) = q + d,
             v.fragment_start = None <=> u.fragment_start = None
      PROVE  FragmentPart(v) = FragmentPart(u)
  <2>1. CASE u.fragment_start = None  BY <1>4, <1>5, <1>7, <2>1
  <2>2. CASE u.fragment_start # None
    <3>1. /\ q + 1 \in Nat /\ b <= q + 1 /\ q + 1 <= n /\ n <= n
          /\ (q + d) + 1 = (q + 1) + d
      BY <1>1, <1>2, <1>3, <1>7, <2>2
    <3>2. Slice(r, (q + 1) + d, n + d) = Slice(s, q + 1, n)
      BY <1>1, <1>2, <3>1
    <3> QED  BY <1>4, <1>5, <1>7, <2>2, <3>1, <3>2
  <2> QED  BY <2>1, <2>2
<1> QED  BY <1>6, <1>7 DEF e, q

\* A path and a query in front of an edit keep their texts.
LEMMA TailBefore ==
    ASSUME NEW u, Good(u), NEW v, Good(v), NEW a, NEW b, NEW mid, NEW d,
           TailSpliced(u, v, a, b, mid, d), PathEnd(v) = PathEnd(u)
    PROVE  /\ PathEnd(u) <= a => Path(v) = Path(u)
           /\ /\ QueryEnd(u) <= a /\ QueryEnd(v) = QueryEnd(u)
              /\ v.query_start = u.query_start
              => QueryPart(v) = QueryPart(u)
<1> DEFINE s == u.ser
           r == v.ser
           p == u.path_start
           e == PathEnd(u)
           q == QueryEnd(u)
<1>1. /\ p \in Nat /\ e \in Nat /\ q \in Nat /\ p <= e /\ e <= q
  BY EditPlaces
<1>2. /\ a \in Nat
      /\ \A k \in Nat, m \in Nat : k <= m /\ m <= a =>
            Slice(r, k, m) = Slice(s, k, m)
  BY TailSplicedFacts
<1>3. Path(u) = Slice(s, p, e) /\ Path(v) = Slice(r, p, e)
  BY DEF Path, TailSpliced
<1>4. e <= a => Slice(r, p, e) = Slice(s, p, e)
  <2> HIDE DEF s, r, p, e, q
  <2> QED  BY <1>1, <1>2
<1>5. ASSUME q <= a, QueryEnd(v) = q, v.query_start = u.query_start
      PROVE  QueryPart(v) = QueryPart(u)
  <2>1. u.query_start # None => e < q  BY TailFacts
  <2>2. QueryPart(u) = IF u.query_start = None THEN <<>>
                       ELSE <<Slice(s, e + 1, q)>>
    BY TailParts
  <2>3. QueryPart(v) = IF u.query_start = None THEN <<>>
                       ELSE <<Slice(r, e + 1, q)>>
    BY <1>5, TailParts
  <2>4. e < q => Slice(r, e + 1, q) = Slice(s, e + 1, q)
    <3> HIDE DEF s, r, p, e, q
    <3>1. e < q => e + 1 \in Nat /\ e + 1 <= q  BY <1>1
    <3> QED  BY <1>1, <1>2, <1>5, <3>1
  <2> HIDE DEF s, r, p, e, q
  <2> QED  BY <2>1, <2>2, <2>3, <2>4
<1> QED  BY <1>3, <1>4, <1>5

\* set_path exchanges the path.
LEMMA WithPathParts ==
    ASSUME NEW u, Good(u), NEW text \in Text, NEW v, v = WithPath(u, text)
    PROVE  /\ Good(v) /\ SameFrontParts(u, v) /\ Path(v) = text
           /\ QueryPart(v) = QueryPart(u) /\ FragmentPart(v) = FragmentPart(u)
<1> DEFINE a == u.path_start
           b == PathEnd(u)
           k == Len(text)
           d == a + k - b
<1>1. /\ a \in Nat /\ b \in Nat /\ QueryEnd(u) \in Nat /\ a <= b
      /\ b <= QueryEnd(u) /\ QueryEnd(u) <= Len(u.ser) /\ k \in Nat
  BY EditPlaces, LenProperties DEF Text
<1>2. Good(v)  BY WithPathGood
<1>3. BehindPath(u, a, b, text, d)
  BY GoodFacts, TailFacts DEF BehindPath, HeadCut
<1>4. /\ v.ser = Splice(u.ser, a, b, text)
      /\ v.query_start = ShiftOpt(u.query_start, d)
      /\ v.fragment_start = ShiftOpt(u.fragment_start, d)
      /\ v.scheme_end = u.scheme_end /\ v.username_end = u.username_end
      /\ v.host_start = u.host_start /\ v.host_end = u.host_end
      /\ v.host = u.host /\ v.port = u.port /\ v.path_start = u.path_start
  BY DEF WithPath, ShiftAfterPath, Good, UrlSet
<1>5. TailSpliced(u, v, a, b, text, d)  BY <1>3, <1>4 DEF TailSpliced
<1>6. b + d = a + k /\ b + d \in Nat /\ d \in Int /\ b <= b
      /\ 0 <= k /\ k <= k /\ a + 0 = a
  <2> HIDE DEF a, b, k
  <2> QED  BY <1>1
<1> HIDE DEF d
<1>7. /\ SameFrontParts(u, v)
      /\ Len(v.ser) = Len(u.ser) + d
      /\ Slice(v.ser, a + 0, a + k) = Slice(text, 0, k)
  <2>1. SameFrontParts(u, v) /\ Len(v.ser) = Len(u.ser) + d
    BY <1>2, <1>5, TailSplicedFacts
  <2>2. \A i \in Nat, m \in Nat : i <= m /\ m <= Len(text) =>
           Slice(v.ser, a + i, a + m) = Slice(text, i, m)
    BY <1>2, <1>5, TailSplicedFacts
  <2> QED  BY <1>1, <1>6, <2>1, <2>2
<1>8. /\ v.query_start = None <=> u.query_start = None
      /\ v.fragment_start = None <=> u.fragment_start = None
      /\ PathEnd(v) = b + d /\ QueryEnd(v) = QueryEnd(u) + d
  BY <1>4, <1>6, <1>7, TailMoves
<1>9. Path(v) = text
  <2>1. Slice(text, 0, k) = text  BY SliceWhole
  <2>2. Path(v) = Slice(v.ser, a, a + k)  BY <1>4, <1>6, <1>8 DEF Path
  <2> QED  BY <1>6, <1>7, <2>1, <2>2
<1>10. QueryPart(v) = QueryPart(u) /\ FragmentPart(v) = FragmentPart(u)
  BY <1>1, <1>2, <1>5, <1>6, <1>8, TailBehind
<1> QED  BY <1>2, <1>7, <1>9, <1>10

\* set_query exchanges the query.
LEMMA WithQueryParts ==
    ASSUME NEW u, Good(u), NEW text \in Text, NEW v, v = WithQuery(u, text)
    PROVE  /\ Good(v) /\ SameFrontParts(u, v) /\ Path(v) = Path(u)
           /\ QueryPart(v) = <<text>> /\ FragmentPart(v) = FragmentPart(u)
<1> DEFINE a == PathEnd(u)
           b == QueryEnd(u)
           k == Len(text)
           n == Len(u.ser)
           mid == <<"?">> \o text
           d == a + Len(mid) - b
<1>1. /\ mid \in Text /\ Len(mid) = 1 + k /\ k \in Nat
      /\ \A i \in 1..k : mid[1 + i] = text[i]
  BY Delimited DEF Mark
<1>2. /\ a \in Nat /\ b \in Nat /\ n \in Nat /\ a <= b /\ b <= n
  BY EditPlaces
<1>3. Good(v)  BY WithQueryGood
<1>4. /\ v.ser = Splice(u.ser, a, b, mid)
      /\ v.query_start = a
      /\ v.fragment_start = ShiftOpt(u.fragment_start, d)
      /\ v.scheme_end = u.scheme_end /\ v.username_end = u.username_end
      /\ v.host_start = u.host_start /\ v.host_end = u.host_end
      /\ v.host = u.host /\ v.port = u.port /\ v.path_start = u.path_start
  BY DEF WithQuery, Good, UrlSet
<1> HIDE DEF mid
<1>5. BehindPath(u, a, b, mid, d)
  BY <1>1, GoodFacts, TailFacts DEF BehindPath, HeadCut
<1>6. TailSpliced(u, v, a, b, mid, d)  BY <1>4, <1>5 DEF TailSpliced
<1>7. d = a + (1 + k) - b  BY <1>1
<1> HIDE DEF d
<1>8. /\ d \in Int /\ b + d = a + (1 + k) /\ b + d \in Nat /\ 1 \in Nat
      /\ a <= a /\ b <= b /\ 1 <= 1 + k /\ 1 + k \in Nat /\ 1 + k <= 1 + k
  <2> HIDE DEF a, b, k
  <2> QED  BY <1>1, <1>2, <1>7
<1>9. SameFrontParts(u, v) /\ Len(v.ser) = n + d
      /\ Slice(v.ser, a + 1, a + (1 + k)) = Slice(mid, 1, 1 + k)
  <2>1. SameFrontParts(u, v) /\ Len(v.ser) = n + d
    BY <1>3, <1>6, TailSplicedHead
  <2>2. \A i \in Nat, m \in Nat : i <= m /\ m <= Len(mid) =>
           Slice(v.ser, a + i, a + m) = Slice(mid, i, m)
    BY <1>3, <1>6, TailSplicedFacts, SMTT(40)
  <2>3. 1 + k <= Len(mid)  BY <1>1, <1>8
  <2> HIDE DEF a, k, n
  <2> QED  BY <1>8, <2>1, <2>2, <2>3
<1>10. v.query_start # None
  <2> HIDE DEF a
  <2> QED  BY <1>2, <1>4 DEF None
<1>11. PathEnd(v) = a  BY <1>4, <1>10 DEF PathEnd
<1>12. /\ QueryEnd(v) = b + d
       /\ v.fragment_start = None <=> u.fragment_start = None
  <2>1. CASE u.fragment_start = None
    <3>1. v.fragment_start = None  BY <1>4, <2>1 DEF ShiftOpt
    <3>2. QueryEnd(v) = n + d  BY <1>9, <3>1 DEF QueryEnd
    <3>3. b = n  BY <2>1 DEF QueryEnd
    <3> QED  BY <2>1, <3>1, <3>2, <3>3
  <2>2. CASE u.fragment_start # None
    <3>1. u.fragment_start = b  BY <2>2, TailFacts
    <3>2. v.fragment_start = b + d  BY <1>4, <2>2, <3>1 DEF ShiftOpt
    <3>3. v.fragment_start # None
      <4> DEFINE g == b + d
      <4>1. g \in Nat /\ v.fragment_start = g  BY <1>8, <3>2
      <4> HIDE DEF g
      <4> QED  BY <4>1 DEF None
    <3> QED  BY <2>2, <3>2, <3>3 DEF QueryEnd
  <2> QED  BY <2>1, <2>2
<1>13. Path(v) = Path(u)  BY <1>3, <1>6, <1>8, <1>11, TailBefore
<1>14. FragmentPart(v) = FragmentPart(u)
  BY <1>3, <1>6, <1>8, <1>12, TailBehind
<1>15. QueryPart(v) = <<text>>
  <2>1. QueryPart(v) = <<Slice(v.ser, a + 1, b + d)>>
    BY <1>3, <1>10, <1>11, <1>12, TailParts
  <2>2. Slice(mid, 1, 1 + k) = Slice(text, 0, k)
    <3> HIDE DEF k
    <3>1. /\ (1 + k) - 1 = k - 0 /\ k - 0 = k /\ 0 <= k /\ 0 \in Nat
          /\ k <= k /\ \A i \in 1..k : 0 + i = i
      BY <1>1
    <3>2. k <= Len(text) /\ 1 + k <= Len(mid)
      BY <1>1, <1>8, <3>1 DEF k
    <3>3. SameElements(mid, 1, 1 + k, text, 0, k)
      BY <1>1, <1>8, <3>1, <3>2 DEF SameElements
    <3> QED  BY <3>3, SlicesEqual, SMTT(40)
  <2>3. Slice(text, 0, k) = text  BY SliceWhole
  <2> QED  BY <1>8, <1>9, <2>1, <2>2, <2>3
<1> QED  BY <1>3, <1>9, <1>13, <1>14, <1>15

\* set_query(None) removes the query, before trailing spaces are stripped.
LEMMA WithoutQueryParts ==
    ASSUME NEW u, Good(u), NEW v, v = WithoutQuery(u)
    PROVE  /\ Good(v) /\ SameFrontParts(u, v) /\ Path(v) = Path(u)
           /\ QueryPart(v) = <<>> /\ FragmentPart(v) = FragmentPart(u)
           /\ v.query_start = None
           /\ v.fragment_start = None <=> u.fragment_start = None
<1> DEFINE a == PathEnd(u)
           b == QueryEnd(u)
           n == Len(u.ser)
           d == a - b
<1>1. << >> \in Text /\ Len(<< >>) = 0  BY EmptySeq DEF Text
<1>2. /\ a \in Nat /\ b \in Nat /\ n \in Nat /\ a <= b /\ b <= n
  BY EditPlaces
<1>3. Good(v)  BY WithoutQueryGood
<1>4. /\ v.ser = Splice(u.ser, a, b, << >>)
      /\ v.query_start = None
      /\ v.fragment_start = ShiftOpt(u.fragment_start, d)
      /\ v.scheme_end = u.scheme_end /\ v.username_end = u.username_end
      /\ v.host_start = u.host_start /\ v.host_end = u.host_end
      /\ v.host = u.host /\ v.port = u.port /\ v.path_start = u.path_start
  BY DEF WithoutQuery, Good, UrlSet
<1>5. BehindPath(u, a, b, << >>, d)
  BY <1>1, GoodFacts, TailFacts DEF BehindPath, HeadCut
<1>6. TailSpliced(u, v, a, b, << >>, d)  BY <1>4, <1>5 DEF TailSpliced
<1>7. /\ d \in Int /\ b + d = a /\ a <= a /\ b <= b
  <2>1. d = a - b  OBVIOUS
  <2> HIDE DEF a, b, d
  <2> QED  BY <1>2, <2>1
<1> HIDE DEF d
<1>8. SameFrontParts(u, v) /\ Len(v.ser) = n + d
  BY <1>3, <1>6, TailSplicedHead
<1>9. /\ QueryEnd(v) = b + d /\ PathEnd(v) = a
      /\ v.fragment_start = None <=> u.fragment_start = None
  <2>1. CASE u.fragment_start = None
    <3>1. v.fragment_start = None  BY <1>4, <2>1 DEF ShiftOpt
    <3>2. QueryEnd(v) = n + d /\ PathEnd(v) = n + d
      BY <1>4, <1>8, <3>1 DEF QueryEnd, PathEnd
    <3>3. b = n  BY <2>1 DEF QueryEnd
    <3> QED  BY <1>7, <2>1, <3>1, <3>2, <3>3
  <2>2. CASE u.fragment_start # None
    <3>1. u.fragment_start = b  BY <2>2, TailFacts
    <3>2. v.fragment_start = a  BY <1>4, <1>7, <2>2, <3>1 DEF ShiftOpt
    <3>3. v.fragment_start # None
      <4> HIDE DEF a
      <4> QED  BY <1>2, <3>2 DEF None
    <3> QED  BY <1>4, <1>7, <2>2, <3>2, <3>3 DEF QueryEnd, PathEnd
  <2> QED  BY <2>1, <2>2
<1>10. Path(v) = Path(u)  BY <1>3, <1>6, <1>7, <1>9, TailBefore
<1>11. FragmentPart(v) = FragmentPart(u)
  BY <1>3, <1>6, <1>7, <1>9, TailBehind
<1>12. QueryPart(v) = <<>>  BY <1>4 DEF QueryPart, Optional
<1> QED  BY <1>3, <1>4, <1>8, <1>9, <1>10, <1>11, <1>12

\* Where path and query end when only a fragment is exchanged.
LEMMA FragmentExchanged ==
    ASSUME NEW u, Good(u), NEW v, v.query_start = u.query_start,
           QueryEnd(v) = QueryEnd(u),
           v.query_start = None => PathEnd(v) = QueryEnd(v)
    PROVE  PathEnd(v) = PathEnd(u)
<1>1. CASE u.query_start = None
  <2>1. PathEnd(u) = QueryEnd(u)  BY <1>1 DEF PathEnd, QueryEnd
  <2> QED  BY <1>1, <2>1
<1>2. CASE u.query_start # None  BY <1>2 DEF PathEnd
<1> QED  BY <1>1, <1>2

\* set_fragment exchanges the fragment.
LEMMA WithFragmentParts ==
    ASSUME NEW u, Good(u), NEW text \in Text, NEW v, v = WithFragment(u, text)
    PROVE  /\ Good(v) /\ SameFrontParts(u, v) /\ Path(v) = Path(u)
           /\ QueryPart(v) = QueryPart(u) /\ FragmentPart(v) = <<text>>
<1> DEFINE a == QueryEnd(u)
           b == Len(u.ser)
           k == Len(text)
           mid == <<"#">> \o text
           d == a + Len(mid) - b
<1>1. /\ mid \in Text /\ Len(mid) = 1 + k /\ k \in Nat
      /\ \A i \in 1..k : mid[1 + i] = text[i]
  BY Delimited DEF Mark
<1>2. /\ a \in Nat /\ b \in Nat /\ a <= b /\ PathEnd(u) <= a
  BY EditPlaces
<1>3. Good(v)  BY WithFragmentGood
<1>4. /\ v.ser = Splice(u.ser, a, b, mid)
      /\ v.query_start = u.query_start
      /\ v.fragment_start = a
      /\ v.scheme_end = u.scheme_end /\ v.username_end = u.username_end
      /\ v.host_start = u.host_start /\ v.host_end = u.host_end
      /\ v.host = u.host /\ v.port = u.port /\ v.path_start = u.path_start
  BY DEF WithFragment, Good, UrlSet
<1> HIDE DEF mid
<1>5. BehindPath(u, a, b, mid, d)
  BY <1>1, GoodFacts, TailFacts DEF BehindPath, HeadCut
<1>6. TailSpliced(u, v, a, b, mid, d)  BY <1>4, <1>5 DEF TailSpliced
<1>7. d = a + (1 + k) - b  BY <1>1
<1> HIDE DEF d
<1>8. /\ d \in Int /\ b + d = a + (1 + k) /\ 1 \in Nat
      /\ a <= a /\ 1 <= 1 + k /\ 1 + k \in Nat /\ 1 + k <= 1 + k
  <2> HIDE DEF a, b, k
  <2> QED  BY <1>1, <1>2, <1>7
<1>9. SameFrontParts(u, v) /\ Len(v.ser) = b + d
      /\ Slice(v.ser, a + 1, a + (1 + k)) = Slice(mid, 1, 1 + k)
  <2>1. SameFrontParts(u, v) /\ Len(v.ser) = b + d
    BY <1>3, <1>6, TailSplicedHead
  <2>2. \A i \in Nat, m \in Nat : i <= m /\ m <= Len(mid) =>
           Slice(v.ser, a + i, a + m) = Slice(mid, i, m)
    BY <1>3, <1>6, TailSplicedFacts, SMTT(40)
  <2>3. 1 + k <= Len(mid)  BY <1>1, <1>8
  <2> HIDE DEF a, b, k
  <2> QED  BY <1>8, <2>1, <2>2, <2>3
<1>10. v.fragment_start # None
  <2> HIDE DEF a
  <2> QED  BY <1>2, <1>4 DEF None
<1>11. QueryEnd(v) = a  BY <1>4, <1>10 DEF QueryEnd
<1>12. PathEnd(v) = PathEnd(u)
  <2>1. v.query_start = None => PathEnd(v) = QueryEnd(v)
    BY <1>10 DEF PathEnd, QueryEnd
  <2> QED  BY <1>4, <1>11, <2>1, FragmentExchanged
<1>13. Path(v) = Path(u) /\ QueryPart(v) = QueryPart(u)
  BY <1>2, <1>3, <1>4, <1>6, <1>8, <1>11, <1>12, TailBefore
<1>14. FragmentPart(v) = <<text>>
  <2>1. FragmentPart(v) = <<Slice(v.ser, a + 1, b + d)>>
    BY <1>3, <1>9, <1>10, <1>11, TailParts
  <2>2. Slice(mid, 1, 1 + k) = Slice(text, 0, k)
    <3> HIDE DEF k
    <3>1. /\ (1 + k) - 1 = k - 0 /\ k - 0 = k /\ 0 <= k /\ 0 \in Nat
          /\ k <= k /\ \A i \in 1..k : 0 + i = i
      BY <1>1
    <3>2. k <= Len(text) /\ 1 + k <= Len(mid)
      BY <1>1, <1>8, <3>1 DEF k
    <3>3. SameElements(mid, 1, 1 + k, text, 0, k)
      BY <1>1, <1>8, <3>1, <3>2 DEF SameElements
    <3> QED  BY <3>3, SlicesEqual, SMTT(40)
  <2>3. Slice(text, 0, k) = text  BY SliceWhole
  <2> QED  BY <1>8, <1>9, <2>1, <2>2, <2>3
<1> QED  BY <1>3, <1>9, <1>13, <1>14

\* set_fragment(None) removes the fragment, before trailing spaces are stripped.
LEMMA WithoutFragmentParts ==
    ASSUME NEW u, Good(u), NEW v, v = WithoutFragment(u)
    PROVE  /\ Good(v) /\ SameFrontParts(u, v) /\ Path(v) = Path(u)
           /\ QueryPart(v) = QueryPart(u) /\ FragmentPart(v) = <<>>
           /\ v.query_start = u.query_start /\ v.fragment_start = None
<1> DEFINE a == QueryEnd(u)
           b == Len(u.ser)
           d == a - b
<1>1. << >> \in Text /\ Len(<< >>) = 0  BY EmptySeq DEF Text
<1>2. /\ a \in Nat /\ b \in Nat /\ a <= b /\ PathEnd(u) <= a
  BY EditPlaces
<1>3. Good(v)  BY WithoutFragmentGood
<1>4. /\ v.ser = Splice(u.ser, a, b, << >>)
      /\ v.query_start = u.query_start
      /\ v.fragment_start = None
      /\ v.scheme_end = u.scheme_end /\ v.username_end = u.username_end
      /\ v.host_start = u.host_start /\ v.host_end = u.host_end
      /\ v.host = u.host /\ v.port = u.port /\ v.path_start = u.path_start
  BY DEF WithoutFragment, Good, UrlSet
<1>5. BehindPath(u, a, b, << >>, d)
  BY <1>1, GoodFacts, TailFacts DEF BehindPath, HeadCut
<1>6. TailSpliced(u, v, a, b, << >>, d)  BY <1>4, <1>5 DEF TailSpliced
<1>7. d \in Int /\ b + d = a /\ a <= a
  <2>1. d = a - b  OBVIOUS
  <2> HIDE DEF a, b, d
  <2> QED  BY <1>2, <2>1
<1> HIDE DEF d
<1>8. SameFrontParts(u, v) /\ Len(v.ser) = b + d
  BY <1>3, <1>6, TailSplicedHead
<1>9. QueryEnd(v) = a  BY <1>4, <1>7, <1>8 DEF QueryEnd
<1>10. PathEnd(v) = PathEnd(u)
  <2>1. v.query_start = None => PathEnd(v) = QueryEnd(v)
    BY <1>4 DEF PathEnd, QueryEnd
  <2> QED  BY <1>4, <1>9, <2>1, FragmentExchanged
<1>11. Path(v) = Path(u) /\ QueryPart(v) = QueryPart(u)
  BY <1>2, <1>3, <1>4, <1>6, <1>7, <1>9, <1>10, TailBefore
<1>12. FragmentPart(v) = <<>>  BY <1>4 DEF FragmentPart, Optional
<1> QED  BY <1>3, <1>4, <1>8, <1>11, <1>12

\* x is what stands behind s[..p], and no space stands in front of it.
EndOf(s, p, x) ==
    /\ s \in Text /\ x \in Text /\ p \in Nat /\ p <= Len(s)
    /\ Len(x) = Len(s) - p
    /\ \A i \in 1..p : s[i] # "SP"
    /\ \A i \in 1..Len(x) : x[i] = s[p + i]

\* As many spaces end a text as end such a piece of it.
LEMMA TrailingSpacesOfEnd ==
    ASSUME NEW s, NEW p, NEW x, EndOf(s, p, x)
    PROVE  TrailingSpaces(x) = TrailingSpaces(s)
<1> DEFINE n == Len(s)
           m == Len(x)
<1>0. /\ n \in Nat /\ m \in Nat /\ p \in Nat /\ p <= n /\ m = n - p
      /\ \A i \in 1..p : s[i] # "SP"
      /\ \A i \in 1..m : x[i] = s[p + i]
  BY LenProperties DEF EndOf, Text
<1>01. /\ TrailingSpaces(x) =
             Cardinality({k \in 1..m : \A i \in k..m : x[i] = "SP"})
       /\ TrailingSpaces(s) =
             Cardinality({k \in 1..n : \A i \in k..n : s[i] = "SP"})
  BY DEF TrailingSpaces
<1>02. n \in Nat /\ m \in Nat /\ p \in Nat  BY <1>0
<1> HIDE DEF n, m
<1> DEFINE S == {k \in 1..n : \A i \in k..n : s[i] = "SP"}
           T == {k \in 1..m : \A i \in k..m : x[i] = "SP"}
           f == [k \in T |-> p + k]
<1>1. ASSUME NEW k \in T PROVE p + k \in S
  <2>1. k \in 1..m /\ \A i \in k..m : x[i] = "SP"  OBVIOUS
  <2>2. p + k \in 1..n  BY <1>0, <2>1
  <2>3. ASSUME NEW i \in (p + k)..n PROVE s[i] = "SP"
    <3>1. i - p \in k..m /\ i - p \in 1..m /\ p + (i - p) = i
      BY <1>0, <2>1
    <3>2. x[i - p] = "SP" /\ x[i - p] = s[p + (i - p)]
      BY <1>0, <2>1, <3>1
    <3> QED  BY <3>1, <3>2
  <2> QED  BY <2>2, <2>3
<1>2. \A k \in S : k - p \in T /\ p + (k - p) = k
  <2> SUFFICES ASSUME NEW k \in 1..n, \A i \in k..n : s[i] = "SP"
               PROVE  /\ k - p \in 1..m /\ p + (k - p) = k
                      /\ \A i \in (k - p)..m : x[i] = "SP"
    OBVIOUS
  <2>1. k \in k..n  OBVIOUS
  <2>2. s[k] = "SP"  BY <2>1
  <2>3. k \notin 1..p  BY <1>0, <2>2
  <2>4. k - p \in 1..m /\ p + (k - p) = k  BY <1>0, <2>3
  <2>5. ASSUME NEW i \in (k - p)..m PROVE x[i] = "SP"
    <3>1. p + i \in k..n /\ i \in 1..m  BY <1>0, <2>4
    <3>2. s[p + i] = "SP" /\ x[i] = s[p + i]  BY <1>0, <3>1
    <3> QED  BY <3>2
  <2> QED  BY <2>4, <2>5
<1>3. T \subseteq Nat /\ IsFiniteSet(T)
  <2>1. IsFiniteSet(1..m)
    <3>1. 1 \in Int /\ m \in Int  BY <1>0
    <3> QED  BY <3>1, FS_Interval
  <2>2. T \in SUBSET (1..m)  OBVIOUS
  <2>3. IsFiniteSet(T)  BY <2>1, <2>2, FS_Subset
  <2> QED  BY <2>3
<1> HIDE DEF S, T
<1>4. f \in Bijection(T, S)
  <2>1. f \in [T -> S]  BY <1>1
  <2>2. \A j, k \in T : f[j] = f[k] => j = k  BY <1>02, <1>3
  <2>3. \A k \in S : \E j \in T : f[j] = k  BY <1>2
  <2> QED  BY <2>1, <2>2, <2>3, Fun_IsBij
<1>5. ExistsBijection(T, S)  BY <1>4, Fun_ExistsBij
<1>6. Cardinality(S) = Cardinality(T)  BY <1>3, <1>5, FS_Bijection
<1>7. TrailingSpaces(s) = Cardinality(S) /\ TrailingSpaces(x) = Cardinality(T)
  BY <1>01 DEF S, T
<1> QED  BY <1>6, <1>7

\* What is left of a text without its trailing spaces starts as the text does.
LEMMA TrimmedFacts ==
    ASSUME NEW x \in Text
    PROVE  /\ WithoutTrailingSpaces(x) \in Text
           /\ ~Rooted(x) => ~Rooted(WithoutTrailingSpaces(x))
<1> DEFINE m == Len(x)
           k == m - TrailingSpaces(x)
           y == Take(x, k)
<1>1. m \in Nat  BY LenProperties DEF Text
<1>2. TrailingSpaces(x) \in Nat /\ TrailingSpaces(x) <= m
  <2>1. 0 \in Nat /\ 0 <= m /\ m - 0 = m /\ \A i \in 1..0 : x[i] # "SP"
    BY <1>1
  <2> HIDE DEF k, y
  <2>2. TrailingSpaces(x) \in Nat /\ TrailingSpaces(x) <= m - 0
    BY <1>1, <2>1, TrailingSpacesBound
  <2> QED  BY <2>1, <2>2
<1>3. k \in Nat /\ k <= m  BY <1>1, <1>2
<1>4. WithoutTrailingSpaces(x) = y  BY DEF WithoutTrailingSpaces
<1> HIDE DEF k
<1>5. y \in Text /\ Len(y) = k /\ \A i \in 1..k : y[i] = x[i]
  BY <1>3, TakeFacts
<1> HIDE DEF y
<1>6. ASSUME Rooted(y) PROVE Rooted(x)
  <2>1. y # <<>> /\ y[1] = "/"  BY <1>6 DEF Rooted
  <2>2. k # 0  BY <1>5, <2>1, EmptySeq DEF Text
  <2>3. 1 \in 1..k /\ m # 0  BY <1>1, <1>3, <2>2
  <2>4. x[1] = "/"  BY <1>5, <2>1, <2>3
  <2>5. x # <<>>  BY <2>3, EmptySeq
  <2> QED  BY <2>4, <2>5 DEF Rooted
<1> QED  BY <1>4, <1>5, <1>6

\* Where query and fragment are absent, stripping shortens the path.
LEMMA StrippedParts ==
    ASSUME NEW u, Good(u), u.query_start = None, u.fragment_start = None,
           cannot_be_a_base(u), NEW v, v = Stripped(u)
    PROVE  /\ Good(v) /\ SameFrontParts(u, v)
           /\ Path(v) = WithoutTrailingSpaces(Path(u))
           /\ QueryPart(v) = <<>> /\ FragmentPart(v) = <<>>
<1> DEFINE s == u.ser
           p == u.path_start
           n == Len(s)
           t == TrailingSpaces(s)
           r == v.ser
           x == Path(u)
           m == Len(x)
<1>1. /\ s \in Text /\ n \in Nat /\ p \in Nat /\ p <= n
      /\ \A i \in 1..p : s[i] # "SP"
  BY GoodFacts DEF HeadCut, AuthorityIntact, HeadHasNoSpace
<1>2. /\ PathEnd(u) = n /\ QueryPart(v) = <<>> /\ FragmentPart(v) = <<>>
      /\ r = Take(s, n - t) /\ PathEnd(v) = Len(r)
      /\ v.scheme_end = u.scheme_end /\ v.username_end = u.username_end
      /\ v.host_start = u.host_start /\ v.host_end = u.host_end
      /\ v.host = u.host /\ v.port = u.port /\ v.path_start = u.path_start
  BY DEF Stripped, PathEnd, QueryPart, FragmentPart, Optional, Good, UrlSet
<1>3. Good(v)  BY StrippedGood
<1>4. x \in Text /\ m = n - p /\ \A i \in 1..(n - p) : x[i] = s[p + i]
  BY <1>2, PathFacts
<1>5. Path(v) = Slice(r, p, Len(r))  BY <1>2 DEF Path
<1>6. WithoutTrailingSpaces(x) = Take(x, m - TrailingSpaces(x))
  BY DEF WithoutTrailingSpaces
<1> HIDE DEF s, n, x, m
<1>7. t \in Nat /\ t <= n - p
  BY <1>1, TrailingSpacesBound DEF n
<1>8. TrailingSpaces(x) = t
  <2>1. \A i \in 1..m : x[i] = s[p + i]  BY <1>4
  <2> HIDE DEF p
  <2>2. EndOf(s, p, x)  BY <1>1, <1>4, <2>1 DEF EndOf, n, m
  <2>3. TrailingSpaces(x) = TrailingSpaces(s)  BY <2>2, TrailingSpacesOfEnd
  <2> QED  BY <2>3
<1> HIDE DEF t, r, p
<1>9. n - t \in Nat /\ n - t <= n /\ p <= n - t /\ \A i \in 1..p : i \in 1..(n - t)
  BY <1>1, <1>7
<1>10. r \in Text /\ Len(r) = n - t /\ \A i \in 1..(n - t) : r[i] = s[i]
  BY <1>1, <1>2, <1>9, TakeFacts DEF n
<1>11. SameHead(u, v)
  <2>1. /\ p <= Len(r) /\ \A i \in 1..p : r[i] = s[i]
    BY <1>9, <1>10
  <2> QED  BY <1>2, <2>1 DEF SameHead, p, r, s
<1>12. SameFrontParts(u, v)  BY <1>3, <1>11, HeadPartsKept
<1>13. Slice(r, p, n - t) = Slice(x, 0, m - t)
  <2>1. /\ m - t \in Nat /\ 0 \in Nat /\ 0 <= m - t /\ m - t <= m
        /\ (n - t) - p = (m - t) - 0
    BY <1>1, <1>4, <1>7
  <2>2. \A i \in 1..((m - t) - 0) : r[p + i] = x[0 + i]
    <3> SUFFICES ASSUME NEW i \in 1..((m - t) - 0) PROVE r[p + i] = x[0 + i]
      OBVIOUS
    <3>1. 0 + i = i /\ i \in 1..(n - p) /\ p + i \in 1..(n - t)
      BY <1>1, <1>4, <1>7
    <3>2. r[p + i] = s[p + i]  BY <1>10, <3>1
    <3>3. x[i] = s[p + i]  BY <1>4, <3>1
    <3> QED  BY <3>1, <3>2, <3>3
  <2>3. n - t <= Len(r) /\ m - t <= Len(x)  BY <1>9, <1>10, <2>1 DEF m
  <2>4. SameElements(r, p, n - t, x, 0, m - t)
    BY <1>1, <1>4, <1>9, <1>10, <2>1, <2>2, <2>3 DEF SameElements
  <2> QED  BY <2>4, SlicesEqual
<1>14. Slice(x, 0, m - t) = Take(x, m - t)  BY DEF Slice, Take
<1> QED
  BY <1>2, <1>3, <1>5, <1>6, <1>8, <1>10, <1>12, <1>13, <1>14 DEF x

(****************************************************************************)
(* Records of components, field by field.                                   *)
(****************************************************************************)
Names == {"scheme", "username", "password", "host", "port", "path", "opaque",
          "query", "fragment"}

\* A record is the function of its fields.
LEMMA Named ==
    ASSUME NEW u
    PROVE  Components(u) = [k \in Names |-> Components(u)[k]]
BY DEF Components, Names

\* Functions that differ in one place.
LEMMA Updated ==
    ASSUME NEW D, NEW p, p = [k \in D |-> p[k]],
           NEW q, q = [k \in D |-> q[k]],
           NEW f \in D, NEW x, q[f] = x,
           \A k \in D : k # f => q[k] = p[k]
    PROVE  q = [p EXCEPT ![f] = x]
OBVIOUS

\* q is p with x in the field f.
ChangedAt(p, q, f, x) ==
    /\ f \in Names /\ q[f] = x
    /\ \A k \in Names : k # f => q[k] = p[k]

\* Components that differ in one field.
LEMMA OneChanged ==
    ASSUME NEW u, NEW v, NEW f, NEW x,
           ChangedAt(Components(u), Components(v), f, x)
    PROVE  Components(v) = [Components(u) EXCEPT ![f] = x]
<1> DEFINE p == Components(u)
           q == Components(v)
<1>1. p = [k \in Names |-> p[k]] /\ q = [k \in Names |-> q[k]]  BY Named
<1>2. f \in Names /\ q[f] = x /\ \A k \in Names : k # f => q[k] = p[k]
  BY DEF ChangedAt
<1> HIDE DEF p, q
<1>3. q = [p EXCEPT ![f] = x]  BY <1>1, <1>2, Updated
<1> QED  BY <1>3 DEF p, q

\* q is p with x in the field f and y in g.
BothChangedAt(p, q, f, x, g, y) ==
    /\ f \in Names /\ g \in Names /\ f # g /\ q[f] = x /\ q[g] = y
    /\ \A k \in Names : k \notin {f, g} => q[k] = p[k]

\* Components that differ in two fields.
LEMMA TwoChanged ==
    ASSUME NEW u, NEW v, NEW f, NEW x, NEW g, NEW y,
           BothChangedAt(Components(u), Components(v), f, x, g, y)
    PROVE  Components(v) = [Components(u) EXCEPT ![f] = x, ![g] = y]
<1> DEFINE p == Components(u)
           q == Components(v)
           r == [p EXCEPT ![f] = x]
<1>1. p = [k \in Names |-> p[k]] /\ q = [k \in Names |-> q[k]]  BY Named
<1>2. /\ f \in Names /\ g \in Names /\ f # g /\ q[f] = x /\ q[g] = y
      /\ \A k \in Names : k \notin {f, g} => q[k] = p[k]
  BY DEF BothChangedAt
<1> HIDE DEF p, q
<1>3. /\ r = [k \in Names |-> r[k]] /\ r[f] = x
      /\ \A k \in Names : k # f => r[k] = p[k]
  BY <1>1, <1>2
<1>4. [p EXCEPT ![f] = x, ![g] = y] = [r EXCEPT ![g] = y]  OBVIOUS
<1> HIDE DEF r
<1>5. \A k \in Names : k # g => q[k] = r[k]  BY <1>2, <1>3
<1>6. q = [r EXCEPT ![g] = y]  BY <1>1, <1>2, <1>3, <1>5, Updated
<1> QED  BY <1>4, <1>6 DEF p, q

\* c is the record of the parts of u.
Reads(c, u) ==
    /\ c.scheme = Scheme(u)
    /\ c.username = UsernamePart(u) /\ c.password = PasswordPart(u)
    /\ c.host = HostText(u) /\ c.port = u.port /\ c.path = Path(u)
    /\ c.opaque = (Bare(u) /\ ~Rooted(Path(u)))
    /\ c.query = QueryPart(u) /\ c.fragment = FragmentPart(u)

\* The components of a value whose parts are told apart are its parts.
LEMMA ComponentsRead ==
    ASSUME NEW u, Good(u), ComponentsApart(u)
    PROVE  /\ Reads(Components(u), u)
           /\ Components(u).opaque = cannot_be_a_base(u)
<1> DEFINE c == Components(u)
<1>1. PartsApart(Parts(u))  BY ApartRead
<1>2. c = Shown(Parts(u))  BY <1>1, ShownRead
<1>3. c.opaque = cannot_be_a_base(u)  BY DEF Components
<1> HIDE DEF c
<1>4. Reads(c, u)  BY <1>2 DEF Reads, Shown, Parts
<1> QED  BY <1>3, <1>4 DEF c

\* That the parts are told apart, listed.
LEMMA ApartListed ==
    ASSUME NEW u, Good(u)
    PROVE  ComponentsApart(u) <=>
        /\ u.host = "None" => HostText(u) = <<>>
        /\ TypeOf(u) = "SpecialNotFile" => HostText(u) # <<>>
        /\ HostText(u) = <<>> =>
              UsernamePart(u) = <<>> /\ PasswordPart(u) = <<>> /\ u.port = None
        /\ u.port # None => TypeOf(u) # "File"
                            /\ u.port # default_port(Scheme(u))
        /\ NoByte(HostText(u), "/")
        /\ ~Bare(u) => Path(u) = <<>> \/ Rooted(Path(u))
        /\ IsSpecial(u) => Path(u) # <<>>
        /\ Bare(u) => ~StartsWithTwoSlashes(Path(u))
<1>1. ComponentsApart(u) <=> PartsApart(Parts(u))  BY ApartRead
<1> QED  BY <1>1 DEF PartsApart, Parts, TypeOf, IsSpecial

\* Credentials and ports are taken where a host is written, but for files.
LEMMA TakesCredentialsRead ==
    ASSUME NEW u, Good(u), u.host = "None" => HostText(u) = <<>>
    PROVE  /\ TakesCredentials(u) <=> HostText(u) # <<>> /\ TypeOf(u) # "File"
           /\ TypeOf(u) = "File" <=> Scheme(u) = FileScheme
<1>1. HostText(u) # <<>> <=> u.host_start < u.host_end
  BY HostFacts, HeadPlaces
<1>2. HostText(u) = <<>> <=> u.host_start = u.host_end
  BY HostFacts
<1>3. u.host \in {"Ipv4", "Ipv6"} => u.host_start < u.host_end
  BY GoodFacts DEF AuthorityIntact, HostWritten
<1>4. u.host \in {"None", "Domain", "Ipv4", "Ipv6"}
  BY GoodFacts DEF HostKind
<1> QED
  BY <1>1, <1>2, <1>3, <1>4 DEF TakesCredentials, has_host, TypeOf, SchemeType

\* Opaque paths are bare, and special URLs are not.
LEMMA OpaqueRead ==
    ASSUME NEW u, Good(u), ComponentsApart(u)
    PROVE  /\ cannot_be_a_base(u) <=> Bare(u) /\ ~Rooted(Path(u))
           /\ Bare(u) => ~IsSpecial(u) /\ ~has_authority(u)
                         /\ TypeOf(u) = "NotSpecial"
<1>1. cannot_be_a_base(u) <=> Bare(u) /\ ~Rooted(Path(u))
  BY ComponentsRead DEF Reads
<1>2. IsSpecial(u) => Written(u)
  BY GoodFacts DEF AuthorityIntact, SpecialHasAuthority, Written
<1>3. has_authority(u) => Written(u)  BY DEF ComponentsApart, Written
<1> QED
  BY <1>1, <1>2, <1>3 DEF Bare, cannot_be_a_base, IsSpecial, IsSpecialType

-----------------------------------------------------------------------------
(****************************************************************************)
(* What each setter promises.  Here c is the record before the call.        *)
(****************************************************************************)
\* A call that is refused, or finds nothing to do.
LEMMA LeftPromised ==
    ASSUME Good(url), ComponentsApart(url), NEW result, Leave(result)
    PROVE  /\ Good(url') /\ ComponentsApart(url') /\ url' = url
           /\ result = "Err" => Promise!Refuse
           /\ result = "Ok" => Promise!Accept(Components(url))
BY DEF Leave, Promise!Refuse, Promise!Accept

\* A call that stores a value that is told apart.
LEMMA BecamePromised ==
    ASSUME NEW v, Good(v), ComponentsApart(v), Become(v),
           NEW value, Components(v) = value
    PROVE  /\ Good(url') /\ ComponentsApart(url')
           /\ Promise!Accept(value)
BY DEF Become, Promise!Accept

\* Schemes mean the same on both sides.
LEMMA SameSchemes ==
    /\ Promise!FileScheme = FileScheme /\ Promise!None = None
    /\ \A s : /\ Promise!SchemeType(s) = SchemeType(s)
              /\ Promise!default_port(s) = default_port(s)
    /\ \A t : Promise!IsSpecialType(t) = IsSpecialType(t)
BY DEF Promise!FileScheme, FileScheme, Promise!None, None, Promise!SchemeType,
       SchemeType, Promise!default_port, default_port, Promise!IsSpecialType,
       IsSpecialType

\* The guards, on both sides.
LEMMA GuardsRead ==
    ASSUME Good(url), ComponentsApart(url)
    PROVE  /\ Promise!TakesCredentials <=> TakesCredentials(url)
           /\ Promise!Type = TypeOf(url)
           /\ Components(url).opaque = cannot_be_a_base(url)
<1> DEFINE c == Components(url)
<1>1. /\ c.scheme = Scheme(url) /\ c.host = HostText(url)
      /\ c.opaque = cannot_be_a_base(url)
  BY DEF Components
<1>2. /\ TakesCredentials(url) <=> HostText(url) # <<>> /\ TypeOf(url) # "File"
      /\ TypeOf(url) = "File" <=> Scheme(url) = FileScheme
  BY ApartListed, TakesCredentialsRead
<1> HIDE DEF c
<1>3. /\ Promise!TakesCredentials <=> c.host # <<>> /\ c.scheme # FileScheme
      /\ Promise!Type = SchemeType(c.scheme)
  BY SameSchemes DEF Promise!TakesCredentials, Promise!Type, c
<1> QED  BY <1>1, <1>2, <1>3 DEF TypeOf, c

\* set_port
LEMMA SetPortPromised ==
    ASSUME Good(url), ComponentsApart(url),
           NEW p \in Ports \union {None}, SetPort(p)
    PROVE  Good(url') /\ ComponentsApart(url') /\ Promise!SetPort(p)
<1> DEFINE c == Components(url)
           port == Normalized(url, p)
           v == WithPort(url, port)
           d == Components(v)
<1>1. Promise!TakesCredentials <=> TakesCredentials(url)  BY GuardsRead
<1>2. CASE ~TakesCredentials(url) /\ Leave("Err")
  BY <1>1, <1>2, LeftPromised DEF Promise!SetPort
<1>3. CASE TakesCredentials(url) /\ Become(v)
  <2>1. port \in PortNumber \union {None}  BY NormalizedPort, InputAssumption
  <2>2. Written(url) /\ ~Bare(url)  BY <1>3, TakesCredentialsWritten
  <2>3. port = Promise!NotDefault(p, c.scheme)
    BY SameSchemes DEF Promise!NotDefault, Components, Normalized
  <2>4. port # None => TypeOf(url) # "File" /\ port # default_port(Scheme(url))
    BY <1>3 DEF TakesCredentials, Normalized
  <2> HIDE DEF port
  <2>5. /\ Good(v) /\ v.port = port
        /\ UsernamePart(v) = UsernamePart(url)
        /\ PasswordPart(v) = PasswordPart(url)
        /\ Scheme(v) = Scheme(url) /\ HostText(v) = HostText(url)
        /\ v.host = url.host /\ Bare(v) = Bare(url)
        /\ SameTailParts(url, v)
    BY <2>1, <2>2, WithPortParts
  <2> HIDE DEF v
  <2>6. HostText(url) # <<>>
    BY <1>3, ApartListed, TakesCredentialsRead
  <2>7. ComponentsApart(v)
    BY <2>4, <2>5, <2>6, ApartListed DEF SameTailParts, TypeOf, IsSpecial
  <2>8. d = [c EXCEPT !.port = port]
    <3>1. Reads(c, url) /\ Reads(d, v)  BY <2>5, <2>7, ComponentsRead
    <3> HIDE DEF c, d
    <3>2. ChangedAt(c, d, "port", port)
      BY <2>5, <3>1 DEF Reads, SameTailParts, Names, ChangedAt
    <3>3. d = [c EXCEPT !["port"] = port]  BY <3>2, OneChanged DEF c, d
    <3> QED  BY <3>3
  <2>9. Promise!Accept([c EXCEPT !.port = port])
        /\ Good(url') /\ ComponentsApart(url')
    BY <1>3, <2>5, <2>7, <2>8, BecamePromised
  <2> QED  BY <1>1, <1>3, <2>3, <2>9 DEF Promise!SetPort
<1> QED  BY <1>2, <1>3 DEF SetPort

\* set_username
LEMMA SetUsernamePromised ==
    ASSUME Good(url), ComponentsApart(url), NEW n \in Usernames, SetUsername(n)
    PROVE  Good(url') /\ ComponentsApart(url') /\ Promise!SetUsername(n)
<1> DEFINE c == Components(url)
           name == UserinfoText(n)
           v == WithUsername(url, name)
           d == Components(v)
           present == Slice(url.ser, url.scheme_end + 3, url.username_end)
<1>1. Promise!TakesCredentials <=> TakesCredentials(url)  BY GuardsRead
<1>2. CASE ~TakesCredentials(url) /\ Leave("Err")
  BY <1>1, <1>2, LeftPromised DEF Promise!SetUsername
<1>3. CASE TakesCredentials(url)
  <2>1. Written(url) /\ ~Bare(url)  BY <1>3, TakesCredentialsWritten
  <2>2. Reads(c, url)  BY ComponentsRead
  <2>3. c.username = present  BY <2>1, <2>2 DEF Reads, UsernamePart
  <2>4. CASE present = n /\ Leave("Ok")
    <3>1. c = [c EXCEPT !.username = n]
      <4>1. ChangedAt(c, c, "username", n)
        <5> HIDE DEF c
        <5> QED  BY <2>3, <2>4 DEF Names, ChangedAt
      <4>2. c = [c EXCEPT !["username"] = n]  BY <4>1, OneChanged DEF c
      <4> QED  BY <4>2
    <3>2. Good(url') /\ ComponentsApart(url') /\ Promise!Accept(c)
      BY <2>4, LeftPromised
    <3>3. Promise!Accept([c EXCEPT !.username = n])
      BY <3>1, <3>2
    <3> QED  BY <1>1, <1>3, <2>3, <2>4, <3>2, <3>3 DEF Promise!SetUsername
  <2>5. CASE present # n /\ Become(v)
    <3>1. name \in Text /\ NoSpace(name)  BY WrittenUserinfo
    <3> HIDE DEF name
    <3>2. /\ Good(v) /\ UsernamePart(v) = name
          /\ PasswordPart(v) = PasswordPart(url)
          /\ Scheme(v) = Scheme(url) /\ HostText(v) = HostText(url)
          /\ v.host = url.host /\ v.port = url.port /\ Bare(v) = Bare(url)
          /\ SameTailParts(url, v)
      BY <1>3, <3>1, WithUsernameParts
    <3> HIDE DEF v
    <3>3. HostText(url) # <<>>
      BY <1>3, ApartListed, TakesCredentialsRead
    <3>4. ComponentsApart(v)
      BY <3>2, <3>3, ApartListed DEF SameTailParts, TypeOf, IsSpecial
    <3>5. d = [c EXCEPT !.username = name]
      <4>1. Reads(d, v)  BY <3>2, <3>4, ComponentsRead
      <4> HIDE DEF c, d
      <4>2. ChangedAt(c, d, "username", name)
        BY <2>2, <3>2, <4>1 DEF Reads, SameTailParts, Names, ChangedAt
      <4>3. d = [c EXCEPT !["username"] = name]
        BY <4>2, OneChanged DEF c, d
      <4> QED  BY <4>3
    <3>6. Promise!Accept([c EXCEPT !.username = name])
          /\ Good(url') /\ ComponentsApart(url')
      BY <2>5, <3>2, <3>4, <3>5, BecamePromised
    <3> QED
      BY <1>1, <1>3, <2>3, <2>5, <3>6 DEF Promise!SetUsername, name
  <2>6. UsernameInBounds(url)
    <3>1. ret' # "Panic"  BY SetUsernameStep DEF Inv
    <3> QED  BY <1>3, <3>1 DEF SetUsername, Leave
  <2> QED  BY <1>3, <2>4, <2>5, <2>6 DEF SetUsername
<1> QED  BY <1>2, <1>3 DEF SetUsername

\* set_password
LEMMA SetPasswordPromised ==
    ASSUME Good(url), ComponentsApart(url), NEW p \in Passwords, SetPassword(p)
    PROVE  Good(url') /\ ComponentsApart(url') /\ Promise!SetPassword(p)
<1> DEFINE c == Components(url)
           value == IF p = <<>> THEN <<>> ELSE UserinfoText(p)
<1>1. Promise!TakesCredentials <=> TakesCredentials(url)  BY GuardsRead
<1>2. CASE ~TakesCredentials(url) /\ Leave("Err")
  BY <1>1, <1>2, LeftPromised DEF Promise!SetPassword
<1>3. ASSUME TakesCredentials(url), NEW v, Good(v), Become(v),
             PasswordPart(v) = value,
             UsernamePart(v) = UsernamePart(url),
             Scheme(v) = Scheme(url), HostText(v) = HostText(url),
             v.host = url.host, v.port = url.port, Bare(v) = Bare(url),
             SameTailParts(url, v)
      PROVE  /\ Good(url') /\ ComponentsApart(url')
             /\ Promise!Accept([c EXCEPT !.password = value])
  <2> DEFINE d == Components(v)
  <2> HIDE DEF value
  <2>1. HostText(url) # <<>>
    BY <1>3, ApartListed, TakesCredentialsRead
  <2>2. ComponentsApart(v)
    BY <1>3, <2>1, ApartListed DEF SameTailParts, TypeOf, IsSpecial
  <2>3. d = [c EXCEPT !.password = value]
    <3>1. Reads(c, url) /\ Reads(d, v)  BY <1>3, <2>2, ComponentsRead
    <3> HIDE DEF c, d
    <3>2. ChangedAt(c, d, "password", value)
      BY <1>3, <3>1 DEF Reads, SameTailParts, Names, ChangedAt
    <3>3. d = [c EXCEPT !["password"] = value]  BY <3>2, OneChanged DEF c, d
    <3> QED  BY <3>3
  <2> QED  BY <1>3, <2>2, <2>3, BecamePromised
<1>4. CASE /\ TakesCredentials(url) /\ p # <<>>
           /\ Become(WithPassword(url, UserinfoText(p)))
  <2> DEFINE v == WithPassword(url, UserinfoText(p))
  <2>1. /\ UserinfoText(p) \in Text /\ NoSpace(UserinfoText(p))
        /\ UserinfoText(p) # <<>> /\ value = UserinfoText(p)
    BY <1>4, WrittenUserinfo
  <2>2. /\ Good(v) /\ PasswordPart(v) = UserinfoText(p)
        /\ UsernamePart(v) = UsernamePart(url)
        /\ Scheme(v) = Scheme(url) /\ HostText(v) = HostText(url)
        /\ v.host = url.host /\ v.port = url.port /\ Bare(v) = Bare(url)
        /\ SameTailParts(url, v)
    BY <1>4, <2>1, WithPasswordParts
  <2>3. Become(v)  BY <1>4
  <2> HIDE DEF v, value, c
  <2>4. /\ Good(url') /\ ComponentsApart(url')
        /\ Promise!Accept([c EXCEPT !.password = value])
    BY <1>3, <1>4, <2>1, <2>2, <2>3
  <2> QED  BY <1>1, <1>4, <2>4 DEF Promise!SetPassword, value, c
<1>5. CASE /\ TakesCredentials(url) /\ p = <<>>
           /\ HasByte(url.ser, url.username_end, ":")
           /\ Become(WithoutPassword(url))
  <2> DEFINE v == WithoutPassword(url)
  <2>1. /\ Good(v) /\ PasswordPart(v) = <<>>
        /\ UsernamePart(v) = UsernamePart(url)
        /\ Scheme(v) = Scheme(url) /\ HostText(v) = HostText(url)
        /\ v.host = url.host /\ v.port = url.port /\ Bare(v) = Bare(url)
        /\ SameTailParts(url, v)
    BY <1>5, WithoutPasswordParts
  <2>2. Become(v) /\ value = <<>>  BY <1>5
  <2> HIDE DEF v, value, c
  <2>3. /\ Good(url') /\ ComponentsApart(url')
        /\ Promise!Accept([c EXCEPT !.password = value])
    BY <1>3, <1>5, <2>1, <2>2
  <2> QED  BY <1>1, <1>5, <2>3 DEF Promise!SetPassword, value, c
<1>6. CASE /\ TakesCredentials(url) /\ p = <<>>
           /\ ByteAt(url.ser, url.username_end) # ":"
           /\ Leave("Ok")
  <2>1. Password(url) = <<>>
    BY <1>6 DEF Password, HasPassword, HasByte
  <2>2. c = [c EXCEPT !.password = <<>>]
    <3>1. ChangedAt(c, c, "password", <<>>)
      BY <2>1 DEF Names, Components, ChangedAt
    <3>2. c = [c EXCEPT !["password"] = <<>>]  BY <3>1, OneChanged DEF c
    <3> QED  BY <3>2
  <2>3. Good(url') /\ ComponentsApart(url') /\ Promise!Accept(c)
    BY <1>6, LeftPromised
  <2>4. Promise!Accept([c EXCEPT !.password = <<>>])  BY <2>2, <2>3
  <2>5. value = <<>>  BY <1>6
  <2> QED  BY <1>1, <1>6, <2>3, <2>4, <2>5 DEF Promise!SetPassword, c
<1>7. ret' # "Panic"  BY SetPasswordStep DEF Inv
<1>8. ~Leave("Panic")  BY <1>7 DEF Leave
<1> QED  BY <1>2, <1>4, <1>5, <1>6, <1>8 DEF SetPassword

\* set_host and set_ip_host write a host that holds no '/', and drop one only
\* where no credentials and no port are left behind.
LEMMA NewHostPromised ==
    ASSUME Good(url), ComponentsApart(url), ~cannot_be_a_base(url),
           NEW host, WritableHost(host), host.kind = "None" => host.text = <<>>,
           TypeOf(url) = "SpecialNotFile" => host.text # <<>>,
           host.text = <<>> => ~HasCredentialsOrPort(url),
           NoByte(host.text, "/"),
           Become(WithHost(url, host))
    PROVE  /\ Good(url') /\ ComponentsApart(url')
           /\ Promise!Accept([Components(url) EXCEPT !.host = host.text])
<1> DEFINE c == Components(url)
           v == WithHost(url, host)
           d == Components(v)
           text == host.text
<1>1. /\ Good(v) /\ HostText(v) = text /\ v.host = host.kind
      /\ Scheme(v) = Scheme(url)
      /\ UsernamePart(v) = UsernamePart(url)
      /\ PasswordPart(v) = PasswordPart(url)
      /\ v.port = url.port /\ ~Bare(v)
      /\ SameTailParts(url, v)
  BY WithHostParts
<1> HIDE DEF v
<1>2. text = <<>> => UsernamePart(url) = <<>> /\ PasswordPart(url) = <<>>
                     /\ url.port = None
  BY CredentialParts DEF HasCredentialsOrPort
<1> HIDE DEF text
<1>3. Path(url) = <<>> \/ Rooted(Path(url))
  BY OpaqueRead, ApartListed
<1>4. ComponentsApart(v)
  BY <1>1, <1>2, <1>3, ApartListed DEF SameTailParts, TypeOf, IsSpecial, text
<1>5. d = [c EXCEPT !.host = text]
  <2>1. Reads(c, url) /\ Reads(d, v)  BY <1>1, <1>4, ComponentsRead
  <2>2. ~c.opaque  BY ComponentsRead
  <2> HIDE DEF c, d
  <2>3. ~d.opaque /\ c.opaque \in BOOLEAN /\ d.opaque \in BOOLEAN
    BY <1>1, <2>1 DEF Reads
  <2>4. ChangedAt(c, d, "host", text)
    BY <1>1, <2>1, <2>2, <2>3 DEF Reads, SameTailParts, Names, ChangedAt
  <2>5. d = [c EXCEPT !["host"] = text]  BY <2>4, OneChanged DEF c, d
  <2> QED  BY <2>5
<1> QED  BY <1>1, <1>4, <1>5, BecamePromised DEF v, text

\* set_host(Some(_))
LEMMA SetHostPromised ==
    ASSUME Good(url), ComponentsApart(url), NEW h \in Hosts,
           SafeHost(url, h), SetHost(h)
    PROVE  Good(url') /\ ComponentsApart(url') /\ Promise!SetHost(h)
<1> DEFINE c == Components(url)
           t == TypeOf(url)
           host == HostOf(t, HostSubstring(h))
           for == HostFor(t, h)
<1>1. Promise!Type = t /\ c.opaque = cannot_be_a_base(url)  BY GuardsRead
<1>2. Promise!SetHost(h) <=>
         \/ (c.opaque \/ ~for.ok) /\ Promise!Refuse
         \/ /\ ~c.opaque /\ for.ok
            /\ Promise!Accept([c EXCEPT !.host = for.text])
  BY <1>1 DEF Promise!SetHost
<1>3. /\ HostTextRefused(t, h) => ~for.ok
      /\ ~HostTextRefused(t, h) => for = host
  BY DEF HostFor
<1>4. CASE /\ \/ cannot_be_a_base(url) \/ HostTextRefused(t, h) \/ ~host.ok
           /\ Leave("Err")
  <2> HIDE DEF c, host, for, t
  <2>1. c.opaque \/ ~for.ok  BY <1>1, <1>3, <1>4
  <2>2. Good(url') /\ ComponentsApart(url') /\ Promise!Refuse
    BY <1>4, LeftPromised
  <2> QED  BY <1>2, <2>1, <2>2
<1>5. CASE /\ ~cannot_be_a_base(url) /\ ~HostTextRefused(t, h) /\ host.ok
           /\ Become(WithHost(url, host))
  <2>1. t \in SchemeTypes  BY DEF TypeOf, SchemeType, SchemeTypes
  <2>2. for = host /\ for.ok  BY <1>3, <1>5
  <2>3. host.text = <<>> => ~HasCredentialsOrPort(url)
    BY <2>2 DEF SafeHost
  <2>4. WritableHost(host)  BY <1>5, <2>1, WrittenHost
  <2>5. NoByte(host.text, "/")  BY <1>5, <2>1, HostAssumption DEF GoodHost
  <2>6. /\ host.kind = "None" <=> host.text = <<>>
        /\ t # "NotSpecial" => host.kind # "None"
    BY <1>5, <2>1, HostAssumption DEF GoodHost
  <2> HIDE DEF host, for, c
  <2>7. /\ Good(url') /\ ComponentsApart(url')
        /\ Promise!Accept([c EXCEPT !.host = host.text])
    BY <1>5, <2>3, <2>4, <2>5, <2>6, NewHostPromised DEF c
  <2> QED  BY <1>1, <1>2, <1>5, <2>2, <2>7
<1> QED  BY <1>4, <1>5 DEF SetHost

\* set_ip_host
LEMMA SetIpHostPromised ==
    ASSUME Good(url), ComponentsApart(url), NEW a \in Address, SetIpHost(a)
    PROVE  Good(url') /\ ComponentsApart(url') /\ Promise!SetIpHost(a.text)
<1> DEFINE c == Components(url)
<1>1. c.opaque = cannot_be_a_base(url)  BY GuardsRead
<1>2. CASE cannot_be_a_base(url) /\ Leave("Err")
  BY <1>1, <1>2, LeftPromised DEF Promise!SetIpHost
<1>3. CASE ~cannot_be_a_base(url) /\ Become(WithHost(url, a))
  <2>1. a.kind # "None" /\ (a.text = <<"v4">> \/ a.text = <<"[v6]">>)
    BY DEF Address
  <2>2. NoByte(<<"v4">>, "/") /\ NoByte(<<"[v6]">>, "/")
        /\ <<"v4">> # <<>> /\ <<"[v6]">> # <<>>
    BY DEF NoByte
  <2>3. a.text # <<>> /\ NoByte(a.text, "/")  BY <2>1, <2>2
  <2>4. WritableHost(a)  BY WrittenAddress
  <2>5. /\ Good(url') /\ ComponentsApart(url')
        /\ Promise!Accept([c EXCEPT !.host = a.text])
    BY <1>3, <2>1, <2>3, <2>4, NewHostPromised
  <2> QED  BY <1>1, <1>3, <2>5 DEF Promise!SetIpHost
<1> QED  BY <1>2, <1>3 DEF SetIpHost

\* d is c without the fields a removed host takes along, and with the path x.
HostTaken(c, d, x) ==
    /\ d.username = <<>> /\ d.password = <<>> /\ d.host = <<>>
    /\ d.port = None /\ d.path = x
    /\ d.scheme = c.scheme /\ d.opaque = c.opaque
    /\ d.query = c.query /\ d.fragment = c.fragment

\* Components that differ in those.
LEMMA HostFieldsChanged ==
    ASSUME NEW u, NEW v, NEW c, c = Components(u), NEW d, d = Components(v),
           NEW x, HostTaken(c, d, x)
    PROVE  d = [c EXCEPT !.username = <<>>, !.password = <<>>, !.host = <<>>,
                         !.port = None, !.path = x]
<1> DEFINE e == [c EXCEPT !.username = <<>>, !.password = <<>>, !.host = <<>>,
                          !.port = None, !.path = x]
<1>1. c = [k \in Names |-> c[k]] /\ d = [k \in Names |-> d[k]]  BY Named
<1>2. e = [k \in Names |-> e[k]]  BY <1>1
<1>3. \A k \in Names : d[k] = e[k]  BY <1>1 DEF Names, HostTaken
<1> HIDE DEF e
<1>4. d = e  BY <1>1, <1>2, <1>3
<1> QED  BY <1>4 DEF e

\* set_host(None)
LEMMA RemoveHostPromised ==
    ASSUME Good(url), ComponentsApart(url), SafeRemoval(url), RemoveHost
    PROVE  Good(url') /\ ComponentsApart(url') /\ Promise!RemoveHost
<1> DEFINE c == Components(url)
           v == WithoutHost(url)
           d == Components(v)
           x == IF c.path = <<>> THEN <<"/">> ELSE c.path
<1>1. Promise!Type = TypeOf(url) /\ c.opaque = cannot_be_a_base(url)
  BY GuardsRead
<1>2. Reads(c, url)  BY ComponentsRead
<1>3. CASE /\ Leave("Err")
           /\ cannot_be_a_base(url) \/ TypeOf(url) = "SpecialNotFile"
  <2>1. Good(url') /\ ComponentsApart(url') /\ Promise!Refuse
    BY <1>3, LeftPromised
  <2> QED  BY <1>1, <1>3, <2>1 DEF Promise!RemoveHost
<1>4. CASE ~cannot_be_a_base(url) /\ ~has_host(url) /\ Leave("Ok")
  <2>1. c.host = <<>> /\ TypeOf(url) # "SpecialNotFile"
    BY <1>2, <1>4, ApartListed DEF has_host, Reads
  <2>2. Good(url') /\ ComponentsApart(url') /\ Promise!Accept(c)
    BY <1>4, LeftPromised
  <2> QED  BY <1>1, <1>4, <2>1, <2>2 DEF Promise!RemoveHost
<1>5. CASE /\ ~cannot_be_a_base(url) /\ TypeOf(url) # "SpecialNotFile"
           /\ url.host = "Domain" /\ Become(v)
  <2>1. /\ Path(url) = <<>> => Len(url.ser) = url.path_start
        /\ ~IsSpecial(url) => ~StartsWithTwoSlashes(Path(url))
    BY <1>5, ApartListed
    DEF SafeRemoval, has_host, IsSpecial, IsSpecialType, TypeOf, SchemeType
  <2>2. /\ Good(v) /\ Scheme(v) = Scheme(url)
        /\ UsernamePart(v) = <<>> /\ PasswordPart(v) = <<>>
        /\ HostText(v) = <<>> /\ v.host = url.host /\ v.port = None
        /\ Bare(v) = ~IsSpecial(url)
        /\ Path(v) = IF Path(url) = <<>> THEN <<"/">> ELSE Path(url)
        /\ QueryPart(v) = QueryPart(url) /\ FragmentPart(v) = FragmentPart(url)
    BY <1>5, <2>1, WithoutHostParts
  <2> HIDE DEF v
  <2>3. /\ Rooted(Path(v)) /\ Path(v) # <<>>
        /\ ~IsSpecial(url) => ~StartsWithTwoSlashes(Path(v))
    <3>1. Path(url) = <<>> \/ Rooted(Path(url))
      BY <1>5, OpaqueRead, ApartListed
    <3>2. Rooted(<<"/">>) /\ ~StartsWithTwoSlashes(<<"/">>)
      BY DEF Rooted, StartsWithTwoSlashes
    <3>3. Rooted(Path(v)) /\ (~IsSpecial(url) => ~StartsWithTwoSlashes(Path(v)))
      BY <2>1, <2>2, <3>1, <3>2
    <3> QED  BY <3>3 DEF Rooted
  <2>4. ComponentsApart(v)
    <3>1. NoByte(<<>>, "/")  BY DEF NoByte
    <3>2. TypeOf(v) # "SpecialNotFile"  BY <1>5, <2>2 DEF TypeOf
    <3> QED  BY <2>2, <2>3, <3>1, <3>2, ApartListed
  <2>5. d = [c EXCEPT !.username = <<>>, !.password = <<>>, !.host = <<>>,
                      !.port = None, !.path = x]
    <3>1. Reads(d, v)  BY <2>2, <2>4, ComponentsRead
    <3> HIDE DEF c, d
    <3>2. ~d.opaque /\ d.opaque \in BOOLEAN  BY <2>3, <3>1 DEF Reads
    <3>3. ~c.opaque /\ c.opaque \in BOOLEAN
      BY <1>1, <1>2, <1>5 DEF Reads
    <3>4. HostTaken(c, d, x)
      BY <1>2, <2>2, <3>1, <3>2, <3>3 DEF Reads, HostTaken
    <3> HIDE DEF x
    <3>5. c = Components(url) /\ d = Components(v)  BY DEF c, d
    <3> QED  BY <3>4, <3>5, HostFieldsChanged
  <2>6. /\ Good(url') /\ ComponentsApart(url')
        /\ Promise!Accept([c EXCEPT !.username = <<>>, !.password = <<>>,
                             !.host = <<>>, !.port = None, !.path = x])
    BY <1>5, <2>2, <2>4, <2>5, BecamePromised
  <2> QED
    BY <1>1, <1>5, <2>6, SameSchemes DEF Promise!RemoveHost
<1> QED  BY <1>3, <1>4, <1>5 DEF RemoveHost

\* set_scheme
LEMMA SetSchemePromised ==
    ASSUME Good(url), ComponentsApart(url), NEW s \in Schemes,
           SafeScheme(url, s), SetScheme(s)
    PROVE  Good(url') /\ ComponentsApart(url') /\ Promise!SetScheme(s)
<1> DEFINE c == Components(url)
           new == SchemeOf(s)
           scheme == new.scheme
           port == Promise!NotDefault(c.port, scheme)
           fits == /\ new.ok /\ new.done
                   /\ ~SchemeChangeRefused(url, scheme)
<1>1. Reads(c, url)  BY ComponentsRead
<1>2. Promise!SetScheme(s) <=>
         \/ ~Promise!SchemeFits(new) /\ Promise!Refuse
         \/ /\ Promise!SchemeFits(new)
            /\ Promise!Accept([c EXCEPT !.scheme = scheme, !.port = port])
  BY DEF Promise!SetScheme
<1>3. Promise!SchemeFits(new) <=>
        /\ new.ok /\ new.done
        /\ IsSpecialType(SchemeType(scheme)) = IsSpecial(url)
        /\ scheme # FileScheme
        /\ IsSpecialType(SchemeType(scheme)) => HostText(url) # <<>>
  <2>1. c.scheme = Scheme(url) /\ c.host = HostText(url)
    BY <1>1 DEF Reads
  <2>2. /\ IsSpecialType(SchemeType(c.scheme)) = IsSpecial(url)
    BY <2>1 DEF IsSpecial, TypeOf
  <2> HIDE DEF c, new
  <2>3. Promise!SchemeFits(new) <=>
          /\ new.ok /\ new.done
          /\ IsSpecialType(SchemeType(scheme))
                = IsSpecialType(SchemeType(c.scheme))
          /\ scheme # FileScheme
          /\ IsSpecialType(SchemeType(scheme)) => c.host # <<>>
    BY SameSchemes DEF Promise!SchemeFits, Promise!Special, c
  <2> QED  BY <2>1, <2>2, <2>3
<1>4. Promise!SchemeFits(new) <=> fits
  <2>1. SchemeType(scheme) = "File" <=> scheme = FileScheme
    BY DEF SchemeType
  <2>2. IsSpecial(url) => has_authority(url)
    <3>1. IsSpecial(url) => Written(url)
      BY GoodFacts DEF AuthorityIntact, SpecialHasAuthority, Written
    <3> QED  BY <3>1, AuthorityOrNone
  <2>3. IsSpecialType(SchemeType(scheme)) <=> SchemeType(scheme) # "NotSpecial"
    BY DEF IsSpecialType
  <2>4. SchemeType(scheme) \in {"File", "SpecialNotFile", "NotSpecial"}
    BY DEF SchemeType
  <2>5. url.host = "None" => HostText(url) = <<>>  BY ApartListed
  <2>6. new.ok /\ SchemeType(scheme) = "SpecialNotFile" => HostText(url) # <<>>
    BY HostFacts DEF SafeScheme
  <2> HIDE DEF c, new
  <2> QED
    BY <1>3, <2>1, <2>2, <2>3, <2>4, <2>5, <2>6
    DEF SchemeChangeRefused, has_host
<1>5. CASE ~fits /\ Leave("Err")
  <2>1. Good(url') /\ ComponentsApart(url') /\ Promise!Refuse
    BY <1>5, LeftPromised
  <2> QED  BY <1>2, <1>4, <1>5, <2>1
<1>6. CASE fits /\ Become(Renormalized(WithScheme(url, scheme)))
  <2> DEFINE w == WithScheme(url, scheme)
             v == Renormalized(w)
             d == Components(v)
  <2>1. scheme \in Text /\ scheme # <<>> /\ NoSpace(scheme)
    BY <1>6, SchemeAssumption DEF GoodScheme, NoByte, NoSpace
  <2>2. /\ IsSpecialType(SchemeType(scheme)) = IsSpecial(url)
        /\ scheme # FileScheme
        /\ IsSpecialType(SchemeType(scheme)) => HostText(url) # <<>>
    BY <1>3, <1>4, <1>6
  <2> HIDE DEF scheme, fits
  <2>3. /\ Good(w) /\ Scheme(w) = scheme
        /\ UsernamePart(w) = UsernamePart(url)
        /\ PasswordPart(w) = PasswordPart(url)
        /\ HostText(w) = HostText(url) /\ w.host = url.host
        /\ w.port = url.port
        /\ Bare(w) = Bare(url) /\ SameTailParts(url, w)
    BY <2>1, <2>2, WithSchemeParts
  <2> HIDE DEF w
  <2>4. TypeOf(w) # "File" /\ TypeOf(w) = SchemeType(scheme)
    BY <2>2, <2>3 DEF TypeOf, SchemeType
  <2>5. TakesCredentials(w) <=> HostText(url) # <<>>
    BY <2>3, <2>4, ApartListed, TakesCredentialsRead
  <2>6. /\ port = IF url.port = default_port(scheme) THEN None ELSE url.port
        /\ port # None => port # default_port(scheme)
    BY <1>1, SameSchemes DEF Promise!NotDefault, Reads
  <2> HIDE DEF port, c
  <2>7. /\ Good(v) /\ v.port = port /\ Scheme(v) = scheme
        /\ UsernamePart(v) = UsernamePart(url)
        /\ PasswordPart(v) = PasswordPart(url)
        /\ HostText(v) = HostText(url) /\ v.host = url.host
        /\ Bare(v) = Bare(url) /\ SameTailParts(url, v)
    <3>1. CASE TakesCredentials(w)
      <4>1. Normalized(w, w.port) = port
        BY <2>3, <2>6 DEF Normalized
      <4>2. v = WithPort(w, port)  BY <3>1, <4>1 DEF Renormalized
      <4>3. port \in PortNumber \union {None}
        BY <2>3, <2>6, GoodFacts
      <4>4. Written(w)  BY <2>3, <3>1, TakesCredentialsWritten
      <4> HIDE DEF v
      <4>5. /\ Good(v) /\ v.port = port
            /\ UsernamePart(v) = UsernamePart(w)
            /\ PasswordPart(v) = PasswordPart(w)
            /\ Scheme(v) = Scheme(w) /\ HostText(v) = HostText(w)
            /\ v.host = w.host /\ Bare(v) = Bare(w)
            /\ SameTailParts(w, v)
        BY <2>3, <4>2, <4>3, <4>4, WithPortParts
      <4> QED  BY <2>3, <4>5 DEF SameTailParts
    <3>2. CASE ~TakesCredentials(w)
      <4>1. v = w  BY <3>2 DEF Renormalized
      <4>2. url.port = None  BY <2>5, <3>2, ApartListed
      <4>3. port = None  BY <2>6, <4>2
      <4> QED  BY <2>3, <4>1, <4>2, <4>3
    <3> QED  BY <3>1, <3>2
  <2> HIDE DEF v
  <2>8. ComponentsApart(v)
    <3>1. /\ TypeOf(v) = SchemeType(scheme) /\ TypeOf(v) # "File"
          /\ IsSpecial(v) = IsSpecial(url)
          /\ TypeOf(v) = "SpecialNotFile" => HostText(url) # <<>>
      BY <2>2, <2>4, <2>7 DEF TypeOf, IsSpecial, IsSpecialType
    <3>2. url.port = None => port = None  BY <2>6
    <3> QED  BY <2>6, <2>7, <3>1, <3>2, ApartListed DEF SameTailParts
  <2>9. d = [c EXCEPT !.scheme = scheme, !.port = port]
    <3>1. Reads(d, v)  BY <2>7, <2>8, ComponentsRead
    <3> HIDE DEF d
    <3>2. BothChangedAt(c, d, "scheme", scheme, "port", port)
      BY <1>1, <2>7, <3>1 DEF Reads, SameTailParts, Names, BothChangedAt
    <3>3. d = [c EXCEPT !["scheme"] = scheme, !["port"] = port]
      BY <3>2, TwoChanged DEF c, d
    <3> QED  BY <3>3
  <2>10. /\ Good(url') /\ ComponentsApart(url')
         /\ Promise!Accept([c EXCEPT !.scheme = scheme, !.port = port])
    BY <1>6, <2>7, <2>8, <2>9, BecamePromised DEF v, w
  <2> QED  BY <1>2, <1>4, <1>6, <2>10
<1> QED  BY <1>5, <1>6 DEF SetScheme

\* A written port holds no '/', and is not empty.
LEMMA PortSuffixEnd ==
    ASSUME NEW n
    PROVE  LET y == PortSuffix(n) IN Len(y) > 0 /\ y[Len(y)] # "/"
<1> DEFINE S == Digit \union {":"}
           y == PortSuffix(n)
           colon == <<":">>
<1>1. \A d : DigitLexeme(d) \in S  BY DEF DigitLexeme, Digit
<1>2. "/" \notin S /\ ":" \in S  BY DEF Digit
<1> HIDE DEF S
<1>3. colon \in Seq(S) /\ Len(colon) = 1  BY <1>2
<1> HIDE DEF colon
<1>4. Decimal(n) \in Seq(S)  BY <1>1, DecimalType
<1>5. Len(Decimal(n)) \in Nat  BY <1>4, LenProperties
<1>6. y \in Seq(S) /\ Len(y) = 1 + Len(Decimal(n))
  <2>1. y = colon \o Decimal(n)  BY DEF PortSuffix, colon
  <2>2. /\ colon \o Decimal(n) \in Seq(S)
        /\ Len(colon \o Decimal(n)) = Len(colon) + Len(Decimal(n))
    BY <1>3, <1>4, ConcatProperties
  <2> QED  BY <1>3, <2>1, <2>2
<1> HIDE DEF y
<1>7. Len(y) \in 1..Len(y) /\ Len(y) > 0  BY <1>5, <1>6
<1>8. y[Len(y)] \in S  BY <1>6, <1>7, ElementOfSeq
<1> QED  BY <1>2, <1>7, <1>8 DEF y

\* What stands in front of a network URL's path does not end with '/': its
\* host, its port, or "/.".
LEMMA NoSlashBeforePath ==
    ASSUME NEW u, Good(u), ComponentsApart(u), TypeOf(u) = "SpecialNotFile"
    PROVE  ~EndsWith(Take(u.ser, u.path_start), "/")
<1> DEFINE s == u.ser
           a == u.host_start
           h == u.host_end
           p == u.path_start
           y == Slice(s, h, p)
<1>1. /\ s \in Text /\ Len(s) \in Nat /\ a \in Nat /\ h \in Nat /\ p \in Nat
      /\ a <= h /\ h <= p /\ p <= Len(s) /\ h <= Len(s)
  BY HeadPlaces, HostPlace
<1>2. a < h  BY DEF ComponentsApart
<1>3. Len(Take(s, p)) = p /\ \A i \in 1..p : Take(s, p)[i] = s[i]
  BY <1>1, TakeFacts
<1>4. EndsWith(Take(s, p), "/") <=> p > 0 /\ Take(s, p)[p] = "/"
  BY <1>3 DEF EndsWith
<1>5. IF u.port # None THEN y = PortSuffix(u.port)
                       ELSE y \in {<<>>, <<"/", ".">>}
  BY GoodFacts DEF AuthorityIntact, PortWritten
<1>6. NoByte(HostText(u), "/")  BY DEF ComponentsApart
<1>7. HostText(u) = Slice(s, a, h)  BY DEF HostText
<1>8. y = PortSuffix(u.port) => Len(y) > 0 /\ y[Len(y)] # "/"
  BY PortSuffixEnd
<1> HIDE DEF s, a, h, p, y
<1>9. p > 0 /\ Take(s, p)[p] = s[p]  BY <1>1, <1>2, <1>3
<1>10. CASE y = <<>>
  <2>1. h = p  BY <1>1, <1>10, SliceEmpty DEF y
  <2>2. /\ Len(Slice(s, a, h)) = h - a
        /\ \A i \in 1..(h - a) : Slice(s, a, h)[i] = s[a + i]
    BY <1>1, SliceFacts
  <2>3. h - a \in 1..(h - a) /\ a + (h - a) = h  BY <1>1, <1>2
  <2>4. Slice(s, a, h)[h - a] = s[h]  BY <2>2, <2>3
  <2>5. Slice(s, a, h)[h - a] # "/"  BY <1>6, <1>7, <2>2, <2>3 DEF NoByte
  <2> QED  BY <1>4, <1>9, <2>1, <2>4, <2>5 DEF s, p
<1>11. CASE y # <<>>
  <2>1. Len(y) > 0 /\ y[Len(y)] # "/"
    <3>1. <<"/", ".">>[Len(<<"/", ".">>)] = "." /\ Len(<<"/", ".">>) > 0
      OBVIOUS
    <3> QED  BY <1>5, <1>8, <1>11, <3>1
  <2>2. Len(y) = p - h /\ \A i \in 1..(p - h) : y[i] = s[h + i]
    BY <1>1, SliceFacts DEF y
  <2>3. p - h \in 1..(p - h) /\ h + (p - h) = p  BY <1>1, <2>1, <2>2
  <2>4. s[p] # "/"  BY <2>1, <2>2, <2>3
  <2> QED  BY <1>4, <1>9, <2>4 DEF s, p
<1> QED  BY <1>10, <1>11

\* set_path
LEMMA SetPathPromised ==
    ASSUME Good(url), ComponentsApart(url), NEW p \in Paths,
           SafePath(url, NewPath(url, p)), SetPath(p)
    PROVE  Good(url') /\ ComponentsApart(url') /\ Promise!SetPath(p)
<1> DEFINE c == Components(url)
           after == EndsWith(Take(url.ser, url.path_start), "/")
           t == TypeOf(url)
           text == NewPath(url, p)
           v == WithPath(url, text)
           d == Components(v)
<1>1. Promise!Type = t /\ c.opaque = cannot_be_a_base(url)  BY GuardsRead
<1>2. /\ after \in BOOLEAN /\ t \in SchemeTypes
      /\ text = PathFor(cannot_be_a_base(url), t, after, p)
  BY DEF EndsWith, TypeOf, SchemeType, SchemeTypes, NewPath
<1>3. text \in Text  BY <1>2, PathAssumption DEF PathFor, GoodPath
<1>4. ~cannot_be_a_base(url) =>
         Rooted(text) \/ (t = "NotSpecial" /\ text = <<>>)
  <2> SUFFICES ASSUME ~cannot_be_a_base(url)
               PROVE  Rooted(text) \/ (t = "NotSpecial" /\ text = <<>>)
    OBVIOUS
  <2>1. text = PathText(t, after, p)  BY <1>2 DEF PathFor
  <2>2. t = "SpecialNotFile" => ~after  BY NoSlashBeforePath
  <2> HIDE DEF t, after, text
  <2> QED  BY <1>2, <2>1, <2>2, PathAssumption DEF GoodPath
<1>5. /\ cannot_be_a_base(url) <=> Bare(url) /\ ~Rooted(Path(url))
      /\ Bare(url) => ~IsSpecial(url) /\ ~has_authority(url) /\ t = "NotSpecial"
  BY OpaqueRead
<1>6. /\ cannot_be_a_base(url) => ~Rooted(text)
      /\ ~has_authority(url) /\ ~cannot_be_a_base(url) =>
            text # <<>> /\ ~StartsWithTwoSlashes(text)
  BY DEF SafePath
<1>7. t = "NotSpecial" <=> ~IsSpecial(url)
  BY DEF IsSpecial, IsSpecialType
<1> HIDE DEF text, t
<1>8. /\ Good(v) /\ SameFrontParts(url, v) /\ Path(v) = text
      /\ QueryPart(v) = QueryPart(url) /\ FragmentPart(v) = FragmentPart(url)
  BY <1>3, WithPathParts
<1> HIDE DEF v
<1>9. /\ ~Bare(url) => text = <<>> \/ Rooted(text)
      /\ IsSpecial(url) => text # <<>>
      /\ Bare(url) => ~StartsWithTwoSlashes(text)
      /\ (Bare(url) /\ ~Rooted(text)) = cannot_be_a_base(url)
  <2>1. Rooted(text) => text # <<>>  BY DEF Rooted
  <2>2. StartsWithTwoSlashes(text) => Rooted(text)
    <3>1. Len(<<>>) = 0  OBVIOUS
    <3>2. StartsWithTwoSlashes(text) => text # <<>>
      BY <3>1 DEF StartsWithTwoSlashes
    <3> QED  BY <3>2 DEF StartsWithTwoSlashes, Rooted
  <2> QED
    BY <1>4, <1>5, <1>6, <1>7, <2>1, <2>2 DEF cannot_be_a_base, Bare
<1>10. ComponentsApart(v)
  BY <1>8, <1>9, ApartListed DEF SameFrontParts, TypeOf, IsSpecial
<1>11. d = [c EXCEPT !.path = text]
  <2>1. Reads(c, url) /\ Reads(d, v)  BY <1>8, <1>10, ComponentsRead
  <2>2. d.opaque = c.opaque
    <3> HIDE DEF d, c
    <3> QED  BY <1>1, <1>8, <1>9, <2>1 DEF Reads, SameFrontParts
  <2> HIDE DEF c, d
  <2>3. ChangedAt(c, d, "path", text)
    BY <1>8, <2>1, <2>2 DEF Reads, SameFrontParts, Names, ChangedAt
  <2>4. d = [c EXCEPT !["path"] = text]  BY <2>3, OneChanged DEF c, d
  <2> QED  BY <2>4
<1>12. /\ Good(url') /\ ComponentsApart(url')
       /\ Promise!Accept([c EXCEPT !.path = text])
  BY <1>8, <1>10, <1>11, BecamePromised DEF SetPath, v, text
<1>13. Promise!Accept([c EXCEPT !.path = PathFor(c.opaque, Promise!Type, after, p)])
  BY <1>1, <1>2, <1>12
<1> HIDE DEF after, c
<1> QED  BY <1>2, <1>12, <1>13 DEF Promise!SetPath, c

\* set_query(Some(_)) and set_fragment(Some(_)) keep the front and the path.
LEMMA TailPromised ==
    ASSUME Good(url), ComponentsApart(url), NEW v, Good(v), Become(v),
           SameFrontParts(url, v), Path(v) = Path(url)
    PROVE  /\ Good(url') /\ ComponentsApart(url')
           /\ QueryPart(v) = QueryPart(url) =>
                 Promise!Accept([Components(url) EXCEPT
                                   !.fragment = FragmentPart(v)])
           /\ FragmentPart(v) = FragmentPart(url) =>
                 Promise!Accept([Components(url) EXCEPT
                                   !.query = QueryPart(v)])
<1> DEFINE c == Components(url)
           d == Components(v)
<1>1. ComponentsApart(v)
  BY ApartListed DEF SameFrontParts, TypeOf, IsSpecial
<1>2. Reads(c, url) /\ Reads(d, v)  BY <1>1, ComponentsRead
<1>3. Good(url') /\ ComponentsApart(url') /\ Promise!Accept(d)
  BY <1>1, BecamePromised
<1> HIDE DEF c, d
<1>4. ASSUME QueryPart(v) = QueryPart(url)
      PROVE  Promise!Accept([c EXCEPT !.fragment = FragmentPart(v)])
  <2>1. ChangedAt(c, d, "fragment", FragmentPart(v))
    BY <1>2, <1>4 DEF Reads, SameFrontParts, Names, ChangedAt
  <2>2. d = [c EXCEPT !["fragment"] = FragmentPart(v)]
    BY <2>1, OneChanged DEF c, d
  <2> QED  BY <1>3, <2>2
<1>5. ASSUME FragmentPart(v) = FragmentPart(url)
      PROVE  Promise!Accept([c EXCEPT !.query = QueryPart(v)])
  <2>1. ChangedAt(c, d, "query", QueryPart(v))
    BY <1>2, <1>5 DEF Reads, SameFrontParts, Names, ChangedAt
  <2>2. d = [c EXCEPT !["query"] = QueryPart(v)]
    BY <2>1, OneChanged DEF c, d
  <2> QED  BY <1>3, <2>2
<1> QED  BY <1>3, <1>4, <1>5 DEF c

\* set_query(Some(_))
LEMMA SetQueryPromised ==
    ASSUME Good(url), ComponentsApart(url), NEW q \in Queries, SetQuery(q)
    PROVE  Good(url') /\ ComponentsApart(url') /\ Promise!SetQuery(q)
<1> DEFINE c == Components(url)
           text == QueryText(TypeOf(url), q)
           v == WithQuery(url, text)
<1>1. Promise!Type = TypeOf(url)  BY GuardsRead
<1>2. TypeOf(url) \in SchemeTypes  BY DEF TypeOf, SchemeType, SchemeTypes
<1>3. text \in Text  BY <1>2, TailAssumption
<1> HIDE DEF text
<1>4. /\ Good(v) /\ SameFrontParts(url, v) /\ Path(v) = Path(url)
      /\ QueryPart(v) = <<text>> /\ FragmentPart(v) = FragmentPart(url)
  BY <1>3, WithQueryParts
<1>5. Become(v)  BY DEF SetQuery, text
<1> HIDE DEF v
<1>6. /\ Good(url') /\ ComponentsApart(url')
      /\ Promise!Accept([c EXCEPT !.query = <<text>>])
  BY <1>4, <1>5, TailPromised
<1> QED  BY <1>1, <1>6 DEF Promise!SetQuery, text

\* set_fragment(Some(_))
LEMMA SetFragmentPromised ==
    ASSUME Good(url), ComponentsApart(url), NEW f \in Fragments, SetFragment(f)
    PROVE  Good(url') /\ ComponentsApart(url') /\ Promise!SetFragment(f)
<1> DEFINE c == Components(url)
           text == FragmentText(f)
           v == WithFragment(url, text)
<1>1. text \in Text  BY TailAssumption
<1> HIDE DEF text
<1>2. /\ Good(v) /\ SameFrontParts(url, v) /\ Path(v) = Path(url)
      /\ QueryPart(v) = QueryPart(url) /\ FragmentPart(v) = <<text>>
  BY <1>1, WithFragmentParts
<1>3. Become(v)  BY DEF SetFragment, text
<1> HIDE DEF v
<1>4. /\ Good(url') /\ ComponentsApart(url')
      /\ Promise!Accept([c EXCEPT !.fragment = <<text>>])
  BY <1>2, <1>3, TailPromised
<1> QED  BY <1>4 DEF Promise!SetFragment, text

\* A value without query and fragment, its opaque path stripped: all parts but
\* the path are kept.
LEMMA StrippedRead ==
    ASSUME NEW u, Good(u), ComponentsApart(u),
           u.query_start = None, u.fragment_start = None,
           NEW v, v = Stripped(u)
    PROVE  /\ Good(v) /\ ComponentsApart(v) /\ SameFrontParts(u, v)
           /\ QueryPart(v) = <<>> /\ FragmentPart(v) = <<>>
           /\ Path(v) = IF cannot_be_a_base(u)
                        THEN WithoutTrailingSpaces(Path(u)) ELSE Path(u)
           /\ cannot_be_a_base(v) = cannot_be_a_base(u)
<1>1. CASE cannot_be_a_base(u)
  <2>1. /\ Good(v) /\ SameFrontParts(u, v)
        /\ Path(v) = WithoutTrailingSpaces(Path(u))
        /\ QueryPart(v) = <<>> /\ FragmentPart(v) = <<>>
    BY <1>1, StrippedParts
  <2>2. Bare(u) /\ ~Rooted(Path(u)) /\ ~IsSpecial(u)
    BY <1>1, OpaqueRead
  <2>3. ~Rooted(Path(v))  BY <2>1, <2>2, PathFacts, TrimmedFacts
  <2>4. ~StartsWithTwoSlashes(Path(v))
    <3>1. Len(<<>>) = 0  OBVIOUS
    <3>2. StartsWithTwoSlashes(Path(v)) => Path(v) # <<>>
      BY <3>1 DEF StartsWithTwoSlashes
    <3> QED  BY <2>3, <3>2 DEF StartsWithTwoSlashes, Rooted
  <2>5. ComponentsApart(v)
    BY <2>1, <2>2, <2>4, ApartListed DEF SameFrontParts, TypeOf, IsSpecial
  <2>6. cannot_be_a_base(v)
    BY <2>1, <2>2, <2>3, <2>5, OpaqueRead DEF SameFrontParts
  <2> QED
    BY <1>1, <2>1, <2>5, <2>6 DEF cannot_be_a_base
<1>2. CASE ~cannot_be_a_base(u)
  <2>1. v = u  BY <1>2 DEF Stripped
  <2> QED
    BY <1>2, <2>1 DEF SameFrontParts, QueryPart, FragmentPart, Optional
<1> QED  BY <1>1, <1>2

\* set_query(None) and set_fragment(None): w is the value without the removed
\* part, to be stripped when nothing follows its path.
LEMMA DroppedTailRead ==
    ASSUME Good(url), ComponentsApart(url), NEW w, Good(w),
           SameFrontParts(url, w), Path(w) = Path(url),
           NEW followed \in BOOLEAN,
           ~followed => w.query_start = None /\ w.fragment_start = None,
           NEW v, v = IF followed THEN w ELSE Stripped(w)
    PROVE  /\ Good(v) /\ ComponentsApart(v) /\ SameFrontParts(url, v)
           /\ Components(v).opaque = Components(url).opaque
           /\ Path(v) = Promise!ShownPath(followed)
           /\ followed => v = w
           /\ ~followed => QueryPart(v) = <<>> /\ FragmentPart(v) = <<>>
<1>1. ComponentsApart(w)
  BY ApartListed DEF SameFrontParts, TypeOf, IsSpecial
<1>2. /\ Components(url).opaque = cannot_be_a_base(url)
      /\ Components(w).opaque = cannot_be_a_base(w)
      /\ Components(url).path = Path(url)
  BY DEF Components
<1>3. Components(w).opaque = Components(url).opaque
  BY <1>1, ComponentsRead DEF Reads, SameFrontParts
<1>4. Promise!ShownPath(followed) =
         IF cannot_be_a_base(url) /\ ~followed
         THEN WithoutTrailingSpaces(Path(url)) ELSE Path(url)
  BY <1>2 DEF Promise!ShownPath
<1>5. CASE followed  BY <1>1, <1>3, <1>4, <1>5
<1>6. CASE ~followed
  <2>1. v = Stripped(w)  BY <1>6
  <2>2. /\ Good(v) /\ ComponentsApart(v) /\ SameFrontParts(w, v)
        /\ QueryPart(v) = <<>> /\ FragmentPart(v) = <<>>
        /\ Path(v) = IF cannot_be_a_base(w)
                     THEN WithoutTrailingSpaces(Path(w)) ELSE Path(w)
        /\ cannot_be_a_base(v) = cannot_be_a_base(w)
    BY <1>1, <1>6, <2>1, StrippedRead
  <2>3. Components(v).opaque = cannot_be_a_base(v)  BY DEF Components
  <2>4. SameFrontParts(url, v)  BY <2>2 DEF SameFrontParts
  <2> QED  BY <1>2, <1>3, <1>4, <1>6, <2>2, <2>3, <2>4
<1> QED  BY <1>5, <1>6

\* set_query(None)
LEMMA RemoveQueryPromised ==
    ASSUME Good(url), ComponentsApart(url), RemoveQuery
    PROVE  Good(url') /\ ComponentsApart(url') /\ Promise!RemoveQuery
<1> DEFINE c == Components(url)
           w == WithoutQuery(url)
           followed == url.fragment_start # None
           v == IF followed THEN w ELSE Stripped(w)
           d == Components(v)
           x == Promise!ShownPath(followed)
<1>1. /\ Good(w) /\ SameFrontParts(url, w) /\ Path(w) = Path(url)
      /\ QueryPart(w) = <<>> /\ FragmentPart(w) = FragmentPart(url)
      /\ w.query_start = None
      /\ w.fragment_start = None <=> url.fragment_start = None
  BY WithoutQueryParts
<1>2. Become(v) /\ followed \in BOOLEAN  BY DEF RemoveQuery
<1>3. followed <=> FragmentPart(url) # <<>>  BY DEF FragmentPart, Optional
<1>4. ~followed => w.query_start = None /\ w.fragment_start = None  BY <1>1
<1> HIDE DEF w, followed
<1>5. v = IF followed THEN w ELSE Stripped(w)  OBVIOUS
<1> HIDE DEF v
<1>6. /\ Good(v) /\ ComponentsApart(v) /\ SameFrontParts(url, v)
      /\ d.opaque = c.opaque /\ Path(v) = x
      /\ followed => v = w
      /\ ~followed => QueryPart(v) = <<>> /\ FragmentPart(v) = <<>>
  BY <1>1, <1>2, <1>4, <1>5, DroppedTailRead
<1>7. QueryPart(v) = <<>> /\ FragmentPart(v) = FragmentPart(url)
  BY <1>1, <1>3, <1>6
<1>8. Reads(c, url) /\ Reads(d, v)  BY <1>6, ComponentsRead
<1>9. x = Promise!ShownPath(c.fragment # <<>>)
  BY <1>3, <1>8 DEF Reads, Promise!ShownPath
<1> HIDE DEF c, d, x
<1>10. BothChangedAt(c, d, "query", <<>>, "path", x)
  BY <1>6, <1>7, <1>8 DEF Reads, SameFrontParts, Names, BothChangedAt
<1>11. d = [c EXCEPT !["query"] = <<>>, !["path"] = x]
  BY <1>10, TwoChanged DEF c, d
<1>12. d = [c EXCEPT !.query = <<>>, !.path = x]  BY <1>11
<1>13. /\ Good(url') /\ ComponentsApart(url')
       /\ Promise!Accept([c EXCEPT !.query = <<>>, !.path = x])
  BY <1>2, <1>6, <1>12, BecamePromised DEF d
<1>14. Promise!RemoveQuery <=>
          Promise!Accept([c EXCEPT !.query = <<>>,
                                   !.path = Promise!ShownPath(c.fragment # <<>>)])
  BY DEF Promise!RemoveQuery, c
<1> QED  BY <1>9, <1>13, <1>14

\* set_fragment(None)
LEMMA RemoveFragmentPromised ==
    ASSUME Good(url), ComponentsApart(url), RemoveFragment
    PROVE  Good(url') /\ ComponentsApart(url') /\ Promise!RemoveFragment
<1> DEFINE c == Components(url)
           w == WithoutFragment(url)
           followed == url.query_start # None
           v == IF followed THEN w ELSE Stripped(w)
           d == Components(v)
           x == Promise!ShownPath(followed)
<1>1. /\ Good(w) /\ SameFrontParts(url, w) /\ Path(w) = Path(url)
      /\ QueryPart(w) = QueryPart(url) /\ FragmentPart(w) = <<>>
      /\ w.query_start = url.query_start /\ w.fragment_start = None
  BY WithoutFragmentParts
<1>2. Become(v) /\ followed \in BOOLEAN  BY DEF RemoveFragment
<1>3. followed <=> QueryPart(url) # <<>>  BY DEF QueryPart, Optional
<1>4. ~followed => w.query_start = None /\ w.fragment_start = None  BY <1>1
<1> HIDE DEF w, followed
<1>5. v = IF followed THEN w ELSE Stripped(w)  OBVIOUS
<1> HIDE DEF v
<1>6. /\ Good(v) /\ ComponentsApart(v) /\ SameFrontParts(url, v)
      /\ d.opaque = c.opaque /\ Path(v) = x
      /\ followed => v = w
      /\ ~followed => QueryPart(v) = <<>> /\ FragmentPart(v) = <<>>
  BY <1>1, <1>2, <1>4, <1>5, DroppedTailRead
<1>7. FragmentPart(v) = <<>> /\ QueryPart(v) = QueryPart(url)
  BY <1>1, <1>3, <1>6
<1>8. Reads(c, url) /\ Reads(d, v)  BY <1>6, ComponentsRead
<1>9. x = Promise!ShownPath(c.query # <<>>)
  BY <1>3, <1>8 DEF Reads, Promise!ShownPath
<1> HIDE DEF c, d, x
<1>10. BothChangedAt(c, d, "fragment", <<>>, "path", x)
  BY <1>6, <1>7, <1>8 DEF Reads, SameFrontParts, Names, BothChangedAt
<1>11. d = [c EXCEPT !["fragment"] = <<>>, !["path"] = x]
  BY <1>10, TwoChanged DEF c, d
<1>12. d = [c EXCEPT !.fragment = <<>>, !.path = x]  BY <1>11
<1>13. /\ Good(url') /\ ComponentsApart(url')
       /\ Promise!Accept([c EXCEPT !.fragment = <<>>, !.path = x])
  BY <1>2, <1>6, <1>12, BecamePromised DEF d
<1>14. Promise!RemoveFragment <=>
          Promise!Accept([c EXCEPT !.fragment = <<>>,
                                   !.path = Promise!ShownPath(c.query # <<>>)])
  BY DEF Promise!RemoveFragment, c
<1> QED  BY <1>9, <1>13, <1>14

-----------------------------------------------------------------------------
\* The inductive invariant of careful calls: the layout, and that the
\* components can be told apart, without which a password, a host or a path
\* is read where another component stands.
CarefulInv == Good(url) /\ ComponentsApart(url)

\* Every careful call keeps it, and is a call of UrlComponents.
LEMMA CarefulCallPromised ==
    ASSUME CarefulInv, CarefulCall
    PROVE  CarefulInv' /\ Promise!Next
<1>1. Good(url) /\ ComponentsApart(url)  BY DEF CarefulInv
<1>2. ASSUME NEW s \in Schemes, SafeScheme(url, s), SetScheme(s)
      PROVE  CarefulInv' /\ Promise!Next
  BY <1>1, <1>2, SetSchemePromised DEF CarefulInv, Promise!Next
<1>3. ASSUME NEW n \in Usernames, SetUsername(n)
      PROVE  CarefulInv' /\ Promise!Next
  BY <1>1, <1>3, SetUsernamePromised DEF CarefulInv, Promise!Next
<1>4. ASSUME NEW p \in Passwords, SetPassword(p)
      PROVE  CarefulInv' /\ Promise!Next
  BY <1>1, <1>4, SetPasswordPromised DEF CarefulInv, Promise!Next
<1>5. ASSUME NEW h \in Hosts, SafeHost(url, h), SetHost(h)
      PROVE  CarefulInv' /\ Promise!Next
  BY <1>1, <1>5, SetHostPromised DEF CarefulInv, Promise!Next
<1>6. ASSUME NEW a \in Address, SetIpHost(a)
      PROVE  CarefulInv' /\ Promise!Next
  BY <1>1, <1>6, SetIpHostPromised DEF CarefulInv, Promise!Next
<1>7. ASSUME SafeRemoval(url), RemoveHost
      PROVE  CarefulInv' /\ Promise!Next
  BY <1>1, <1>7, RemoveHostPromised DEF CarefulInv, Promise!Next
<1>8. ASSUME NEW p \in Ports \union {None}, SetPort(p)
      PROVE  CarefulInv' /\ Promise!Next
  BY <1>1, <1>8, SetPortPromised, SameSchemes DEF CarefulInv, Promise!Next
<1>9. ASSUME NEW p \in Paths, SafePath(url, NewPath(url, p)), SetPath(p)
      PROVE  CarefulInv' /\ Promise!Next
  BY <1>1, <1>9, SetPathPromised DEF CarefulInv, Promise!Next
<1>10. ASSUME NEW q \in Queries, SetQuery(q)
       PROVE  CarefulInv' /\ Promise!Next
  BY <1>1, <1>10, SetQueryPromised DEF CarefulInv, Promise!Next
<1>11. ASSUME RemoveQuery PROVE CarefulInv' /\ Promise!Next
  BY <1>1, <1>11, RemoveQueryPromised DEF CarefulInv, Promise!Next
<1>12. ASSUME NEW f \in Fragments, SetFragment(f)
       PROVE  CarefulInv' /\ Promise!Next
  BY <1>1, <1>12, SetFragmentPromised DEF CarefulInv, Promise!Next
<1>13. ASSUME RemoveFragment PROVE CarefulInv' /\ Promise!Next
  BY <1>1, <1>13, RemoveFragmentPromised DEF CarefulInv, Promise!Next
<1> QED
  BY <1>2, <1>3, <1>4, <1>5, <1>6, <1>7, <1>8, <1>9, <1>10, <1>11, <1>12,
     <1>13
  DEF CarefulCall

\* What the parser hands out is laid out and told apart.
LEMMA CarefulStart ==
    ASSUME Init
    PROVE  CarefulInv /\ Promise!Init
<1> DEFINE c == Components(url)
<1>1. Good(url) /\ ComponentsApart(url) /\ ret = "Ok"
  BY InitAssumption DEF Init
<1>2. Reads(c, url)  BY <1>1, ComponentsRead
<1>3. c.opaque => ~IsSpecial(url)
  <2>1. c.opaque <=> cannot_be_a_base(url)  BY DEF Components
  <2> HIDE DEF c
  <2> QED  BY <1>1, <2>1, OpaqueRead
<1>4. /\ TypeOf(url) = SchemeType(c.scheme)
      /\ IsSpecial(url) = IsSpecialType(SchemeType(c.scheme))
      /\ TypeOf(url) = "File" <=> c.scheme = FileScheme
  <2> HIDE DEF c
  <2> QED  BY <1>2 DEF Reads, TypeOf, IsSpecial, SchemeType
<1> HIDE DEF c
<1>5. /\ c.host = <<>> => c.username = <<>> /\ c.password = <<>>
                          /\ c.port = None
      /\ c.port # None => c.port # default_port(c.scheme)
                          /\ c.scheme # FileScheme
      /\ SchemeType(c.scheme) = "SpecialNotFile" => c.host # <<>>
      /\ IsSpecialType(SchemeType(c.scheme)) => ~c.opaque /\ c.path # <<>>
  BY <1>1, <1>2, <1>3, <1>4, ApartListed DEF Reads
<1>6. Promise!Consistent
  BY <1>5, SameSchemes
  DEF Promise!Consistent, Promise!Type, Promise!Special, c
<1> QED  BY <1>1, <1>6 DEF CarefulInv, Promise!Init

\* The value a careful call leaves has the layout the setters rely on and keeps
\* its components apart: together inductive, neither of the two alone.
THEOREM CarefulInvariance == CarefulSpec => []CarefulInv
<1>1. Init => CarefulInv  BY CarefulStart
<1>2. CarefulInv /\ [CarefulCall]_vars => CarefulInv'
  <2>1. CarefulInv /\ UNCHANGED vars => CarefulInv'  BY DEF vars, CarefulInv
  <2> QED  BY <2>1, CarefulCallPromised
<1> QED  BY <1>1, <1>2, PTL DEF CarefulSpec

\* Careful calls never leave components that cannot be told apart: credentials
\* or a port without a host, a network URL without one, a default port, a '/'
\* in a host, a path that is taken for a host.
THEOREM CarefulCallsKeepApart == CarefulSpec => []ComponentsStayApart
<1>1. CarefulInv => ComponentsStayApart  BY DEF CarefulInv, ComponentsStayApart
<1> QED  BY <1>1, CarefulInvariance, PTL

\* Splicing text and moving offsets implements setting components: every
\* careful call changes, of what the accessors show, the component it names
\* and what UrlComponents says goes with it, and refuses what that refuses.
THEOREM SettersImplementComponents == CarefulSpec => ImplementsComponents
<1>1. Init => Promise!Init  BY CarefulStart
<1>2. CarefulInv /\ [CarefulCall]_vars
         => [Promise!Next]_<<Components(url), ret>>
  <2>1. UNCHANGED vars => UNCHANGED <<Components(url), ret>>  BY DEF vars
  <2> QED  BY <2>1, CarefulCallPromised
<1> QED
  BY <1>1, <1>2, CarefulInvariance, PTL
  DEF CarefulSpec, ImplementsComponents, Promise!Spec

\* After every sequence of careful calls, whatever their arguments, the
\* positions are in their order and cut the text where the accessors do.
THEOREM CarefulCallsKeepPositions == CarefulSpec => []PositionsStayRight
<1>1. CarefulInv => PositionsStayRight
  BY PositionsInOrder, RangesRead DEF CarefulInv, PositionsStayRight
<1> QED  BY <1>1, CarefulInvariance, PTL
==============================================================================
