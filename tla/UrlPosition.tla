----------------------------- MODULE UrlPosition -----------------------------
(****************************************************************************)
(* Position (position.rs): the sixteen places of a serialization a range of *)
(* a Url may start or end at, computed from the offsets independently of    *)
(* the accessors.                                                           *)
(****************************************************************************)
EXTENDS UrlRecord

\* Position, in the order the variants are declared.
Positions == <<"BeforeScheme",   "AfterScheme",
               "BeforeUsername", "AfterUsername",
               "BeforePassword", "AfterPassword",
               "BeforeHost",     "AfterHost",
               "BeforePort",     "AfterPort",
               "BeforePath",     "AfterPath",
               "BeforeQuery",    "AfterQuery",
               "BeforeFragment", "AfterFragment">>

\* Faulty variant of count_digits: it counts the divisions by ten.
CountDivisions(n) == Len(Decimal(n)) - 1

count_digits(n) == Len(Decimal(n))

AroundPassword == {"BeforePassword", "AfterPassword"}

\* Looking for a password's ':' indexes the serialization unchecked.
PositionPanics(u, position) ==
    /\ position \in AroundPassword
    /\ has_authority(u)
    /\ u.username_end >= Len(u.ser)

position_index(u, position) ==
    LET colon == has_authority(u) /\ HasByte(u.ser, u.username_end, ":")
    IN  CASE position = "BeforeScheme"   -> 0
          [] position = "AfterScheme"    -> u.scheme_end
          [] position = "BeforeUsername" ->
                u.scheme_end + (IF has_authority(u) THEN 3 ELSE 1)
          [] position = "AfterUsername"  -> u.username_end
          [] position = "BeforePassword" ->
                u.username_end + (IF colon THEN 1 ELSE 0)
          [] position = "AfterPassword"  ->
                u.host_start - (IF colon THEN 1 ELSE 0)
          [] position = "BeforeHost"     -> u.host_start
          [] position = "AfterHost"      -> u.host_end
          [] position = "BeforePort"     ->
                u.host_end + (IF u.port # None THEN 1 ELSE 0)
          [] position = "AfterPort"      ->
                u.host_end + (IF u.port # None THEN 1 + count_digits(u.port) ELSE 0)
          [] position = "BeforePath"     -> u.path_start
          [] position = "AfterPath"      -> PathEnd(u)
          [] position = "BeforeQuery"    ->
                PathEnd(u) + (IF u.query_start # None THEN 1 ELSE 0)
          [] position = "AfterQuery"     -> QueryEnd(u)
          [] position = "BeforeFragment" ->
                QueryEnd(u) + (IF u.fragment_start # None THEN 1 ELSE 0)
          [] position = "AfterFragment"  -> Len(u.ser)

\* &url[from..to]
Between(u, from, to) ==
    Slice(u.ser, position_index(u, from), position_index(u, to))

\* The positions that can be computed stand in the order they are declared in.
Placed(u) == {i \in DOMAIN Positions : ~PositionPanics(u, Positions[i])}

PositionsOrdered(u) ==
    \A i, j \in Placed(u) :
        i <= j => position_index(u, Positions[i]) <= position_index(u, Positions[j])

\* A URL with an authority and no password, which therefore ends with its
\* username or has an '@' behind it: see AbsentCoincides in UrlNavigation.
UsernameAlone(u) ==
    has_authority(u) /\ ~HasPassword(u)
    /\ (u.username_end = Len(u.ser) \/ HasByte(u.ser, u.username_end, "@"))

\* What stands between the positions of a component is what its accessor
\* returns.
RangesAgree(u) ==
    /\ Between(u, "BeforeScheme", "AfterScheme") = Scheme(u)
    /\ Between(u, "BeforeUsername", "AfterUsername") = Username(u)
    /\ ~UsernameAlone(u) =>
          Between(u, "BeforePassword", "AfterPassword") = Password(u)
    /\ Between(u, "BeforeHost", "AfterHost") = HostText(u)
    /\ Between(u, "BeforePort", "AfterPort") =
          (IF u.port = None THEN <<>> ELSE Decimal(u.port))
    /\ Between(u, "BeforePath", "AfterPath") = Path(u)
    /\ Between(u, "BeforeQuery", "AfterQuery") = Query(u)
    /\ Between(u, "BeforeFragment", "AfterFragment") = Fragment(u)
==============================================================================
