----------------------------- MODULE HostMeaning -----------------------------
(****************************************************************************)
(* What an IPv6 address literal means, without reading it from left to      *)
(* right: two lists of groups around at most one "::", eight groups in all. *)
(* The parser of HostAddress is held against it.                            *)
(****************************************************************************)
EXTENDS HostAddress, SequencesExt

\* The texts between the marks.
SplitAt(text, mark) ==
    FoldLeft(LAMBDA parts, c :
                 IF c = mark THEN Append(parts, <<>>)
                 ELSE Front(parts) \o <<Append(Last(parts), c)>>,
             << <<>> >>, text)

\* The number a text stands for in a base, as positional notation has it.
Positional(text, base) ==
    FoldLeft(LAMBDA n, c : base * n + to_digit(c), 0, text)

IsGroup(text) == Len(text) \in 1..4 /\ \A k \in 1..Len(text) : IsHex(text[k])

IsByte(text) ==
    /\ Len(text) \in 1..3 /\ \A k \in 1..Len(text) : IsDecimal(text[k])
    /\ Len(text) > 1 => text[1] # "0"
    /\ Positional(text, 10) <= 255

IsDotted(text) ==
    LET bytes == SplitAt(text, ".")
    IN  Len(bytes) = 4 /\ \A k \in 1..4 : IsByte(bytes[k])

DottedGroups(text) ==
    LET byte == [k \in 1..4 |-> Positional(SplitAt(text, ".")[k], 10)]
    IN  <<256 * byte[1] + byte[2], 256 * byte[3] + byte[4]>>

Values(groups) == [k \in 1..Len(groups) |-> Positional(groups[k], 16)]

\* The lists of numbers a text of groups stands for: one or none.  Only the
\* last of all groups may be dotted.
GroupLists(text, isLast) ==
    LET groups == SplitAt(text, ":")
    IN  IF text = <<>> THEN { <<>> }
        ELSE IF \E k \in 1..(Len(groups) - 1) : ~IsGroup(groups[k]) THEN {}
        ELSE IF IsGroup(Last(groups)) THEN {Values(groups)}
        ELSE IF isLast /\ IsDotted(Last(groups))
        THEN {Values(Front(groups)) \o DottedGroups(Last(groups))}
        ELSE {}

\* The addresses a text stands for: one or none.
Meaning(text) ==
    {[k \in Slot |-> all[k + 1]] :
        all \in {g \in GroupLists(text, TRUE) : Len(g) = 8}}
    \union
    UNION { LET before == GroupLists(SubSeq(text, 1, k - 1), FALSE)
                behind == GroupLists(SubSeq(text, k + 2, Len(text)), TRUE)
            IN  { [j \in Slot |->
                     CASE j < Len(b) -> b[j + 1]
                       [] j >= 8 - Len(e) -> e[j - 7 + Len(e)]
                       [] OTHER -> 0] :
                  <<b, e>> \in {pair \in before \X behind :
                                  Len(pair[1]) + Len(pair[2]) <= 7} } :
            k \in {k \in 1..(Len(text) - 1) : text[k] = ":" /\ text[k + 1] = ":"} }

\* The parser accepts the texts that have a meaning and no other, and gives
\* what they mean: with "::" in front, behind, between or standing for one
\* group, with a dotted tail, too few and too many groups, and wherever the
\* groups end up that it moves.
ReadsAsMeant ==
    /\ phase = "Ok"  => Meaning(input) = {pieces}
    /\ phase = "Err" => Meaning(input) = {}
==============================================================================
