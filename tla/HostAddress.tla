----------------------------- MODULE HostAddress -----------------------------
(****************************************************************************)
(* IPv6 address literals (host.rs): parse_ipv6addr, one action per turn of  *)
(* its loops, and write_ipv6, which gives the text a Url carries for what   *)
(* was parsed.  What is written is parsed again.  An index out of bounds    *)
(* panics; input is what stands between the brackets, character by          *)
(* character, with hexadecimal digits in one case.                          *)
(****************************************************************************)
EXTENDS Integers, Sequences

CONSTANT Inputs     \* the texts that are parsed

VARIABLES
    input,
    i,                  \* the next character
    pieces,             \* the eight groups
    piece_pointer,      \* the group that is read next
    compress_pointer,   \* the group behind the "::", if there was one
    numbers_seen,       \* of a dotted tail
    swaps,              \* the groups behind the "::" that are left to move
    phase,
    address             \* what was first parsed, once it has been written

vars == <<input, i, pieces, piece_pointer, compress_pointer, numbers_seen,
          swaps, phase, address>>

None == -1
Slot == 0..7

\* A group is a u16.
MaxPiece == 65535
Piece    == 0..MaxPiece

Zeros     == [k \in Slot |-> 0]
NoAddress == <<>>

Phases == {"Start", "Pieces", "Dotted", "Shift", "Ok", "Err", "Panic"}

\* The character at k, none behind the end.
At(k) == IF k < Len(input) THEN input[k + 1] ELSE ""

(****************************************************************************)
(* Digits.                                                                  *)
(****************************************************************************)
HexDigits == <<"0", "1", "2", "3", "4", "5", "6", "7", "8", "9",
               "a", "b", "c", "d", "e", "f">>

IsHex(c)     == \E d \in 0..15 : HexDigits[d + 1] = c
IsDecimal(c) == \E d \in 0..9 : HexDigits[d + 1] = c
to_digit(c)  == CHOOSE d \in 0..15 : IsHex(c) => HexDigits[d + 1] = c

\* The digit at k of a number that starts at from.
DigitAt(from, k) == IF from <= k THEN to_digit(At(k)) ELSE 0

\* value = value * 0x10 + digit, over the digits from..to-1.
HexValue(from, to) ==
    4096 * DigitAt(from, to - 4) + 256 * DigitAt(from, to - 3)
        + 16 * DigitAt(from, to - 2) + DigitAt(from, to - 1)

\* value = value * 10 + digit
DecimalValue(from, to) ==
    100 * DigitAt(from, to - 3) + 10 * DigitAt(from, to - 2) + DigitAt(from, to - 1)

\* Up to four digits, as many as there are.
IsHexRun(from, to) ==
    /\ to <= from + 4
    /\ \A k \in from..(to - 1) : IsHex(At(k))
    /\ to = Len(input) \/ to = from + 4 \/ ~IsHex(At(to))

\* Faulty variant of IsNumber: a leading zero is passed over.
IsDigitRun(from, to) ==
    /\ from < to /\ to <= from + 3 /\ DecimalValue(from, to) <= 255
    /\ \A k \in from..(to - 1) : IsDecimal(At(k))
    /\ to = Len(input) \/ ~IsDecimal(At(to))

\* A number of a dotted tail: a byte, without a leading zero.
IsNumber(from, to) ==
    /\ from < to /\ to <= from + 3 /\ DecimalValue(from, to) <= 255
    /\ \A k \in from..(to - 1) : IsDecimal(At(k))
    /\ to = Len(input) \/ ~IsDecimal(At(to))
    /\ At(from) = "0" => to = from + 1

\* {n:x}
HexText(n) ==
    LET digit(k) == HexDigits[((n \div k) % 16) + 1]
    IN  CASE n < 16              -> <<digit(1)>>
          [] 16 <= n /\ n < 256   -> <<digit(16), digit(1)>>
          [] 256 <= n /\ n < 4096 -> <<digit(256), digit(16), digit(1)>>
          [] OTHER                 -> <<digit(4096), digit(256), digit(16), digit(1)>>

(****************************************************************************)
(* write_ipv6.                                                              *)
(****************************************************************************)
\* The groups from start up to end are zero, and there are two at least.
IsZeroRun(p, start, end) == start + 2 <= end /\ \A k \in start..(end - 1) : p[k] = 0

\* longest_zero_run: the first of the longest.
IsLongestZeroRun(p, start, end) ==
    /\ IsZeroRun(p, start, end)
    /\ \A s \in Slot, e \in 0..8 : IsZeroRun(p, s, e) =>
          end - start > e - s \/ (end - start = e - s /\ start <= s)

\* Faulty variant of CompressedZeros: at the front as anywhere else.
SingleColon(start) == <<":">>

\* The ':' of a group in front of the zeros is already there.
CompressedZeros(start) == IF start = 0 THEN <<":", ":">> ELSE <<":">>

\* What one turn of the loop writes for the group k.
GroupText(p, k) ==
    CASE \E e \in 0..8 : IsLongestZeroRun(p, k, e) -> CompressedZeros(k)
      [] \E s \in 0..(k - 1), e \in (k + 1)..8 : IsLongestZeroRun(p, s, e) -> <<>>
      [] OTHER -> HexText(p[k]) \o (IF k < 7 THEN <<":">> ELSE <<>>)

write_ipv6(p) ==
    LET text[k \in 0..8] ==
            IF k = 0 THEN <<>> ELSE text[k - 1] \o GroupText(p, k - 1)
    IN  text[8]

(****************************************************************************)
(* parse_ipv6addr.                                                          *)
(****************************************************************************)
Init ==
    /\ input \in Inputs /\ address = NoAddress
    /\ i = 0 /\ pieces = Zeros /\ piece_pointer = 0 /\ compress_pointer = None
    /\ numbers_seen = 0 /\ swaps = 0 /\ phase = "Start"

\* Return Err(InvalidIpv6Address).
Fail ==
    /\ phase' = "Err"
    /\ UNCHANGED <<input, i, pieces, piece_pointer, compress_pointer,
                   numbers_seen, swaps, address>>

\* Go on in a phase, unless an index was out of bounds.
Continue(indices, next) ==
    phase' = IF indices \subseteq Slot THEN next ELSE "Panic"

LoneColon == Len(input) >= 2 /\ input[1] = ":" /\ input[2] # ":"

Begin ==
    /\ phase = "Start"
    /\ \/ (Len(input) < 2 \/ LoneColon) /\ Fail
       \/ /\ Len(input) >= 2 /\ input[1] # ":"
          /\ phase' = "Pieces"
          /\ UNCHANGED <<input, i, pieces, piece_pointer, compress_pointer,
                         numbers_seen, swaps, address>>
       \/ /\ Len(input) >= 2 /\ input[1] = ":" /\ input[2] = ":"
          /\ phase' = "Pieces" /\ i' = 2 /\ piece_pointer' = 1
          /\ compress_pointer' = 1
          /\ UNCHANGED <<input, pieces, numbers_seen, swaps, address>>

AtPiece == phase = "Pieces" /\ i < Len(input)

TooManyPieces == AtPiece /\ piece_pointer = 8 /\ Fail

\* A ':' in front of a group is the second of two.
Compress ==
    /\ AtPiece /\ piece_pointer # 8 /\ At(i) = ":"
    /\ \/ compress_pointer # None /\ Fail
       \/ /\ compress_pointer = None
          /\ i' = i + 1
          /\ piece_pointer' = piece_pointer + 1
          /\ compress_pointer' = piece_pointer + 1
          /\ UNCHANGED <<input, pieces, numbers_seen, swaps, phase, address>>

\* What may follow a group: nothing, or a ':' that is not the last character.
ClosesPiece(to) == to = Len(input) \/ (At(to) = ":" /\ to + 1 < Len(input))

\* Faulty variant of RoomForDotted: one group is enough.
RoomForOne(pointer) == pointer <= 7

\* A dotted tail fills two groups.
RoomForDotted(pointer) == pointer <= 6

OpensDotted(to) ==
    to < Len(input) /\ At(to) = "." /\ to # i /\ RoomForDotted(piece_pointer)

ReadPiece ==
    /\ AtPiece /\ piece_pointer # 8 /\ At(i) # ":"
    /\ \E to \in i..Len(input) :
          /\ IsHexRun(i, to)
          /\ \/ ~ClosesPiece(to) /\ ~OpensDotted(to) /\ Fail
             \/ /\ OpensDotted(to)
                /\ phase' = "Dotted"
                /\ UNCHANGED <<input, i, pieces, piece_pointer, compress_pointer,
                               numbers_seen, swaps, address>>
             \/ /\ ClosesPiece(to)
                /\ pieces' = [pieces EXCEPT ![piece_pointer] = HexValue(i, to)]
                /\ Continue({piece_pointer}, "Pieces")
                /\ i' = (IF to = Len(input) THEN to ELSE to + 1)
                /\ piece_pointer' = piece_pointer + 1
                /\ UNCHANGED <<input, compress_pointer, numbers_seen, swaps, address>>

\* Numbers but the first follow a '.', of which there are three.
NumberStart == IF numbers_seen = 0 THEN i ELSE i + 1

DotInPlace == numbers_seen = 0 \/ (numbers_seen < 4 /\ At(i) = ".")

ReadNumber ==
    /\ phase = "Dotted" /\ i < Len(input)
    /\ \/ /\ ~(DotInPlace /\ \E to \in i..Len(input) : IsNumber(NumberStart, to))
          /\ Fail
       \/ /\ DotInPlace
          /\ \E to \in i..Len(input) :
                /\ IsNumber(NumberStart, to)
                /\ i' = to
                /\ pieces' = [k \in Slot |->
                      IF k = piece_pointer
                      THEN 256 * pieces[k] + DecimalValue(NumberStart, to)
                      ELSE pieces[k]]
                /\ Continue({piece_pointer}, "Dotted")
          /\ numbers_seen' = numbers_seen + 1
          /\ piece_pointer' = piece_pointer + (numbers_seen % 2)
          /\ UNCHANGED <<input, compress_pointer, swaps, address>>

Incomplete ==
    \/ phase = "Dotted" /\ numbers_seen # 4
    \/ compress_pointer = None /\ piece_pointer # 8

EndOfInput ==
    /\ phase \in {"Pieces", "Dotted"} /\ i = Len(input)
    /\ \/ Incomplete /\ Fail
       \/ /\ ~Incomplete /\ compress_pointer = None /\ phase' = "Ok"
          /\ UNCHANGED <<input, i, pieces, piece_pointer, compress_pointer,
                         numbers_seen, swaps, address>>
       \/ /\ ~Incomplete /\ compress_pointer # None /\ phase' = "Shift"
          /\ swaps' = piece_pointer - compress_pointer
          /\ piece_pointer' = 7
          /\ UNCHANGED <<input, i, pieces, compress_pointer, numbers_seen, address>>

\* Faulty variant of SwapsLeft: the counter stays.
AllSwapsLeft(n) == n

SwapsLeft(n) == n - 1

\* pieces.swap
Swapped(p, a, b) == [k \in Slot |-> IF k = a /\ b \in Slot THEN p[b]
                                    ELSE IF k = b /\ a \in Slot THEN p[a] ELSE p[k]]

\* The groups behind the "::" move to the end, the last one first.
Swap ==
    /\ phase = "Shift" /\ swaps > 0
    /\ pieces' = Swapped(pieces, piece_pointer, compress_pointer + swaps - 1)
    /\ Continue({piece_pointer, compress_pointer + swaps - 1}, "Shift")
    /\ swaps' = SwapsLeft(swaps)
    /\ piece_pointer' = piece_pointer - 1
    /\ UNCHANGED <<input, i, compress_pointer, numbers_seen, address>>

Shifted ==
    /\ phase = "Shift" /\ swaps = 0 /\ phase' = "Ok"
    /\ UNCHANGED <<input, i, pieces, piece_pointer, compress_pointer,
                   numbers_seen, swaps, address>>

\* The address is written, and what is written parsed.
Display ==
    /\ phase = "Ok" /\ address = NoAddress
    /\ address' = pieces /\ input' = write_ipv6(pieces)
    /\ i' = 0 /\ pieces' = Zeros /\ piece_pointer' = 0 /\ compress_pointer' = None
    /\ numbers_seen' = 0 /\ swaps' = 0 /\ phase' = "Start"

Next ==
    \/ Begin \/ TooManyPieces \/ Compress \/ ReadPiece \/ ReadNumber
    \/ EndOfInput \/ Swap \/ Shifted \/ Display

\* The caller waits for the parser, and nothing else holds it up.
Spec == Init /\ [][Next]_vars /\ WF_vars(Next)

(****************************************************************************)
(* Properties.                                                              *)
(****************************************************************************)
\* No arithmetic of the parser overflows a group or a pointer, and no text
\* makes it index the groups out of bounds.
IndexInBounds ==
    /\ phase \in Phases \ {"Panic"}
    /\ pieces \in [Slot -> Piece]
    /\ piece_pointer \in 0..8
    /\ compress_pointer \in {None} \union 1..8
    /\ swaps \in Slot

\* The text written for an address is read as this address.
WriteReads ==
    address # NoAddress =>
        phase # "Err" /\ (phase = "Ok" => pieces = address)

\* Every text is accepted or refused.
Terminates == <>[](phase \in {"Ok", "Err"})
==============================================================================
