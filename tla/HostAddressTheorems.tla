-------------------------- MODULE HostAddressTheorems --------------------------
(****************************************************************************)
(* No text makes parse_ipv6addr index its eight groups out of bounds or     *)
(* overflow one of them: IndexInBounds for any set of inputs.  The parser   *)
(* never checks most of these bounds; they follow from what it has read.    *)
(* What write_ipv6 writes for an address is read as this address.           *)
(****************************************************************************)
EXTENDS HostAddress, SequenceTheorems, TLAPS

(****************************************************************************)
(* The inductive invariant: what the loops know of their pointers.          *)
(****************************************************************************)
\* Groups that were not read yet are zero.
ZeroFrom(pointer) == \A k \in Slot : pointer <= k => pieces[k] = 0

\* In the first loop "::" stands in front of the pointer.
PiecesInv ==
    phase = "Pieces" =>
        /\ numbers_seen = 0
        /\ ZeroFrom(piece_pointer)
        /\ compress_pointer <= piece_pointer

\* In the second loop every two numbers fill one of the two groups there is
\* room for; an odd number stands in its group alone.
DottedInv ==
    phase = "Dotted" =>
        /\ numbers_seen \in 0..4
        /\ piece_pointer <= 6 + (numbers_seen \div 2)
        /\ numbers_seen % 2 = 0 => ZeroFrom(piece_pointer)
        /\ numbers_seen % 2 = 1 =>
              ZeroFrom(piece_pointer + 1)
              /\ \A k \in Slot : k = piece_pointer => pieces[k] <= 255
        /\ compress_pointer <= piece_pointer

\* Both groups of a swap are in bounds until none is left.
ShiftInv ==
    phase = "Shift" =>
        /\ compress_pointer \in 1..8
        /\ swaps <= piece_pointer
        /\ piece_pointer <= 7
        /\ compress_pointer + swaps <= 8

StartInv ==
    phase = "Start" =>
        /\ numbers_seen = 0 /\ piece_pointer = 0 /\ compress_pointer = None
        /\ pieces = Zeros

PointerInv == IndexInBounds /\ StartInv /\ PiecesInv /\ DottedInv /\ ShiftInv

(****************************************************************************)
(* Numbers stay in a group.                                                 *)
(****************************************************************************)
\* A digit of either base is one of sixteen.
LEMMA DigitRange == \A from, k : DigitAt(from, k) \in 0..15
<1>1. ASSUME NEW c PROVE to_digit(c) \in 0..15
  <2>1. \E d \in 0..15 : IsHex(c) => HexDigits[d + 1] = c
    BY DEF IsHex
  <2> QED
    BY <2>1 DEF to_digit
<1> QED
  BY <1>1 DEF DigitAt

\* What a group can hold, as bounds.
LEMMA InPiece == \A n \in Int : 0 <= n /\ n <= MaxPiece <=> n \in Piece
<1>1. MaxPiece \in Int
  BY DEF MaxPiece
<1> QED
  BY <1>1 DEF Piece

\* Groups that were not read are groups, and zero.
LEMMA ZerosFacts == Zeros \in [Slot -> Piece] /\ \A k \in Slot : Zeros[k] = 0
<1>1. 0 \in Piece
  BY InPiece DEF MaxPiece
<1>2. \A k \in Slot : Zeros[k] = 0
  BY DEF Zeros
<1> QED
  BY <1>1, <1>2 DEF Zeros

\* Four digits of base sixteen are a u16.
LEMMA HexRange == \A from, to : HexValue(from, to) \in Piece
<1> TAKE from, to
<1> DEFINE a == DigitAt(from, to - 4)
           b == DigitAt(from, to - 3)
           c == DigitAt(from, to - 2)
           d == DigitAt(from, to - 1)
<1>1. a \in 0..15 /\ b \in 0..15 /\ c \in 0..15 /\ d \in 0..15
  BY DigitRange
<1>2. HexValue(from, to) = 4096 * a + 256 * b + 16 * c + d
  BY DEF HexValue
<1> HIDE DEF a, b, c, d
<1>3. /\ HexValue(from, to) \in Int
      /\ 0 <= HexValue(from, to) /\ HexValue(from, to) <= MaxPiece
  BY <1>1, <1>2 DEF MaxPiece
<1> QED
  BY <1>3, InPiece

\* A number of a dotted tail is a byte.
LEMMA NumberRange ==
    \A from, to : IsNumber(from, to) => DecimalValue(from, to) \in 0..255
<1> SUFFICES ASSUME NEW from, NEW to, IsNumber(from, to)
             PROVE  DecimalValue(from, to) \in 0..255
  OBVIOUS
<1> DEFINE b == DigitAt(from, to - 3)
           c == DigitAt(from, to - 2)
           d == DigitAt(from, to - 1)
<1>1. b \in 0..15 /\ c \in 0..15 /\ d \in 0..15
  BY DigitRange
<1>2. DecimalValue(from, to) = 100 * b + 10 * c + d
  BY DEF DecimalValue
<1>3. DecimalValue(from, to) <= 255
  BY DEF IsNumber
<1> HIDE DEF b, c, d
<1> QED
  BY <1>1, <1>2, <1>3

(****************************************************************************)
(* The invariant is inductive.                                              *)
(****************************************************************************)
\* Everything is zero before the first character.
LEMMA InitPointers == Init => PointerInv
<1> SUFFICES ASSUME Init PROVE PointerInv
  OBVIOUS
<1>1. phase = "Start" /\ pieces = Zeros /\ piece_pointer = 0
      /\ compress_pointer = None /\ numbers_seen = 0 /\ swaps = 0
  BY DEF Init
<1>2. 0 \in Slot
  BY DEF Slot
<1>3. pieces \in [Slot -> Piece]
  BY <1>1, ZerosFacts
<1>4. IndexInBounds
  BY <1>1, <1>2, <1>3 DEF IndexInBounds, Phases
<1>5. StartInv /\ PiecesInv /\ DottedInv /\ ShiftInv
  BY <1>1 DEF StartInv, PiecesInv, DottedInv, ShiftInv
<1> QED
  BY <1>4, <1>5 DEF PointerInv

\* Where a call ends nothing is indexed any more.
LEMMA FailKeeps == PointerInv /\ Fail => PointerInv'
BY DEF Fail, PointerInv, IndexInBounds, StartInv, PiecesInv, DottedInv, ShiftInv,
       Phases

\* Behind a first "::" one group is left out.
LEMMA BeginKeeps == PointerInv /\ Begin => PointerInv'
<1> SUFFICES ASSUME PointerInv, Begin PROVE PointerInv'
  OBVIOUS
<1>1. CASE Fail
  BY <1>1, FailKeeps
<1>2. CASE ~Fail
  <2>1. /\ pieces = Zeros /\ numbers_seen = 0 /\ swaps \in Slot
        /\ UNCHANGED <<pieces, numbers_seen, swaps>> /\ phase' = "Pieces"
        /\ \/ piece_pointer' = 0 /\ compress_pointer' = None
           \/ piece_pointer' = 1 /\ compress_pointer' = 1
    BY <1>2 DEF Begin, PointerInv, IndexInBounds, StartInv
  <2>2. pieces' \in [Slot -> Piece] /\ \A k \in Slot : pieces'[k] = 0
    BY <2>1, ZerosFacts
  <2> QED
    BY <2>1, <2>2 DEF PointerInv, IndexInBounds, StartInv, PiecesInv, DottedInv,
                      ShiftInv, ZeroFrom, Phases, None
<1> QED
  BY <1>1, <1>2

\* "::" takes the place of a group, of which there is one left.
LEMMA CompressKeeps == PointerInv /\ Compress => PointerInv'
<1> SUFFICES ASSUME PointerInv, Compress PROVE PointerInv'
  OBVIOUS
<1>1. CASE Fail
  BY <1>1, FailKeeps
<1>2. CASE ~Fail
  <2>1. /\ phase = "Pieces" /\ piece_pointer \in Slot
        /\ piece_pointer' = piece_pointer + 1
        /\ compress_pointer' = piece_pointer + 1
        /\ UNCHANGED <<pieces, numbers_seen, swaps, phase>>
    BY <1>2 DEF Compress, AtPiece, PointerInv, IndexInBounds, Slot
  <2>2. ZeroFrom(piece_pointer)'
    BY <2>1 DEF PointerInv, PiecesInv, ZeroFrom, Slot
  <2> QED
    BY <2>1, <2>2 DEF PointerInv, IndexInBounds, StartInv, PiecesInv, DottedInv,
                      ShiftInv, Slot
<1> QED
  BY <1>1, <1>2

\* A group is stored at a pointer that is not 8; a dotted tail finds room.
LEMMA ReadPieceKeeps == PointerInv /\ ReadPiece => PointerInv'
<1> SUFFICES ASSUME PointerInv, ReadPiece PROVE PointerInv'
  OBVIOUS
<1>1. CASE Fail
  BY <1>1, FailKeeps
<1>2. ASSUME NEW to, OpensDotted(to), phase' = "Dotted",
             UNCHANGED <<input, i, pieces, piece_pointer, compress_pointer,
                         numbers_seen, swaps, address>>
      PROVE  PointerInv'
  BY <1>2 DEF ReadPiece, AtPiece, OpensDotted, RoomForDotted, PointerInv,
              IndexInBounds, StartInv, PiecesInv, DottedInv, ShiftInv, ZeroFrom,
              Phases, Slot
<1>3. ASSUME NEW to,
             pieces' = [pieces EXCEPT ![piece_pointer] = HexValue(i, to)],
             Continue({piece_pointer}, "Pieces"),
             piece_pointer' = piece_pointer + 1,
             UNCHANGED <<input, compress_pointer, numbers_seen, swaps, address>>
      PROVE  PointerInv'
  <2>1. piece_pointer \in Slot /\ phase = "Pieces"
    BY DEF ReadPiece, AtPiece, PointerInv, IndexInBounds, Slot
  <2>2. phase' = "Pieces"
    BY <1>3, <2>1 DEF Continue
  <2>3. HexValue(i, to) \in Piece
    BY HexRange
  <2>4. IndexInBounds'
    BY <1>3, <2>1, <2>2, <2>3 DEF PointerInv, IndexInBounds, PiecesInv, Phases, Slot
  <2>5. PiecesInv'
    BY <1>3, <2>1, <2>2 DEF PointerInv, IndexInBounds, PiecesInv, ZeroFrom, Slot, None
  <2> QED
    BY <2>2, <2>4, <2>5 DEF PointerInv, StartInv, DottedInv, ShiftInv
<1> QED
  BY <1>1, <1>2, <1>3 DEF ReadPiece

\* The second number of a group joins one that is a byte.
LEMMA ReadNumberKeeps == PointerInv /\ ReadNumber => PointerInv'
<1> SUFFICES ASSUME PointerInv, ReadNumber, ~Fail PROVE PointerInv'
  BY FailKeeps
<1>1. PICK to : /\ IsNumber(NumberStart, to)
                /\ pieces' = [k \in Slot |->
                      IF k = piece_pointer
                      THEN 256 * pieces[k] + DecimalValue(NumberStart, to)
                      ELSE pieces[k]]
                /\ Continue({piece_pointer}, "Dotted")
  BY DEF ReadNumber
<1> DEFINE v == DecimalValue(NumberStart, to)
<1>2. v \in 0..255
  BY <1>1, NumberRange
<1>3. /\ phase = "Dotted" /\ numbers_seen \in 0..3
      /\ numbers_seen' = numbers_seen + 1
      /\ piece_pointer' = piece_pointer + (numbers_seen % 2)
      /\ UNCHANGED <<compress_pointer, swaps>>
  BY DEF ReadNumber, DotInPlace, PointerInv, DottedInv
<1>4. piece_pointer \in Slot
  BY <1>3 DEF PointerInv, IndexInBounds, DottedInv, Slot
<1>5. phase' = "Dotted"
  BY <1>1, <1>4 DEF Continue
<1>6. pieces[piece_pointer] \in 0..255 /\ pieces \in [Slot -> Piece]
  <2>1. pieces \in [Slot -> Piece] /\ pieces[piece_pointer] \in Piece
    BY <1>4 DEF PointerInv, IndexInBounds
  <2>2. CASE numbers_seen % 2 = 0
    BY <1>3, <1>4, <2>1, <2>2 DEF PointerInv, DottedInv, ZeroFrom, Slot
  <2>3. CASE numbers_seen % 2 = 1
    <3>1. pieces[piece_pointer] \in Nat
      BY <2>1 DEF Piece
    <3> QED
      BY <1>3, <1>4, <2>1, <2>3, <3>1 DEF PointerInv, DottedInv
  <2> QED
    BY <1>3, <2>1, <2>2, <2>3
<1>7. /\ pieces'[piece_pointer] = 256 * pieces[piece_pointer] + v
      /\ \A k \in Slot : k # piece_pointer => pieces'[k] = pieces[k]
  BY <1>1, <1>4
<1> HIDE DEF v
<1>8. pieces'[piece_pointer] \in Piece
  <2>1. 256 * pieces[piece_pointer] + v \in 0..MaxPiece
    <3> DEFINE n == 256 * pieces[piece_pointer] + v
    <3>1. n \in Int /\ 0 <= n /\ n <= MaxPiece
      <4> DEFINE w == pieces[piece_pointer]
      <4>1. w \in 0..255  BY <1>6
      <4> HIDE DEF w
      <4>2. 256 * w + v \in Int /\ 0 <= 256 * w + v /\ 256 * w + v <= 65535
        BY <1>2, <4>1
      <4> QED  BY <4>2 DEF MaxPiece, w
    <3> QED
      BY <3>1, InPiece DEF Piece
  <2> QED
    BY <1>7, <2>1 DEF Piece
<1>9. pieces' \in [Slot -> Piece]
  <2>1. \A k \in Slot : pieces'[k] \in Piece
    BY <1>6, <1>7, <1>8
  <2>2. pieces' = [k \in Slot |-> pieces'[k]]
    BY <1>1
  <2> QED
    BY <2>1, <2>2
<1>10. piece_pointer' \in 0..8
  BY <1>3, <1>4 DEF Slot
<1>11. IndexInBounds'
  BY <1>3, <1>5, <1>9, <1>10 DEF PointerInv, IndexInBounds, Phases
<1>12. DottedInv'
  <2>1. CASE numbers_seen % 2 = 0
    <3>1. piece_pointer' = piece_pointer /\ numbers_seen' % 2 = 1
          /\ numbers_seen' \div 2 = numbers_seen \div 2
      BY <1>3, <1>4, <2>1 DEF Slot
    <3>2. pieces'[piece_pointer] <= 255 /\ ZeroFrom(piece_pointer + 1)'
      BY <1>2, <1>3, <1>4, <1>7, <2>1, <3>1 DEF PointerInv, DottedInv, ZeroFrom, Slot
    <3> QED
      BY <1>3, <1>4, <3>1, <3>2 DEF PointerInv, DottedInv, Slot
  <2>2. CASE numbers_seen % 2 = 1
    <3>1. piece_pointer' = piece_pointer + 1 /\ numbers_seen' % 2 = 0
          /\ numbers_seen' \div 2 = (numbers_seen \div 2) + 1
      BY <1>3, <1>4, <2>2 DEF Slot
    <3>2. ZeroFrom(piece_pointer)'
      BY <1>3, <1>4, <1>7, <2>2, <3>1 DEF PointerInv, DottedInv, ZeroFrom, Slot
    <3>3. compress_pointer \in Int
      BY DEF PointerInv, IndexInBounds, None
    <3> QED
      BY <1>3, <1>4, <3>1, <3>2, <3>3 DEF PointerInv, DottedInv, Slot
  <2> QED
    BY <1>3, <2>1, <2>2
<1> QED
  BY <1>5, <1>11, <1>12 DEF PointerInv, StartInv, PiecesInv, ShiftInv

\* At most seven groups are behind "::", and they fit behind it.
LEMMA EndOfInputKeeps == PointerInv /\ EndOfInput => PointerInv'
<1> SUFFICES ASSUME PointerInv, EndOfInput, ~Fail PROVE PointerInv'
  BY FailKeeps
<1>1. CASE phase' = "Ok"
  BY <1>1 DEF EndOfInput, PointerInv, IndexInBounds, StartInv, PiecesInv, DottedInv,
              ShiftInv, Phases
<1>2. CASE phase' # "Ok"
  <2>1. /\ phase' = "Shift" /\ compress_pointer # None
        /\ swaps' = piece_pointer - compress_pointer /\ piece_pointer' = 7
        /\ UNCHANGED <<pieces, compress_pointer>>
    BY <1>2 DEF EndOfInput
  <2>2. compress_pointer \in 1..8 /\ piece_pointer \in 0..8
        /\ compress_pointer <= piece_pointer /\ pieces' \in [Slot -> Piece]
    BY <2>1 DEF EndOfInput, PointerInv, IndexInBounds, PiecesInv, DottedInv
  <2> QED
    BY <2>1, <2>2 DEF PointerInv, IndexInBounds, StartInv, PiecesInv, DottedInv,
                      ShiftInv, Phases, Slot
<1> QED
  BY <1>1, <1>2

\* A swap moves both pointers down together.
LEMMA SwapKeeps == PointerInv /\ Swap => PointerInv'
<1> SUFFICES ASSUME PointerInv, Swap PROVE PointerInv'
  OBVIOUS
<1> DEFINE source == compress_pointer + swaps - 1
<1>1. piece_pointer \in Slot /\ source \in Slot
  BY DEF Swap, PointerInv, IndexInBounds, ShiftInv, Slot
<1>2. phase' = "Shift"
  BY <1>1 DEF Swap, Continue
<1>3. pieces' \in [Slot -> Piece]
  BY <1>1 DEF Swap, Swapped, PointerInv, IndexInBounds
<1> QED
  BY <1>1, <1>2, <1>3 DEF Swap, SwapsLeft, PointerInv, IndexInBounds, StartInv,
                          PiecesInv, DottedInv, ShiftInv, Phases, Slot

\* Every step keeps the invariant.
LEMMA StepKeepsPointers == PointerInv /\ [Next]_vars => PointerInv'
<1> SUFFICES ASSUME PointerInv, [Next]_vars PROVE PointerInv'
  OBVIOUS
<1>1. CASE Begin
  BY <1>1, BeginKeeps
<1>2. CASE TooManyPieces
  BY <1>2, FailKeeps DEF TooManyPieces
<1>3. CASE Compress
  BY <1>3, CompressKeeps
<1>4. CASE ReadPiece
  BY <1>4, ReadPieceKeeps
<1>5. CASE ReadNumber
  BY <1>5, ReadNumberKeeps
<1>6. CASE EndOfInput
  BY <1>6, EndOfInputKeeps
<1>7. CASE Swap
  BY <1>7, SwapKeeps
<1>8. CASE Shifted
  BY <1>8 DEF Shifted, PointerInv, IndexInBounds, StartInv, PiecesInv, DottedInv,
              ShiftInv, Phases
<1>9. CASE Display
  <2>1. /\ pieces' = Zeros /\ piece_pointer' = 0 /\ compress_pointer' = None
        /\ numbers_seen' = 0 /\ swaps' = 0 /\ phase' = "Start"
    BY <1>9 DEF Display
  <2>2. Zeros \in [Slot -> Piece]
    BY DEF Zeros, Piece, MaxPiece
  <2> QED
    BY <2>1, <2>2 DEF PointerInv, IndexInBounds, StartInv, PiecesInv, DottedInv,
                      ShiftInv, Phases, Slot
<1>10. CASE UNCHANGED vars
  BY <1>10 DEF vars, PointerInv, IndexInBounds, StartInv, PiecesInv, DottedInv,
               ShiftInv, ZeroFrom
<1> QED
  BY <1>1, <1>2, <1>3, <1>4, <1>5, <1>6, <1>7, <1>8, <1>9, <1>10 DEF Next

\* Whatever texts are parsed, and written and parsed again, no index of the
\* parser is out of bounds, and no group or pointer overflows.
THEOREM AddressNeverOverruns == Spec => []IndexInBounds
<1>1. PointerInv => IndexInBounds
  BY DEF PointerInv
<1> QED
  BY <1>1, InitPointers, StepKeepsPointers, PTL DEF Spec

(****************************************************************************)
(* What is written for an address is read as this address.                  *)
(****************************************************************************)
\* The characters that are written.
Char == {":"} \union {HexDigits[d + 1] : d \in 0..15}

\* What write_ipv6 has written in front of each group.
WrittenUpTo(p) ==
    LET text[k \in 0..8] ==
            IF k = 0 THEN <<>> ELSE text[k - 1] \o GroupText(p, k - 1)
    IN  text

\* Where the text of a group starts.
StartOf(p, k) == Len(WrittenUpTo(p)[k])

\* The zeros from start up to end are left out.
Omits(p, start, end) ==
    start \in Slot /\ end \in 0..8 /\ IsLongestZeroRun(p, start, end)

\* The groups in front of g are read, which all stand in front of the "::".
ReadsBefore(p, g) ==
    /\ i = StartOf(p, g) /\ piece_pointer = g /\ compress_pointer = None
    /\ \A start, end \in 0..8 : Omits(p, start, end) => g <= start /\ start > 0
    /\ \A k \in Slot : pieces[k] = IF k < g THEN p[k] ELSE 0

\* The groups in front of g are read, and g is behind the "::".
ReadsBehind(p, start, end, g) ==
    /\ Omits(p, start, end) /\ end <= g
    /\ i = StartOf(p, g) /\ compress_pointer = start + 1
    /\ piece_pointer = (start + 1) + (g - end)
    /\ \A k \in Slot : pieces[k] = IF k <= start THEN p[k]
                                   ELSE IF k <= start + (g - end)
                                   THEN p[((k - start) - 1) + end] ELSE 0

\* The groups behind the "::" that are not moved yet follow it.
Moves(p, start, end) ==
    /\ Omits(p, start, end)
    /\ compress_pointer = start + 1 /\ swaps <= 8 - end
    /\ piece_pointer = (end - 1) + swaps
    /\ \A k \in Slot : pieces[k] = IF k <= start \/ end + swaps <= k THEN p[k]
                                   ELSE IF k <= start + swaps
                                   THEN p[((k - start) - 1) + end] ELSE 0

\* The text is that of an address.
Reads(p) == p \in [Slot -> Piece] /\ input = write_ipv6(p)

\* Wherever the parser is in this text, the groups it has read are those of
\* the address.
ReadSoFar(p) ==
    \/ phase = "Start" /\ i = 0
    \/ phase = "Pieces" /\ \E g \in 0..8 : ReadsBefore(p, g)
    \/ phase = "Pieces" /\ \E start, end, g \in 0..8 : ReadsBehind(p, start, end, g)
    \/ phase = "Shift" /\ \E start, end \in 0..8 : Moves(p, start, end)
    \/ phase = "Ok" /\ pieces = p

ReadInv == address # NoAddress => Reads(address) /\ ReadSoFar(address)

\* What holds in front of the first group and is kept by every group holds
\* up to the end.
LEMMA UpToEight ==
    ASSUME NEW S, 0 \in S, \A k \in Slot : k \in S => k + 1 \in S
    PROVE  \A k \in 0..8 : k \in S
<1>1. 1 \in S /\ 2 \in S /\ 3 \in S /\ 4 \in S
  BY DEF Slot
<1>2. 5 \in S /\ 6 \in S /\ 7 \in S /\ 8 \in S
  BY <1>1 DEF Slot
<1> QED
  BY <1>1, <1>2

\* The sixteen digits are different, and none of them is a mark.
LEMMA DigitsDiffer ==
    /\ \A d \in 0..15 : HexDigits[d + 1] \in Char \ {":", "."}
    /\ \A d, e \in 0..15 : HexDigits[d + 1] = HexDigits[e + 1] => d = e
<1>1. \A d \in 0..15 : HexDigits[d + 1] \notin {":", "."}
  BY DEF HexDigits
<1>2. \A d, e \in 0..15 : HexDigits[d + 1] = HexDigits[e + 1] => d = e
  <2> DEFINE h == HexDigits
             value(c) == CASE c = "0" -> 0 [] c = "1" -> 1 [] c = "2" -> 2 [] c = "3" -> 3
                           [] c = "4" -> 4 [] c = "5" -> 5 [] c = "6" -> 6 [] c = "7" -> 7
                           [] c = "8" -> 8 [] c = "9" -> 9 [] c = "a" -> 10
                           [] c = "b" -> 11 [] c = "c" -> 12 [] c = "d" -> 13
                           [] c = "e" -> 14 [] OTHER -> 15
  <2>1. /\ h[1] = "0" /\ h[2] = "1" /\ h[3] = "2" /\ h[4] = "3" /\ h[5] = "4"
        /\ h[6] = "5" /\ h[7] = "6" /\ h[8] = "7" /\ h[9] = "8" /\ h[10] = "9"
        /\ h[11] = "a" /\ h[12] = "b" /\ h[13] = "c" /\ h[14] = "d" /\ h[15] = "e"
        /\ h[16] = "f"
    BY DEF HexDigits
  <2> HIDE DEF h
  <2>2. /\ value(h[0 + 1]) = 0 /\ value(h[1 + 1]) = 1 /\ value(h[2 + 1]) = 2
        /\ value(h[3 + 1]) = 3 /\ value(h[4 + 1]) = 4 /\ value(h[5 + 1]) = 5
        /\ value(h[6 + 1]) = 6 /\ value(h[7 + 1]) = 7
    BY <2>1
  <2>3. /\ value(h[8 + 1]) = 8 /\ value(h[9 + 1]) = 9 /\ value(h[10 + 1]) = 10
        /\ value(h[11 + 1]) = 11 /\ value(h[12 + 1]) = 12 /\ value(h[13 + 1]) = 13
        /\ value(h[14 + 1]) = 14 /\ value(h[15 + 1]) = 15
    BY <2>1
  <2> HIDE DEF value
  <2>4. \A d \in 0..15 : value(h[d + 1]) = d
    BY <2>2, <2>3
  <2> QED
    BY <2>4 DEF h
<1> QED
  BY <1>1, <1>2 DEF Char

\* A digit stands for its place among them.
LEMMA DigitMeans ==
    \A d \in 0..15 : IsHex(HexDigits[d + 1]) /\ to_digit(HexDigits[d + 1]) = d
<1> TAKE d \in 0..15
<1> DEFINE c == HexDigits[d + 1]
<1>1. IsHex(c)
  BY DEF IsHex
<1>2. HexDigits[to_digit(c) + 1] = c /\ to_digit(c) \in 0..15
  <2> HIDE DEF c
  <2>1. \E e \in 0..15 : IsHex(c) => HexDigits[e + 1] = c
    BY DEF IsHex
  <2> QED
    BY <1>1, <2>1 DEF to_digit
<1> QED
  BY <1>1, <1>2, DigitsDiffer

\* A mark is no digit.
LEMMA MarksAreNoDigits == ~IsHex(":") /\ ~IsHex(".")
BY DigitsDiffer DEF IsHex

\* The characters of the text.
LEMMA AtInside == \A k : k < Len(input) => At(k) = input[k + 1]
BY DEF At

\* The four digits of a group.
LEMMA FourDigits ==
    ASSUME NEW n \in Piece
    PROVE  LET digit(k) == (n \div k) % 16
           IN  /\ digit(4096) \in 0..15 /\ digit(256) \in 0..15
               /\ digit(16) \in 0..15 /\ digit(1) \in 0..15
               /\ n = 4096 * digit(4096) + 256 * digit(256) + 16 * digit(16) + digit(1)
               /\ n < 4096 => digit(4096) = 0
               /\ n < 256 => digit(256) = 0
               /\ n < 16 => digit(16) = 0
<1>1. n \in Int /\ 0 <= n /\ n <= 65535
  <2>1. n \in Int
    BY DEF Piece
  <2> QED
    BY <2>1, InPiece DEF MaxPiece
<1> DEFINE q1 == n \div 16
           q2 == n \div 256
           q3 == n \div 4096
<1>2. q1 \in Int /\ 16 * q1 <= n /\ n < 16 * q1 + 16
  BY <1>1
<1>8. q2 \in Int /\ 256 * q2 <= n /\ n < 256 * q2 + 256
  BY <1>1
<1>9. q3 \in Int /\ 4096 * q3 <= n /\ n < 4096 * q3 + 4096
  BY <1>1
<1> HIDE DEF q1, q2, q3
<1>3. q1 - 16 * q2 \in 0..15
  BY <1>1, <1>2, <1>8
<1>4. q2 - 16 * q3 \in 0..15
  BY <1>1, <1>8, <1>9
<1>5. q3 \in 0..15 /\ n - 16 * q1 \in 0..15
  BY <1>1, <1>2, <1>9
<1>6. \A m, q \in Int : m - 16 * q \in 0..15 => m % 16 = m - 16 * q
  OBVIOUS
<1>7. /\ n % 16 = n - 16 * q1 /\ q1 % 16 = q1 - 16 * q2
      /\ q2 % 16 = q2 - 16 * q3 /\ q3 % 16 = q3
  <2>1. n % 16 = n - 16 * q1 /\ q1 % 16 = q1 - 16 * q2 /\ q2 % 16 = q2 - 16 * q3
    <3>1. n % 16 = n - 16 * q1
      BY <1>1, <1>2, <1>5, <1>6
    <3>2. q1 % 16 = q1 - 16 * q2
      BY <1>2, <1>3, <1>6, <1>8
    <3>3. q2 % 16 = q2 - 16 * q3
      BY <1>4, <1>6, <1>8, <1>9
    <3> QED
      BY <3>1, <3>2, <3>3
  <2>2. q3 % 16 = q3
    BY <1>5
  <2> QED
    BY <2>1, <2>2
<1>10. /\ n < 4096 => q3 = 0
       /\ n < 256 => q2 = 0
       /\ n < 16 => q1 = 0
  BY <1>1, <1>2, <1>8, <1>9
<1>11. n \div 1 = n
  BY <1>1
<1> DEFINE a == q3 % 16
           b == q2 % 16
           c == q1 % 16
           d == n % 16
<1>12. /\ a \in 0..15 /\ b \in 0..15 /\ c \in 0..15 /\ d \in 0..15
       /\ n = 4096 * a + 256 * b + 16 * c + d
       /\ n < 4096 => a = 0
       /\ n < 256 => b = 0
       /\ n < 16 => c = 0
  <2>1. a = q3 /\ b = q2 - 16 * q3 /\ c = q1 - 16 * q2 /\ d = n - 16 * q1
    BY <1>7
  <2> HIDE DEF a, b, c, d
  <2>2. /\ a \in 0..15 /\ b \in 0..15 /\ c \in 0..15 /\ d \in 0..15
    BY <2>1, <1>3, <1>4, <1>5
  <2>3. n = 4096 * a + 256 * b + 16 * c + d
    BY <1>1, <1>2, <1>8, <1>9, <2>1
  <2>4. /\ n < 4096 => a = 0
        /\ n < 256 => b = 0
        /\ n < 16 => c = 0
    BY <1>1, <1>2, <1>8, <1>9, <1>10, <2>1
  <2> QED
    BY <2>2, <2>3, <2>4
<1>13. a = (n \div 4096) % 16 /\ b = (n \div 256) % 16 /\ c = (n \div 16) % 16
       /\ d = (n \div 1) % 16
  BY <1>11 DEF q1, q2, q3
<1> HIDE DEF a, b, c, d
<1> QED
  BY <1>12, <1>13

\* As many digits are written as there are.
LEMMA HexTextLengths ==
    ASSUME NEW n \in Int
    PROVE  LET h(k) == HexDigits[((n \div k) % 16) + 1]
           IN  /\ n < 16 => HexText(n) = <<h(1)>>
               /\ 16 <= n /\ n < 256 => HexText(n) = <<h(16), h(1)>>
               /\ 256 <= n /\ n < 4096 => HexText(n) = <<h(256), h(16), h(1)>>
               /\ 4096 <= n => HexText(n) = <<h(4096), h(256), h(16), h(1)>>
<1> DEFINE h(k) == HexDigits[((n \div k) % 16) + 1]
<1>1. ASSUME n < 16
      PROVE  HexText(n) = <<h(1)>>
  BY <1>1, SMT DEF HexText
<1>2. ASSUME 16 <= n, n < 256
      PROVE  HexText(n) = <<h(16), h(1)>>
  BY <1>2, SMT DEF HexText
<1>3. ASSUME 256 <= n, n < 4096
      PROVE  HexText(n) = <<h(256), h(16), h(1)>>
  BY <1>3, SMT DEF HexText
<1>4. ASSUME 4096 <= n
      PROVE  HexText(n) = <<h(4096), h(256), h(16), h(1)>>
  BY <1>4, SMT DEF HexText
<1> HIDE DEF h
<1> QED
  BY <1>1, <1>2, <1>3, <1>4 DEF h

\* A text of digits that is read as n wherever it stands.
IsWritten(n, text) ==
    /\ text \in Seq(Char) /\ Len(text) \in 1..4
    /\ \A k \in 1..Len(text) : IsHex(text[k])
    /\ \A from \in Nat : (\A k \in 1..Len(text) : At(from + k - 1) = text[k])
                             => HexValue(from, from + Len(text)) = n

\* A number that was written is read as this number.
LEMMA HexTextFacts ==
    ASSUME NEW n \in Piece
    PROVE  IsWritten(n, HexText(n))
<1> DEFINE text == HexText(n)
           digit(k) == (n \div k) % 16
           a == digit(4096)
           b == digit(256)
           c == digit(16)
           d == digit(1)
           h(k) == HexDigits[k + 1]
<1>1. /\ a \in 0..15 /\ b \in 0..15 /\ c \in 0..15 /\ d \in 0..15
      /\ n = 4096 * a + 256 * b + 16 * c + d
      /\ n < 4096 => a = 0
      /\ n < 256 => b = 0
      /\ n < 16 => c = 0
  BY FourDigits
<1>2. n \in Int /\ 0 <= n
  BY InPiece DEF Piece
<1>3. /\ n < 16 => text = <<h(d)>>
      /\ 16 <= n /\ n < 256 => text = <<h(c), h(d)>>
      /\ 256 <= n /\ n < 4096 => text = <<h(b), h(c), h(d)>>
      /\ 4096 <= n => text = <<h(a), h(b), h(c), h(d)>>
  BY <1>2, HexTextLengths
<1> SUFFICES IsWritten(n, text)
  OBVIOUS
<1> HIDE DEF text, digit, a, b, c, d
<1>4. \A k \in 0..15 : h(k) \in Char /\ IsHex(h(k)) /\ to_digit(h(k)) = k
  BY DigitsDiffer, DigitMeans
<1> HIDE DEF h
<1>5. ASSUME NEW from \in Nat
      PROVE  \A k \in Int : DigitAt(from, k) = IF from <= k THEN to_digit(At(k)) ELSE 0
  BY DEF DigitAt
<1>6. CASE n < 16
  <2>1. text = <<h(d)>> /\ n = d
    BY <1>1, <1>2, <1>3, <1>6
  <2>2. ASSUME NEW from \in Nat, \A k \in 1..1 : At(from + k - 1) = text[k]
        PROVE  HexValue(from, from + 1) = n
    <3>1. At(from) = h(d)
      BY <2>1, <2>2
    <3>2. /\ DigitAt(from, from + 1 - 4) = 0 /\ DigitAt(from, from + 1 - 3) = 0
          /\ DigitAt(from, from + 1 - 2) = 0 /\ DigitAt(from, from + 1 - 1) = d
      BY <1>1, <1>4, <1>5, <3>1
    <3> QED
      BY <1>1, <2>1, <3>2 DEF HexValue
  <2>3. /\ text \in Seq(Char) /\ Len(text) = 1
        /\ \A k \in 1..Len(text) : IsHex(text[k])
    BY <1>1, <1>4, <2>1
  <2> QED
    BY <2>2, <2>3 DEF IsWritten
<1>7. CASE 16 <= n /\ n < 256
  <2>1. text = <<h(c), h(d)>> /\ n = 16 * c + d
    BY <1>1, <1>2, <1>3, <1>7
  <2>2. ASSUME NEW from \in Nat, \A k \in 1..2 : At(from + k - 1) = text[k]
        PROVE  HexValue(from, from + 2) = n
    <3>1. At(from) = h(c) /\ At(from + 1) = h(d)
      BY <2>1, <2>2
    <3>2. /\ DigitAt(from, from + 2 - 4) = 0 /\ DigitAt(from, from + 2 - 3) = 0
          /\ DigitAt(from, from + 2 - 2) = c /\ DigitAt(from, from + 2 - 1) = d
      BY <1>1, <1>4, <1>5, <3>1
    <3> QED
      BY <1>1, <2>1, <3>2 DEF HexValue
  <2>3. /\ text \in Seq(Char) /\ Len(text) = 2
        /\ \A k \in 1..Len(text) : IsHex(text[k])
    BY <1>1, <1>4, <2>1
  <2> QED
    BY <2>2, <2>3 DEF IsWritten
<1>8. CASE 256 <= n /\ n < 4096
  <2>1. text = <<h(b), h(c), h(d)>> /\ n = 256 * b + 16 * c + d
    BY <1>1, <1>2, <1>3, <1>8
  <2>2. ASSUME NEW from \in Nat, \A k \in 1..3 : At(from + k - 1) = text[k]
        PROVE  HexValue(from, from + 3) = n
    <3>1. At(from) = h(b) /\ At(from + 1) = h(c) /\ At(from + 2) = h(d)
      BY <2>1, <2>2
    <3>2. /\ DigitAt(from, from + 3 - 4) = 0 /\ DigitAt(from, from + 3 - 3) = b
          /\ DigitAt(from, from + 3 - 2) = c /\ DigitAt(from, from + 3 - 1) = d
      BY <1>1, <1>4, <1>5, <3>1
    <3> QED
      BY <1>1, <2>1, <3>2 DEF HexValue
  <2>3. /\ text \in Seq(Char) /\ Len(text) = 3
        /\ \A k \in 1..Len(text) : IsHex(text[k])
    BY <1>1, <1>4, <2>1
  <2> QED
    BY <2>2, <2>3 DEF IsWritten
<1>9. CASE 4096 <= n
  <2>1. text = <<h(a), h(b), h(c), h(d)>>
    BY <1>2, <1>3, <1>9
  <2>2. ASSUME NEW from \in Nat, \A k \in 1..4 : At(from + k - 1) = text[k]
        PROVE  HexValue(from, from + 4) = n
    <3>1. At(from) = h(a) /\ At(from + 1) = h(b) /\ At(from + 2) = h(c)
          /\ At(from + 3) = h(d)
      BY <2>1, <2>2
    <3>2. /\ DigitAt(from, from + 4 - 4) = a /\ DigitAt(from, from + 4 - 3) = b
          /\ DigitAt(from, from + 4 - 2) = c /\ DigitAt(from, from + 4 - 1) = d
      BY <1>1, <1>4, <1>5, <3>1
    <3> QED
      BY <1>1, <2>1, <3>2 DEF HexValue
  <2>3. /\ text \in Seq(Char) /\ Len(text) = 4
        /\ \A k \in 1..Len(text) : IsHex(text[k])
    BY <1>1, <1>4, <2>1
  <2> QED
    BY <2>2, <2>3 DEF IsWritten
<1> QED
  BY <1>2, <1>6, <1>7, <1>8, <1>9

\* At most one run of zeros is left out.
LEMMA OmitsOnce ==
    ASSUME NEW p, NEW start, NEW end, NEW s, NEW e,
           Omits(p, start, end), Omits(p, s, e)
    PROVE  s = start /\ e = end
<1>1. start \in Slot /\ end \in 0..8 /\ s \in Slot /\ e \in 0..8
  BY DEF Omits
<1>2. /\ IsZeroRun(p, start, end) /\ IsZeroRun(p, s, e)
      /\ end - start > e - s \/ (end - start = e - s /\ start <= s)
      /\ e - s > end - start \/ (e - s = end - start /\ s <= start)
  BY <1>1 DEF Omits, IsLongestZeroRun
<1> QED
  BY <1>1, <1>2 DEF Slot

\* Where zeros that are left out stand.
LEMMA OmitsFacts ==
    ASSUME NEW p, NEW start, NEW end, Omits(p, start, end)
    PROVE  /\ start \in 0..6 /\ end \in 2..8 /\ start + 2 <= end
           /\ \A k \in start..(end - 1) : p[k] = 0
BY DEF Omits, IsLongestZeroRun, IsZeroRun, Slot

\* What is written for a group is a ':' of the zeros left out, nothing, or its
\* digits.
LEMMA GroupCases ==
    ASSUME NEW p, NEW k \in Slot
    PROVE  /\ \A end \in 0..8 : Omits(p, k, end) => GroupText(p, k) = CompressedZeros(k)
           /\ \A start, end \in 0..8 :
                 Omits(p, start, end) /\ start < k /\ k < end => GroupText(p, k) = <<>>
           /\ (\A start, end \in 0..8 : Omits(p, start, end) => k < start \/ end <= k)
                 => GroupText(p, k) = HexText(p[k]) \o (IF k < 7 THEN <<":">> ELSE <<>>)
<1> DEFINE first == \E e \in 0..8 : IsLongestZeroRun(p, k, e)
           later == \E s \in 0..(k - 1), e \in (k + 1)..8 : IsLongestZeroRun(p, s, e)
<1>1. ASSUME NEW end \in 0..8, Omits(p, k, end)
      PROVE  GroupText(p, k) = CompressedZeros(k)
  <2>1. first
    BY <1>1 DEF Omits
  <2>2. ~later
    <3> SUFFICES ASSUME NEW s \in 0..(k - 1), NEW e \in (k + 1)..8,
                        IsLongestZeroRun(p, s, e)
                 PROVE  FALSE
      OBVIOUS
    <3>1. Omits(p, s, e) /\ s # k
      BY DEF Omits, Slot
    <3> QED
      BY <1>1, <3>1, OmitsOnce
  <2> HIDE DEF first, later
  <2>3. GroupText(p, k) = CASE first -> CompressedZeros(k)
                            [] later -> <<>>
                            [] OTHER -> HexText(p[k]) \o (IF k < 7 THEN <<":">> ELSE <<>>)
    BY Zenon DEF GroupText, first, later
  <2> QED
    BY <2>1, <2>2, <2>3
<1>2. ASSUME NEW start \in 0..8, NEW end \in 0..8, Omits(p, start, end),
             start < k, k < end
      PROVE  GroupText(p, k) = <<>>
  <2>1. later
    <3>1. start \in 0..(k - 1) /\ end \in (k + 1)..8
      BY <1>2 DEF Slot
    <3> QED
      BY <1>2, <3>1 DEF Omits
  <2>2. ~first
    <3> SUFFICES ASSUME NEW e \in 0..8, IsLongestZeroRun(p, k, e)
                 PROVE  FALSE
      OBVIOUS
    <3>1. Omits(p, k, e) /\ start # k
      BY <1>2 DEF Omits, Slot
    <3> QED
      BY <1>2, <3>1, OmitsOnce
  <2> HIDE DEF first, later
  <2>3. GroupText(p, k) = CASE first -> CompressedZeros(k)
                            [] later -> <<>>
                            [] OTHER -> HexText(p[k]) \o (IF k < 7 THEN <<":">> ELSE <<>>)
    BY Zenon DEF GroupText, first, later
  <2> QED
    BY <2>1, <2>2, <2>3
<1>3. ASSUME \A start, end \in 0..8 : Omits(p, start, end) => k < start \/ end <= k
      PROVE  GroupText(p, k) = HexText(p[k]) \o (IF k < 7 THEN <<":">> ELSE <<>>)
  <2>1. ~first
    <3> SUFFICES ASSUME NEW e \in 0..8, IsLongestZeroRun(p, k, e)
                 PROVE  FALSE
      OBVIOUS
    <3>1. Omits(p, k, e) /\ k \in 0..8
      BY DEF Omits, Slot
    <3>2. k + 2 <= e
      BY DEF IsLongestZeroRun, IsZeroRun
    <3> QED
      BY <1>3, <3>1, <3>2 DEF Slot
  <2>2. ~later
    <3> SUFFICES ASSUME NEW s \in 0..(k - 1), NEW e \in (k + 1)..8,
                        IsLongestZeroRun(p, s, e)
                 PROVE  FALSE
      OBVIOUS
    <3>1. Omits(p, s, e) /\ s \in 0..8 /\ e \in 0..8 /\ s < k /\ k < e
      BY DEF Omits, Slot
    <3> QED
      BY <1>3, <3>1 DEF Slot
  <2> HIDE DEF first, later
  <2>3. GroupText(p, k) = CASE first -> CompressedZeros(k)
                            [] later -> <<>>
                            [] OTHER -> HexText(p[k]) \o (IF k < 7 THEN <<":">> ELSE <<>>)
    BY Zenon DEF GroupText, first, later
  <2> QED
    BY <2>1, <2>2, <2>3
<1> QED
  BY <1>1, <1>2, <1>3

\* The whole is what is written for one group after the other.
LEMMA WrittenFacts ==
    ASSUME NEW p
    PROVE  /\ WrittenUpTo(p)[0] = <<>>
           /\ \A k \in Slot : WrittenUpTo(p)[k + 1] = WrittenUpTo(p)[k] \o GroupText(p, k)
           /\ write_ipv6(p) = WrittenUpTo(p)[8]
<1> DEFINE text(k) == GroupText(p, k)
           step(f) == [k \in 0..8 |-> IF k = 0 THEN <<>> ELSE f[k - 1] \o text(k - 1)]
           g == CHOOSE f : f = step(f)
<1>1. WrittenUpTo(p) = g /\ write_ipv6(p) = g[8]
  BY DEF WrittenUpTo, write_ipv6
<1> HIDE DEF text
<1>2. \E f : f = step(f)
  <2> DEFINE t1 == <<>> \o text(0)
             t2 == t1 \o text(1)
             t3 == t2 \o text(2)
             t4 == t3 \o text(3)
             t5 == t4 \o text(4)
             t6 == t5 \o text(5)
             t7 == t6 \o text(6)
             t8 == t7 \o text(7)
             f == [k \in 0..8 |-> IF k = 0 THEN <<>> ELSE IF k = 1 THEN t1
                                  ELSE IF k = 2 THEN t2 ELSE IF k = 3 THEN t3
                                  ELSE IF k = 4 THEN t4 ELSE IF k = 5 THEN t5
                                  ELSE IF k = 6 THEN t6 ELSE IF k = 7 THEN t7 ELSE t8]
  <2>8. /\ t1 = <<>> \o text(0) /\ t2 = t1 \o text(1) /\ t3 = t2 \o text(2)
        /\ t4 = t3 \o text(3) /\ t5 = t4 \o text(4) /\ t6 = t5 \o text(5)
        /\ t7 = t6 \o text(6) /\ t8 = t7 \o text(7)
    OBVIOUS
  <2> HIDE DEF t1, t2, t3, t4, t5, t6, t7, t8
  <2>1. /\ f[0] = <<>> /\ f[1] = t1 /\ f[2] = t2 /\ f[3] = t3 /\ f[4] = t4
        /\ f[5] = t5 /\ f[6] = t6 /\ f[7] = t7 /\ f[8] = t8
    OBVIOUS
  <2>2. f = [k \in 0..8 |-> f[k]]
    <3> DEFINE h(k) == IF k = 0 THEN <<>> ELSE IF k = 1 THEN t1
                       ELSE IF k = 2 THEN t2 ELSE IF k = 3 THEN t3
                       ELSE IF k = 4 THEN t4 ELSE IF k = 5 THEN t5
                       ELSE IF k = 6 THEN t6 ELSE IF k = 7 THEN t7 ELSE t8
    <3>1. f = [k \in 0..8 |-> h(k)]
      OBVIOUS
    <3> HIDE DEF f, h
    <3> QED
      BY <3>1
  <2>3. /\ f[1] = f[0] \o text(0) /\ f[2] = f[1] \o text(1) /\ f[3] = f[2] \o text(2)
        /\ f[4] = f[3] \o text(3) /\ f[5] = f[4] \o text(4) /\ f[6] = f[5] \o text(5)
        /\ f[7] = f[6] \o text(6) /\ f[8] = f[7] \o text(7)
    BY <2>1, <2>8, Zenon
  <2> HIDE DEF f
  <2> DEFINE follows(k) == f[k] = f[k - 1] \o text(k - 1)
  <2>4. /\ follows(1) /\ follows(2) /\ follows(3) /\ follows(4)
        /\ follows(5) /\ follows(6) /\ follows(7) /\ follows(8)
    <3>1. /\ 1 - 1 = 0 /\ 2 - 1 = 1 /\ 3 - 1 = 2 /\ 4 - 1 = 3
          /\ 5 - 1 = 4 /\ 6 - 1 = 5 /\ 7 - 1 = 6 /\ 8 - 1 = 7
      OBVIOUS
    <3> QED
      BY <2>3, <3>1, Zenon
  <2> HIDE DEF follows
  <2>7. \A k \in 1..8 : follows(k)
    BY <2>4
  <2>5. \A k \in 0..8 : f[k] = IF k = 0 THEN <<>> ELSE f[k - 1] \o text(k - 1)
    <3> SUFFICES ASSUME NEW k \in 0..8
                 PROVE  f[k] = IF k = 0 THEN <<>> ELSE f[k - 1] \o text(k - 1)
      OBVIOUS
    <3>1. CASE k = 0
      BY <2>1, <3>1
    <3>2. CASE k # 0
      <4>1. k \in 1..8
        BY <3>2
      <4> QED
        BY <2>7, <3>2, <4>1 DEF follows
    <3> QED
      BY <3>1, <3>2
  <2>6. f = step(f)
    BY <2>2, <2>5
  <2> QED
    BY <2>6
<1>3. g = step(g)
  <2> HIDE DEF step
  <2> QED
    BY <1>2
<1> HIDE DEF g
<1>4. \A k \in 0..8 : g[k] = IF k = 0 THEN <<>> ELSE g[k - 1] \o text(k - 1)
  BY <1>3
<1>5. ASSUME NEW k \in Slot
      PROVE  g[k + 1] = g[k] \o text(k)
  <2>1. k + 1 \in 0..8 /\ k + 1 # 0 /\ (k + 1) - 1 = k
    BY DEF Slot
  <2> QED
    BY <1>4, <2>1
<1>6. g[0] = <<>>
  BY <1>4
<1> QED
  BY <1>1, <1>5, <1>6 DEF text

\* Where the texts of the groups stand in the whole.
LEMMA TextPlaces ==
    ASSUME NEW p \in [Slot -> Piece]
    PROVE  /\ write_ipv6(p) \in Seq(Char)
           /\ StartOf(p, 0) = 0 /\ StartOf(p, 8) = Len(write_ipv6(p))
           /\ \A k \in 0..8 : StartOf(p, k) \in Nat
           /\ \A k \in Slot : StartOf(p, k + 1) = StartOf(p, k) + Len(GroupText(p, k))
           /\ \A k \in Slot : StartOf(p, k + 1) <= Len(write_ipv6(p))
           /\ \A k \in Slot : GroupText(p, k) \in Seq(Char)
           /\ \A k \in Slot : \A j \in 1..Len(GroupText(p, k)) :
                 write_ipv6(p)[StartOf(p, k) + j] = GroupText(p, k)[j]
<1> DEFINE text(k) == GroupText(p, k)
           whole(k) == WrittenUpTo(p)[k]
<1>1. ":" \in Char
  BY DEF Char
<1>2. ASSUME NEW k \in Slot
      PROVE  text(k) \in Seq(Char)
  <2>1. CASE \E end \in 0..8 : Omits(p, k, end)
    <3>1. text(k) = CompressedZeros(k)
      BY <2>1, GroupCases
    <3>2. <<":">> \in Seq(Char) /\ <<":", ":">> \in Seq(Char)
      BY <1>1
    <3> QED
      BY <3>1, <3>2 DEF CompressedZeros
  <2>2. CASE \E start, end \in 0..8 : Omits(p, start, end) /\ start < k /\ k < end
    <3>1. text(k) = <<>>
      BY <2>2, GroupCases
    <3> QED
      BY <3>1, EmptySeq
  <2>3. CASE \A start, end \in 0..8 : Omits(p, start, end) => k < start \/ end <= k
    <3>1. text(k) = HexText(p[k]) \o (IF k < 7 THEN <<":">> ELSE <<>>)
      BY <2>3, GroupCases
    <3>2. HexText(p[k]) \in Seq(Char)
      <4>1. p[k] \in Piece
        OBVIOUS
      <4> QED
        BY <4>1, HexTextFacts DEF IsWritten
    <3>3. <<":">> \in Seq(Char) /\ <<>> \in Seq(Char)
      BY <1>1
    <3>4. CASE k < 7
      BY <3>1, <3>2, <3>3, <3>4, ConcatProperties
    <3>5. CASE ~(k < 7)
      BY <3>1, <3>2, <3>3, <3>5, ConcatProperties
    <3> QED
      BY <3>4, <3>5
  <2>4. ASSUME NEW start \in 0..8, NEW end \in 0..8, Omits(p, start, end),
               ~(k < start \/ end <= k)
        PROVE  start = k \/ (start < k /\ k < end)
    BY <2>4 DEF Slot
  <2> QED
    BY <2>1, <2>2, <2>3, <2>4
<1>3. /\ whole(0) = <<>> /\ write_ipv6(p) = whole(8)
      /\ \A k \in Slot : whole(k + 1) = whole(k) \o text(k)
  BY WrittenFacts
<1>4. \A k \in 0..8 : StartOf(p, k) = Len(whole(k))
  BY DEF StartOf
<1> HIDE DEF text, whole
<1>5. \A k \in 0..8 : whole(k) \in Seq(Char)
  <2> DEFINE S == {k \in 0..8 : whole(k) \in Seq(Char)}
  <2>1. 0 \in S
    <3>1. whole(0) \in Seq(Char)
      BY <1>3, EmptySeq
    <3> QED
      BY <3>1
  <2>2. ASSUME NEW k \in Slot, k \in S
        PROVE  k + 1 \in S
    <3>1. whole(k) \o text(k) \in Seq(Char)
      BY <1>2, <2>2, ConcatProperties
    <3>2. whole(k + 1) \in Seq(Char)
      BY <1>3, <3>1
    <3>3. k + 1 \in 0..8
      BY DEF Slot
    <3> QED
      BY <3>2, <3>3
  <2>3. \A k \in 0..8 : k \in S
    <3> HIDE DEF S
    <3> QED
      BY <2>1, <2>2, UpToEight
  <2> QED
    BY <2>3
<1>6. ASSUME NEW k \in Slot
      PROVE  /\ Len(whole(k + 1)) = Len(whole(k)) + Len(text(k))
             /\ \A x \in 1..(Len(whole(k)) + Len(text(k))) :
                   whole(k + 1)[x] = IF x <= Len(whole(k)) THEN whole(k)[x]
                                     ELSE text(k)[x - Len(whole(k))]
  <2>1. whole(k) \in Seq(Char) /\ text(k) \in Seq(Char)
    <3>1. k \in 0..8
      BY DEF Slot
    <3> QED
      BY <1>2, <1>5, <3>1
  <2>2. whole(k + 1) = whole(k) \o text(k)
    BY <1>3
  <2> QED
    BY <2>1, <2>2, ConcatProperties
<1>7. ASSUME NEW k \in 0..8
      PROVE  \A m \in 0..8 : k <= m => /\ Len(whole(k)) <= Len(whole(m))
                                       /\ \A x \in 1..Len(whole(k)) : whole(m)[x] = whole(k)[x]
  <2> DEFINE prefix(m) == /\ Len(whole(k)) <= Len(whole(m))
                          /\ \A x \in 1..Len(whole(k)) : whole(m)[x] = whole(k)[x]
             S == {m \in 0..8 : k <= m => prefix(m)}
  <2>1. whole(k) \in Seq(Char) /\ Len(whole(k)) \in Nat
    BY <1>5
  <2>2. 0 \in S
    <3>1. CASE k = 0
      BY <2>1, <3>1
    <3>2. CASE k # 0
      BY <3>2
    <3> QED
      BY <3>1, <3>2
  <2>3. ASSUME NEW m \in Slot, m \in S
        PROVE  m + 1 \in S
    <3>1. m \in 0..8 /\ m + 1 \in 0..8
      BY DEF Slot
    <3>2. CASE k <= m
      <4>1. prefix(m)
        BY <2>3, <3>2
      <4>2. Len(whole(m)) \in Nat /\ Len(text(m)) \in Nat
        BY <1>2, <1>5, <3>1
      <4>3. prefix(m + 1)
        BY <1>6, <2>1, <4>1, <4>2
      <4> QED
        BY <3>1, <4>3
    <3>3. CASE k = m + 1
      <4>1. prefix(m + 1)
        BY <2>1, <3>3
      <4> QED
        BY <3>1, <4>1
    <3>4. CASE k > m + 1
      BY <3>1, <3>4
    <3> QED
      BY <3>1, <3>2, <3>3, <3>4
  <2>4. \A m \in 0..8 : m \in S
    <3> HIDE DEF S
    <3> QED
      BY <2>2, <2>3, UpToEight
  <2> QED
    BY <2>4
<1>8. ASSUME NEW k \in Slot
      PROVE  /\ Len(whole(k + 1)) <= Len(whole(8))
             /\ \A j \in 1..Len(text(k)) : whole(8)[Len(whole(k)) + j] = text(k)[j]
  <2>1. k \in 0..8 /\ k + 1 \in 0..8 /\ k + 1 <= 8
    BY DEF Slot
  <2>2. Len(whole(k)) \in Nat /\ Len(text(k)) \in Nat
    BY <1>2, <1>5, <2>1
  <2>3. /\ Len(whole(k + 1)) <= Len(whole(8))
        /\ \A x \in 1..Len(whole(k + 1)) : whole(8)[x] = whole(k + 1)[x]
    <3>1. \A m \in 0..8 : k + 1 <= m =>
             /\ Len(whole(k + 1)) <= Len(whole(m))
             /\ \A x \in 1..Len(whole(k + 1)) : whole(m)[x] = whole(k + 1)[x]
      BY <1>7, <2>1
    <3>2. 8 \in 0..8
      OBVIOUS
    <3> QED
      BY <2>1, <3>1, <3>2
  <2>4. ASSUME NEW j \in 1..Len(text(k))
        PROVE  whole(8)[Len(whole(k)) + j] = text(k)[j]
    <3>1. /\ Len(whole(k)) + j \in 1..(Len(whole(k)) + Len(text(k)))
          /\ ~(Len(whole(k)) + j <= Len(whole(k)))
          /\ (Len(whole(k)) + j) - Len(whole(k)) = j
      BY <2>2
    <3>2. whole(k + 1)[Len(whole(k)) + j] = text(k)[j]
      BY <1>6, <3>1
    <3>3. Len(whole(k)) + j \in 1..Len(whole(k + 1))
      BY <1>6, <3>1
    <3> QED
      BY <2>3, <3>2, <3>3
  <2> QED
    BY <2>3, <2>4
<1>9. \A k \in 0..8 : StartOf(p, k) \in Nat
  <2>1. \A k \in 0..8 : Len(whole(k)) \in Nat
    BY <1>5, LenProperties
  <2> QED
    BY <1>4, <2>1
<1>10. StartOf(p, 0) = 0 /\ StartOf(p, 8) = Len(write_ipv6(p))
  BY <1>3, <1>4
<1>11. ASSUME NEW k \in Slot
       PROVE  /\ StartOf(p, k + 1) = StartOf(p, k) + Len(text(k))
              /\ StartOf(p, k + 1) <= Len(write_ipv6(p))
              /\ \A j \in 1..Len(text(k)) : write_ipv6(p)[StartOf(p, k) + j] = text(k)[j]
  <2>1. StartOf(p, k) = Len(whole(k)) /\ StartOf(p, k + 1) = Len(whole(k + 1))
    BY <1>4 DEF Slot
  <2> QED
    BY <1>3, <1>6, <1>8, <2>1
<1>12. write_ipv6(p) \in Seq(Char)
  BY <1>3, <1>5
<1> QED
  BY <1>2, <1>9, <1>10, <1>11, <1>12 DEF text

\* Nothing is written for the zeros behind the first that is left out.
LEMMA OmittedPlaces ==
    ASSUME NEW p \in [Slot -> Piece], NEW start, NEW end, Omits(p, start, end)
    PROVE  StartOf(p, end) = StartOf(p, start + 1)
<1> DEFINE S == {m \in 0..8 : start < m /\ m <= end => StartOf(p, m) = StartOf(p, start + 1)}
<1>1. start \in 0..6 /\ end \in 2..8 /\ start + 2 <= end
  BY OmitsFacts
<1>2. 0 \in S
  BY <1>1
<1>3. ASSUME NEW k \in Slot, k \in S
      PROVE  k + 1 \in S
  <2>1. k \in 0..7 /\ k + 1 \in 0..8
    BY DEF Slot
  <2>2. CASE k = start
    BY <2>1, <2>2
  <2>3. CASE start < k /\ k < end
    <3>1. GroupText(p, k) = <<>>
      BY <1>1, <2>3, GroupCases
    <3>2. StartOf(p, k + 1) = StartOf(p, k) + 0
      BY <3>1, TextPlaces
    <3>3. StartOf(p, k) \in Nat
      <4>1. k \in 0..8
        BY <2>1
      <4> QED
        BY <4>1, TextPlaces
    <3> QED
      BY <1>1, <1>3, <2>1, <2>3, <3>2, <3>3
  <2>4. CASE k < start \/ end <= k
    BY <1>1, <2>1, <2>4
  <2> QED
    BY <1>1, <2>1, <2>2, <2>3, <2>4
<1>4. \A k \in 0..8 : k \in S
  <2> HIDE DEF S
  <2> QED
    BY <1>2, <1>3, UpToEight
<1>5. end \in S
  BY <1>1, <1>4
<1> QED
  BY <1>1, <1>5

\* A group that is written with its digits.
Plain(p, k) ==
    \A start, end \in 0..8 : Omits(p, start, end) => k < start \/ end <= k

\* Something is written for every group but those behind the first that is
\* left out.
LEMMA GroupIsWritten ==
    ASSUME NEW p, Reads(p), NEW k \in Slot,
           Plain(p, k) \/ \E end \in 0..8 : Omits(p, k, end)
    PROVE  StartOf(p, k) + 1 <= StartOf(p, k + 1)
<1> DEFINE text == GroupText(p, k)
<1>1. p \in [Slot -> Piece] /\ p[k] \in Piece
  BY DEF Reads
<1>2. StartOf(p, k + 1) = StartOf(p, k) + Len(text) /\ StartOf(p, k) \in Nat
  <2>1. k \in 0..8
    BY DEF Slot
  <2> QED
    BY <1>1, <2>1, TextPlaces
<1>3. Len(text) \in Nat /\ Len(text) >= 1
  <2>1. CASE Plain(p, k)
    <3> DEFINE digits == HexText(p[k])
    <3>1. text = digits \o (IF k < 7 THEN <<":">> ELSE <<>>)
      BY <2>1, GroupCases DEF Plain
    <3>2. digits \in Seq(Char) /\ Len(digits) \in 1..4
      BY <1>1, HexTextFacts DEF IsWritten
    <3>3. <<":">> \in Seq(Char) /\ <<>> \in Seq(Char) /\ Len(<<":">>) = 1 /\ Len(<<>>) = 0
      BY DEF Char
    <3> HIDE DEF text, digits
    <3>4. CASE k < 7
      BY <3>1, <3>2, <3>3, <3>4, ConcatProperties
    <3>5. CASE ~(k < 7)
      BY <3>1, <3>2, <3>3, <3>5, ConcatProperties
    <3> QED
      BY <3>4, <3>5
  <2>2. CASE \E end \in 0..8 : Omits(p, k, end)
    <3>1. text = CompressedZeros(k)
      BY <2>2, GroupCases
    <3> QED
      BY <3>1 DEF CompressedZeros
  <2> QED
    BY <2>1, <2>2
<1> HIDE DEF text
<1> QED
  BY <1>2, <1>3

\* The digits of a group stand where it starts; behind them is the end, or a
\* ':' that is not the last character.
LEMMA PlainGroup ==
    ASSUME NEW p, Reads(p), NEW k \in Slot, Plain(p, k)
    PROVE  LET from == StartOf(p, k)
               to   == from + Len(HexText(p[k]))
           IN  /\ from \in Nat /\ to \in (from + 1)..(from + 4) /\ to <= Len(input)
               /\ \A x \in from..(to - 1) : IsHex(At(x))
               /\ HexValue(from, to) = p[k]
               /\ IF k = 7 THEN to = Len(input) /\ StartOf(p, k + 1) = to
                  ELSE /\ to + 1 < Len(input) /\ At(to) = ":"
                       /\ StartOf(p, k + 1) = to + 1
<1> DEFINE text == GroupText(p, k)
           digits == HexText(p[k])
           from == StartOf(p, k)
           to == from + Len(digits)
<1>1. p \in [Slot -> Piece] /\ p[k] \in Piece /\ input = write_ipv6(p)
  BY DEF Reads
<1>2. IsWritten(p[k], digits)
  BY <1>1, HexTextFacts
<1>3. text = digits \o (IF k < 7 THEN <<":">> ELSE <<>>)
  BY GroupCases DEF Plain
<1>4. /\ from \in Nat /\ Len(input) \in Nat
      /\ StartOf(p, k + 1) = from + Len(text) /\ StartOf(p, k + 1) <= Len(input)
      /\ \A j \in 1..Len(text) : input[from + j] = text[j]
  <2>1. k \in 0..8
    BY DEF Slot
  <2>2. input \in Seq(Char)
    BY <1>1, TextPlaces
  <2>3. from \in Nat /\ Len(input) \in Nat
    BY <1>1, <2>1, <2>2, TextPlaces, LenProperties
  <2>4. /\ StartOf(p, k + 1) = from + Len(text) /\ StartOf(p, k + 1) <= Len(input)
        /\ \A j \in 1..Len(text) : input[from + j] = text[j]
    BY <1>1, TextPlaces
  <2> QED
    BY <2>3, <2>4
<1>5. digits \in Seq(Char) /\ Len(digits) \in 1..4 /\ \A j \in 1..Len(digits) : IsHex(digits[j])
  BY <1>2 DEF IsWritten
<1>6. /\ k < 7 => /\ Len(text) = Len(digits) + 1 /\ text[Len(digits) + 1] = ":"
                  /\ \A j \in 1..Len(digits) : text[j] = digits[j]
      /\ ~(k < 7) => text = digits
  <2>1. <<":">> \in Seq(Char) /\ Len(<<":">>) = 1 /\ <<":">>[1] = ":"
    BY DEF Char
  <2> DEFINE colon == <<":">>
  <2> HIDE DEF text, digits
  <2>2. CASE k < 7
    <3>1. text = digits \o colon
      BY <1>3, <2>2
    <3> HIDE DEF colon
    <3>2. colon \in Seq(Char) /\ Len(colon) = 1 /\ colon[1] = ":"
      BY <2>1 DEF colon
    <3>3. /\ Len(digits \o colon) = Len(digits) + 1
          /\ \A j \in 1..(Len(digits) + 1) :
                (digits \o colon)[j] = IF j <= Len(digits) THEN digits[j]
                                       ELSE colon[j - Len(digits)]
      <4>1. /\ Len(digits \o colon) = Len(digits) + Len(colon)
            /\ \A j \in 1..(Len(digits) + Len(colon)) :
                  (digits \o colon)[j] = IF j <= Len(digits) THEN digits[j]
                                         ELSE colon[j - Len(digits)]
        <5>1. digits \in Seq(Char) /\ colon \in Seq(Char)
          BY <1>5, <3>2
        <5> QED
          BY <5>1, ConcatProperties, Zenon
      <4> QED
        BY <3>2, <4>1
    <3> QED
      BY <1>5, <2>2, <3>1, <3>2, <3>3
  <2>3. CASE ~(k < 7)
    BY <1>3, <1>5, <2>3, ConcatEmptySeq
  <2> QED
    BY <2>2, <2>3
<1> HIDE DEF text, digits, from
<1>7. \A j \in 1..Len(digits) : input[from + j] = digits[j]
  BY <1>4, <1>5, <1>6
<1>8. to \in Nat /\ to \in (from + 1)..(from + 4) /\ to <= Len(input)
  <2>1. Len(digits) <= Len(text) /\ Len(text) \in Nat /\ Len(digits) \in 1..4
    <3>1. CASE k < 7
      BY <1>5, <1>6, <3>1
    <3>2. CASE ~(k < 7)
      BY <1>5, <1>6, <3>2
    <3> QED
      BY <3>1, <3>2
  <2>2. from \in Nat /\ Len(input) \in Nat /\ from + Len(text) <= Len(input)
    BY <1>4
  <2>3. ASSUME NEW f \in Nat, NEW d \in 1..4, NEW t \in Nat, NEW l \in Nat,
               d <= t, f + t <= l
        PROVE  f + d \in Nat /\ f + d \in (f + 1)..(f + 4) /\ f + d <= l
    BY <2>3
  <2> QED
    BY <2>1, <2>2, <2>3
<1>9. \A j \in 1..Len(digits) : At(from + j - 1) = digits[j]
  <2> SUFFICES ASSUME NEW j \in 1..Len(digits)
               PROVE  At(from + j - 1) = digits[j]
    OBVIOUS
  <2>1. from + j - 1 < Len(input) /\ (from + j - 1) + 1 = from + j
    BY <1>4, <1>5, <1>8
  <2>2. At(from + j - 1) = input[from + j]
    BY <2>1, AtInside
  <2> QED
    BY <1>7, <2>2
<1>10. \A x \in from..(to - 1) : IsHex(At(x))
  <2> SUFFICES ASSUME NEW x \in from..(to - 1)
               PROVE  IsHex(At(x))
    OBVIOUS
  <2>1. (x - from) + 1 \in 1..Len(digits) /\ from + ((x - from) + 1) - 1 = x
    BY <1>4, <1>5
  <2> QED
    BY <1>5, <1>9, <2>1
<1>11. HexValue(from, to) = p[k]
  BY <1>2, <1>4, <1>9 DEF IsWritten
<1>12. CASE k = 7
  BY <1>4, <1>5, <1>6, <1>8, <1>10, <1>11, <1>12, TextPlaces, <1>1 DEF from, digits
<1>13. CASE k # 7
  <2>1. k < 7 /\ k + 1 \in Slot
    BY <1>13 DEF Slot
  <2>2. StartOf(p, k + 1) = to + 1 /\ to < Len(input)
    <3>1. Len(text) = Len(digits) + 1 /\ Len(digits) \in 1..4
      BY <1>5, <1>6, <2>1
    <3>2. from \in Nat /\ Len(input) \in Nat /\ StartOf(p, k + 1) = from + Len(text)
          /\ StartOf(p, k + 1) <= Len(input)
      BY <1>4
    <3> QED
      BY <3>1, <3>2
  <2>3. At(to) = ":"
    <3>1. At(to) = input[to + 1]
      BY <2>2, AtInside
    <3>2. input[from + (Len(digits) + 1)] = ":"
      BY <1>4, <1>5, <1>6, <2>1
    <3>3. from + (Len(digits) + 1) = to + 1
      BY <1>4, <1>5
    <3> QED
      BY <3>1, <3>2, <3>3
  <2>4. Plain(p, k + 1) \/ \E end \in 0..8 : Omits(p, k + 1, end)
    <3> SUFFICES ASSUME NEW start \in 0..8, NEW end \in 0..8, Omits(p, start, end),
                        ~(k + 1 < start \/ end <= k + 1)
                 PROVE  Omits(p, k + 1, end)
      BY DEF Plain
    <3>1. k < start \/ end <= k
      BY DEF Plain
    <3>2. start = k + 1
      BY <2>1, <3>1 DEF Slot
    <3> QED
      BY <3>2
  <2>5. StartOf(p, k + 1) + 1 <= StartOf(p, (k + 1) + 1)
    BY <2>1, <2>4, GroupIsWritten
  <2>6. StartOf(p, (k + 1) + 1) <= Len(input) /\ StartOf(p, (k + 1) + 1) \in Nat
    <3>1. (k + 1) + 1 \in 0..8
      BY <2>1 DEF Slot
    <3> QED
      BY <1>1, <2>1, <3>1, TextPlaces
  <2>7. to + 1 < Len(input)
    BY <1>4, <1>8, <2>2, <2>5, <2>6
  <2> QED
    BY <1>4, <1>8, <1>10, <1>11, <1>13, <2>2, <2>3, <2>7 DEF from, digits
<1> QED
  BY <1>12, <1>13

\* Where groups are left out a ':' stands, and two in front of all others.
LEMMA OmittedText ==
    ASSUME NEW p, Reads(p), NEW start, NEW end, Omits(p, start, end)
    PROVE  /\ StartOf(p, start) < Len(input) /\ At(StartOf(p, start)) = ":"
           /\ start > 0 => StartOf(p, end) = StartOf(p, start) + 1
           /\ start = 0 => StartOf(p, end) = 2 /\ At(1) = ":" /\ Len(input) >= 2
<1> DEFINE text == GroupText(p, start)
           from == StartOf(p, start)
<1>1. p \in [Slot -> Piece] /\ input = write_ipv6(p)
  BY DEF Reads
<1>2. start \in 0..8 /\ start \in Slot /\ end \in 0..8
  BY DEF Omits, Slot
<1>3. text = CompressedZeros(start)
  BY <1>2, GroupCases
<1>4. /\ text[1] = ":" /\ Len(text) \in 1..2
      /\ start > 0 => Len(text) = 1
      /\ start = 0 => Len(text) = 2 /\ text[2] = ":"
  <2>1. CASE start = 0
    BY <1>3, <2>1 DEF CompressedZeros
  <2>2. CASE start # 0
    BY <1>3, <2>2 DEF CompressedZeros
  <2> QED
    BY <1>2, <2>1, <2>2
<1>5. from \in Nat /\ Len(input) \in Nat /\ StartOf(p, 0) = 0
  <2>1. input \in Seq(Char)
    BY <1>1, TextPlaces
  <2> QED
    BY <1>1, <1>2, <2>1, TextPlaces, LenProperties
<1>6. /\ StartOf(p, start + 1) = from + Len(text) /\ StartOf(p, start + 1) <= Len(input)
      /\ \A j \in 1..Len(text) : input[from + j] = text[j]
  BY <1>1, <1>2, TextPlaces
<1>7. StartOf(p, end) = StartOf(p, start + 1)
  BY <1>1, OmittedPlaces
<1> HIDE DEF text
<1>8. from < Len(input) /\ input[from + 1] = ":"
  BY <1>4, <1>5, <1>6
<1>9. At(from) = ":"
  BY <1>8, AtInside
<1>10. start > 0 => StartOf(p, end) = from + 1
  BY <1>4, <1>5, <1>6, <1>7
<1>11. ASSUME start = 0
       PROVE  StartOf(p, end) = 2 /\ At(1) = ":" /\ Len(input) >= 2
  <2>1. from = 0 /\ Len(text) = 2 /\ text[2] = ":"
    BY <1>4, <1>5, <1>11
  <2>2. StartOf(p, end) = 2 /\ Len(input) >= 2
    BY <1>5, <1>6, <1>7, <2>1
  <2>3. input[2] = ":"
    BY <1>6, <2>1
  <2>4. At(1) = input[2]
    BY <1>5, <2>2, AtInside
  <2> QED
    BY <2>2, <2>3, <2>4
<1> QED
  BY <1>8, <1>9, <1>10, <1>11

\* A group is read with all its digits and nothing else.
LEMMA ReadsPlain ==
    ASSUME NEW p, Reads(p), NEW k \in Slot, Plain(p, k), i = StartOf(p, k)
    PROVE  /\ i < Len(input) /\ IsHex(At(i))
           /\ \A to \in i..Len(input) : IsHexRun(i, to) =>
                 /\ ClosesPiece(to) /\ ~OpensDotted(to) /\ HexValue(i, to) = p[k]
                 /\ (IF to = Len(input) THEN to ELSE to + 1) = StartOf(p, k + 1)
<1> DEFINE end == i + Len(HexText(p[k]))
<1>1. /\ i \in Nat /\ end \in (i + 1)..(i + 4) /\ end <= Len(input)
      /\ \A x \in i..(end - 1) : IsHex(At(x))
      /\ HexValue(i, end) = p[k]
      /\ IF k = 7 THEN end = Len(input) /\ StartOf(p, k + 1) = end
         ELSE end + 1 < Len(input) /\ At(end) = ":" /\ StartOf(p, k + 1) = end + 1
  BY PlainGroup
<1>2. Len(input) \in Nat
  <2>1. input \in Seq(Char)
    BY TextPlaces DEF Reads
  <2> QED
    BY <2>1, LenProperties
<1> HIDE DEF end
<1>3. i < Len(input) /\ i \in i..(end - 1) /\ end \in Nat
  BY <1>1, <1>2
<1>4. IsHex(At(i))
  BY <1>1, <1>3
<1>5. ASSUME NEW to \in i..Len(input), IsHexRun(i, to)
      PROVE  to = end
  <2>1. CASE to < end
    <3>1. to \in i..(end - 1) /\ to # Len(input) /\ to # i + 4
      BY <1>1, <1>2, <1>3, <2>1
    <3>2. IsHex(At(to))
      BY <1>1, <3>1
    <3> QED
      BY <1>5, <3>1, <3>2 DEF IsHexRun
  <2>2. CASE end < to
    <3>1. end \in i..(to - 1) /\ end # Len(input)
      BY <1>1, <1>2, <1>3, <2>2
    <3>2. IsHex(At(end))
      BY <1>5, <3>1 DEF IsHexRun
    <3>3. At(end) = ":"
      BY <1>1, <3>1
    <3> QED
      BY <3>2, <3>3, MarksAreNoDigits
  <2> QED
    BY <1>3, <1>2, <1>1, <2>1, <2>2
<1>6. ClosesPiece(end) /\ ~OpensDotted(end)
  <2>1. CASE k = 7
    BY <1>1, <1>2, <2>1 DEF ClosesPiece, OpensDotted
  <2>2. CASE k # 7
    BY <1>1, <2>2 DEF ClosesPiece, OpensDotted
  <2> QED
    BY <2>1, <2>2
<1>7. (IF end = Len(input) THEN end ELSE end + 1) = StartOf(p, k + 1)
  <2>1. CASE k = 7
    BY <1>1, <2>1
  <2>2. CASE k # 7
    <3>1. end # Len(input) /\ StartOf(p, k + 1) = end + 1
      BY <1>1, <1>2, <1>3, <2>2
    <3> QED
      BY <3>1
  <2> QED
    BY <2>1, <2>2
<1> QED
  BY <1>1, <1>3, <1>4, <1>5, <1>6, <1>7

\* Behind the last group is the end.
LEMMA ReadsToEnd ==
    ASSUME NEW p, Reads(p), i = StartOf(p, 8)
    PROVE  i = Len(input)
BY TextPlaces DEF Reads

\* A group in front of the zeros is written, and one behind them.
LEMMA PlainOutside ==
    ASSUME NEW p, NEW k \in Slot
    PROVE  /\ (\A start, end \in 0..8 : Omits(p, start, end) => k < start) => Plain(p, k)
           /\ \A start, end : Omits(p, start, end) /\ (k < start \/ end <= k) => Plain(p, k)
<1>1. ASSUME \A start, end \in 0..8 : Omits(p, start, end) => k < start
      PROVE  Plain(p, k)
  BY <1>1 DEF Plain
<1>2. ASSUME NEW start, NEW end, Omits(p, start, end), k < start \/ end <= k
      PROVE  Plain(p, k)
  <2> SUFFICES ASSUME NEW s \in 0..8, NEW e \in 0..8, Omits(p, s, e)
               PROVE  k < s \/ e <= k
    BY DEF Plain
  <2>1. s = start /\ e = end
    BY <1>2, OmitsOnce
  <2> QED
    BY <1>2, <2>1
<1> QED
  BY <1>1, <1>2

(****************************************************************************)
(* The steps of the parser in this text.                                    *)
(****************************************************************************)
\* An address is read when each of its groups is.
LEMMA SameGroups ==
    ASSUME NEW p \in [Slot -> Piece], PointerInv, \A k \in Slot : pieces[k] = p[k]
    PROVE  pieces = p
BY DEF PointerInv, IndexInBounds

\* At the start nothing is read; behind a first "::" are the groups that
\* follow the zeros.
LEMMA BeginReads ==
    ASSUME NEW p, PointerInv, Reads(p), ReadSoFar(p), Begin
    PROVE  ReadSoFar(p)'
<1>1. /\ phase = "Start" /\ i = 0 /\ piece_pointer = 0 /\ compress_pointer = None
      /\ \A k \in Slot : pieces[k] = 0
  BY ZerosFacts DEF Begin, ReadSoFar, PointerInv, StartInv
<1>2. p \in [Slot -> Piece] /\ Len(input) \in Nat /\ 0 \in Slot /\ StartOf(p, 0) = 0
  <2>1. input \in Seq(Char) /\ StartOf(p, 0) = 0
    BY TextPlaces DEF Reads
  <2> QED
    BY <2>1, LenProperties DEF Reads, Slot
<1>3. CASE \E end \in 0..8 : Omits(p, 0, end)
  <2>1. PICK end \in 0..8 : Omits(p, 0, end)
    BY <1>3
  <2>2. /\ At(0) = ":" /\ At(1) = ":" /\ Len(input) >= 2 /\ StartOf(p, end) = 2
    BY <1>2, <2>1, OmittedText
  <2>3. input[1] = ":" /\ input[2] = ":"
    <3>1. At(0) = input[0 + 1] /\ At(1) = input[1 + 1]
      BY <1>2, <2>2, AtInside
    <3> QED
      BY <2>2, <3>1
  <2>4. phase' = "Pieces" /\ i' = 2 /\ piece_pointer' = 1 /\ compress_pointer' = 1
        /\ pieces' = pieces
    BY <1>2, <2>2, <2>3 DEF Begin, LoneColon
  <2>5. p[0] = 0 /\ end \in 2..8
    BY <2>1, OmitsFacts
  <2>6. \A k \in Slot : pieces'[k] = IF k <= 0 THEN p[k]
                                     ELSE IF k <= 0 + (end - end)
                                     THEN p[((k - 0) - 1) + end] ELSE 0
    BY <1>1, <2>4, <2>5 DEF Slot
  <2>7. ReadsBehind(p, 0, end, end)'
    BY <2>1, <2>2, <2>4, <2>5, <2>6 DEF ReadsBehind
  <2> QED
    BY <2>4, <2>7 DEF ReadSoFar
<1>4. CASE ~\E end \in 0..8 : Omits(p, 0, end)
  <2>1. \A start, end \in 0..8 : Omits(p, start, end) => 0 < start
    BY <1>4
  <2>2. Plain(p, 0)
    BY <1>2, <2>1, PlainOutside
  <2>3. i < Len(input) /\ IsHex(At(i))
    BY <1>1, <1>2, <2>2, ReadsPlain
  <2>4. Len(input) >= 2
    <3>1. LET to == StartOf(p, 0) + Len(HexText(p[0]))
          IN  to \in (StartOf(p, 0) + 1)..(StartOf(p, 0) + 4) /\ to + 1 < Len(input)
      BY <1>2, <2>2, PlainGroup
    <3> QED
      BY <1>2, <3>1
  <2>5. input[1] # ":"
    <3>1. At(0) = input[0 + 1]
      BY <1>1, <2>3, AtInside
    <3> QED
      BY <1>1, <2>3, <3>1, MarksAreNoDigits
  <2>6. phase' = "Pieces"
        /\ UNCHANGED <<i, pieces, piece_pointer, compress_pointer>>
    BY <1>2, <2>4, <2>5 DEF Begin, LoneColon
  <2>7. ReadsBefore(p, 0)'
    <3>1. \A k \in Slot : pieces'[k] = IF k < 0 THEN p[k] ELSE 0
      BY <1>1, <2>6 DEF Slot
    <3>2. \A start, end \in 0..8 : Omits(p, start, end) => 0 <= start /\ start > 0
      BY <2>1
    <3> QED
      BY <1>1, <1>2, <2>6, <3>1, <3>2 DEF ReadsBefore
  <2> QED
    BY <2>6, <2>7 DEF ReadSoFar
<1> QED
  BY <1>3, <1>4

\* Where the parser is in its first loop.
LEMMA PiecesPlace ==
    ASSUME NEW p, Reads(p), ReadSoFar(p), phase = "Pieces"
    PROVE  \/ \E g \in 0..8 : ReadsBefore(p, g)
           \/ \E start, end, g \in 0..8 : ReadsBehind(p, start, end, g)
BY DEF ReadSoFar

\* In front of the zeros there is a group to read, or the "::".
LEMMA BeforePlace ==
    ASSUME NEW p, Reads(p), NEW g \in 0..8, ReadsBefore(p, g)
    PROVE  /\ g = 8 => i = Len(input)
           /\ g # 8 => g \in Slot /\ i < Len(input)
           /\ g # 8 /\ At(i) = ":" => \E end \in 0..8 : Omits(p, g, end)
           /\ g # 8 /\ At(i) # ":" =>
                 Plain(p, g) /\ \A start, end \in 0..8 : Omits(p, start, end) => g < start
<1>1. i = StartOf(p, g) /\ \A start, end \in 0..8 : Omits(p, start, end) => g <= start
  BY DEF ReadsBefore
<1>2. g = 8 => i = Len(input)
  BY <1>1, ReadsToEnd
<1>3. g # 8 => g \in Slot
  BY DEF Slot
<1>4. ASSUME g # 8, NEW end \in 0..8, Omits(p, g, end)
      PROVE  At(i) = ":" /\ i < Len(input)
  BY <1>1, <1>4, OmittedText
<1>5. ASSUME g # 8, \A end \in 0..8 : ~Omits(p, g, end)
      PROVE  /\ Plain(p, g) /\ i < Len(input) /\ At(i) # ":"
             /\ \A start, end \in 0..8 : Omits(p, start, end) => g < start
  <2>1. \A start, end \in 0..8 : Omits(p, start, end) => g < start
    BY <1>1, <1>5
  <2>2. Plain(p, g)
    BY <1>3, <1>5, <2>1, PlainOutside
  <2> QED
    BY <1>1, <1>3, <1>5, <2>1, <2>2, ReadsPlain, MarksAreNoDigits
<1> QED
  BY <1>2, <1>3, <1>4, <1>5

\* Behind the zeros there is a group to read, for which there is room.
LEMMA BehindPlace ==
    ASSUME NEW p, Reads(p), NEW start, NEW end, NEW g \in 0..8,
           ReadsBehind(p, start, end, g)
    PROVE  /\ g = 8 => i = Len(input)
           /\ g # 8 => /\ g \in Slot /\ Plain(p, g)
                       /\ i < Len(input) /\ At(i) # ":"
           /\ piece_pointer \in Slot /\ start \in 0..6 /\ end \in 2..8
           /\ start + 2 <= end
<1>1. i = StartOf(p, g) /\ Omits(p, start, end) /\ end <= g
      /\ piece_pointer = (start + 1) + (g - end)
  BY DEF ReadsBehind
<1>2. start \in 0..6 /\ end \in 2..8 /\ start + 2 <= end
  BY <1>1, OmitsFacts
<1>3. g = 8 => i = Len(input)
  BY <1>1, ReadsToEnd
<1>4. ASSUME g # 8
      PROVE  g \in Slot /\ Plain(p, g) /\ i < Len(input) /\ At(i) # ":"
  <2>1. g \in Slot
    BY <1>4 DEF Slot
  <2>2. Plain(p, g)
    BY <1>1, <2>1, PlainOutside
  <2> QED
    BY <1>1, <2>1, <2>2, ReadsPlain, MarksAreNoDigits
<1>5. piece_pointer \in Slot
  BY <1>1, <1>2 DEF Slot
<1> QED
  BY <1>2, <1>3, <1>4, <1>5

\* There are never more groups than room.
LEMMA TooManyPiecesReads ==
    ASSUME NEW p, Reads(p), ReadSoFar(p), TooManyPieces
    PROVE  FALSE
<1>1. phase = "Pieces" /\ i < Len(input) /\ piece_pointer = 8
  BY DEF TooManyPieces, AtPiece
<1>2. Len(input) \in Nat
  <2>1. input \in Seq(Char)
    BY TextPlaces DEF Reads
  <2> QED
    BY <2>1, LenProperties
<1>3. ASSUME NEW g \in 0..8, ReadsBefore(p, g)
      PROVE  FALSE
  <2>1. g = 8
    BY <1>1, <1>3 DEF ReadsBefore
  <2>2. i = Len(input)
    BY <1>3, <2>1, BeforePlace
  <2> QED
    BY <1>1, <1>2, <2>2
<1>4. ASSUME NEW start \in 0..8, NEW end \in 0..8, NEW g \in 0..8,
             ReadsBehind(p, start, end, g)
      PROVE  FALSE
  <2>1. piece_pointer \in Slot
    BY <1>4, BehindPlace
  <2> QED
    BY <1>1, <2>1 DEF Slot
<1> QED
  BY <1>1, <1>3, <1>4, PiecesPlace

\* The "::" is read where zeros are left out, and only there.
LEMMA CompressReads ==
    ASSUME NEW p, PointerInv, Reads(p), ReadSoFar(p), Compress
    PROVE  ReadSoFar(p)'
<1>1. phase = "Pieces" /\ i < Len(input) /\ At(i) = ":"
  BY DEF Compress, AtPiece
<1>2. Len(input) \in Nat /\ p \in [Slot -> Piece]
  <2>1. input \in Seq(Char)
    BY TextPlaces DEF Reads
  <2> QED
    BY <2>1, LenProperties DEF Reads
<1>3. ASSUME NEW g \in 0..8, ReadsBefore(p, g)
      PROVE  ReadSoFar(p)'
  <2>1. g # 8
    BY <1>1, <1>2, <1>3, BeforePlace
  <2>2. PICK end \in 0..8 : Omits(p, g, end)
    BY <1>1, <1>3, <2>1, BeforePlace
  <2>3. /\ i = StartOf(p, g) /\ piece_pointer = g /\ compress_pointer = None /\ g > 0
        /\ \A k \in Slot : pieces[k] = IF k < g THEN p[k] ELSE 0
    BY <1>3, <2>2 DEF ReadsBefore
  <2>4. i' = i + 1 /\ piece_pointer' = g + 1 /\ compress_pointer' = g + 1
        /\ phase' = "Pieces" /\ pieces' = pieces
    BY <1>1, <2>3 DEF Compress
  <2>5. i' = StartOf(p, end)
    BY <2>2, <2>3, <2>4, OmittedText
  <2>6. g \in 0..6 /\ end \in 2..8 /\ p[g] = 0
    <3>1. g \in 0..6 /\ end \in 2..8 /\ g + 2 <= end /\ \A k \in g..(end - 1) : p[k] = 0
      BY <2>2, OmitsFacts
    <3> QED
      BY <3>1
  <2>7. \A k \in Slot : pieces'[k] = IF k <= g THEN p[k]
                                     ELSE IF k <= g + (end - end)
                                     THEN p[((k - g) - 1) + end] ELSE 0
    BY <2>3, <2>4, <2>6 DEF Slot
  <2>8. ReadsBehind(p, g, end, end)'
    BY <2>2, <2>4, <2>5, <2>6, <2>7 DEF ReadsBehind
  <2> QED
    BY <2>4, <2>8 DEF ReadSoFar
<1>4. ASSUME NEW start \in 0..8, NEW end \in 0..8, NEW g \in 0..8,
             ReadsBehind(p, start, end, g)
      PROVE  ReadSoFar(p)'
  BY <1>1, <1>2, <1>4, BehindPlace
<1> QED
  BY <1>1, <1>3, <1>4, PiecesPlace

\* The next group of the address is read.
LEMMA ReadPieceReads ==
    ASSUME NEW p, PointerInv, Reads(p), ReadSoFar(p), ReadPiece
    PROVE  ReadSoFar(p)'
<1>1. phase = "Pieces" /\ i < Len(input) /\ At(i) # ":"
  BY DEF ReadPiece, AtPiece
<1>2. Len(input) \in Nat /\ pieces \in [Slot -> Piece]
  <2>1. input \in Seq(Char)
    BY TextPlaces DEF Reads
  <2> QED
    BY <2>1, LenProperties DEF PointerInv, IndexInBounds
<1>3. ASSUME NEW g \in Slot, Plain(p, g), i = StartOf(p, g)
      PROVE  /\ i' = StartOf(p, g + 1) /\ piece_pointer' = piece_pointer + 1
             /\ pieces' = [pieces EXCEPT ![piece_pointer] = p[g]]
             /\ compress_pointer' = compress_pointer
             /\ piece_pointer \in Slot => phase' = "Pieces"
  <2>1. \A to \in i..Len(input) : IsHexRun(i, to) =>
           /\ ClosesPiece(to) /\ ~OpensDotted(to) /\ HexValue(i, to) = p[g]
           /\ (IF to = Len(input) THEN to ELSE to + 1) = StartOf(p, g + 1)
    BY <1>3, ReadsPlain
  <2>2. PICK to \in i..Len(input) :
           /\ IsHexRun(i, to) /\ ClosesPiece(to)
           /\ pieces' = [pieces EXCEPT ![piece_pointer] = HexValue(i, to)]
           /\ Continue({piece_pointer}, "Pieces")
           /\ i' = (IF to = Len(input) THEN to ELSE to + 1)
           /\ piece_pointer' = piece_pointer + 1
           /\ UNCHANGED <<input, compress_pointer, numbers_seen, swaps, address>>
    BY <2>1 DEF ReadPiece
  <2>3. HexValue(i, to) = p[g]
        /\ (IF to = Len(input) THEN to ELSE to + 1) = StartOf(p, g + 1)
    BY <2>1, <2>2
  <2>4. piece_pointer \in Slot => phase' = "Pieces"
    BY <2>2 DEF Continue
  <2> QED
    BY <2>2, <2>3, <2>4
<1>4. ASSUME NEW g \in 0..8, ReadsBefore(p, g)
      PROVE  ReadSoFar(p)'
  <2>1. g # 8
    BY <1>1, <1>2, <1>4, BeforePlace
  <2>2. /\ g \in Slot /\ Plain(p, g)
        /\ \A start, end \in 0..8 : Omits(p, start, end) => g < start
    BY <1>1, <1>4, <2>1, BeforePlace
  <2>3. /\ i = StartOf(p, g) /\ piece_pointer = g /\ compress_pointer = None
        /\ \A k \in Slot : pieces[k] = IF k < g THEN p[k] ELSE 0
    BY <1>4 DEF ReadsBefore
  <2>4. /\ i' = StartOf(p, g + 1) /\ piece_pointer' = g + 1 /\ compress_pointer' = None
        /\ pieces' = [pieces EXCEPT ![g] = p[g]] /\ phase' = "Pieces"
    BY <1>3, <2>2, <2>3
  <2>5. \A k \in Slot : pieces'[k] = IF k < g + 1 THEN p[k] ELSE 0
    BY <1>2, <2>2, <2>3, <2>4 DEF Slot
  <2>6. \A start, end \in 0..8 : Omits(p, start, end) => g + 1 <= start /\ start > 0
    BY <2>2 DEF Slot
  <2>7. g + 1 \in 0..8 /\ ReadsBefore(p, g + 1)'
    BY <2>2, <2>4, <2>5, <2>6 DEF ReadsBefore, Slot
  <2> QED
    BY <2>4, <2>7 DEF ReadSoFar
<1>5. ASSUME NEW start \in 0..8, NEW end \in 0..8, NEW g \in 0..8,
             ReadsBehind(p, start, end, g)
      PROVE  ReadSoFar(p)'
  <2>1. g # 8
    BY <1>1, <1>2, <1>5, BehindPlace
  <2>2. /\ g \in Slot /\ Plain(p, g) /\ piece_pointer \in Slot
        /\ start \in 0..6 /\ end \in 2..8 /\ start + 2 <= end
    BY <1>5, <2>1, BehindPlace
  <2>3. /\ Omits(p, start, end) /\ end <= g
        /\ i = StartOf(p, g) /\ compress_pointer = start + 1
        /\ piece_pointer = (start + 1) + (g - end)
        /\ \A k \in Slot : pieces[k] = IF k <= start THEN p[k]
                                       ELSE IF k <= start + (g - end)
                                       THEN p[((k - start) - 1) + end] ELSE 0
    BY <1>5 DEF ReadsBehind
  <2>4. /\ i' = StartOf(p, g + 1) /\ piece_pointer' = piece_pointer + 1
        /\ compress_pointer' = start + 1
        /\ pieces' = [pieces EXCEPT ![piece_pointer] = p[g]] /\ phase' = "Pieces"
    BY <1>3, <2>2, <2>3
  <2>5. ASSUME NEW k \in Slot
        PROVE  pieces'[k] = IF k <= start THEN p[k]
                            ELSE IF k <= start + ((g + 1) - end)
                            THEN p[((k - start) - 1) + end] ELSE 0
    <3>1. CASE k = piece_pointer
      <4>1. pieces'[k] = p[g]
        BY <1>2, <2>4, <3>1
      <4>2. /\ ~(k <= start) /\ k <= start + ((g + 1) - end)
            /\ ((k - start) - 1) + end = g
        BY <2>2, <2>3, <3>1 DEF Slot
      <4> QED
        BY <4>1, <4>2
    <3>2. CASE k # piece_pointer
      <4>1. pieces'[k] = pieces[k]
        BY <1>2, <2>4, <3>2
      <4>2. k <= start + (g - end) <=> k <= start + ((g + 1) - end)
        BY <2>2, <2>3, <3>2 DEF Slot
      <4> QED
        BY <2>3, <4>1, <4>2
    <3> QED
      BY <3>1, <3>2
  <2>6. end <= g + 1 /\ g + 1 \in 0..8
        /\ piece_pointer' = (start + 1) + ((g + 1) - end)
    BY <2>2, <2>3, <2>4 DEF Slot
  <2>7. ReadsBehind(p, start, end, g + 1)'
    BY <2>3, <2>4, <2>5, <2>6 DEF ReadsBehind
  <2> QED
    BY <2>4, <2>6, <2>7 DEF ReadSoFar
<1> QED
  BY <1>1, <1>4, <1>5, PiecesPlace

\* At the end every group is read; those behind the zeros are yet to move.
LEMMA EndOfInputReads ==
    ASSUME NEW p, PointerInv, Reads(p), ReadSoFar(p), EndOfInput
    PROVE  ReadSoFar(p)'
<1>1. i = Len(input) /\ phase = "Pieces"
  BY DEF EndOfInput, ReadSoFar
<1>2. Len(input) \in Nat /\ p \in [Slot -> Piece]
  <2>1. input \in Seq(Char)
    BY TextPlaces DEF Reads
  <2> QED
    BY <2>1, LenProperties DEF Reads
<1>3. ASSUME NEW g \in 0..8, ReadsBefore(p, g)
      PROVE  ReadSoFar(p)'
  <2>1. g = 8
    BY <1>1, <1>2, <1>3, BeforePlace
  <2>2. /\ piece_pointer = 8 /\ compress_pointer = None
        /\ \A k \in Slot : pieces[k] = IF k < 8 THEN p[k] ELSE 0
    BY <1>3, <2>1 DEF ReadsBefore
  <2>3. \A k \in Slot : pieces[k] = p[k]
    BY <2>2 DEF Slot
  <2>4. pieces = p
    BY <1>2, <2>3, SameGroups
  <2>5. phase' = "Ok" /\ pieces' = pieces
    BY <1>1, <2>2 DEF EndOfInput, Incomplete
  <2> QED
    BY <2>4, <2>5 DEF ReadSoFar
<1>4. ASSUME NEW start \in 0..8, NEW end \in 0..8, NEW g \in 0..8,
             ReadsBehind(p, start, end, g)
      PROVE  ReadSoFar(p)'
  <2>1. g = 8
    BY <1>1, <1>2, <1>4, BehindPlace
  <2>2. start \in 0..6 /\ end \in 2..8 /\ start + 2 <= end
    BY <1>4, BehindPlace
  <2>3. /\ Omits(p, start, end) /\ compress_pointer = start + 1
        /\ piece_pointer = (start + 1) + (8 - end)
        /\ \A k \in Slot : pieces[k] = IF k <= start THEN p[k]
                                       ELSE IF k <= start + (8 - end)
                                       THEN p[((k - start) - 1) + end] ELSE 0
    BY <1>4, <2>1 DEF ReadsBehind
  <2>4. compress_pointer # None
    BY <2>2, <2>3 DEF None
  <2>5. /\ phase' = "Shift" /\ swaps' = piece_pointer - compress_pointer
        /\ piece_pointer' = 7 /\ UNCHANGED <<pieces, compress_pointer>>
    BY <1>1, <2>4 DEF EndOfInput, Incomplete
  <2>6. swaps' = 8 - end /\ piece_pointer' = (end - 1) + swaps'
    BY <2>2, <2>3, <2>5
  <2>7. \A k \in Slot : pieces'[k] = IF k <= start \/ end + swaps' <= k THEN p[k]
                                     ELSE IF k <= start + swaps'
                                     THEN p[((k - start) - 1) + end] ELSE 0
    BY <2>2, <2>3, <2>5, <2>6 DEF Slot
  <2>8. Moves(p, start, end)'
    BY <2>2, <2>3, <2>5, <2>6, <2>7 DEF Moves
  <2> QED
    BY <2>5, <2>8 DEF ReadSoFar
<1> QED
  BY <1>1, <1>3, <1>4, PiecesPlace

\* A swap takes the last group that is left to its place.
LEMMA SwapReads ==
    ASSUME NEW p, PointerInv, PointerInv', Reads(p), ReadSoFar(p), Swap
    PROVE  ReadSoFar(p)'
<1>1. phase = "Shift" /\ swaps > 0
  BY DEF Swap
<1>2. PICK start \in 0..8, end \in 0..8 : Moves(p, start, end)
  BY <1>1 DEF ReadSoFar
<1>3. /\ Omits(p, start, end) /\ compress_pointer = start + 1 /\ swaps <= 8 - end
      /\ piece_pointer = (end - 1) + swaps
      /\ \A k \in Slot : pieces[k] = IF k <= start \/ end + swaps <= k THEN p[k]
                                     ELSE IF k <= start + swaps
                                     THEN p[((k - start) - 1) + end] ELSE 0
  BY <1>2 DEF Moves
<1>4. start \in 0..6 /\ end \in 2..8 /\ start + 2 <= end
  BY <1>3, OmitsFacts
<1> DEFINE to == (end - 1) + swaps
           from == start + swaps
<1>5. swaps \in 1..6 /\ to \in Slot /\ from \in Slot /\ start < from /\ from < to
  <2>1. swaps \in Slot
    BY DEF PointerInv, IndexInBounds
  <2> QED
    BY <1>1, <1>3, <1>4, <2>1 DEF Slot
<1>6. compress_pointer + swaps - 1 = from
  BY <1>3, <1>4, <1>5
<1>7. /\ pieces' = Swapped(pieces, to, from) /\ swaps' = swaps - 1
      /\ piece_pointer' = to - 1 /\ compress_pointer' = start + 1 /\ phase' = "Shift"
  BY <1>3, <1>5, <1>6 DEF Swap, SwapsLeft, Continue
<1>8. \A k \in Slot : pieces'[k] = IF k = to THEN pieces[from]
                                   ELSE IF k = from THEN pieces[to] ELSE pieces[k]
  BY <1>5, <1>7 DEF Swapped
<1>9. pieces[from] = p[to] /\ pieces[to] = 0
  <2>1. /\ ~(from <= start \/ end + swaps <= from) /\ from <= start + swaps
        /\ ((from - start) - 1) + end = to
        /\ ~(to <= start \/ end + swaps <= to) /\ ~(to <= start + swaps)
    BY <1>4, <1>5 DEF Slot
  <2> HIDE DEF from, to
  <2> QED
    BY <1>3, <1>5, <2>1
<1>10. ASSUME NEW k \in Slot
       PROVE  pieces'[k] = IF k <= start \/ end + (swaps - 1) <= k THEN p[k]
                           ELSE IF k <= start + (swaps - 1)
                           THEN p[((k - start) - 1) + end] ELSE 0
  <2>1. CASE k = to
    <3>1. end + (swaps - 1) <= k
      BY <1>4, <1>5, <2>1
    <3> QED
      BY <1>8, <1>9, <2>1, <3>1
  <2>2. CASE k = from
    <3>1. ~(k <= start \/ end + (swaps - 1) <= k) /\ ~(k <= start + (swaps - 1))
      BY <1>4, <1>5, <2>2
    <3>2. pieces'[k] = 0
      BY <1>5, <1>8, <1>9, <2>2
    <3> QED
      BY <3>1, <3>2
  <2>3. CASE k # to /\ k # from
    <3>1. pieces'[k] = pieces[k]
      BY <1>8, <2>3
    <3>2. /\ end + (swaps - 1) <= k <=> end + swaps <= k
          /\ k <= start + (swaps - 1) <=> k <= start + swaps
      BY <1>4, <1>5, <2>3 DEF Slot
    <3> QED
      BY <1>3, <3>1, <3>2
  <2> QED
    BY <2>1, <2>2, <2>3
<1>11. swaps - 1 <= 8 - end /\ to - 1 = (end - 1) + (swaps - 1)
  BY <1>3, <1>4, <1>5
<1>12. Moves(p, start, end)'
  BY <1>3, <1>7, <1>10, <1>11 DEF Moves
<1> QED
  BY <1>7, <1>12 DEF ReadSoFar

\* When none is left every group is in its place.
LEMMA ShiftedReads ==
    ASSUME NEW p, PointerInv, Reads(p), ReadSoFar(p), Shifted
    PROVE  ReadSoFar(p)'
<1>1. phase = "Shift" /\ swaps = 0 /\ phase' = "Ok" /\ pieces' = pieces
  BY DEF Shifted
<1>2. PICK start \in 0..8, end \in 0..8 : Moves(p, start, end)
  BY <1>1 DEF ReadSoFar
<1>3. /\ Omits(p, start, end)
      /\ \A k \in Slot : pieces[k] = IF k <= start \/ end + 0 <= k THEN p[k]
                                     ELSE IF k <= start + 0
                                     THEN p[((k - start) - 1) + end] ELSE 0
  BY <1>1, <1>2 DEF Moves
<1>4. /\ start \in 0..6 /\ end \in 2..8
      /\ \A k \in start..(end - 1) : p[k] = 0
  BY <1>3, OmitsFacts
<1>5. ASSUME NEW k \in Slot
      PROVE  pieces[k] = p[k]
  <2>1. CASE k <= start \/ end <= k
    BY <1>3, <1>4, <2>1 DEF Slot
  <2>2. CASE ~(k <= start \/ end <= k)
    <3>1. p[k] = 0
      BY <1>4, <2>2 DEF Slot
    <3>2. ~(k <= start \/ end + 0 <= k) /\ ~(k <= start + 0)
      BY <1>4, <2>2 DEF Slot
    <3> QED
      BY <1>3, <3>1, <3>2
  <2> QED
    BY <2>1, <2>2
<1>6. pieces = p
  BY <1>5, SameGroups DEF Reads
<1> QED
  BY <1>1, <1>6 DEF ReadSoFar

\* Every step keeps what has been read.
LEMMA StepReads ==
    ASSUME PointerInv, PointerInv', ReadInv, [Next]_vars
    PROVE  ReadInv'
<1>1. CASE Display
  <2>1. address' = pieces /\ input' = write_ipv6(pieces) /\ i' = 0 /\ phase' = "Start"
    BY <1>1 DEF Display
  <2>2. pieces \in [Slot -> Piece]
    BY DEF PointerInv, IndexInBounds
  <2> QED
    BY <2>1, <2>2 DEF ReadInv, Reads, ReadSoFar
<1>2. CASE ~Display /\ address = NoAddress
  <2>1. address' = address
    BY <1>2 DEF Next, vars, Begin, TooManyPieces, Compress, ReadPiece, ReadNumber,
                EndOfInput, Swap, Shifted, Fail
  <2> QED
    BY <1>2, <2>1 DEF ReadInv
<1>3. CASE ~Display /\ address # NoAddress
  <2>1. UNCHANGED <<address, input>>
    BY <1>3 DEF Next, vars, Begin, TooManyPieces, Compress, ReadPiece, ReadNumber,
                EndOfInput, Swap, Shifted, Fail
  <2>2. PICK p : p = address
    OBVIOUS
  <2>3. Reads(p) /\ ReadSoFar(p)
    BY <1>3, <2>2 DEF ReadInv
  <2>4. ReadSoFar(p)'
    <3>1. CASE ReadNumber
      BY <2>3, <3>1 DEF ReadSoFar, ReadNumber
    <3>2. CASE UNCHANGED vars
      <4>1. \A g : ReadsBefore(p, g)' <=> ReadsBefore(p, g)
        BY <3>2 DEF vars, ReadsBefore
      <4>2. \A start, end, g : ReadsBehind(p, start, end, g)' <=> ReadsBehind(p, start, end, g)
        BY <3>2 DEF vars, ReadsBehind
      <4>3. \A start, end : Moves(p, start, end)' <=> Moves(p, start, end)
        BY <3>2 DEF vars, Moves
      <4> QED
        BY <2>3, <3>2, <4>1, <4>2, <4>3 DEF vars, ReadSoFar
    <3> QED
      BY <1>3, <2>3, <3>1, <3>2, BeginReads, TooManyPiecesReads, CompressReads,
         ReadPieceReads, EndOfInputReads, SwapReads, ShiftedReads DEF Next
  <2>5. Reads(p)'
    BY <2>1, <2>3 DEF Reads
  <2>6. address' = p
    BY <2>1, <2>2
  <2>7. \A g : ReadsBefore(address, g)' <=> ReadsBefore(p, g)'
    BY <2>6 DEF ReadsBefore
  <2>8. \A start, end, g :
           ReadsBehind(address, start, end, g)' <=> ReadsBehind(p, start, end, g)'
    BY <2>6 DEF ReadsBehind
  <2>9. \A start, end : Moves(address, start, end)' <=> Moves(p, start, end)'
    BY <2>6 DEF Moves
  <2> QED
    BY <2>4, <2>5, <2>6, <2>7, <2>8, <2>9 DEF ReadInv, Reads, ReadSoFar
<1> QED
  BY <1>1, <1>2, <1>3

\* Whatever address a text gave, parse_ipv6addr never refuses what write_ipv6
\* writes for it, and reads no other address in it.
THEOREM AddressReadBack == Spec => []WriteReads
<1>1. Init => ReadInv
  BY DEF Init, ReadInv
<1>2. PointerInv /\ ReadInv /\ [Next]_vars => (PointerInv /\ ReadInv)'
  BY StepKeepsPointers, StepReads
<1>3. PointerInv /\ ReadInv => WriteReads
  BY DEF ReadInv, ReadSoFar, WriteReads
<1> QED
  BY <1>1, <1>2, <1>3, InitPointers, PTL DEF Spec

==============================================================================
