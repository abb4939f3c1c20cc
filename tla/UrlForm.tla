------------------------------- MODULE UrlForm -------------------------------
(****************************************************************************)
(* application/x-www-form-urlencoded (form_urlencoded.rs): name/value pairs *)
(* written as the text of a query, and read back from any query.            *)
(****************************************************************************)
EXTENDS UrlParser

\* byte_serialized_unchanged
Unchanged(c) == c \in Word \union Digit \union {".", "v4"}

\* byte_serialize: a space becomes '+', all else is escaped.  ("%2e" stands
\* for the escapes a name may hold: its '%' is escaped in turn.)
byte_serialize(text) ==
    [i \in 1..Len(text) |-> CASE text[i] = "SP"     -> "+"
                              [] Unchanged(text[i]) -> text[i]
                              [] OTHER              -> EscapeOf(text[i])]

\* decode: replace_plus, then percent_decode.
Decode(text) ==
    PercentDecode([i \in 1..Len(text) |-> IF text[i] = "+" THEN "SP"
                                          ELSE text[i]])

\* The texts between separators: split, and splitn on what is left.
Split(text, separator) ==
    LET parts == Segments(text, {separator})
    IN  [i \in 1..Len(parts) |-> parts[i].text]

\* A sequence between two '&' is cut at its first '='.
PairOf(sequence) ==
    LET stops == {i \in 1..Len(sequence) : sequence[i] = "="}
        stop  == Min(stops \union {Len(sequence) + 1})
    IN  <<Decode(SubSeq(sequence, 1, stop - 1)),
          Decode(SubSeq(sequence, stop + 1, Len(sequence)))>>

\* parse: all pairs of a query; empty sequences are passed over.
ParsePairs(query) ==
    LET sequences == SelectSeq(Split(query, "&"), LAMBDA s : s # <<>>)
    IN  [i \in 1..Len(sequences) |-> PairOf(sequences[i])]
==============================================================================
