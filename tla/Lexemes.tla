------------------------------- MODULE Lexemes -------------------------------
(****************************************************************************)
(* The alphabet URLs are written in.  The serialization of a Url is a       *)
(* String and every component boundary a byte offset into it; here it is a  *)
(* sequence of lexemes and an offset counts lexemes.  A lexeme is a         *)
(* character the parser looks at (":", "/", "%2e", ...), the escape the     *)
(* percent-encoder writes for one, or a Word: a run of letters no rule      *)
(* distinguishes.  Schemes, ports and hosts are runs of lexemes of          *)
(* different lengths, so that offsets move when a component is replaced.    *)
(****************************************************************************)
EXTENDS Integers, Sequences

CONSTANTS
    Word,       \* runs of letters: scheme names, hosts, names, segments
    Letter,     \* the words that are a single letter (drive letters)
    Lowercase   \* to_ascii_lowercase on words

Digit == {"0", "1", "2", "3", "4", "5", "6", "7", "8", "9"}

\* Characters the parser treats specially; SP, TAB and BSLASH are a space, a
\* tab and a backslash.  "%2e" is the escape of a dot, which parse_path still
\* reads as a dot; "[v6]" and "v4" are IP address literals; "&", "=" and "+"
\* only mean something in the pairs of a query.
Mark == {":", "/", "BSLASH", "?", "#", "@", ".", "%2e", "SP", "TAB", "'", "|",
         "[v6]", "v4", "&", "=", "+"}

\* What the percent-encoder writes, as one lexeme per encoded character.
EscapeOf(c) ==
    CASE c = "SP"     -> "%20"
      [] c = "TAB"    -> "%09"
      [] c = "#"      -> "%23"
      [] c = "?"      -> "%3F"
      [] c = "/"      -> "%2F"
      [] c = ":"      -> "%3A"
      [] c = "@"      -> "%40"
      [] c = "BSLASH" -> "%5C"
      [] c = "'"      -> "%27"
      [] c = "|"      -> "%7C"
      [] c = "%2e"    -> "%252e"
      [] c = "&"      -> "%26"
      [] c = "="      -> "%3D"
      [] c = "+"      -> "%2B"

\* The characters that have an escape here.
Escapable == {"SP", "TAB", "#", "?", "/", ":", "@", "BSLASH", "'", "|", "%2e",
              "&", "=", "+"}

Escape == {"%20", "%09", "%23", "%3F", "%2F", "%3A", "%40", "%5C", "%27",
           "%7C", "%252e", "%26", "%3D", "%2B"}

Lexeme == Word \union Digit \union Mark \union Escape

ASSUME WordAssumption ==
    /\ Letter \subseteq Word
    /\ Word \intersect (Digit \union Mark \union Escape) = {}
    /\ Lowercase \in [Word -> Word]

Text == Seq(Lexeme)

(****************************************************************************)
(* Percent-encode sets (parser.rs): what each component has to escape.      *)
(****************************************************************************)
CONTROLS             == {"TAB"}
FRAGMENT             == CONTROLS \union {"SP"}
PATH                 == FRAGMENT \union {"#", "?"}
PATH_SEGMENT         == PATH \union {"/", "%2e"}
SPECIAL_PATH_SEGMENT == PATH_SEGMENT \union {"BSLASH"}
USERINFO             == PATH \union {"/", ":", "@", "BSLASH", "|", "="}
QUERY                == CONTROLS \union {"SP", "#"}
SPECIAL_QUERY        == QUERY \union {"'"}

\* utf8_percent_encode(text, set)
PercentEncode(text, set) ==
    [i \in 1..Len(text) |-> IF text[i] \in set THEN EscapeOf(text[i])
                                               ELSE text[i]]

\* percent_decode of one lexeme, and of a text.
Decoded(c) ==
    IF c = "%2e" THEN "."
    ELSE IF c \in Escape THEN CHOOSE raw \in Escapable : EscapeOf(raw) = c
    ELSE c

PercentDecode(text) == [i \in 1..Len(text) |-> Decoded(text[i])]

(****************************************************************************)
(* Schemes, their categories and default ports.                             *)
(****************************************************************************)
FileScheme == <<"file">>

\* SchemeType::from: "https" is "http" and "s", "wss" is "ws" and "s".
SchemeType(scheme) ==
    IF scheme = FileScheme THEN "File"
    ELSE IF scheme \in {<<"http">>, <<"http", "s">>, <<"ws">>, <<"ws", "s">>,
                        <<"ftp">>}
         THEN "SpecialNotFile"
         ELSE "NotSpecial"

SchemeTypes == {"File", "SpecialNotFile", "NotSpecial"}

IsSpecialType(type) == type # "NotSpecial"

\* Option::None, for ports and for the offsets of absent components.
None == -1

default_port(scheme) ==
    CASE scheme \in {<<"http">>, <<"ws">>}           -> 80
      [] scheme \in {<<"http", "s">>, <<"ws", "s">>} -> 443
      [] scheme = <<"ftp">>                          -> 21
      [] OTHER                                       -> None

\* A port is a u16.
MaxPort == 65535
PortNumber == 0..MaxPort

DigitLexeme(d) ==
    CASE d = 0 -> "0" [] d = 1 -> "1" [] d = 2 -> "2" [] d = 3 -> "3"
      [] d = 4 -> "4" [] d = 5 -> "5" [] d = 6 -> "6" [] d = 7 -> "7"
      [] d = 8 -> "8" [] OTHER -> "9"

\* The decimal digits write!(.., "{port}") produces.
Decimal(n) ==
    CASE n < 10    -> <<DigitLexeme(n)>>
      [] n < 100   -> <<DigitLexeme(n \div 10), DigitLexeme(n % 10)>>
      [] n < 1000  -> <<DigitLexeme(n \div 100), DigitLexeme((n \div 10) % 10),
                        DigitLexeme(n % 10)>>
      [] n < 10000 -> <<DigitLexeme(n \div 1000),
                        DigitLexeme((n \div 100) % 10),
                        DigitLexeme((n \div 10) % 10), DigitLexeme(n % 10)>>
      [] OTHER     -> <<DigitLexeme(n \div 10000),
                        DigitLexeme((n \div 1000) % 10),
                        DigitLexeme((n \div 100) % 10),
                        DigitLexeme((n \div 10) % 10), DigitLexeme(n % 10)>>

\* The ":port" a serialization carries for a port that is present.
PortSuffix(port) == <<":">> \o Decimal(port)
==============================================================================
