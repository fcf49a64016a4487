--------------------------------- MODULE Text ---------------------------------
(***************************************************************************)
(* The functions on strings that the other parts use: StringUtil (util.cpp)*)
(* and the parser of "name=value" lists (PARSE_PARAM, http.cpp).  A string *)
(* is a sequence of character codes.                                       *)
(***************************************************************************)
EXTENDS Integers, Sequences, FiniteSets

CONSTANTS Char,      \* codes the strings are made of
          MaxText    \* bound on their length

ASSUME TextAssumption == Char \subseteq 0 .. 255 /\ MaxText \in Nat

VARIABLE text        \* a string someone hands in

Space == 32   Percent == 37   Amp == 38   Plus == 43   Equals == 61
Blank == {9, 10, 13, Space}
Digits == 48 .. 57
Letters(first) == first .. first + 25

TextInit == text = <<>>

TextNext == Len(text) < MaxText /\ \E c \in Char : text' = Append(text, c)

-----------------------------------------------------------------------------
(* The table uri_chars; it has '=', which its comment leaves out.           *)
Unreserved == {45, 46, Equals, 95, 126} \cup Digits \cup Letters(65) \cup Letters(97)
Hex(n) == IF n < 10 THEN 48 + n ELSE 55 + n
IsHex(c) == c \in Digits \cup 65 .. 70 \cup 97 .. 102
HexValue(c) == IF c \in Digits THEN c - 48 ELSE IF c < 97 THEN c - 55 ELSE c - 87

UrlEncode(s, space_as_plus) ==
  LET Encoded(c) ==
        IF c \in Unreserved THEN <<c>>
        ELSE IF c = Space /\ space_as_plus THEN <<Plus>>
        ELSE <<Percent, Hex(c \div 16), Hex(c % 16)>>
      from[i \in 1 .. Len(s) + 1] ==
        IF i > Len(s) THEN <<>> ELSE Encoded(s[i]) \o from[i + 1]
  IN  from[1]

(* Mutant: an escape at the very end is not seen.                          *)
EscapeAt_Short(s, i) ==
  s[i] = Percent /\ i + 2 < Len(s) /\ IsHex(s[i + 1]) /\ IsHex(s[i + 2])

EscapeAt(s, i) ==
  s[i] = Percent /\ i + 2 <= Len(s) /\ IsHex(s[i + 1]) /\ IsHex(s[i + 2])

UrlDecode(s, space_as_plus) ==
  LET from[i \in 1 .. Len(s) + 1] ==
        IF i > Len(s) THEN <<>>
        ELSE IF s[i] = Plus /\ space_as_plus THEN <<Space>> \o from[i + 1]
        ELSE IF EscapeAt(s, i)
          THEN <<16 * HexValue(s[i + 1]) + HexValue(s[i + 2])>> \o from[i + 3]
        ELSE <<s[i]>> \o from[i + 1]
  IN  from[1]

-----------------------------------------------------------------------------
(* Positions of the characters that are not blanks, the first and the last.*)
Solid(s) == {i \in DOMAIN s : s[i] \notin Blank}
First(S) == CHOOSE i \in S : \A j \in S : i <= j
Last(S) == CHOOSE i \in S : \A j \in S : j <= i

Trim(s) == IF Solid(s) = {} THEN <<>> ELSE SubSeq(s, First(Solid(s)), Last(Solid(s)))
TrimLeft(s) == IF Solid(s) = {} THEN <<>> ELSE SubSeq(s, First(Solid(s)), Len(s))

(* It takes the last character that is not a blank away, too.              *)
TrimRight(s) == IF Solid(s) = {} THEN <<>> ELSE SubSeq(s, 1, Last(Solid(s)) - 1)

-----------------------------------------------------------------------------
(* The insertions PARSE_PARAM makes, in order.  It looks for the next '='  *)
(* wherever it is, then for the separator.                                 *)
Pairs(s, separator, trim) ==
  LET After(c, i) == {j \in i .. Len(s) : s[j] = c}
      from[last \in 1 .. Len(s) + 1] ==
        IF After(Equals, last) = {} THEN <<>>
        ELSE LET key == First(After(Equals, last))
                 ends == After(separator, key)
                 pos == IF ends = {} THEN Len(s) + 1 ELSE First(ends)
                 name == SubSeq(s, last, key - 1)
                 pair == << IF trim THEN Trim(name) ELSE name,
                            UrlDecode(SubSeq(s, key + 1, pos - 1), TRUE) >>
             IN  <<pair>> \o (IF ends = {} THEN <<>> ELSE from[pos + 1])
  IN  from[1]

-----------------------------------------------------------------------------
(* What is encoded is decoded again (util.cpp:129, 160).                   *)
UrlRoundTrip ==
  \A plus \in BOOLEAN : UrlDecode(UrlEncode(text, plus), plus) = text

(* What the comment on UrlEncode() lists is left as it is, everything else *)
(* becomes an escape or a '+' (util.cpp:128), but for the '=' (util.cpp:88)*)
Documented == {45, 46, 95, 126} \cup Digits \cup Letters(65) \cup Letters(97)
OnlyListedStay ==
  \A plus \in BOOLEAN :
    LET e == UrlEncode(text, plus)
    IN  \A i \in DOMAIN e : e[i] \in Documented \cup {Percent, Plus, Equals}

(* Trimming is idempotent, and on both sides the same as one after the     *)
(* other, but for the character TrimRight() loses (util.cpp:213).          *)
TrimsAgree ==
  /\ Trim(Trim(text)) = Trim(text)
  /\ LET l == TrimLeft(text)
     IN  TrimRight(l) = IF Trim(text) = <<>> THEN <<>>
                        ELSE SubSeq(Trim(text), 1, Len(Trim(text)) - 1)

(* The segments between separators, by the place before each.              *)
Bounds == {0, Len(text) + 1} \cup {i \in DOMAIN text : text[i] = Amp}
Starts == Bounds \ {Len(text) + 1}
EndOf(b) == First({c \in Bounds : c > b})
Segment(b) == SubSeq(text, b + 1, EndOf(b) - 1)
EqualsIn(g) == {i \in DOMAIN g : g[i] = Equals}
Paired == {b \in Starts : EqualsIn(Segment(b)) # {}}
NthPaired(n) == CHOOSE b \in Paired : Cardinality({c \in Paired : c <= b}) = n
PairOf(g) ==
  LET e == First(EqualsIn(g))
  IN  << SubSeq(g, 1, e - 1), UrlDecode(SubSeq(g, e + 1, Len(g)), TRUE) >>

(* Every segment with a '=' gives its pair, name before the first '=' and  *)
(* value behind, if no segment without one comes earlier: such a segment   *)
(* becomes part of the next name (http.cpp:221).                           *)
SegmentsParsed ==
  (\A b \in Starts, c \in Paired : b < c => b \in Paired) =>
    Pairs(text, Amp, FALSE) =
      [n \in 1 .. Cardinality(Paired) |-> PairOf(Segment(NthPaired(n)))]

TextSound == UrlRoundTrip /\ OnlyListedStay /\ TrimsAgree /\ SegmentsParsed
=============================================================================
