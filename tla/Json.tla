--------------------------------- MODULE Json ---------------------------------
(***************************************************************************)
(* The JSON reader and writer (backend/src/json.rs) that stand between     *)
(* request bodies, the columns of a guide that hold JSON text, and the     *)
(* answers.                                                                *)
(*                                                                         *)
(* A text is a sequence of characters, each its code point.  A value is a  *)
(* pair of what it is and what it holds: a literal, an integer (fractions, *)
(* exponents and whitespace are left out), a string, a sequence of values, *)
(* or a function from strings to values.                                   *)
(***************************************************************************)
EXTENDS Integers, Sequences, SequencesExt, FiniteSetsExt

CONSTANT MaxDepth   \* MAX_DEPTH

ASSUME JsonAssumption == MaxDepth \in Nat

Quote == 34
Backslash == 92
Comma == 44
Colon == 58
Minus == 45
OpenArray == 91
CloseArray == 93
OpenObject == 123
CloseObject == 125
Digits == 48 .. 57

NullText == <<110, 117, 108, 108>>
True == <<116, 114, 117, 101>>
False == <<102, 97, 108, 115, 101>>

\* What follows a backslash, and what it stands for.
Short ==
  [e \in {34, 92, 98, 102, 110, 114, 116} |->
     CASE e = 98 -> 8 [] e = 102 -> 12 [] e = 110 -> 10 [] e = 114 -> 13 [] e = 116 -> 9 [] OTHER -> e]

HexVal(c) ==
  IF c \in Digits THEN c - 48 ELSE IF c \in 65 .. 70 THEN c - 55 ELSE IF c \in 97 .. 102 THEN c - 87 ELSE -1

-----------------------------------------------------------------------------
(* The reader: a value and the position behind it, or nothing. *)

Nothing == [ok |-> FALSE]
Got(v, i) == [ok |-> TRUE, value |-> v, at |-> i]

\* What was read between two signs, as a value of its kind.
Enclosed(kind, r) == IF r.ok THEN Got(<<kind, r.value>>, r.at) ELSE Nothing

\* The first of several, when the rest was read.
Followed(x, rest) == IF rest.ok THEN Got(<<x>> \o rest.value, rest.at) ELSE Nothing

\* peek: the character at i, or none.
Peek(s, i) == IF i \in DOMAIN s THEN s[i] ELSE -1

\* hex4
Hex4(s, i) ==
  LET h(k) == HexVal(Peek(s, i + k))
  IN  IF \E k \in 0 .. 3 : h(k) < 0 THEN -1 ELSE 4096 * h(0) + 256 * h(1) + 16 * h(2) + h(3)

\* The character of hi, before i + 4, or of hi and lo behind it, when these are a pair: half
\* a pair is U+FFFD.
Utf16(s, i, hi, lo) ==
  IF hi < 0 THEN Nothing
  ELSE IF hi \notin 55296 .. 57343 THEN Got(hi, i + 4)
  ELSE IF hi > 56319 \/ <<Peek(s, i + 4), Peek(s, i + 5)>> # <<Backslash, 117>> THEN Got(65533, i + 4)
  ELSE IF lo < 0 THEN Nothing
  ELSE IF lo \in 56320 .. 57343 THEN Got(65536 + 1024 * (hi - 55296) + lo - 56320, i + 10)
  ELSE Got(65533, i + 4)

\* unicode_escape
UnicodeEscape(s, i) == Utf16(s, i, Hex4(s, i), Hex4(s, i + 6))

\* What a backslash before i stands for.
Escape(s, i) ==
  LET e == Peek(s, i)
  IN  IF e \in DOMAIN Short THEN Got(Short[e], i + 1)
      ELSE IF e = 47 THEN Got(47, i + 1)
      ELSE IF e = 117 THEN UnicodeEscape(s, i + 1) ELSE Nothing

\* What one character of a string, or one escape, stands for.
Char(s, i) == IF Peek(s, i) < 32 THEN Nothing ELSE IF Peek(s, i) = Backslash THEN Escape(s, i + 1) ELSE Got(s[i], i + 1)

\* string, from behind its opening quote.
ReadString(s, i) ==
  LET from[k \in 1 .. Len(s) + 1] ==
        LET c == Char(s, k)
            rest == from[c.at]
        IN  IF Peek(s, k) = Quote THEN Got(<<>>, k + 1)
            ELSE IF ~c.ok THEN Nothing ELSE Followed(c.value, rest)
  IN  from[i]

\* The number that decimal digits stand for.
Decimal(digits) ==
  LET upTo[k \in 0 .. Len(digits)] == IF k = 0 THEN 0 ELSE 10 * upTo[k - 1] + digits[k] - 48
  IN  upTo[Len(digits)]

\* number: no digit follows a leading 0.
ReadNumber(s, i) ==
  LET from == IF s[i] = Minus THEN i + 1 ELSE i
      ends == {j \in from .. Len(s) : \A k \in from .. j : s[k] \in Digits}
      to == IF Peek(s, from) = 48 THEN from ELSE Max(ends)
      n == Decimal(SubSeq(s, from, to))
  IN  IF ends = {} THEN Nothing ELSE Got(<<"number", IF from > i THEN -n ELSE n>>, to + 1)

Literal(s, i, word) ==
  IF \A k \in DOMAIN word : Peek(s, i + k - 1) = word[k] THEN Got(<<"literal", word>>, i + Len(word)) ELSE Nothing

\* array, from one of its items on, where read is what stands at a position.
ReadArray(s, i, read) ==
  LET from[k \in 1 .. Len(s) + 1] ==
        LET item == read[k]
            rest == from[item.at + 1]
        IN  IF ~item.ok THEN Nothing
            ELSE IF Peek(s, item.at) = CloseArray THEN Got(<<item.value>>, item.at + 1)
            ELSE IF Peek(s, item.at) # Comma THEN Nothing ELSE Followed(item.value, rest)
  IN  from[i]

\* The members behind a member, with it: of two members with a key the last one stays.
WithMember(key, v, members) ==
  [k \in {key} \cup DOMAIN members |-> IF k \in DOMAIN members THEN members[k] ELSE v]

\* A member with the value v, and those behind it, where later is what they are from a
\* position on.
MembersFrom(s, key, v, later) ==
  LET rest == later[v.at + 1]
  IN  IF ~v.ok THEN Nothing
      ELSE IF Peek(s, v.at) = CloseObject THEN Got(WithMember(key, v.value, <<>>), v.at + 1)
      ELSE IF Peek(s, v.at) # Comma THEN Nothing
      ELSE IF rest.ok THEN Got(WithMember(key, v.value, rest.value), rest.at) ELSE Nothing

\* object, from one of its keys on.
ReadObject(s, i, read) ==
  LET from[k \in 1 .. Len(s) + 1] ==
        LET key == ReadString(s, k + 1)
        IN  IF Peek(s, k) # Quote \/ ~key.ok THEN Nothing
            ELSE IF Peek(s, key.at) # Colon THEN Nothing
            ELSE MembersFrom(s, key.value, read[key.at + 1], from)
  IN  from[i]

\* value_at, where read is what stands at a position one level deeper.
ReadValue(s, i, read) ==
  LET c == Peek(s, i)
  IN  IF c \in {110, 116, 102}
        THEN Literal(s, i, CHOOSE w \in {NullText, True, False} : w[1] = c)
      ELSE IF c = Quote THEN Enclosed("string", ReadString(s, i + 1))
      ELSE IF c = OpenArray
        THEN (IF Peek(s, i + 1) = CloseArray THEN Got(<<"array", <<>>>>, i + 2)
              ELSE Enclosed("array", ReadArray(s, i + 1, read)))
      ELSE IF c = OpenObject
        THEN (IF Peek(s, i + 1) = CloseObject THEN Got(<<"object", <<>>>>, i + 2)
              ELSE Enclosed("object", ReadObject(s, i + 1, read)))
      ELSE IF c = Minus \/ c \in Digits THEN ReadNumber(s, i) ELSE Nothing

\* A value behind which the text ends.
Whole(v, end) == IF v.ok THEN (IF v.at = end THEN v ELSE Nothing) ELSE Nothing

\* parse: nothing may follow, and what is nested deeper than MaxDepth is not read.
Parse(s) ==
  LET read[levels \in 0 .. MaxDepth + 1] ==
        [i \in 1 .. Len(s) + 1 |-> IF levels = 0 THEN Nothing ELSE ReadValue(s, i, read[levels - 1])]
  IN  Whole(read[MaxDepth + 1][1], Len(s) + 1)

-----------------------------------------------------------------------------
(* The writer. *)

\* Mutant: the backslash itself is not escaped.
EscapedQuote(c) == IF c = Quote THEN <<Backslash, c>> ELSE <<c>>

\* write_string, of one character.
Escaped(c) ==
  LET short == {e \in DOMAIN Short : Short[e] = c}
      hex(n) == IF n < 10 THEN 48 + n ELSE 87 + n
  IN  IF short # {} THEN <<Backslash, CHOOSE e \in short : TRUE>>
      ELSE IF c < 32 THEN <<Backslash, 117, 48, 48, hex(c \div 16), hex(c % 16)>> ELSE <<c>>

WriteString(s) == <<Quote>> \o FlattenSeq([k \in DOMAIN s |-> Escaped(s[k])]) \o <<Quote>>

\* format_number, of an integer.
WriteNumber(n) ==
  LET size == IF n < 0 THEN -n ELSE n
      text[m \in 0 .. size] == IF m < 10 THEN <<48 + m>> ELSE Append(text[m \div 10], 48 + (m % 10))
  IN  IF n < 0 THEN <<Minus>> \o text[size] ELSE text[size]

\* The texts with a comma between them.
Listed(texts) == FlattenSeq([k \in DOMAIN texts |-> IF k = 1 THEN texts[k] ELSE <<Comma>> \o texts[k]])

\* The values that stand in a value.
Held(v) == IF v[1] \in {"array", "object"} THEN {v[2][k] : k \in DOMAIN v[2]} ELSE {}

\* A value, the values in it, the values in those, as deep as a text may nest them.
Within(v) ==
  LET level[n \in 0 .. MaxDepth] == IF n = 0 THEN {v} ELSE UNION {Held(w) : w \in level[n - 1]}
  IN  UNION {level[n] : n \in 0 .. MaxDepth}

\* write_value (which sorts the members by key; here they come in some order), where text
\* is how the values in v are written.
WriteValue(v, text) ==
  LET keys == SetToSeq(DOMAIN v[2])
  IN  CASE v[1] = "literal" -> v[2]
        [] v[1] = "number" -> WriteNumber(v[2])
        [] v[1] = "string" -> WriteString(v[2])
        [] v[1] = "array" -> <<OpenArray>> \o Listed([k \in DOMAIN v[2] |-> text[v[2][k]]]) \o <<CloseArray>>
        [] v[1] = "object" ->
             <<OpenObject>>
               \o Listed([k \in DOMAIN keys |-> WriteString(keys[k]) \o <<Colon>> \o text[v[2][keys[k]]]])
               \o <<CloseObject>>

\* stringify
Stringify(v) ==
  LET write[levels \in 0 .. MaxDepth + 1] ==
        [w \in Within(v) |-> IF levels = 0 THEN <<>> ELSE WriteValue(w, write[levels - 1])]
  IN  write[MaxDepth + 1][v]

-----------------------------------------------------------------------------
\* Every part of a text that was accepted, written as text of its own, is read back as it was.
Returns(v, r) == r.ok /\ r.value = v
PartsOf(r) == r.ok => \A v \in Within(r.value) : Returns(v, Parse(Stringify(v)))
PartsReturn(s) == PartsOf(Parse(s))
==============================================================================
