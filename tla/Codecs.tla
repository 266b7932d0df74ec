-------------------------------- MODULE Codecs --------------------------------
(***************************************************************************)
(* What the server writes in one form and reads back in another: cookies   *)
(* and query parameters (backend/src/http.rs), base64 and hexadecimal text *)
(* (crypto.rs), the form bodies of requests to Stripe (stripe.rs), JSON    *)
(* (module Json), audio files (module AudioFiles), dates and the           *)
(* signatures of webhooks (module Timestamps).                             *)
(*                                                                         *)
(* A byte is a number of 0 .. 255, a text the sequence of its bytes; the   *)
(* texts here are ASCII.  A state is one sample; there is no step.         *)
(***************************************************************************)
EXTENDS Timestamps, Json, AudioFiles

CONSTANTS
  Texts,       \* values of cookies and parameters
  JsonTexts,   \* what is offered to the JSON reader
  Bytes,       \* byte sequences
  Uploads,     \* uploads: sequences of parts, each with its headers and its bytes
  FileLengths, \* lengths of audio files
  RangeSpecs   \* ranges asked for: pairs of positions, -1 for one left out

ASSUME CodecsAssumption ==
  /\ Texts \subseteq Seq(0 .. 255) /\ Bytes \subseteq Seq(0 .. 255) /\ JsonTexts \subseteq Seq(Nat)
  /\ Uploads \subseteq Seq([headers : Seq(STRING), bytes : Seq(STRING)])
  /\ \A u \in Uploads : \A k \in DOMAIN u : HeaderLines(u[k].headers)
  /\ FileLengths \subseteq Nat /\ RangeSpecs \subseteq (Nat \cup {-1}) \X (Nat \cup {-1})

CodecsInit ==
  \/ \E t \in Texts : sample = [text |-> t]
  \/ \E t \in JsonTexts : sample = [json |-> t]
  \/ \E b \in Bytes : sample = [bytes |-> b]
  \/ \E u \in Uploads : sample = [upload |-> u]
  \/ \E n \in FileLengths, r \in RangeSpecs : sample = [total |-> n, range |-> r]
  \/ TimestampsInit

-----------------------------------------------------------------------------
(* Percent encoding. *)

Percent == 37
Plus == 43
Semicolon == 59
Equals == 61
Ampersand == 38
Space == 32

\* Digits of hex text, with an alphabet of which 10 .. 15 are the letters from a on.
HexDigit(n, a) == IF n < 10 THEN 48 + n ELSE a + n - 10

\* What encodeURIComponent leaves alone: letters, digits and - _ . ! ~ * ' ( ).
Unreserved ==
  (65 .. 90) \cup (97 .. 122) \cup (48 .. 57) \cup {45, 95, 46, 33, 126, 42, 39, 40, 41}

\* Mutant: the escape character itself is left alone.
EncodedBare(b) ==
  IF b \in Unreserved \cup {Percent} THEN <<b>> ELSE <<Percent, HexDigit(b \div 16, 65), HexDigit(b % 16, 65)>>

\* percent_encode_component, of one byte.
Encoded(b) ==
  IF b \in Unreserved THEN <<b>> ELSE <<Percent, HexDigit(b \div 16, 65), HexDigit(b % 16, 65)>>

PercentEncode(s) == FlattenSeq([k \in DOMAIN s |-> Encoded(s[k])])

\* percent_decode: an escape that is none stays as it is.
PercentDecode(s, plusAsSpace) ==
  LET from[i \in 1 .. Len(s) + 1] ==
        IF i > Len(s) THEN <<>>
        ELSE IF s[i] = Percent /\ i + 2 <= Len(s) /\ HexVal(s[i + 1]) >= 0 /\ HexVal(s[i + 2]) >= 0
          THEN <<16 * HexVal(s[i + 1]) + HexVal(s[i + 2])>> \o from[i + 3]
        ELSE <<IF s[i] = Plus /\ plusAsSpace THEN Space ELSE s[i]>> \o from[i + 1]
  IN  from[1]

\* Where the pieces of s between the bytes c start, and the piece that starts at i.
Starts(s, c) == {1} \cup {i + 1 : i \in {k \in DOMAIN s : s[k] = c}}
Piece(s, c, i) == SubSeq(s, i, Min({k \in i .. Len(s) + 1 : k = Len(s) + 1 \/ s[k] = c}) - 1)

Trim(s) ==
  LET solid == {i \in DOMAIN s : s[i] # Space}
  IN  IF solid = {} THEN <<>> ELSE SubSeq(s, Min(solid), Max(solid))

\* The bytes before and after the first "=", if there is one.
Key(s) == Piece(s, Equals, 1)
Val(s) == SubSeq(s, Len(Key(s)) + 2, Len(s))
Valueless(s) == Len(Key(s)) = Len(s)

\* percent_encode and form_encode of stripe.rs: fewer bytes are left alone, and the
\* pairs are joined by "&".
FormUnreserved == Unreserved \ {33, 42, 39, 40, 41}

FormEncode(pairs) ==
  LET byte(b) ==
        IF b \in FormUnreserved THEN <<b>> ELSE <<Percent, HexDigit(b \div 16, 65), HexDigit(b % 16, 65)>>
      text(s) == FlattenSeq([k \in DOMAIN s |-> byte(s[k])])
      pair(k) == text(pairs[k][1]) \o <<Equals>> \o text(pairs[k][2])
  IN  FlattenSeq([k \in DOMAIN pairs |-> (IF k = 1 THEN <<>> ELSE <<Ampersand>>) \o pair(k)])

\* Cookie::to_header_value, as far as the browser sends it back.
CookiePair(name, value) == name \o <<Equals>> \o PercentEncode(value)

\* Request::cookie: a pair without "=" ends the search, and nothing is found.
ReadCookie(header, name) ==
  LET starts == Starts(header, Semicolon)
      pair(i) == Trim(Piece(header, Semicolon, i))
      hits == {i \in starts : Trim(Key(pair(i))) = name /\ \A j \in starts : j <= i => ~Valueless(pair(j))}
  IN  IF hits = {} THEN <<-1>> ELSE PercentDecode(Trim(Val(pair(Min(hits)))), FALSE)

\* Request::query_param
ReadParam(query, name) ==
  LET pair(i) == Piece(query, Ampersand, i)
      hits == {i \in Starts(query, Ampersand) : pair(i) # <<>> /\ PercentDecode(Key(pair(i)), TRUE) = name}
  IN  IF hits = {} THEN <<-1>> ELSE PercentDecode(Val(pair(Min(hits))), TRUE)

-----------------------------------------------------------------------------
(* Base64 and hexadecimal text.  A sign of base64 is its value of 0 .. 63: the two     *)
(* alphabets differ in how two of them look.                                           *)

Groups(s, n) ==
  [k \in 1 .. (Len(s) + n - 1) \div n |-> SubSeq(s, n * (k - 1) + 1, Min({n * k, Len(s)}))]

At(g, i) == IF i \in DOMAIN g THEN g[i] ELSE 0

\* The signs of a group of 1 to 3 bytes.
Signs(g) == Len(g) + 1

\* b64_encode_with
EncodeGroup(g) ==
  LET n == 65536 * At(g, 1) + 256 * At(g, 2) + At(g, 3)
      all == <<n \div 262144, (n \div 4096) % 64, (n \div 64) % 64, n % 64>>
  IN  SubSeq(all, 1, Signs(g))

Base64Encode(b) == FlattenSeq([k \in DOMAIN Groups(b, 3) |-> EncodeGroup(Groups(b, 3)[k])])

\* b64_decode_any, of a length an encoder can produce.
DecodeGroup(g) ==
  LET n == 262144 * At(g, 1) + 4096 * At(g, 2) + 64 * At(g, 3) + At(g, 4)
  IN  SubSeq(<<n \div 65536, (n \div 256) % 256, n % 256>>, 1, Len(g) - 1)

Base64Decode(t) == FlattenSeq([k \in DOMAIN Groups(t, 4) |-> DecodeGroup(Groups(t, 4)[k])])

\* hex_encode and hex_decode
HexEncode(b) == FlattenSeq([k \in DOMAIN b |-> <<HexDigit(b[k] \div 16, 97), HexDigit(b[k] % 16, 97)>>])
HexDecode(t) == [k \in 1 .. Len(t) \div 2 |-> 16 * HexVal(t[2 * k - 1]) + HexVal(t[2 * k])]

-----------------------------------------------------------------------------
\* A value set as a cookie, or sent as a parameter, is read as it was, whatever bytes it
\* holds, behind another with the same bytes and before a name alone (http.rs:115-150).
\* Behind a name alone a parameter is read too, but a cookie is not found.  Of a pair of
\* a form, key and value may hold any bytes.
TextReturns ==
  Is("text") =>
    LET bare == <<97>>
        other == CookiePair(bare, sample.text)
        wanted == CookiePair(<<98>>, sample.text)
        cookie(first, second) == ReadCookie(first \o <<Semicolon, Space>> \o second, <<98>>)
        param(first, second) == ReadParam(first \o <<Ampersand>> \o second, <<98>>)
    IN  /\ cookie(other, wanted) = sample.text /\ cookie(wanted, bare) = sample.text
        /\ cookie(bare, wanted) = <<-1>>
        /\ param(other, wanted) = sample.text /\ param(wanted, bare) = sample.text
        /\ param(bare, wanted) = sample.text
        /\ ReadParam(FormEncode(<<<<<<97>>, sample.text>>, <<sample.text \o <<91>>, <<98>>>>>>), sample.text \o <<91>>) = <<98>>

\* So are bytes written as base64, without padding, or hexadecimal text: the token of
\* a session, and the salt and key of a password.
BytesReturn ==
  Is("bytes") =>
    /\ Base64Decode(Base64Encode(sample.bytes)) = sample.bytes
    /\ HexDecode(HexEncode(sample.bytes)) = sample.bytes

\* Whatever part of an accepted JSON text is kept as text of its own, as the chapters and
\* timings of a guide are, is read back as it was.
JsonReturns == Is("json") => PartsReturn(sample.json)

\* An audio file is stored as it was uploaded, and played as it is stored, whichever
\* range of it is asked for; the last 0 bytes of it are a range of their own.
AudioReturns ==
  /\ Is("upload") => UploadReturns(sample.upload)
  /\ Is("total") => RangeReturns(sample.total, sample.range)

\* What is written in one form is read back as it was (http.rs, crypto.rs, stripe.rs,
\* json.rs and guides.rs): cookies, parameters, forms, tokens, the JSON a guide's columns
\* hold, and its audio.
ReadBack == TextReturns /\ BytesReturn /\ JsonReturns /\ AudioReturns
==============================================================================
