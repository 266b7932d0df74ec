------------------------------ MODULE AudioFiles ------------------------------
(***************************************************************************)
(* The audio file of a guide on its way in and out (backend/src/guides.rs):*)
(* the form a browser uploads it in, and the part of it that a player asks *)
(* for.                                                                    *)
(*                                                                         *)
(* The body of an upload is a sequence of tokens: the boundary with the    *)
(* dashes before it, two dashes, a line end, a header that names the part  *)
(* or its type, and bytes of a file.                                       *)
(***************************************************************************)
EXTENDS Integers, Sequences, SequencesExt, FiniteSetsExt

Marker == "boundary"
Dashes == "--"
Crlf == "line end"
NameAudio == "name audio"
TypeOther == "type other"

Refused(why) == <<"refused", why>>
Accepted(bytes) == <<"accepted", bytes>>

\* find_bytes, from position i on; 0 when there is none.
FindBytes(body, i, needle) ==
  LET hits == {j \in i .. Len(body) - Len(needle) + 1 : SubSeq(body, j, j + Len(needle) - 1) = needle}
  IN  IF hits = {} THEN 0 ELSE Min(hits)

\* Mutant: every line end before the boundary goes.
EndWithoutLines(body, first, stop) ==
  Min({k \in first .. stop : \A j \in k .. stop - 1 : body[j] = Crlf})

\* Where the bytes of a part end: the line end before the boundary is not one of them.
EndOfPart(body, first, stop) ==
  IF stop > first /\ body[stop - 1] = Crlf THEN stop - 1 ELSE stop

\* audio_field: the first part named audio, unless its type is another.
AudioField(body) ==
  LET from[i \in 1 .. Len(body) + 1] ==
        LET mark == FindBytes(body, i, <<Marker>>)
            after(t) == mark < Len(body) /\ body[mark + 1] = t
            header == IF after(Crlf) THEN mark + 2 ELSE mark + 1
            ends == FindBytes(body, header, <<Crlf, Crlf>>)
            headers == {body[k] : k \in header .. ends - 1}
            next == FindBytes(body, ends + 2, <<Marker>>)
            stop == IF next = 0 THEN Len(body) + 1 ELSE next
        IN  IF mark = 0 \/ after(Dashes) \/ ends = 0 THEN Refused("missing")
            ELSE IF NameAudio \notin headers THEN from[header]
            ELSE IF TypeOther \in headers THEN Refused("type")
            ELSE Accepted(SubSeq(body, ends + 2, EndOfPart(body, ends + 2, stop) - 1))
  IN  from[1]

\* The lines of headers: each but the last ends, none is empty, and none is the boundary.
HeaderLines(h) ==
  \A i \in DOMAIN h : h[i] # Marker /\ (h[i] = Crlf => i < Len(h) /\ h[i + 1] # Crlf)

\* How a browser writes parts, each with its headers and its bytes.
Multipart(parts) ==
  FlattenSeq([k \in DOMAIN parts |->
                <<Marker, Crlf>> \o parts[k].headers \o <<Crlf, Crlf>> \o parts[k].bytes \o <<Crlf>>])
    \o <<Marker, Dashes>>

-----------------------------------------------------------------------------
Nowhere == <<-1, -1>>

\* Mutant: the last position asked for is taken for the one after it.
EndBefore(to, total) == Min({to, total})

\* The position after the last one asked for.
EndAfter(to, total) == Min({to + 1, total})

\* parse_byte_range: from and to, either of them left out (-1), as the start and the end
\* in a file of total bytes.
ParseByteRange(spec, total) ==
  LET from == spec[1]
      to == spec[2]
      end == IF to = -1 THEN total ELSE EndAfter(to, total)
  IN  IF total = 0 \/ spec = <<-1, -1>> THEN Nowhere
      ELSE IF from = -1 THEN <<total - Min({to, total}), total>>
      ELSE IF from >= total \/ end <= from THEN Nowhere ELSE <<from, end>>

\* apply_range, with the first range of the header.
ApplyRange(body, spec) ==
  LET range == ParseByteRange(spec, Len(body))
  IN  IF range = Nowhere THEN [status |-> 416, at |-> -1, last |-> -1, bytes |-> <<>>]
      ELSE [status |-> 206, at |-> range[1], last |-> range[2] - 1,
            bytes |-> SubSeq(body, range[1] + 1, range[2])]

-----------------------------------------------------------------------------
\* The first part named audio is stored byte by byte, whatever the parts before it hold
\* and whatever it looks like, a line end at its end or dashes at its start: only the
\* boundary ends it.  It is refused when it says it is something else.
UploadReturns(parts) ==
  LET audio == {k \in DOMAIN parts : NameAudio \in ToSet(parts[k].headers)}
  IN  (\A k \in DOMAIN parts : Marker \notin ToSet(parts[k].bytes)) =>
        AudioField(Multipart(parts)) =
          IF audio = {} THEN Refused("missing")
          ELSE IF TypeOther \in ToSet(parts[Min(audio)].headers) THEN Refused("type")
          ELSE Accepted(parts[Min(audio)].bytes)

\* What a player gets is what it asked for, and it is told where it is from: the bytes
\* from one position to another or to the end, or the last ones of the file.  A range
\* without bytes is refused, but for the last 0 bytes of a file that has some: they are
\* answered with 206, no bytes, and a first position behind the last (guides.rs:1362-1364).
RangeReturns(total, spec) ==
  LET named == {i \in 0 .. total - 1 :
                  IF spec[1] >= 0 THEN i >= spec[1] /\ (spec[2] >= 0 => i <= spec[2]) ELSE i >= total - spec[2]}
      answer == ApplyRange([i \in 1 .. total |-> i - 1], spec)
  IN  IF named # {}
        THEN /\ answer.status = 206 /\ answer.at = Min(named) /\ answer.last = Max(named)
             /\ ToSet(answer.bytes) = named
             /\ \A j, k \in DOMAIN answer.bytes : j < k => answer.bytes[j] < answer.bytes[k]
      ELSE IF spec = <<-1, 0>> /\ total > 0
        THEN answer = [status |-> 206, at |-> total, last |-> total - 1, bytes |-> <<>>]
      ELSE answer.status = 416
==============================================================================
