---------------------------- MODULE RequestReader ----------------------------
(***************************************************************************)
(* One connection of the HTTP server (handle_connection, read_request,     *)
(* read_body and read_chunked of backend/src/http.rs): requests arrive one *)
(* behind the other on a stream of bytes, the reader finds where each one  *)
(* ends, and answers them in turn, or the first one it does not understand *)
(* and closes.                                                             *)
(*                                                                         *)
(* The stream is the requests' tokens, one request behind the other: a     *)
(* token is a line without its end, or one byte of a body.  A body may     *)
(* hold anything, also what would be a request of its own.  A token costs  *)
(* one byte of the limits unless it is "long".                             *)
(***************************************************************************)
EXTENDS Naturals, Sequences, SequencesExt, FiniteSetsExt

CONSTANTS
  MaxHeader,   \* max_header_bytes, in tokens
  MaxBody,     \* max_body_bytes, in tokens
  Messages,    \* what the client may send: see OnWire
  MaxSent      \* bound: requests on the connection

ASSUME ReaderAssumption == MaxHeader \in Nat /\ MaxBody \in Nat /\ MaxSent \in Nat

\* A request line: its version, or what is wrong with it (two or four words, a method or
\* path that is refused).
Good == {"HTTP/1.1", "HTTP/1.0"}
Lines == Good \cup {"shape", "target", "HTTP/2.0"}

VARIABLES
  sent,     \* the requests of the client
  place,    \* the token read next: of which request, and which of its tokens
  phase,    \* what is read next
  usedUp,   \* bytes of lines this request has used
  version,  \* of this request
  fields,   \* its header fields, in order
  body,     \* its body so far
  left,     \* bytes of the body, or of its chunk, to come
  served,   \* the bodies of the requests handed to the handler
  replies,  \* the statuses written
  stopping  \* inner.stop

readerVars == <<sent, place, phase, usedUp, version, fields, body, left, served, replies, stopping>>
perRequest == <<usedUp, version, fields, body, left>>

-----------------------------------------------------------------------------
(* The client. *)

Line(v) == [is |-> "line", val |-> v, n |-> 0]
Field(f) == [is |-> "field", val |-> f, n |-> 0]
ContentLength(n) == [is |-> "field", val |-> "length", n |-> n]
Size(n) == [is |-> "size", val |-> "none", n |-> n]
Blank == [is |-> "blank", val |-> "none", n |-> 0]

\* The body in chunks of one token each.
Chunked(b) ==
  [i \in 1 .. 3 * Len(b) + 1 |->
     IF i > 3 * Len(b) THEN Size(0)
     ELSE IF i % 3 = 1 THEN Size(1)
     ELSE IF i % 3 = 2 THEN b[(i + 1) \div 3]
     ELSE Blank]

\* Up to the empty line behind the header fields.  Stray empty lines may stand before
\* the request line.
Header(m) == [i \in 1 .. m.stray |-> Blank] \o <<m.line>> \o m.fields \o <<Blank>>

Content(m) == IF m.chunks THEN Chunked(m.body) \o m.trailer \o <<Blank>> ELSE m.body

\* A message on the wire.  A client that says how long the body is in both ways, or in
\* two lengths, means one of them.
OnWire(m) == Header(m) \o Content(m)

\* Token i of request k, or the first one of the next request.
Place(k, i) == IF i > Len(OnWire(sent[k])) THEN <<k + 1, 1>> ELSE <<k, i>>

ReaderInit ==
  /\ sent \in BoundedSeq(Messages, MaxSent)
  /\ place = <<1, 1>>
  /\ phase = "line" /\ usedUp = 0 /\ version = "none" /\ fields = <<>> /\ body = <<>> /\ left = 0
  /\ served = <<>> /\ replies = <<>>
  /\ stopping = FALSE

-----------------------------------------------------------------------------
(* The reader. *)

\* The error is answered, if it has a status, and the connection closed.
Refuse(status) ==
  /\ replies' = IF status = 0 THEN replies ELSE Append(replies, status)
  /\ phase' = "closed"
  /\ UNCHANGED <<perRequest, served>>

Has(f) == \E k \in DOMAIN fields : fields[k].val = f

\* The first of the fields of these names: Headers::get.
First(names) ==
  LET known == {k \in DOMAIN fields : fields[k].val \in names}
  IN  IF known = {} THEN [val |-> "none", n |-> 0] ELSE fields[Min(known)]

Coding == First({"chunked", "coding"}).val

\* The numbers of the Content-Length fields.
Lengths == {fields[k].n : k \in {k \in DOMAIN fields : fields[k].val = "length"}}

\* Something has come that is not read yet.
Arrived == place[1] <= Len(sent)

Token == OnWire(sent[place[1]])[place[2]]

\* It is read.
Take == Arrived /\ place' = Place(place[1], place[2] + 1)

Cost(tok) == IF tok.val = "long" THEN MaxHeader ELSE 1

\* read_line_limited: the next line, unless it is one too many.
TakeLine(limit) ==
  /\ Arrived /\ usedUp + Cost(Token) <= limit
  /\ Take
  /\ UNCHANGED <<sent, stopping>>

TooLong(limit) ==
  /\ phase \in {"line", "fields", "trailer"}
  /\ Arrived /\ usedUp + Cost(Token) > limit
  /\ Refuse(431)
  /\ UNCHANGED <<sent, place, stopping>>

\* read_request: empty lines, then the request line.
RequestLine ==
  /\ phase = "line" /\ TakeLine(MaxHeader)
  /\ IF Token.is = "blank"
       THEN usedUp' = usedUp + Cost(Token) /\ UNCHANGED <<phase, version, fields, body, left, served, replies>>
     ELSE IF Token.is = "line" /\ Token.val \in Good
       THEN /\ usedUp' = usedUp + 1 /\ version' = Token.val /\ phase' = "fields"
            /\ UNCHANGED <<fields, body, left, served, replies>>
     ELSE Refuse(IF Token.is = "line" /\ Token.val = "HTTP/2.0" THEN 505 ELSE 400)

\* A line of the header block: only fields are.
FieldLine ==
  /\ phase = "fields" /\ TakeLine(MaxHeader)
  /\ IF Token.is = "blank"
       THEN usedUp' = usedUp + 1 /\ phase' = "framing" /\ UNCHANGED <<version, fields, body, left, served, replies>>
     ELSE IF Token.is = "field" /\ Token.val # "folded"
       THEN usedUp' = usedUp + Cost(Token) /\ fields' = Append(fields, Token)
            /\ UNCHANGED <<phase, version, body, left, served, replies>>
     ELSE Refuse(400)

\* Mutant: a transfer coding wins over a length.
CodingWins == FALSE

\* Framing both ways is refused.
BothWays == Coding # "none" /\ (Lengths # {} \/ Has("bad length"))

\* So is a length that is none, and are two that differ.
NoLength == Has("bad length") \/ (\E a, b \in Lengths : a # b)

\* read_body up to its first byte.  100 Continue goes out before anything is refused.
Frame ==
  /\ phase = "framing"
  /\ LET n == First({"length"}).n
         continue == IF Has("expect") THEN <<100>> ELSE <<>>
         status == IF BothWays THEN 400
                   ELSE IF Coding = "coding" THEN 501
                   ELSE IF Coding = "none" /\ NoLength THEN 400
                   ELSE IF Coding = "none" /\ n > MaxBody THEN 413 ELSE 0
     IN  /\ replies' = replies \o continue \o (IF status = 0 THEN <<>> ELSE <<status>>)
         /\ phase' = IF status # 0 THEN "closed" ELSE IF Coding = "chunked" THEN "size" ELSE "bytes"
         /\ left' = n
  /\ UNCHANGED <<sent, place, usedUp, version, fields, body, served, stopping>>

\* read_exact_timed: bytes are bytes, whatever they look like.
BodyByte ==
  /\ phase \in {"bytes", "chunk"} /\ left > 0
  /\ body' = Append(body, Token)
  /\ left' = left - 1
  /\ Take
  /\ UNCHANGED <<sent, phase, usedUp, version, fields, served, replies, stopping>>

BodyDone ==
  /\ phase = "bytes" /\ left = 0
  /\ phase' = "serve"
  /\ UNCHANGED <<sent, place, perRequest, served, replies, stopping>>

\* read_chunked: a chunk size.  What does not fit in the body is refused before it is
\* added up.
ChunkSize ==
  /\ phase = "size" /\ Arrived
  /\ IF Cost(Token) > 1 THEN Refuse(431) /\ UNCHANGED place
     ELSE /\ Take
          /\ IF Token.is # "size" THEN Refuse(400)
             ELSE IF Token.n = 0
               THEN phase' = "trailer" /\ UNCHANGED <<perRequest, served, replies>>
             ELSE IF Token.n > MaxBody \/ Len(body) + Token.n > MaxBody THEN Refuse(413)
             ELSE phase' = "chunk" /\ left' = Token.n
                  /\ UNCHANGED <<usedUp, version, fields, body, served, replies>>
  /\ UNCHANGED <<sent, stopping>>

\* The line end after a chunk.
ChunkEnd ==
  /\ phase = "chunk" /\ left = 0 /\ Take
  /\ IF Token.is = "blank" THEN phase' = "size" /\ UNCHANGED <<perRequest, served, replies>>
                           ELSE Refuse(400)
  /\ UNCHANGED <<sent, stopping>>

\* Trailers are read up to the empty line, and count like header lines.
Trailer ==
  /\ phase = "trailer" /\ TakeLine(MaxHeader)
  /\ usedUp' = usedUp + Cost(Token)
  /\ phase' = IF Token.is = "blank" THEN "serve" ELSE phase
  /\ UNCHANGED <<version, fields, body, left, served, replies>>

KeepAlive ==
  LET asked == First({"close", "keep-alive"}).val
  IN  asked # "close" /\ (version = "HTTP/1.1" \/ asked = "keep-alive") /\ ~stopping

\* The handler answers, or panics and is answered for; the connection goes on only if
\* both sides want it to, and the answer could be written.
ServeRequest ==
  /\ phase = "serve"
  /\ served' = Append(served, body)
  /\ \E status \in {200, 500} : replies' = Append(replies, status)
  /\ \/ KeepAlive /\ phase' = "line"
     \/ phase' = "closed"
  /\ usedUp' = 0 /\ version' = "none" /\ fields' = <<>> /\ body' = <<>> /\ left' = 0
  /\ UNCHANGED <<sent, place, stopping>>

Reading == phase \in {"line", "fields", "size", "chunk", "trailer"} \/ (phase = "bytes" /\ left > 0)

\* The client hangs up, or the connection breaks.
HangUp ==
  /\ Reading /\ Refuse(0)
  /\ UNCHANGED <<sent, place, stopping>>

\* timed_out: nothing comes in time; 408 once the request has begun.
TimedOut ==
  /\ Reading /\ Refuse(IF phase = "line" THEN 0 ELSE 408)
  /\ UNCHANGED <<sent, place, stopping>>

Shutdown == ~stopping /\ stopping' = TRUE /\ UNCHANGED <<sent, place, phase, perRequest, served, replies>>

ReaderNext ==
  \/ RequestLine \/ FieldLine \/ Frame \/ TooLong(MaxHeader) \/ BodyByte \/ BodyDone
  \/ ChunkSize \/ ChunkEnd \/ Trailer \/ ServeRequest \/ HangUp \/ TimedOut \/ Shutdown

-----------------------------------------------------------------------------
\* "Request smuggling vector: reject instead of guessing" (read_body): the handlers get
\* the requests the client sent, in order, each with the body it sent, and never a
\* piece of a body as a request; however a request is framed, and wherever it breaks off.
OnlyWhatWasSent ==
  /\ Len(served) <= Len(sent)
  /\ \A k \in DOMAIN served : served[k] = sent[k].body
==============================================================================
