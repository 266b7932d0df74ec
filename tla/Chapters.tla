------------------------------ MODULE Chapters ------------------------------
(***************************************************************************)
(* When the chapters of a guide start (attach_chapter_times and            *)
(* find_quote_time, backend/src/guide_ai.rs): the quotes the model returns *)
(* are searched for, one after the other, in the words of the narration.   *)
(*                                                                         *)
(* A word is the sequence of the tokens norm makes of it: none for a dash, *)
(* two for "don't".  The narration is a sequence of words, the time of a   *)
(* word its place in it; a quote is the sequence of its tokens.            *)
(***************************************************************************)
EXTENDS Naturals, Sequences, SequencesExt, FiniteSetsExt

CONSTANTS
  Probe,       \* how many tokens of a quote are searched for: 3
  Words,       \* the words there are
  QuoteTokens, \* the tokens of quotes
  MaxWords,    \* bound: words of a narration
  MaxQuotes,   \* bound: quotes
  MaxQuote     \* bound: tokens of a quote

ASSUME ChaptersAssumption ==
  Probe \in Nat \ {0} /\ {MaxWords, MaxQuotes, MaxQuote} \subseteq Nat

VARIABLES
  narration, quotes,
  looked,  \* how many quotes were searched for; one more when all is done
  cursor,  \* the last word the search for the next one passes over
  found    \* the chapters so far: of each its quote and its place

chapterVars == <<narration, quotes, looked, cursor, found>>

\* What the model wrote need not be in the narration.
ChaptersInit ==
  /\ narration \in BoundedSeq(Words, MaxWords)
  /\ quotes \in BoundedSeq(BoundedSeq(QuoteTokens, MaxQuote), MaxQuotes)
  /\ looked = 0 /\ cursor = 0 /\ found = <<>>

-----------------------------------------------------------------------------
\* The word is this token and nothing else.
IsToken(w, token) == w = <<token>>

\* How many of its tokens are searched for.
Probed(q) == IF Len(q) < Probe THEN Len(q) ELSE Probe

\* From the word after c on: where they stand one after the other.
Matches(q, c) ==
  {i \in c + 1 .. Len(narration) + 1 - Probed(q) :
     \A k \in 1 .. Probed(q) : IsToken(narration[i + k - 1], q[k])}

\* Or else where the first one stands.
Openings(q, c) == {i \in c + 1 .. Len(narration) : IsToken(narration[i], q[1])}

\* find_quote_time: the place, or 0.
FindQuote(q, c) ==
  IF q = <<>> \/ narration = <<>> THEN 0
  ELSE IF Matches(q, c) # {} THEN Min(Matches(q, c))
  ELSE IF Openings(q, c) # {} THEN Min(Openings(q, c)) ELSE 0

\* Mutant: the search goes on after the whole quote, and one word more.
NextCursorLate(q, i, c) == Min({Len(narration), i + Len(q)})

\* Where the search for the next quote goes on: after what was matched.
NextCursor(q, i, c) == IF i \in Matches(q, c) THEN i + Probed(q) - 1 ELSE i

\* attach_chapter_times, for the next quote: it is left out when it is not found.
AttachNext ==
  /\ looked < Len(quotes)
  /\ looked' = looked + 1
  /\ LET q == quotes[looked + 1]
         i == FindQuote(q, cursor)
     IN  IF i = 0 THEN UNCHANGED <<cursor, found>>
         ELSE /\ cursor' = NextCursor(q, i, cursor)
              /\ found' = Append(found, [quote |-> q, place |-> i])
  /\ UNCHANGED <<narration, quotes>>

\* The first chapter starts with the audio.
FirstFromStart ==
  /\ looked = Len(quotes)
  /\ looked' = looked + 1
  /\ found' = IF found = <<>> THEN found ELSE [found EXCEPT ![1].place = 0]
  /\ UNCHANGED <<narration, quotes, cursor>>

ChaptersNext == AttachNext \/ FirstFromStart

ChaptersSpec == ChaptersInit /\ [][ChaptersNext]_chapterVars

-----------------------------------------------------------------------------
\* The quote stands at place i of the narration, in words of one token each.
Verbatim(q, i) ==
  /\ q # <<>> /\ i + Len(q) - 1 <= Len(narration)
  /\ \A k \in DOMAIN q : narration[i + k - 1] = <<q[k]>>

\* The quotes stand at these places, one after the other.
InOrder(at) ==
  /\ \A k \in DOMAIN quotes : Verbatim(quotes[k], at[k])
  /\ \A k \in 1 .. Len(quotes) - 1 : at[k] + Len(quotes[k]) <= at[k + 1]

\* "Quotes must appear in the order they occur" (the prompt): quotes that do, word for
\* word and one after the other, are all found, and no chapter starts after its quote.
\* (A word of two tokens is never found: see IsToken.)
QuotesPlaced ==
  \A at \in [DOMAIN quotes -> 1 .. Len(narration)] : InOrder(at) =>
    /\ Len(found) = IF looked <= Len(quotes) THEN looked ELSE Len(quotes)
    /\ \A k \in DOMAIN found : found[k].quote = quotes[k] /\ found[k].place <= at[k]
==============================================================================
