------------------------------ MODULE ByteStream ------------------------------
(***************************************************************************)
(* What the streaming endpoint promises its listeners: one audio grows by  *)
(* blocks that never change once they are there; every listener is sent a  *)
(* longer and longer prefix of it, until its response is closed, and       *)
(* nothing after that.                                                     *)
(***************************************************************************)
EXTENDS Naturals, Sequences

CONSTANTS Readers, Block

VARIABLES
  source,   \* the blocks of the audio so far
  sent,     \* what each listener was sent
  open      \* the listeners whose response is not closed

vars == <<source, sent, open>>

Init ==
  /\ source = <<>>
  /\ sent = [r \in Readers |-> <<>>]
  /\ open = Readers

Grow ==
  /\ \E b \in Block : source' = Append(source, b)
  /\ UNCHANGED <<sent, open>>

Send(r) ==
  /\ r \in open
  /\ \E n \in Len(sent[r]) + 1 .. Len(source) :
       sent' = [sent EXCEPT ![r] = SubSeq(source, 1, n)]
  /\ UNCHANGED <<source, open>>

Close(r) ==
  /\ r \in open
  /\ open' = open \ {r}
  /\ UNCHANGED <<source, sent>>

Next == Grow \/ \E r \in Readers : Send(r) \/ Close(r)

Spec == Init /\ [][Next]_vars
==============================================================================
