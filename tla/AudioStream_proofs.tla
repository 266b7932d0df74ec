-------------------------- MODULE AudioStream_proofs --------------------------
(* A listener of a guide that is rendered once is sent prefixes of its audio: *)
(* AudioStream implements ByteStream for any number of listeners and blocks.  *)
EXTENDS AudioStream, SequenceTheorems, TLAPS

(***************************************************************************)
(* The inductive invariant.  RenderInv: stream.mp3 is missing or holds all *)
(* the encoder has put out, and the clean-up cannot come before the render *)
(* is over.  TailInv: the loop's offset is what was sent, the size it read *)
(* is no more than what was put out, and a closed response has no loop.    *)
(***************************************************************************)
PosInv ==
  /\ render = 0 => step = "idle"
  /\ step \in {"cleared", "made", "spawned", "helperCleared", "helperMade"} => encoded = 0
  /\ step # "idle" => cleanups = 0
  /\ render = 0 => encoded = 0 /\ cleanups = 0

FileInv ==
  /\ file = "none" => stream = <<>>
  /\ file = "open" => Len(stream) = encoded /\ render = 1
                      /\ \A i \in 1..encoded : stream[i] = <<1, i>>
  /\ step \in {"cleared", "made", "spawned", "helperMade", "helperCleared"} => file = "none"

SentInv(t) ==
  /\ Len(sent[t]) = off[t]
  /\ off[t] <= encoded
  /\ \A i \in 1..off[t] : sent[t][i] = <<1, i>>
  /\ off[t] > 0 => render = 1

LoopInv(t) ==
  /\ pc[t] \in {"size", "state", "write"} => conn[t] = "open"
  /\ pc[t] = "new" => conn[t] = "open" /\ off[t] = 0
  /\ pc[t] = "write" => size[t] > off[t]
  /\ size[t] <= encoded

Inv == TypeOK /\ PosInv /\ FileInv /\ \A t \in Tails : SentInv(t) /\ LoopInv(t)

LEMMA BlockPairs ==
  ASSUME MaxRenders = 1, NEW i \in 1..Blocks
  PROVE  <<1, i>> \in Block
BY StreamAssumption DEF Block

\* What the range of a sequence from a to b holds.
LEMMA RangeOf ==
  ASSUME NEW S, NEW s \in Seq(S), NEW a \in Nat, NEW b \in Nat, a <= b, b <= Len(s)
  PROVE  /\ SubSeq(s, a + 1, b) \in Seq(S) /\ Len(SubSeq(s, a + 1, b)) = b - a
         /\ \A i \in 1 .. b - a : SubSeq(s, a + 1, b)[i] = s[a + i]
<1>1. a + 1 \in Int /\ b \in Int /\ \A i \in a + 1 .. b : s[i] \in S
  OBVIOUS
<1>2. /\ SubSeq(s, a + 1, b) \in Seq(S)
      /\ Len(SubSeq(s, a + 1, b)) = IF a + 1 <= b THEN b - (a + 1) + 1 ELSE 0
      /\ \A i \in 1 .. b - (a + 1) + 1 : SubSeq(s, a + 1, b)[i] = s[a + 1 + i - 1]
  BY <1>1, SubSeqProperties
<1>3. b - (a + 1) + 1 = b - a /\ \A i \in 1 .. b - a : a + 1 + i - 1 = a + i
  OBVIOUS
<1>4. QED
  BY <1>2, <1>3

\* What a sequence of length a is followed by, when another is put behind it.
LEMMA JoinOf ==
  ASSUME NEW S, NEW s \in Seq(S), NEW u \in Seq(S), NEW a \in Nat, NEW b \in Nat,
         Len(s) = a, a <= b, Len(u) = b - a
  PROVE  /\ s \o u \in Seq(S) /\ Len(s \o u) = b
         /\ \A i \in 1 .. b : (s \o u)[i] = IF i <= a THEN s[i] ELSE u[i - a]
<1>1. /\ s \o u \in Seq(S) /\ Len(s \o u) = Len(s) + Len(u)
      /\ \A i \in 1 .. Len(s) + Len(u) :
           (s \o u)[i] = IF i <= Len(s) THEN s[i] ELSE u[i - Len(s)]
  BY ConcatProperties
<1>2. Len(s) + Len(u) = b
  OBVIOUS
<1>3. QED
  BY <1>1, <1>2

LEMMA InitInv == ASSUME MaxRenders = 1, Init PROVE Inv
BY StreamAssumption DEF Init, Inv, TypeOK, PosInv, FileInv, SentInv, LoopInv, States, Steps

\* What the render has put out only grows, or there is nothing yet.
Grows == \/ encoded <= encoded' /\ (render = 1 => render' = 1)
         \/ encoded = 0 /\ encoded' = 0

\* A step that leaves the listeners alone keeps what they were sent right.
LEMMA ListenersKept ==
  ASSUME Inv, TypeOK', UNCHANGED tailVars, Grows
  PROVE  \A t \in Tails : SentInv(t)' /\ LoopInv(t)'
<1> SUFFICES ASSUME NEW t \in Tails PROVE SentInv(t)' /\ LoopInv(t)'
  OBVIOUS
<1>1. TypeOK /\ SentInv(t) /\ LoopInv(t)
  BY DEF Inv
<1>2. /\ pc'[t] = pc[t] /\ off'[t] = off[t] /\ size'[t] = size[t] /\ sent'[t] = sent[t]
      /\ conn'[t] = conn[t]
  BY DEF tailVars
<1>3. encoded \in Nat /\ encoded' \in Nat /\ off[t] \in Nat /\ size[t] \in Nat
  BY <1>1 DEF TypeOK
<1>4. QED
  BY <1>1, <1>2, <1>3 DEF SentInv, LoopInv, Grows

\* The steps of the render and of the clean-up.
LEMMA RenderKeeps ==
  ASSUME MaxRenders = 1, Inv, Render \/ Cleanup
  PROVE  TypeOK' /\ PosInv' /\ FileInv' /\ Grows /\ UNCHANGED tailVars
<1> USE StreamAssumption
<1>a. TypeOK /\ PosInv /\ FileInv
  BY DEF Inv
<1>1. CASE StartRender
  BY <1>a, <1>1, SMTT(30) DEF StartRender, RemoveParts, At, Go, TypeOK, PosInv, FileInv, Grows, tailVars,
     Steps, States
<1>2. CASE MakeDirectory
  BY <1>a, <1>2 DEF MakeDirectory, MakeParts, At, Go, TypeOK, PosInv, FileInv, Grows, tailVars,
     Steps, States
<1>3. CASE BeginState
  BY <1>a, <1>3 DEF BeginState, jobVars, At, Go, TypeOK, PosInv, FileInv, Grows, tailVars,
     Steps, States
<1>4. CASE JobState
  BY <1>a, <1>4 DEF JobState, FillState, At, Go, TypeOK, PosInv, FileInv, Grows, tailVars,
     Steps, States
<1>5. CASE HelperClears
  BY <1>a, <1>5 DEF HelperClears, RemoveParts, At, Go, TypeOK, PosInv, FileInv, Grows, tailVars,
     Steps, States
<1>6. CASE HelperState
  BY <1>a, <1>6, SMTT(30) DEF HelperState, FillState, At, Go, TypeOK, PosInv, FileInv, Grows, tailVars,
     Steps, States
<1>7. CASE ChunkState
  <2>1. /\ step = "encoding" /\ chunks' \in 0..Blocks /\ state' \in States
        /\ UNCHANGED <<dir, stream, file, render, step, encoded, mp3, cleanups, tailVars>>
    BY <1>a, <1>7 DEF ChunkState, FillState, At, TypeOK, States
  <2>2. TypeOK'
    BY <1>a, <2>1 DEF TypeOK, tailVars
  <2>3. QED
    BY <1>a, <2>1, <2>2 DEF PosInv, FileInv, Grows, tailVars, TypeOK
<1>8. CASE EndEncoder
  BY <1>a, <1>8 DEF EndEncoder, dirVars, At, Go, TypeOK, PosInv, FileInv, Grows, tailVars,
     Steps, States
<1>9. CASE SaveMp3
  BY <1>a, <1>9 DEF SaveMp3, dirVars, At, Go, TypeOK, PosInv, FileInv, Grows, tailVars,
     Steps, States
<1>10. CASE FinishRender
  BY <1>a, <1>10 DEF FinishRender, FillState, Schedule, At, Go, TypeOK, PosInv, FileInv, Grows, tailVars,
     Steps, States
<1>11. CASE FailRender
  BY <1>a, <1>11 DEF FailRender, dirVars, At, Go, TypeOK, PosInv, FileInv, Grows, tailVars,
     Steps, States
<1>12. CASE HelperFailed
  BY <1>a, <1>12 DEF HelperFailed, FillState, At, Go, TypeOK, PosInv, FileInv, Grows, tailVars,
     Steps, States
<1>13. CASE JobFailed
  BY <1>a, <1>13 DEF JobFailed, FillState, At, Go, TypeOK, PosInv, FileInv, Grows, tailVars,
     Steps, States
<1>14. CASE Cleanup
  BY <1>a, <1>14 DEF Cleanup, RemoveParts, At, Go, TypeOK, PosInv, FileInv, Grows, tailVars,
     Steps, States
<1>15. CASE Encode
  <2>1. /\ encoded' = encoded + 1 /\ encoded < Blocks /\ step = "encoding" /\ render = 1
        /\ UNCHANGED <<dir, file, state, render, step, chunks, mp3, cleanups, tailVars>>
    BY <1>a, <1>15 DEF Encode, At, PosInv, TypeOK
  <2>2. CASE file = "open"
    <3>1. stream' = Append(stream, <<1, encoded + 1>>) /\ <<1, encoded + 1>> \in Block
      BY <1>a, <1>15, <2>1, <2>2 DEF Encode, Block, TypeOK
    <3>2. /\ stream' \in Seq(Block) /\ Len(stream') = encoded + 1
          /\ \A i \in 1..encoded + 1 : stream'[i] = <<1, i>>
      BY <1>a, <2>2, <3>1 DEF FileInv, TypeOK
    <3>3. QED
      BY <1>a, <2>1, <2>2, <3>2 DEF TypeOK, PosInv, FileInv, Grows, tailVars
  <2>3. CASE file = "none"
    BY <1>a, <1>15, <2>1, <2>3 DEF Encode, TypeOK, PosInv, FileInv, Grows, tailVars
  <2>4. QED
    BY <1>a, <2>2, <2>3 DEF TypeOK
<1>16. QED
  BY <1>1, <1>2, <1>3, <1>4, <1>5, <1>6, <1>7, <1>8, <1>9, <1>10, <1>11, <1>12, <1>13, <1>14, <1>15 DEF Render

\* The facts about the file a tail loop meets.
LEMMA FileFacts ==
  ASSUME MaxRenders = 1, Inv
  PROVE  /\ encoded \in 0..Blocks /\ Blocks \in Nat /\ Len(stream) \in 0..encoded
         /\ file = "open" => Len(stream) = encoded
BY StreamAssumption DEF Inv, TypeOK, FileInv

\* The steps of a tail loop that write nothing.
LEMMA LoopKeeps ==
  ASSUME MaxRenders = 1, Inv, NEW t \in Tails,
         Open(t) \/ ReadSize(t) \/ ReadState(t) \/ WriteFails(t)
  PROVE  Inv' /\ UNCHANGED <<render, encoded, sent>>
         /\ (conn' = conn \/ (conn[t] = "open" /\ \E c \in {"ended", "broken"} :
                                                   conn' = [conn EXCEPT ![t] = c]))
<1> USE StreamAssumption
<1>a. TypeOK /\ PosInv /\ FileInv /\ \A u \in Tails : SentInv(u) /\ LoopInv(u)
  BY DEF Inv
<1>b. UNCHANGED <<dirVars, jobVars, sent, off>>
  BY DEF Open, ReadSize, ReadState, WriteFails
<1>c. \A u \in Tails : u # t => /\ pc'[u] = pc[u] /\ size'[u] = size[u] /\ conn'[u] = conn[u]
  BY <1>a DEF Open, ReadSize, ReadState, WriteFails, Loop, TypeOK
<1>1. /\ TypeOK' /\ LoopInv(t)'
      /\ (conn' = conn \/ (conn[t] = "open" /\ \E c \in {"ended", "broken"} :
                                                conn' = [conn EXCEPT ![t] = c]))
  <2>1. CASE Open(t)
    BY <1>a, <2>1 DEF Open, Loop, TypeOK, LoopInv, dirVars, jobVars, States
  <2>2. CASE ReadSize(t)
    <3>1. Len(stream) \in Nat /\ Len(stream) <= encoded /\ encoded' = encoded
      BY <2>2, FileFacts DEF ReadSize, jobVars
    <3>2. QED
      BY <1>a, <2>2, <3>1 DEF ReadSize, Loop, TypeOK, LoopInv, dirVars, jobVars
  <2>3. CASE ReadState(t)
    <3>1. state \in States /\ off[t] \in Nat /\ size[t] \in Nat /\ idle[t] \in 0..MaxIdle
      BY <1>a DEF TypeOK
    <3>2. Action(off[t], size[t], state) = "write" => size[t] > off[t]
      BY DEF Action
    <3>3. conn[t] = "open"
      BY <1>a, <2>3 DEF ReadState, LoopInv
    <3>4. last' = [last EXCEPT ![t] = state] /\ UNCHANGED <<dirVars, jobVars, off, size, sent>>
      BY <2>3 DEF ReadState
    <3>5. CASE pc' = [pc EXCEPT ![t] = "write"] /\ size[t] > off[t] /\ UNCHANGED <<idle, conn>>
      BY <1>a, <3>1, <3>3, <3>4, <3>5 DEF TypeOK, LoopInv, dirVars, jobVars
    <3>6. CASE /\ pc' = [pc EXCEPT ![t] = "size"] /\ conn' = conn
               /\ idle' = [idle EXCEPT ![t] = idle[t] + 1] /\ idle[t] < MaxIdle
      BY <1>a, <3>1, <3>3, <3>4, <3>6 DEF TypeOK, LoopInv, dirVars, jobVars
    <3>7. CASE /\ pc' = [pc EXCEPT ![t] = "over"] /\ idle' = idle
               /\ conn' = [conn EXCEPT ![t] = "ended"]
      BY <1>a, <3>1, <3>3, <3>4, <3>7 DEF TypeOK, LoopInv, dirVars, jobVars
    <3>8. QED
      BY <2>3, <3>2, <3>5, <3>6, <3>7 DEF ReadState, Loop
  <2>4. CASE WriteFails(t)
    BY <1>a, <2>4 DEF WriteFails, Loop, TypeOK, LoopInv, dirVars, jobVars
  <2>5. QED
    BY <2>1, <2>2, <2>3, <2>4
<1>2. PosInv' /\ FileInv' /\ \A u \in Tails : SentInv(u)'
  BY <1>a, <1>b DEF PosInv, FileInv, SentInv, dirVars, jobVars
<1>3. \A u \in Tails : u # t => LoopInv(u)'
  BY <1>a, <1>b, <1>c DEF LoopInv, jobVars
<1>4. QED
  BY <1>1, <1>2, <1>3, <1>b DEF Inv, jobVars

\* A listener is sent the blocks its range names, and there is at least one.
LEMMA WriteKeeps ==
  ASSUME MaxRenders = 1, Inv, NEW t \in Tails, WriteRange(t)
  PROVE  /\ Inv' /\ UNCHANGED <<render, encoded, conn>> /\ conn[t] = "open" /\ render = 1
         /\ size[t] \in off[t] + 1 .. encoded
         /\ sent' = [sent EXCEPT ![t] = sent'[t]]
         /\ sent'[t] \in Seq(Block) /\ Len(sent'[t]) = size[t]
         /\ \A i \in 1..size[t] : sent'[t][i] = <<1, i>>
<1> USE StreamAssumption
<1>a. TypeOK /\ PosInv /\ FileInv /\ \A u \in Tails : SentInv(u) /\ LoopInv(u)
  BY DEF Inv
<1>1. /\ file = "open" /\ pc[t] = "write" /\ render = 1 /\ conn[t] = "open"
      /\ stream \in Seq(Block) /\ Len(stream) = encoded /\ encoded \in Nat
      /\ off[t] \in Nat /\ size[t] \in Nat /\ off[t] < size[t] /\ size[t] <= encoded
      /\ \A i \in 1..encoded : stream[i] = <<1, i>>
  BY <1>a DEF WriteRange, TypeOK, FileInv, LoopInv
<1>2. /\ ReadBytes(t) = SubSeq(stream, off[t] + 1, size[t])
      /\ ReadBytes(t) \in Seq(Block) /\ Len(ReadBytes(t)) = size[t] - off[t]
      /\ \A i \in 1..size[t] - off[t] : ReadBytes(t)[i] = <<1, off[t] + i>>
  <2>1. ReadBytes(t) = SubSeq(stream, off[t] + 1, size[t])
    BY <1>1 DEF ReadBytes
  <2>0. off[t] <= size[t] /\ size[t] <= Len(stream)
    BY <1>1
  <2>2. /\ ReadBytes(t) \in Seq(Block) /\ Len(ReadBytes(t)) = size[t] - off[t]
        /\ \A i \in 1..size[t] - off[t] : ReadBytes(t)[i] = stream[off[t] + i]
    <3>1. /\ SubSeq(stream, off[t] + 1, size[t]) \in Seq(Block)
          /\ Len(SubSeq(stream, off[t] + 1, size[t])) = size[t] - off[t]
          /\ \A i \in 1..size[t] - off[t] :
               SubSeq(stream, off[t] + 1, size[t])[i] = stream[off[t] + i]
      <4>1. stream \in Seq(Block) /\ off[t] \in Nat /\ size[t] \in Nat
        BY <1>1
      <4>2. \A a, b \in Nat : a <= b /\ b <= Len(stream) =>
               /\ SubSeq(stream, a + 1, b) \in Seq(Block)
               /\ Len(SubSeq(stream, a + 1, b)) = b - a
               /\ \A i \in 1 .. b - a : SubSeq(stream, a + 1, b)[i] = stream[a + i]
        BY <4>1, RangeOf
      <4>3. QED
        BY <4>1, <4>2, <2>0, Zenon
    <3>2. QED
      BY <2>1, <3>1
  <2>3. \A i \in 1..size[t] - off[t] : off[t] + i \in 1..encoded
    BY <1>1
  <2>4. QED
    BY <1>1, <2>1, <2>2, <2>3
<1>3. /\ sent[t] \in Seq(Block) /\ Len(sent[t]) = off[t]
      /\ \A i \in 1..off[t] : sent[t][i] = <<1, i>>
  BY <1>a DEF TypeOK, SentInv
<1>4. /\ sent' = [sent EXCEPT ![t] = sent[t] \o ReadBytes(t)]
      /\ off' = [off EXCEPT ![t] = size[t]] /\ idle' = [idle EXCEPT ![t] = 0]
      /\ pc' = [pc EXCEPT ![t] = "size"]
      /\ UNCHANGED <<dirVars, jobVars, size, last>>
  BY DEF WriteRange, Loop
<1>5. sent'[t] = sent[t] \o ReadBytes(t)
  BY <1>a, <1>4 DEF TypeOK
<1>6. /\ sent'[t] \in Seq(Block) /\ Len(sent'[t]) = size[t]
      /\ \A i \in 1..size[t] : sent'[t][i] = <<1, i>>
  <2>0. off[t] <= size[t]
    BY <1>1
  <2>1. /\ sent'[t] \in Seq(Block) /\ Len(sent'[t]) = size[t]
        /\ \A i \in 1..size[t] : sent'[t][i] = IF i <= off[t] THEN sent[t][i]
                                                ELSE ReadBytes(t)[i - off[t]]
    <3>1. /\ sent[t] \in Seq(Block) /\ ReadBytes(t) \in Seq(Block)
          /\ off[t] \in Nat /\ size[t] \in Nat
          /\ Len(sent[t]) = off[t] /\ Len(ReadBytes(t)) = size[t] - off[t]
      BY <1>1, <1>2, <1>3
    <3>2. /\ sent[t] \o ReadBytes(t) \in Seq(Block) /\ Len(sent[t] \o ReadBytes(t)) = size[t]
          /\ \A i \in 1..size[t] : (sent[t] \o ReadBytes(t))[i]
                                   = IF i <= off[t] THEN sent[t][i] ELSE ReadBytes(t)[i - off[t]]
      <4>1. \A a, b \in Nat : (Len(sent[t]) = a /\ a <= b /\ Len(ReadBytes(t)) = b - a) =>
               /\ sent[t] \o ReadBytes(t) \in Seq(Block) /\ Len(sent[t] \o ReadBytes(t)) = b
               /\ \A i \in 1 .. b : (sent[t] \o ReadBytes(t))[i]
                                     = IF i <= a THEN sent[t][i] ELSE ReadBytes(t)[i - a]
        <5>1. ASSUME NEW r \in Seq(Block), NEW u \in Seq(Block)
              PROVE  \A a, b \in Nat : (Len(r) = a /\ a <= b /\ Len(u) = b - a) =>
                       /\ r \o u \in Seq(Block) /\ Len(r \o u) = b
                       /\ \A i \in 1 .. b : (r \o u)[i] = IF i <= a THEN r[i] ELSE u[i - a]
          BY JoinOf
        <5>2. QED
          BY <3>1, <5>1
      <4>2. QED
        BY <2>0, <3>1, <4>1, Zenon
    <3>3. QED
      BY <1>5, <3>2
  <2>2. ASSUME NEW i \in 1..size[t] PROVE sent'[t][i] = <<1, i>>
    <3>1. CASE i <= off[t]
      BY <1>1, <1>3, <2>1, <3>1
    <3>2. CASE i > off[t]
      <4>1. i - off[t] \in 1..size[t] - off[t] /\ sent'[t][i] = ReadBytes(t)[i - off[t]]
        BY <1>1, <2>1, <3>2
      <4>2. off[t] + (i - off[t]) = i
        BY <1>1
      <4>3. QED
        BY <1>2, <4>1, <4>2
    <3>3. QED
      BY <1>1, <3>1, <3>2
  <2>3. QED
    BY <2>1, <2>2
<1>7. conn' = conn
  <2>1. ReadBytes(t) # <<>>
    BY <1>1, <1>2
  <2>2. QED
    BY <1>a, <2>1 DEF WriteRange, TypeOK
<1>8. TypeOK'
  BY <1>a, <1>1, <1>4, <1>5, <1>6, <1>7 DEF TypeOK, dirVars, jobVars
<1>9. PosInv' /\ FileInv'
  BY <1>a, <1>4 DEF PosInv, FileInv, dirVars, jobVars
<1>10. ASSUME NEW u \in Tails PROVE SentInv(u)' /\ LoopInv(u)'
  <2>1. CASE u = t
    BY <1>a, <1>1, <1>4, <1>6, <1>7, <2>1 DEF SentInv, LoopInv, TypeOK, jobVars
  <2>2. CASE u # t
    <3>1. /\ sent'[u] = sent[u] /\ off'[u] = off[u] /\ pc'[u] = pc[u] /\ size'[u] = size[u]
          /\ conn'[u] = conn[u] /\ encoded' = encoded /\ render' = render
      BY <1>a, <1>4, <1>7, <2>2 DEF TypeOK, jobVars
    <3>2. QED
      BY <1>a, <3>1 DEF SentInv, LoopInv
  <2>3. QED
    BY <2>1, <2>2
<1>11. Inv'
  BY <1>8, <1>9, <1>10 DEF Inv
<1>12. UNCHANGED <<render, encoded, conn>>
  BY <1>4, <1>7 DEF jobVars
<1>13. size[t] \in off[t] + 1 .. encoded
  BY <1>1
<1>14. sent' = [sent EXCEPT ![t] = sent'[t]]
  BY <1>a, <1>4, <1>5 DEF TypeOK
<1>15. QED
  BY <1>1, <1>6, <1>11, <1>12, <1>13, <1>14

LEMMA StepInv ==
  ASSUME MaxRenders = 1, Inv, [Next]_vars
  PROVE  Inv'
<1>1. CASE Render \/ Cleanup
  BY <1>1, RenderKeeps, ListenersKept DEF Inv
<1>2. CASE \E t \in Tails : Listen(t)
  BY <1>2, LoopKeeps, WriteKeeps DEF Listen
<1>3. CASE UNCHANGED vars
  BY <1>3 DEF vars, dirVars, jobVars, tailVars, Inv, TypeOK, PosInv, FileInv, SentInv, LoopInv
<1>4. QED
  BY <1>1, <1>2, <1>3 DEF Next

\* Type correctness of the directory, the render and the tail loops, for a
\* guide that is rendered once.
THEOREM Types == ASSUME MaxRenders = 1 PROVE Spec => []TypeOK
<1>1. Init => Inv
  BY InitInv
<1>2. Inv /\ [Next]_vars => Inv'
  BY StepInv
<1>3. Inv => TypeOK
  BY DEF Inv
<1>4. QED
  BY <1>1, <1>2, <1>3, PTL DEF Spec

-----------------------------------------------------------------------------
(* The refinement. *)

\* A step of the render is a block more, or nothing at all.
LEMMA RenderMaps ==
  ASSUME MaxRenders = 1, Inv, Render \/ Cleanup
  PROVE  [Bytes!Next]_Bytes!vars
<1> USE StreamAssumption
<1>a. UNCHANGED <<sent, conn>>
  BY RenderKeeps DEF tailVars
<1>b. TypeOK /\ PosInv
  BY DEF Inv
<1>1. CASE Encode
  <2>1. encoded \in Nat /\ encoded < Blocks /\ encoded' = encoded + 1
        /\ render = 1 /\ render' = 1
    BY <1>b, <1>1 DEF Encode, At, PosInv, TypeOK
  <2>2. <<1, encoded + 1>> \in Block
    BY <2>1 DEF Block
  <2>3. Audio' = Append(Audio, <<1, encoded + 1>>)
    BY <2>1 DEF Audio
  <2>4. Bytes!Grow
    BY <1>a, <2>2, <2>3 DEF Bytes!Grow
  <2>5. QED
    BY <2>4 DEF Bytes!Next
<1>2. CASE ~Encode
  <2>1. (encoded' = encoded /\ render' = render) \/ (encoded = 0 /\ encoded' = 0)
    BY <1>b, <1>2 DEF Render, Cleanup, StartRender, MakeDirectory, BeginState, JobState,
       HelperClears, HelperState, ChunkState, EndEncoder, SaveMp3, FinishRender, FailRender,
       HelperFailed, JobFailed, jobVars, TypeOK, PosInv, At
  <2>2. Audio' = Audio
    BY <2>1 DEF Audio
  <2>3. QED
    BY <1>a, <2>2 DEF Bytes!vars
<1>3. QED
  BY <1>1, <1>2

\* A step of a tail loop sends more of the audio, closes, or does nothing.
LEMMA ListenMaps ==
  ASSUME MaxRenders = 1, Inv, NEW t \in Tails, Listen(t)
  PROVE  [Bytes!Next]_Bytes!vars
<1>1. CASE Open(t) \/ ReadSize(t) \/ ReadState(t) \/ WriteFails(t)
  <2>1. /\ UNCHANGED <<render, encoded, sent>>
        /\ (conn' = conn \/ (conn[t] = "open" /\ \E c \in {"ended", "broken"} :
                                                  conn' = [conn EXCEPT ![t] = c]))
    BY <1>1, LoopKeeps
  <2>2. Audio' = Audio
    BY <2>1 DEF Audio
  <2>3. CASE conn' = conn
    BY <2>1, <2>2, <2>3 DEF Bytes!vars
  <2>4. CASE conn[t] = "open" /\ \E c \in {"ended", "broken"} : conn' = [conn EXCEPT ![t] = c]
    <3>1. conn \in [Tails -> {"open", "ended", "broken"}]
      BY DEF Inv, TypeOK
    <3>2. {u \in Tails : conn'[u] = "open"} = {u \in Tails : conn[u] = "open"} \ {t}
      BY <2>4, <3>1
    <3>3. Bytes!Close(t)
      BY <2>1, <2>2, <2>4, <3>2 DEF Bytes!Close
    <3>4. QED
      BY <3>3 DEF Bytes!Next
  <2>5. QED
    BY <2>1, <2>3, <2>4
<1>2. CASE WriteRange(t)
  <2>1. /\ UNCHANGED <<render, encoded, conn>> /\ conn[t] = "open" /\ render = 1
        /\ size[t] \in off[t] + 1 .. encoded
        /\ sent' = [sent EXCEPT ![t] = sent'[t]]
        /\ sent'[t] \in Seq(Block) /\ Len(sent'[t]) = size[t]
        /\ \A i \in 1..size[t] : sent'[t][i] = <<1, i>>
    BY <1>2, WriteKeeps
  <2>2. off[t] = Len(sent[t]) /\ off[t] \in Nat /\ encoded \in Nat
    BY DEF Inv, TypeOK, SentInv
  <2>3. Audio' = Audio /\ Audio = [i \in 1..encoded |-> <<1, i>>]
    BY <2>1 DEF Audio
  <2>4. Audio \in Seq(Block) /\ Len(Audio) = encoded
    <3>1. ASSUME NEW i \in 1..encoded PROVE <<1, i>> \in Block
      <4>1. encoded \in 0..Blocks /\ Blocks \in Nat
        BY FileFacts
      <4>2. i \in 1..Blocks
        BY <4>1
      <4>3. QED
        BY <4>2, BlockPairs
    <3>2. QED
      BY <2>2, <2>3, <3>1
  <2>5. sent'[t] = SubSeq(Audio, 1, size[t])
    <3>1. size[t] \in Nat /\ 0 <= size[t] /\ size[t] <= encoded /\ 0 \in Nat /\ 0 + 1 = 1
      BY <2>1, <2>2
    <3>2. /\ SubSeq(Audio, 0 + 1, size[t]) \in Seq(Block)
          /\ Len(SubSeq(Audio, 0 + 1, size[t])) = size[t] - 0
          /\ \A i \in 1..size[t] - 0 : SubSeq(Audio, 0 + 1, size[t])[i] = Audio[0 + i]
      BY <2>4, <3>1, RangeOf
    <3>3. ASSUME NEW i \in 1..size[t] PROVE sent'[t][i] = SubSeq(Audio, 1, size[t])[i]
      <4>1. i \in 1..encoded /\ 0 + i = i /\ i \in 1..size[t] - 0
        BY <2>2, <3>1
      <4>2. Audio[i] = <<1, i>>
        BY <2>3, <4>1
      <4>3. QED
        BY <2>1, <3>1, <3>2, <4>1, <4>2
    <3>4. Len(SubSeq(Audio, 1, size[t])) = size[t] /\ SubSeq(Audio, 1, size[t]) \in Seq(Block)
      BY <3>1, <3>2
    <3>5. QED
      BY <2>1, <3>3, <3>4, SeqEqual
  <2>6. size[t] \in Len(sent[t]) + 1 .. Len(Audio)
    BY <2>1, <2>2, <2>4
  <2>7. Bytes!Send(t)
    <3>1. sent' = [sent EXCEPT ![t] = SubSeq(Audio, 1, size[t])]
      BY <2>1, <2>5
    <3>2. QED
      BY <2>1, <2>3, <2>6, <3>1 DEF Bytes!Send
  <2>8. QED
    BY <2>7 DEF Bytes!Next
<1>3. QED
  BY <1>1, <1>2 DEF Listen

\* A listener of a guide that is rendered once is sent growing prefixes of the
\* render's audio, and nothing once its response is closed: write_growing_file
\* against run_tts_job, its helper and the clean-up, for any number of
\* listeners, any length of the audio and any idle limit.
THEOREM Prefixes == ASSUME MaxRenders = 1 PROVE Spec => Implements
<1>1. Init => Inv /\ Bytes!Init
  <2>1. Init => Audio = <<>>
    BY DEF Init, Audio
  <2>2. Init => {t \in Tails : conn[t] = "open"} = Tails
    BY DEF Init
  <2>3. Init => Bytes!Init
    BY <2>1, <2>2 DEF Init, Bytes!Init
  <2>4. QED
    BY <2>3, InitInv
<1>2. Inv /\ [Next]_vars => Inv'
  BY StepInv
<1>3. Inv /\ [Next]_vars => [Bytes!Next]_Bytes!vars
  <2>1. ASSUME Inv, Next PROVE [Bytes!Next]_Bytes!vars
    BY <2>1, RenderMaps, ListenMaps DEF Next
  <2>2. ASSUME UNCHANGED vars PROVE [Bytes!Next]_Bytes!vars
    BY <2>2 DEF vars, jobVars, tailVars, Bytes!vars, Audio
  <2>3. QED
    BY <2>1, <2>2
<1>4. QED
  BY <1>1, <1>2, <1>3, PTL DEF Spec, Implements, Bytes!Spec
==============================================================================
