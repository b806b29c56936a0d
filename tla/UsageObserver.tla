---------------------------- MODULE UsageObserver ----------------------------
(***************************************************************************)
(* What the proxy's observer reads of an answer while it passes            *)
(* (usage.rs, ProxyUsageObserver).  A streamed answer is a sequence of     *)
(* frames and arrives in chunks that cut frames anywhere: a chunk is a     *)
(* sequence of pieces, a frame is its pieces up to the one that ends it.   *)
(***************************************************************************)
EXTENDS Integers, Sequences, SequencesExt

CONSTANTS MaxObserved  \* MAX_PROXY_OBSERVATION_BYTES, in pieces

ASSUME ObserverConstants == MaxObserved \in Nat \ {0}

NoTokens == [input |-> 0, output |-> 0]
Spent(t) == t.input + t.output

\* ProxyUsageObserver, with what it submitted.
Observer == [kept |-> <<>>, exceeded |-> FALSE, recorded |-> FALSE,
             named |-> FALSE, tokens |-> NoTokens, submitted |-> <<>>]

\* A Claude message is submitted once, when it has counted something; it is
\* known by its identifier, or by its tokens.
RecordClaude(o) ==
  IF o.recorded \/ Spent(o.tokens) = 0 THEN o
  ELSE [o EXCEPT !.recorded = TRUE,
                 !.submitted = Append(@, [by |-> IF o.named THEN "id" ELSE "tokens", tokens |-> o.tokens])]

\* An answer that names its whole usage.
RecordOpenAi(o, frame) ==
  IF o.recorded \/ Spent(frame.tokens) = 0 THEN o
  ELSE [o EXCEPT !.recorded = TRUE,
                 !.submitted = Append(@, [by |-> "id", tokens |-> frame.tokens])]

ParseJson(o, frame) ==
  CASE frame.type = "message_start" ->
         [o EXCEPT !.named = TRUE, !.tokens.input = frame.tokens.input]
    [] frame.type = "message_delta" ->
         LET counted == [o EXCEPT !.tokens.output = frame.tokens.output] IN
         IF frame.stop THEN RecordClaude(counted) ELSE counted
    [] frame.type = "message_stop" -> RecordClaude(o)
    [] frame.type \in {"response.completed", "usage"} -> RecordOpenAi(o, frame)
    [] OTHER -> o  \* other frames name no usage

Consume(client, o, frame) ==
  IF frame.type = "[DONE]" THEN (IF client = "claude" THEN RecordClaude(o) ELSE o)
  ELSE ParseJson(o, frame)

Ended(pieces) == SelectSeq(pieces, LAMBDA p : p.ends)
Rest(pieces) == LET ends == {i \in DOMAIN pieces : pieces[i].ends} IN
                IF ends = {} THEN pieces
                ELSE SubSeq(pieces, (CHOOSE i \in ends : \A j \in ends : j <= i) + 1, Len(pieces))

\* The frames that are complete are read and dropped from the buffer.
ConsumeAll(client, o) ==
  LET read == FoldLeft(LAMBDA x, p : Consume(client, x, p.frame), o, Ended(o.kept)) IN
  [read EXCEPT !.kept = Rest(o.kept)]

Feed(client, sse, o, chunk) ==
  IF o.exceeded \/ o.recorded THEN o
  ELSE IF Len(o.kept) + Len(chunk) > MaxObserved
  THEN [o EXCEPT !.kept = <<>>, !.exceeded = TRUE]
  ELSE LET fed == [o EXCEPT !.kept = @ \o chunk] IN
       IF sse THEN ConsumeAll(client, fed) ELSE fed

\* A stream that ended early still counts what it said; an answer that is no
\* stream is parsed when it is whole.
EndObservation(client, sse, o) ==
  CASE o.exceeded \/ o.recorded -> o
    [] sse -> IF client = "claude" THEN RecordClaude(o) ELSE o
    [] OTHER -> IF Len(Ended(o.kept)) = 1 /\ Rest(o.kept) = <<>>
                THEN ParseJson(o, o.kept[1].frame) ELSE o

ObservedOf(client, sse, chunks) ==
  EndObservation(client, sse, FoldLeft(LAMBDA o, c : Feed(client, sse, o, c), Observer, chunks)).submitted

-----------------------------------------------------------------------------
\* A stream in pieces, two to a frame, and cut into chunks after `cuts`.
Pieces(frames) == [i \in 1..(2 * Len(frames)) |-> [frame |-> frames[(i + 1) \div 2], ends |-> i % 2 = 0]]
Chunks(pieces, cuts) ==
  LET bounds == SetToSortSeq({0, Len(pieces)} \cup (cuts \cap 1..Len(pieces)), <) IN
  [i \in 1..(Len(bounds) - 1) |-> SubSeq(pieces, bounds[i] + 1, bounds[i + 1])]

\* However the stream was cut, a message is counted once, with the output it
\* had when it stopped, or when the stream ended.
CountedHoweverCut(client, sse, frames, cuts) ==
  LET chunks == Chunks(Pieces(frames), cuts)
      submitted == ObservedOf(client, sse, chunks) IN
  /\ Len(submitted) <= 1
  /\ (\A i \in DOMAIN chunks : Len(chunks[i]) < MaxObserved) /\ (sse \/ 2 * Len(frames) <= MaxObserved) =>
       submitted = ObservedOf(client, sse, [i \in DOMAIN frames |-> Pieces(<<frames[i]>>)])
  /\ submitted # <<>> /\ client = "claude" =>
       \E i \in DOMAIN frames : submitted[1].tokens.output \in {0, frames[i].tokens.output}
=============================================================================
