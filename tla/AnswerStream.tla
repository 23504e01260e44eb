----------------------------- MODULE AnswerStream -----------------------------
(* The reading of a streamed answer of a model (llm_stream.py: SSEDecoder and   *)
(* StreamAssembler; consume and the loop of request_inference_async).  An event  *)
(* is what its JSON says to the assembler, a piece of text is the number of the   *)
(* event it came in; what is refused whenever it comes (an error, a refusal, a    *)
(* tool call, malformed JSON) is one event "bad", and what is passed over one     *)
(* event "other".  Chunks end anywhere in an event, the connection anywhere.      *)
EXTENDS Naturals, Sequences

CONSTANTS
  MaxEvents,            \* bound on the events of a stream
  MaxAhead              \* how many events RefusedForGood looks ahead

ASSUME StreamAssumption == MaxEvents \in Nat /\ MaxAhead \in Nat

VARIABLES
  protocol,
  fed,                  \* the events the assembler was given
  coming,               \* what the decoder holds of the next event
  assembler,
  reading,              \* the loop: in a chunk, between chunks, or how it ended
  answer                \* the text that was returned

streamVars == <<protocol, fed, coming, assembler, reading, answer>>

Protocols == {"openai_chat", "openai_responses", "claude_messages"}

(* The decoder has nothing of the next event, a fragment of its first line, its  *)
(* lines without the blank one, or of that one only the CR; or a fragment of a    *)
(* comment.                                                                 *)
Holding == {"nothing", "fragment", "lines", "cr", "comment"}

Plain(kinds) == [k : kinds]
ChatEvents ==
  [k : {"delta"}, id : {1, 2}, text : BOOLEAN, finish : {"none", "stop", "length"}]
    \cup Plain({"usage", "other", "done", "bad"})
ResponseEvents ==
  [k : {"completed"}, text : {"same", "else", "none"}, reason : {"same", "else", "none"}]
    \cup Plain({"text", "reason", "other", "bad"})
ClaudeEvents ==
  [k : {"block", "delta"}, of : {"text", "thinking"}] \cup [k : {"finish"}, ok : BOOLEAN]
    \cup Plain({"ping", "start", "close", "end", "other", "bad"})
Events ==
  CASE protocol = "openai_chat" -> ChatEvents
    [] protocol = "openai_responses" -> ResponseEvents
    [] protocol = "claude_messages" -> ClaudeEvents

NewAssembler ==
  [state |-> "open", text |-> <<>>, reason |-> <<>>, ident |-> 0, finish |-> FALSE,
   started |-> FALSE, block |-> "none"]

StreamInit ==
  /\ protocol \in Protocols /\ fed = <<>> /\ coming = "nothing"
  /\ assembler = NewAssembler /\ reading = "between" /\ answer = <<>>

-----------------------------------------------------------------------------
(* The assembler: what it is after an event, failed or complete at last.        *)
Refused == [assembler EXCEPT !.state = "failed"]
Ended == [assembler EXCEPT !.state = "complete"]
Piece == Len(fed) + 1

(* Seeded fault: the end of the stream stands for the end of the answer.        *)
ChatDoneAnyhow(e) == Ended

(* [DONE] ends an answer that was finished before.                           *)
ChatDone(e) == IF assembler.finish THEN Ended ELSE Refused

(* A chunk of the answer: one choice, always of one identity, until it is       *)
(* finished; a finish other than stop is an answer cut short.                  *)
ChatDelta(e) ==
  IF assembler.ident \in {0, e.id} /\ ~assembler.finish /\ e.finish # "length"
  THEN [assembler EXCEPT !.ident = e.id, !.finish = e.finish = "stop",
                         !.text = IF e.text THEN Append(@, Piece) ELSE @]
  ELSE Refused

(* Seeded fault: the usage that follows a finished answer is refused.           *)
ChatFeedStrict(e) ==
  CASE e.k = "done" -> ChatDone(e)
    [] e.k = "delta" -> ChatDelta(e)
    [] e.k \in {"usage", "other"} -> IF assembler.finish THEN Refused ELSE assembler
    [] e.k = "bad" -> Refused

ChatFeed(e) ==
  CASE e.k = "done" -> ChatDone(e)
    [] e.k = "delta" -> ChatDelta(e)
    [] e.k = "usage" -> assembler
    [] e.k = "other" -> IF assembler.finish THEN Refused ELSE assembler
    [] e.k = "bad" -> Refused

(* The final output is authoritative; the deltas may not contradict it.        *)
ResponseCompleted(e) ==
  IF \/ e.text = "none"
     \/ e.text = "else" /\ assembler.text # <<>>
     \/ e.reason = "else" /\ assembler.reason # <<>>
  THEN Refused
  ELSE [Ended EXCEPT !.text = IF e.text = "same" /\ @ # <<>> THEN @ ELSE <<Piece>>]

ResponseFeed(e) ==
  CASE e.k = "text" -> [assembler EXCEPT !.text = Append(@, Piece)]
    [] e.k = "reason" -> [assembler EXCEPT !.reason = Append(@, Piece)]
    [] e.k = "completed" -> ResponseCompleted(e)
    [] e.k = "other" -> assembler
    [] e.k = "bad" -> Refused

(* One block is open at a time; block is what it is made of.                   *)
ClaudeStep(e) ==
  CASE e.k = "block" /\ assembler.block = "none" -> [assembler EXCEPT !.block = e.of]
    [] e.k = "delta" /\ assembler.block = e.of ->
         [assembler EXCEPT !.text = IF e.of = "text" THEN Append(@, Piece) ELSE @]
    [] e.k = "close" /\ assembler.block # "none" -> [assembler EXCEPT !.block = "none"]
    [] e.k = "finish" /\ assembler.block = "none" /\ e.ok -> [assembler EXCEPT !.finish = TRUE]
    [] e.k = "other" -> assembler
    [] OTHER -> Refused

ClaudeFeed(e) ==
  CASE e.k = "ping" -> assembler
    [] e.k = "start" -> IF assembler.started THEN Refused ELSE [assembler EXCEPT !.started = TRUE]
    [] e.k = "end" -> IF assembler.finish THEN Ended ELSE Refused
    [] OTHER -> IF assembler.started /\ ~assembler.finish THEN ClaudeStep(e) ELSE Refused

(* After its terminal an answer has no further event, not even a ping.          *)
Feed(e) ==
  IF assembler.state # "open" THEN Refused
  ELSE CASE protocol = "openai_chat" -> ChatFeed(e)
         [] protocol = "openai_responses" -> ResponseFeed(e)
         [] protocol = "claude_messages" -> ClaudeFeed(e)

-----------------------------------------------------------------------------
Fails == reading' = "failed"

(* consume: the events that end in this chunk go to the assembler in order.     *)
ConsumeEvent(e) ==
  /\ reading \in {"between", "chunk"} /\ (reading = "between" => assembler.state = "open")
  /\ coming # "comment" /\ Len(fed) < MaxEvents
  /\ fed' = Append(fed, e) /\ assembler' = Feed(e) /\ coming' = "nothing"
  /\ IF assembler'.state = "failed" THEN Fails ELSE reading' = "chunk"
  /\ UNCHANGED <<protocol, answer>>

(* More bytes of the event: a CR that is followed ends the event.               *)
Grown == [nothing |-> Holding, fragment |-> {"fragment", "lines", "cr"}, lines |-> {"lines", "cr"},
          cr |-> {}, comment |-> {"comment"}]

(* The chunk ends.  Once the answer is complete nothing may have begun that is   *)
(* not a comment (validate_terminal_tail), and nothing more is read.            *)
EndChunk(held) ==
  /\ reading \in {"between", "chunk"} /\ held \in Grown[coming]
  /\ coming' = held
  /\ CASE assembler.state = "open" -> reading' = "between"
       [] assembler.state = "complete" /\ held \in {"nothing", "comment"} -> reading' = "accepted"
       [] OTHER -> Fails
  /\ answer' = IF reading' = "accepted" THEN assembler.text ELSE answer
  /\ UNCHANGED <<protocol, fed, assembler>>

(* A comment ends: nothing of it is kept.                                     *)
DropComment ==
  /\ reading = "between" /\ coming = "comment" /\ coming' = "nothing"
  /\ UNCHANGED <<protocol, fed, assembler, reading, answer>>

(* The body ends.  A last CR ends its line, so it may end an event; nothing else *)
(* stands for a missing blank line (finish).                                   *)
EndOfBody(e) ==
  /\ reading = "between"
  /\ IF coming = "cr" /\ Len(fed) < MaxEvents
       THEN fed' = Append(fed, e) /\ assembler' = Feed(e)
       ELSE UNCHANGED <<fed, assembler>>
  /\ coming' = "nothing"
  /\ IF assembler'.state = "complete" THEN reading' = "accepted" /\ answer' = assembler'.text
                                     ELSE Fails /\ UNCHANGED answer
  /\ UNCHANGED protocol

(* Silence, the deadline, a limit on bytes, invalid UTF-8, a broken connection.  *)
ReadBreaks ==
  /\ reading \in {"between", "chunk"} /\ Fails
  /\ UNCHANGED <<protocol, fed, coming, assembler, answer>>

StreamNext ==
  \/ \E e \in Events : ConsumeEvent(e) \/ EndOfBody(e)
  \/ \E held \in Holding : EndChunk(held)
  \/ DropComment \/ ReadBreaks

StreamSpec == StreamInit /\ [][StreamNext]_streamVars

-----------------------------------------------------------------------------
(* What a whole answer is, read from all of its events.                        *)
At(s, kinds) == {i \in DOMAIN s : s[i].k \in kinds}

WholeChat(s) ==
  \E stop \in At(s, {"delta"}) :
    /\ s[stop].finish = "stop"
    /\ stop < Len(s) /\ s[Len(s)].k = "done"
    /\ \A i \in 1 .. stop : s[i].k \in {"delta", "usage", "other"}
    /\ \A i \in stop + 1 .. Len(s) - 1 : s[i].k = "usage"
    /\ \A i \in At(s, {"delta"}) : s[i].id = s[stop].id /\ (i # stop => s[i].finish = "none")

WholeResponse(s) ==
  /\ s # <<>> /\ At(s, {"completed"}) = {Len(s)} /\ At(s, {"bad"}) = {}
  /\ LET last == s[Len(s)]
     IN /\ last.text # "none" /\ (last.text = "else" => At(s, {"text"}) = {})
        /\ last.reason = "else" => At(s, {"reason"}) = {}

(* The pings aside: a start, blocks one after the other, a finish and the end.  *)
WholeClaude(s) ==
  LET Inside(i, j) == \A l \in i + 1 .. j - 1 : s[l].k \in {"delta", "other", "ping"}
  IN \E start, stop \in DOMAIN s :
     /\ start < stop /\ At(s, {"start"}) = {start} /\ At(s, {"finish"}) = {stop} /\ s[stop].ok
     /\ At(s, {"end"}) = {Len(s)} /\ At(s, {"bad"}) = {}
     /\ \A i \in 1 .. start - 1 \cup stop + 1 .. Len(s) - 1 : s[i].k = "ping"
     /\ \A i \in At(s, {"delta"}) : \E b \in At(s, {"block"}) : b < i /\ s[b].of = s[i].of /\ Inside(b, i)
     /\ \A b \in At(s, {"block"}) : \E c \in At(s, {"close"}) : b < c /\ Inside(b, c)
     /\ \A c \in At(s, {"close"}) : \E b \in At(s, {"block"}) : b < c /\ Inside(b, c)

Whole(s) ==
  CASE protocol = "openai_chat" -> WholeChat(s)
    [] protocol = "openai_responses" -> WholeResponse(s)
    [] protocol = "claude_messages" -> WholeClaude(s)

IsText(e) ==
  CASE protocol = "openai_chat" -> e.k = "delta" /\ e.text
    [] protocol = "openai_responses" -> e.k = "text"
    [] protocol = "claude_messages" -> e.k = "delta" /\ e.of = "text"

(* A text holds some pieces if these are what it is made of, each once, in      *)
(* their order.                                                             *)
Holds(text, pieces) ==
  /\ \A i, j \in DOMAIN text : i < j => text[i] < text[j]
  /\ {text[i] : i \in DOMAIN text} = pieces

(* The pieces of text of an answer, or its last event, which has all of it.     *)
PiecesOf(s) ==
  LET pieces == {i \in DOMAIN s : IsText(s[i])}
  IN IF pieces = {} /\ protocol = "openai_responses" THEN {Len(s)} ELSE pieces

-----------------------------------------------------------------------------
StreamTypeOK ==
  /\ protocol \in Protocols /\ Len(fed) <= MaxEvents /\ coming \in Holding
  /\ assembler.state \in {"open", "complete", "failed"}
  /\ reading \in {"between", "chunk", "accepted", "failed"}

(* The events were a whole answer of their protocol exactly when the assembler,   *)
(* which saw one at a time, calls them complete; and only such an answer is       *)
(* returned, with all of its text in order, wherever the connection was cut.      *)
AnswerIsWhole ==
  /\ StreamTypeOK
  /\ Whole(fed) <=> assembler.state = "complete"
  /\ reading = "accepted" => Whole(fed) /\ Holds(answer, PiecesOf(fed))

(* What the assembler refuses could not have become a whole answer, whatever was  *)
(* still to come: one event at a time it is not stricter than the answer.         *)
RefusedForGood ==
  assembler.state = "failed" =>
    \A n \in 0 .. MaxAhead : Len(fed) + n <= MaxEvents =>
      \A more \in [1 .. n -> Events] : ~Whole(fed \o more)
=============================================================================
