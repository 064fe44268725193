--------------------------- MODULE ResponseStream ---------------------------
(***************************************************************************)
(* From the upstream's events to the client's answer: the three handlers of *)
(* proxy/server.py that read one event stream,                              *)
(*   "chat"      _stream_openai_chat,                                       *)
(*   "messages"  _stream_anthropic,                                         *)
(*   "collect"   _nonstream_openai_chat and _nonstream_anthropic,           *)
(* and _consume_tool_delta, with which all of them put tool calls together. *)
(*                                                                         *)
(* A handler takes an event, works out the chunks to write, and writes them *)
(* one at a time: each yield suspends.  It reads on when all are written.   *)
(* Texts are one value; the arguments of a call are the fragments they are  *)
(* joined from.  What the arguments become when they are not JSON ("{}") is *)
(* left out.                                                                *)
(***************************************************************************)
EXTENDS Integers, Sequences, FiniteSets

CONSTANTS
    Names,       \* names of tools
    MaxCalls,    \* bound on the tool calls of an answer
    MaxParts,    \* bound on the argument fragments of a call
    MaxBlocks    \* bound: no more text or thinking once there are so many blocks

ASSUME NamesAssumption == "" \notin Names
ASSUME CallsAssumption == MaxCalls \in Nat /\ MaxParts \in Nat \ {0} /\ MaxBlocks \in Nat

Handlers == {"chat", "messages", "collect"}

NoName  == ""
NoId    == 0
NoPart  == <<>>
NoBlock == -1
NoTool  == [id |-> NoId, name |-> NoName, parts |-> <<>>]

VARIABLES
    handler,
    said,      \* history: the calls the upstream has made
    pending,   \* pending_tool
    calls,     \* tool_calls, tool_calls_accum
    writer,    \* the handler's other locals
    outbox,    \* chunks of the current event not written yet
    client,    \* what the client of a stream has seen
    end        \* how the upstream's stream ended

vars == <<handler, said, pending, calls, writer, outbox, client, end>>

\* text, thinking: open blocks; next: next_block_index; content: has_content.
NewWriter == [text |-> NoBlock, thinking |-> NoBlock, next |-> 0, content |-> FALSE]

NewClient == [blocks |-> <<>>, cursor |-> NoBlock, finished |-> FALSE, ended |-> FALSE]

Init == /\ handler \in Handlers
        /\ said = <<>> /\ pending = NoTool /\ calls = <<>>
        /\ writer = NewWriter /\ outbox = <<>> /\ client = NewClient
        /\ end = "none"

-----------------------------------------------------------------------------
(* Putting tool calls together.  No call is <<>>, one is a sequence of it.    *)

\* A pending tool without a name is dropped.
Flush(tool, index) ==
    IF tool.name = NoName THEN <<>>
    ELSE <<[id |-> tool.id, name |-> tool.name, parts |-> tool.parts, index |-> index]>>

\* Mutant: fragments go to whatever tool is pending.
NeverChanges(tool, d) == FALSE

\* The delta belongs to another tool than the pending one.
Changes(tool, d) ==
    /\ tool # NoTool
    /\ \/ d.id \notin {NoId, tool.id}
       \/ d.name # NoName /\ tool.name # NoName /\ d.name # tool.name

\* Mutant: counts a flushed tool that may not be there.
AlwaysNext(flushed, index) == index + 1

FinishedIndex(flushed, index) == index + Len(flushed)

\* The pending tool after a delta, before its end is looked at.  (A pending tool
\* always has an id: one is made up if its first delta brings none.)
Grown(tool, d) ==
    LET opened == IF tool = NoTool
                  THEN [NoTool EXCEPT !.id = d.id, !.name = d.name]
                  ELSE [tool EXCEPT !.name = IF @ = NoName THEN d.name ELSE @]
    IN  IF d.part = NoPart THEN opened ELSE [opened EXCEPT !.parts = Append(@, d.part)]

\* _consume_tool_delta: the call it returns and what is pending then.  When the
\* delta both replaces a tool and ends its own, only the latter is returned.
Consume(tool, d, index) ==
    LET changes  == Changes(tool, d)
        flushed  == IF changes THEN Flush(tool, index) ELSE <<>>
        grown    == Grown(IF changes THEN NoTool ELSE tool, d)
        finished == Flush(grown, FinishedIndex(flushed, index))
    IN  IF d.stop
        THEN [call |-> IF finished = <<>> THEN flushed ELSE finished, pending |-> NoTool]
        ELSE [call |-> flushed, pending |-> grown]

-----------------------------------------------------------------------------
(* Writing.  r holds the handler's locals and the chunks to write so far.     *)

Quiet == [writer |-> writer, out |-> <<>>]

Add(r, chunk) == [r EXCEPT !.out = Append(@, chunk)]

Start(kind, i) == [t |-> "start", i |-> i, kind |-> kind]
Delta(i)       == [t |-> "delta", i |-> i]
Stop(i)        == [t |-> "stop", i |-> i]
Plain(t)       == [t |-> t, i |-> NoBlock]

\* Mutant: the text block stays open.
LeaveText(r) == r

CloseText(r) ==
    IF r.writer.text = NoBlock THEN r
    ELSE [writer |-> [r.writer EXCEPT !.text = NoBlock],
          out    |-> Append(r.out, Stop(r.writer.text))]

\* A finished call, as a chunk or as a block of its own.
Tell(r, call) ==
    CASE call = <<>> \/ handler = "collect" -> r
      [] call # <<>> /\ handler = "chat" ->
            Add([r EXCEPT !.writer.content = TRUE], Plain("call"))
      [] call # <<>> /\ handler = "messages" ->
            LET c == CloseText(r)
                i == c.writer.next
                b == Add([c EXCEPT !.writer.next = i + 1], Start("tool_use", i))
            IN  Add(IF call[1].parts = <<>> THEN b ELSE Add(b, Delta(i)), Stop(i))

BlockOf(w, kind) == IF kind = "text" THEN w.text ELSE w.thinking

\* The next block is one of that kind.
Opening(w, kind) ==
    IF kind = "text" THEN [w EXCEPT !.text = w.next, !.next = @ + 1]
    ELSE [w EXCEPT !.thinking = w.next, !.next = @ + 1]

\* A delta of the text or thinking block, which is opened first if it is not open.
WriteBlock(r, kind) ==
    LET i == r.writer.next IN
    IF BlockOf(r.writer, kind) # NoBlock THEN Add(r, Delta(BlockOf(r.writer, kind)))
    ELSE Add(Add([r EXCEPT !.writer = Opening(@, kind)], Start(kind, i)), Delta(i))

Write(r, kind) ==
    CASE handler = "collect"  -> r
      [] handler = "chat"     -> Add([r EXCEPT !.writer.content = TRUE], Plain("text"))
      [] handler = "messages" -> WriteBlock(r, kind)

\* The handler resumes: it keeps the call, and writes r.
Handle(call, tool, r) ==
    /\ calls' = calls \o call
    /\ pending' = tool
    /\ writer' = r.writer
    /\ outbox' = r.out
    /\ UNCHANGED <<handler, client>>

-----------------------------------------------------------------------------
(* The upstream's events.  The deltas of a call come in a row, its id and what  *)
(* is known of its name with the first of them.                                 *)

Reading == end = "none" /\ outbox = <<>>

\* The upstream goes on to something else.
MoveOn == [n \in 1..Len(said) |-> [said[n] EXCEPT !.open = FALSE]]

\* over: the call's only delta, and the call before it was left open.
FirstDelta ==
    LET n == Len(said) + 1 IN
    \E name \in Names \cup {NoName}, part \in {NoPart, <<n, 1>>}, stop \in BOOLEAN :
        LET over == stop /\ said # <<>> /\ said[n - 1].open
            c    == Consume(pending, [id |-> n, name |-> name, part |-> part, stop |-> stop],
                            Len(calls))
        IN  /\ Reading /\ n <= MaxCalls
            /\ said' = Append(MoveOn,
                              [name |-> name, parts |-> IF part = NoPart THEN <<>> ELSE <<part>>,
                               open |-> ~stop, over |-> over])
            /\ Handle(c.call, c.pending, Tell(Quiet, c.call))
            /\ UNCHANGED end

\* A later delta can leave out the id, the name, or both.
NextDelta ==
    LET n    == Len(said)
        call == said[n]
        name == IF call.name = NoName THEN Names \cup {NoName} ELSE {call.name, NoName}
        part == {NoPart} \cup {<<n, k>> : k \in {Len(call.parts) + 1} \cap 1..MaxParts}
    IN
    /\ Reading /\ said # <<>> /\ call.open
    /\ \E i \in {n, NoId}, m \in name, p \in part, stop \in BOOLEAN :
          LET c == Consume(pending, [id |-> i, name |-> m, part |-> p, stop |-> stop], Len(calls))
          IN  /\ said' = [said EXCEPT ![n] =
                             [call EXCEPT !.name = IF @ = NoName THEN m ELSE @,
                                          !.parts = IF p = NoPart THEN @ ELSE Append(@, p),
                                          !.open = ~stop]]
              /\ Handle(c.call, c.pending, Tell(Quiet, c.call))
    /\ UNCHANGED end

\* A tool_use event holds a whole call.
ToolUse ==
    LET n     == Len(said) + 1
        first == Flush(pending, Len(calls)) IN
    /\ Reading /\ n <= MaxCalls
    /\ \E name \in Names \cup {NoName}, parts \in {<<>>, <<<<n, 1>>>>} :
          LET second == Flush([id |-> n, name |-> name, parts |-> parts],
                              Len(calls) + Len(first))
          IN  /\ said' = Append(MoveOn, [name |-> name, parts |-> parts,
                                         open |-> FALSE, over |-> FALSE])
              /\ Handle(first \o second, NoTool, Tell(Tell(Quiet, first), second))
    /\ UNCHANGED end

Text ==
    LET call == Flush(pending, Len(calls)) IN
    /\ Reading /\ writer.next < MaxBlocks
    /\ said' = MoveOn
    /\ Handle(call, NoTool, Write(Tell(Quiet, call), "text"))
    /\ UNCHANGED end

Reasoning ==
    /\ Reading /\ writer.next < MaxBlocks
    /\ Handle(<<>>, pending, Write(Quiet, "thinking"))
    /\ UNCHANGED <<said, end>>

Signature ==
    /\ Reading /\ writer.thinking # NoBlock
    /\ Handle(<<>>, pending, [writer |-> [writer EXCEPT !.thinking = NoBlock],
                              out |-> <<Stop(writer.thinking)>>])
    /\ UNCHANGED <<said, end>>

-----------------------------------------------------------------------------
(* The end of the stream.                                                      *)

\* Mutants: no flush on "done"; the finish reason before the last call.
RemainingOnError(how) ==
    IF how = "error" THEN Flush(pending, Len(calls)) ELSE <<>>
FinishFirst(r, call) == Tell(Add(r, Plain("finish")), call)

\* What is flushed at the end.  Only "chat" flushes when the stream just stops.
Remaining(how) ==
    IF how = "closed" /\ handler # "chat" THEN <<>> ELSE Flush(pending, Len(calls))

FinishLast(r, call) == Add(Tell(r, call), Plain("finish"))

\* "chat": a chunk with the finish reason on "done" and "error" (the latter with a
\* text); one more after the loop if nothing else was ever sent.
ChatEnding(how, call) ==
    LET r == CASE how = "done"   -> FinishLast(Quiet, call)
               [] how = "error"  -> [FinishLast(Quiet, call) EXCEPT !.writer.content = TRUE]
               [] how = "closed" -> Tell(Quiet, call)
    IN  Add(IF r.writer.content THEN r ELSE Add(r, Plain("finish")), Plain("done"))

MessagesEnding(how, call) ==
    LET told == Tell(Quiet, call)
        r    == CloseText(IF how = "error" THEN WriteBlock(told, "text") ELSE told)
    IN  Add(Add(r, Plain("finish")), Plain("done"))

Ending(how, call) == CASE handler = "chat"     -> ChatEnding(how, call)
                       [] handler = "messages" -> MessagesEnding(how, call)
                       [] handler = "collect"  -> Quiet

\* A "done" or "error" event, or the end of the upstream's stream without either.
StreamEnds(how) ==
    /\ Reading
    /\ end' = how
    /\ Handle(Remaining(how), IF how = "closed" /\ handler # "chat" THEN pending ELSE NoTool,
              Ending(how, Remaining(how)))
    /\ UNCHANGED said

\* The connection breaks.  Only "chat" catches it.
StreamBreaks ==
    /\ Reading
    /\ end' = "broken"
    /\ outbox' = IF handler = "chat" THEN <<Plain("finish"), Plain("done")>> ELSE <<>>
    /\ UNCHANGED <<handler, said, pending, calls, writer, client>>

\* The client's blocks with a new one.
Started(blocks, i, kind) ==
    [j \in DOMAIN blocks \cup {i} |->
        IF j = i THEN [kind |-> kind, open |-> TRUE] ELSE blocks[j]]

\* The client gets the next chunk.
Yield ==
    LET chunk == Head(outbox)
        i     == chunk.i
    IN
    /\ outbox # <<>>
    /\ outbox' = Tail(outbox)
    /\ client' =
         CASE chunk.t = "start"  -> [client EXCEPT !.blocks = Started(@, i, chunk.kind),
                                                    !.cursor = i]
           [] chunk.t = "delta"  -> [client EXCEPT !.cursor = i]
           [] chunk.t = "stop"   -> [client EXCEPT !.blocks[i].open = FALSE, !.cursor = i]
           [] chunk.t = "finish" -> [client EXCEPT !.finished = TRUE]
           [] chunk.t = "done"   -> [client EXCEPT !.ended = TRUE]
           [] OTHER              -> client
    /\ UNCHANGED <<handler, said, pending, calls, writer, end>>

Next == \/ FirstDelta \/ NextDelta \/ ToolUse \/ Text \/ Reasoning \/ Signature
        \/ \E how \in {"done", "error", "closed"} : StreamEnds(how)
        \/ StreamBreaks
        \/ Yield

Spec == Init /\ [][Next]_vars

-----------------------------------------------------------------------------
(* Properties.                                                                 *)

Part == (1..MaxCalls) \X (1..MaxParts)

Tool == [id : 0..MaxCalls, name : Names \cup {NoName}, parts : Seq(Part)]

TypeOK ==
    /\ handler \in Handlers
    /\ said \in Seq([name : Names \cup {NoName}, parts : Seq(Part),
                     open : BOOLEAN, over : BOOLEAN])
    /\ pending \in Tool
    /\ calls \in Seq([id : 1..MaxCalls, name : Names, parts : Seq(Part), index : 0..(MaxCalls - 1)])
    /\ writer \in [text : Int, thinking : Int, next : Nat, content : BOOLEAN]
    /\ \A k \in 1..Len(outbox) : outbox[k].t \in {"start", "delta", "stop", "call", "text",
                                                  "finish", "done"}
    /\ end \in {"none", "done", "error", "closed", "broken"}

\* The calls a handler collects are the upstream's, in its order, none twice, each
\* with its name and with all its fragments and no other's, however the deltas are
\* cut and whether or not they repeat id and name.
DeliveredFaithfully ==
    /\ \A i \in 1..Len(calls) :
          LET call == said[calls[i].id] IN
          calls[i].name = call.name /\ calls[i].parts = call.parts
    /\ \A i, j \in 1..Len(calls) : i < j => calls[i].id < calls[j].id

\* A call is swallowed when the next one begins and ends in a single delta.
Swallowed(n) == n < Len(said) /\ said[n + 1].over /\ said[n + 1].name # NoName

Due == {n \in 1..Len(said) : said[n].name # NoName /\ ~Swallowed(n)}

\* Every call with a name that the upstream made before it said "done", or before
\* its error, has been collected, save those swallowed; by _stream_openai_chat also
\* when the stream stops short ("stream ended without done event").
AllCallsDelivered ==
    end \in {"done", "error"} \/ (end = "closed" /\ handler = "chat") =>
        Due \subseteq {calls[i].id : i \in 1..Len(calls)}

\* A client of "chat" puts calls together by their index, so no two may share one.
CallsNumbered ==
    (\A n \in 1..Len(said) : ~Swallowed(n)) => \A i \in 1..Len(calls) : calls[i].index = i - 1

Protocol == INSTANCE AnthropicBlocks
            WITH blocks <- client.blocks, cursor <- client.cursor, ended <- client.ended

\* The chunks of _stream_anthropic follow the block protocol.
FollowsProtocol == Protocol!Spec

\* Nothing but another finish reason and the end mark follows a finish reason: a
\* client that stops reading there misses no text and no call.
NothingAfterFinish ==
    [][outbox # <<>> /\ outbox' = Tail(outbox) /\ client.finished =>
          Head(outbox).t \in {"finish", "done"}]_vars
=============================================================================
