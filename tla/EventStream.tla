---------------------------- MODULE EventStream ----------------------------
(***************************************************************************)
(* stream_kiro_text and EventStreamParser of kiro/client.py: the body of an *)
(* upstream answer arrives in chunks that end anywhere; frames, or SSE      *)
(* events, are cut out of it and dispatched as events.                      *)
(*                                                                         *)
(* The body is a sequence of cells of four bytes: the length a frame starts *)
(* with, the rest of the frame, the data of an SSE event.  A newline is a   *)
(* cell of its own, since a chunk may end between two of them.  The         *)
(* upstream's side (Say, Close, Fail) is external.                          *)
(*                                                                         *)
(* The definitions are named so that this module can be used beside         *)
(* ResponseStream, whose handlers read the events relayed here.             *)
(***************************************************************************)
EXTENDS Naturals, Sequences

CONSTANTS
    Sizes,      \* sizes of the upstream's frames, in cells
    BadSizes,   \* lengths no frame can have: corrupted framing
    MaxSize,    \* 64 MB
    MaxSaid     \* bound on what the upstream says in one answer

\* 8 bytes tell the form of the body, and 16 are the smallest frame.
Detect   == 2
MinFrame == 4

ASSUME SizesAssumption == /\ MaxSize \in Nat
                          /\ Sizes \subseteq MinFrame..MaxSize
                          /\ BadSizes \subseteq Nat \ (MinFrame..MaxSize)

VARIABLES
    form,       \* what the upstream speaks, "binary" frames or "sse"
    sent,       \* what it has put on the wire: the frame, and where it ends
    wire,       \* the cells on the way
    got,        \* how many have arrived
    buf,        \* _buf
    mode,       \* _mode
    pc,         \* "wait" for a chunk, a draining loop, "final", or how it ended
    relayed     \* the events of each frame dispatched, in order

parserVars == <<form, sent, wire, got, buf, mode, pc, relayed>>

-----------------------------------------------------------------------------
(* A frame is its event type, none in SSE, and the keys of its payload that   *)
(* are not empty; toolUses is a key of an assistantResponseMessage.            *)

If(condition, event) == IF condition THEN <<event>> ELSE <<>>

ReasoningEvents(keys) == If("text" \in keys, "reasoning")
                   \o If("signature" \in keys, "reasoning_signature")

\* By the keys of the payload, after the text of a typed frame.
DispatchKeys(f) ==
    LET typedText == f.type = "assistantResponseEvent" /\ "content" \in f.keys
        message   == {"assistantResponseMessage", "toolUses"} \cap f.keys
        text      == \/ typedText \/ "assistantResponseEvent" \in f.keys
                     \/ "assistantResponseMessage" \in f.keys
                     \/ message = {} /\ "content" \in f.keys /\ "errorMessage" \notin f.keys
    IN  If(text, "text")
        \o If("toolUses" \in f.keys, "tool_use")
        \o If("toolUseEvent" \in f.keys, "tool_delta")
        \o (IF "reasoningContentEvent" \in f.keys
            THEN ReasoningEvents({"text", "signature"}) ELSE <<>>)
        \o If({"errorMessage", "error"} \cap f.keys # {}, "error")
        \o If("stopReason" \in f.keys /\ ~text, "done")

Dispatch(f) ==
    CASE f.type = "reasoningContentEvent" -> ReasoningEvents(f.keys)
      [] f.type = "toolUseEvent"          -> <<"tool_delta">>
      [] f.type = "messageMetadataEvent"  -> <<"metadata">>
      [] f.type = "messageStopEvent"      -> <<"done">>
      [] f.type = "exception"             -> <<"error">>
      [] OTHER                            -> DispatchKeys(f)

-----------------------------------------------------------------------------
(* The upstream.                                                              *)

Frame(type, keys) == [type |-> type, keys |-> keys]

\* What an answer is made of, in the shapes each form has for it.
Things == {"text", "last text", "thought", "call", "whole call", "error", "stop"}

Shapes(thing) ==
    IF form = "binary"
    THEN CASE thing = "text"      -> {Frame("assistantResponseEvent", {"content"})}
           [] thing = "last text" ->
                  {Frame("assistantResponseEvent", {"content", "stopReason"})}
           [] thing = "thought"   ->
                  {Frame("reasoningContentEvent", {"text", "signature"})}
           [] thing = "call"      -> {Frame("toolUseEvent", {"toolUseId"})}
           [] thing = "whole call" -> {}
           [] thing = "error"     -> {Frame("exception", {"message"})}
           [] OTHER               -> {Frame("messageStopEvent", {})}
    ELSE CASE thing = "text"      -> {Frame("", {"content"}),
                                      Frame("", {"assistantResponseEvent"}),
                                      Frame("", {"assistantResponseMessage"})}
           [] thing = "last text" -> {Frame("", {"content", "stopReason"})}
           [] thing = "thought"   -> {Frame("", {"reasoningContentEvent"})}
           [] thing = "call"      -> {Frame("", {"toolUseEvent"})}
           [] thing = "whole call" -> {Frame("", {"toolUses"})}
           [] thing = "error"     -> {Frame("", {"content", "errorMessage"}),
                                      Frame("", {"error"})}
           [] OTHER               -> {Frame("", {"stopReason"})}

Body(f, n)  == [i \in 1..n |-> [cell |-> "body", frame |-> f]]
Data(f, n)  == [i \in 1..n |-> [cell |-> "data", frame |-> f, last |-> i = n]]
Length(n)   == [cell |-> "length", size |-> n]
NewLine     == [cell |-> "newline"]

End(frames) == IF frames = <<>> THEN 0 ELSE frames[Len(frames)].end

ParserInit == /\ form \in {"binary", "sse"}
              /\ sent = <<>> /\ wire = <<>> /\ got = 0
              /\ buf = <<>> /\ mode = "unknown"
              /\ pc = "wait"
              /\ relayed = <<>>

\* A frame of n cells; its length may have been corrupted.  Or an SSE event.
Say(thing, f, n) ==
    LET whole == IF form = "binary" THEN n ELSE n + 2 IN
    /\ pc = "wait" /\ Len(sent) < MaxSaid
    /\ \E size \in IF form = "binary" THEN {n} \cup BadSizes ELSE {n} :
          /\ wire' = wire \o IF form = "binary"
                             THEN <<Length(size)>> \o Body(f, n - 1)
                             ELSE Data(f, n) \o <<NewLine, NewLine>>
          /\ sent' = Append(sent, [thing |-> thing, legal |-> size = n,
                                   end |-> End(sent) + whole])
    /\ UNCHANGED <<form, got, buf, mode, pc, relayed>>

SayAnything == \E thing \in Things : \E f \in Shapes(thing), n \in Sizes : Say(thing, f, n)

-----------------------------------------------------------------------------
(* The parser.                                                                *)

\* Python's s[:n] and s[n:], for any n.
First(s, n) == SubSeq(s, 1, IF n < Len(s) THEN n ELSE Len(s))
After(s, n) == SubSeq(s, n + 1, Len(s))

\* Mutant: any length is believed.
AnySize(n) == TRUE

Legal(n) == MinFrame <= n /\ n <= MaxSize

LooksBinary(b) == b[1].cell = "length" /\ b[1].size \in MinFrame..MaxSize

\* feed of a chunk.
Feed(n) ==
    LET b == buf \o First(wire, n)
        m == IF mode = "unknown" /\ Len(b) >= Detect
             THEN IF LooksBinary(b) THEN "binary" ELSE "sse"
             ELSE mode
    IN  /\ pc = "wait" /\ n \in 1..Len(wire)
        /\ wire' = After(wire, n)
        /\ got' = got + n
        /\ buf' = b
        /\ mode' = m
        /\ pc' = IF m = "unknown" THEN "wait" ELSE m
        /\ UNCHANGED <<form, sent, relayed>>

\* Mutant: a frame is cut out as soon as its prelude is there.
HasPrelude(b) == TRUE

HasFrame(b) == Len(b) >= b[1].size

\* One turn of _drain_binary.
DrainBinary ==
    /\ pc = "binary"
    /\ CASE Len(buf) < MinFrame ->
              pc' = "wait" /\ UNCHANGED <<buf, mode, relayed>>
         [] Len(buf) >= MinFrame /\ ~Legal(buf[1].size) ->
              pc' = "wait" /\ mode' = "sse" /\ UNCHANGED <<buf, relayed>>
         [] Len(buf) >= MinFrame /\ Legal(buf[1].size) /\ ~HasFrame(buf) ->
              pc' = "wait" /\ UNCHANGED <<buf, mode, relayed>>
         [] OTHER ->
              /\ buf' = After(buf, buf[1].size)
              /\ relayed' = IF buf[1].size = 0 THEN relayed
                            ELSE Append(relayed, Dispatch(buf[2].frame))
              /\ UNCHANGED <<pc, mode>>
    /\ UNCHANGED <<form, sent, wire, got>>

\* An SSE event: with all its data it is dispatched, with a part of it that does
\* not parse it is nothing to dispatch, and without any it is skipped.
DispatchSse(cells) ==
    LET whole == {i \in 1..Len(cells) : cells[i].cell = "data" /\ cells[i].last}
    IN  relayed' = IF whole = {} THEN relayed
                   ELSE Append(relayed, Dispatch(cells[CHOOSE i \in whole : TRUE].frame))

Breaks == {i \in 1..(Len(buf) - 1) : buf[i].cell = "newline" /\ buf[i + 1].cell = "newline"}

\* One turn of _drain_sse.
DrainSse ==
    /\ pc \in {"sse", "final"}
    /\ IF Breaks # {}
       THEN \E i \in Breaks :
               /\ \A j \in Breaks : i <= j
               /\ DispatchSse(First(buf, i - 1))
               /\ buf' = After(buf, i + 1)
               /\ UNCHANGED pc
       ELSE IF pc = "sse"
            THEN pc' = "wait" /\ UNCHANGED <<buf, relayed>>
            ELSE pc' = "closed" /\ DispatchSse(buf) /\ buf' = <<>>
    /\ UNCHANGED <<form, sent, wire, got, mode>>

\* Mutant: the end of the body is not told to the SSE parser.
EndWithoutFeed == "closed"

\* feed(b""): what is left of a binary body is less than a frame.
EndOfFeed == IF mode = "sse" THEN "final" ELSE "closed"

\* The body ends, perhaps in the middle of something; what is on the way is lost.
Close == /\ pc = "wait"
         /\ pc' = EndOfFeed
         /\ wire' = <<>>
         /\ UNCHANGED <<form, sent, got, buf, mode, relayed>>

\* The connection breaks: the exception skips the last drain.
Fail == /\ pc = "wait"
        /\ pc' = "failed"
        /\ wire' = <<>>
        /\ UNCHANGED <<form, sent, got, buf, mode, relayed>>

FeedAny == \E n \in 1..Len(wire) : Feed(n)

ParserNext == SayAnything \/ FeedAny \/ DrainBinary \/ DrainSse \/ Close \/ Fail

\* The parser runs without a suspension.
ParserSpec == /\ ParserInit /\ [][ParserNext]_parserVars
              /\ WF_parserVars(DrainBinary) /\ WF_parserVars(DrainSse)

-----------------------------------------------------------------------------
(* What a client is to get of an answer.                                      *)

\* The events of one thing, the same in both forms.  A stop reason that comes
\* with text is the text only.
Meaning(thing) ==
    CASE thing \in {"text", "last text"} -> <<"text">>
      [] thing = "thought"               -> <<"reasoning", "reasoning_signature">>
      [] thing = "call"                  -> <<"tool_delta">>
      [] thing = "whole call"            -> <<"tool_use">>
      [] thing = "error"                 -> <<"error">>
      [] OTHER                           -> <<"done">>

\* The things wholly received, up to the first corrupted length; missing is what
\* may be wanting of the last one.
Arrived(missing) ==
    {i \in 1..Len(sent) : /\ sent[i].end <= got + missing
                          /\ \A j \in 1..i : sent[j].legal}

Relays(arrived) ==
    relayed = [i \in 1..Len(relayed) |-> Meaning(sent[i].thing)] /\ 1..Len(relayed) = arrived

\* Wherever the chunks end, every frame that has wholly arrived has been relayed
\* as soon as the parser waits for the next chunk, once and in order, and nothing
\* has been relayed of a frame that has not, or that follows a corrupted length.
RelaysWhatArrived ==
    pc \in {"wait", "failed"} => Relays(Arrived(0))

\* The end of the body releases what was held back: an SSE event that lacks only
\* its blank line is relayed, and of a frame or event cut short nothing is.
EndReleases ==
    pc = "closed" =>
        Relays(Arrived(IF form = "sse" /\ got >= Detect THEN 2 ELSE 0))

\* feed returns, whatever lengths the body claims.
FeedReturns == (pc \in {"binary", "sse", "final"}) ~> (pc \in {"wait", "closed"})
=============================================================================
