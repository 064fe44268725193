--------------------------- MODULE RequestBuilder ---------------------------
(***************************************************************************)
(* build_kiro_request of kiro/client.py: a conversation in OpenAI messages  *)
(* becomes a history of turns and a current turn, and the passes over that  *)
(* history keep it within the upstream's limits and in the upstream's form. *)
(* It is sequential code; the cases lie in the conversations clients send   *)
(* and in what one pass leaves to the next.  One step is one iteration of a *)
(* loop of the code, on the list read (work) and the list it builds (out).  *)
(*                                                                         *)
(* Of a turn, the model keeps what the passes look at: who speaks, whether  *)
(* there is text, the tool calls made or answered.  The payload is measured *)
(* in messages.  System messages, tool specifications and schemas only add  *)
(* to the rest of the payload.                                              *)
(***************************************************************************)
EXTENDS Naturals, Sequences, FiniteSets

CONSTANTS
    Calls,         \* ids of tool calls
    NoCall,        \* the empty tool_call_id
    MaxCycles,     \* MAX_TOOL_CYCLES
    MaxEntries,    \* MAX_HISTORY_ENTRIES
    MaxPayload,    \* MAX_PAYLOAD_BYTES
    SoftFloor,     \* 4: the first trimming stops at so many entries
    HardFloor,     \* 2: and the second at so many
    Rests,         \* sizes of the payload outside the history
    MaxMessages    \* bound on the length of a conversation

ASSUME NoCallAssumption == NoCall \notin Calls
ASSUME LimitAssumption  == /\ MaxCycles \in Nat \ {0}
                           /\ MaxEntries \in Nat /\ MaxPayload \in Nat
                           /\ SoftFloor \in Nat /\ HardFloor \in Nat
                           /\ Rests \subseteq Nat /\ MaxMessages \in Nat

VARIABLES
    pc,         \* the loop the builder is in
    given,      \* the conversation read so far
    work,       \* the turns the loop has still to look at
    out,        \* the turns it has built
    current,    \* currentMessage
    rest        \* size of the payload outside the history

vars == <<pc, given, work, out, current, rest>>

\* An assistant's uses are its calls with a name and arguments that parse; the
\* others are dropped as they are read.  text counts the "understood" that the
\* builder puts in for an assistant that only calls.
Message == [role : {"user"}]
      \cup {m \in [role : {"assistant"}, text : BOOLEAN, uses : SUBSET Calls] :
               m.uses # {} => m.text}
      \cup [role : {"tool"}, id : Calls \cup {NoCall}]

\* A turn of the history, and the positions of the messages it was made from.
Entry == [kind : {"user", "assistant"}, text : BOOLEAN, uses : SUBSET Calls,
          results : SUBSET Calls, from : SUBSET Nat]

UserTurn(results, from) ==
    [kind |-> "user", text |-> TRUE, uses |-> {}, results |-> results, from |-> from]

AssistantTurn(text, uses, from) ==
    [kind |-> "assistant", text |-> text, uses |-> uses, results |-> {}, from |-> from]

IsPlain(e)   == e.kind = "user" /\ e.results = {}
IsResults(e) == e.kind = "user" /\ e.results # {}
IsCall(e)    == e.kind = "assistant" /\ e.uses # {}

Newest(h)       == h[Len(h)]
ButNewest(h)    == SubSeq(h, 1, Len(h) - 1)
EndsInUser(h)   == h # <<>> /\ Newest(h).kind = "user"
Without(h, i)   == SubSeq(h, 1, i - 1) \o SubSeq(h, i + 1, Len(h))

IsFirst(i, positions) == i \in positions /\ \A j \in positions : i <= j
IsLast(i, positions)  == i \in positions /\ \A j \in positions : j <= i

Init == /\ pc = "read"
        /\ given = <<>> /\ work = <<>> /\ out = <<>>
        /\ current = UserTurn({}, {})
        /\ rest = 0

-----------------------------------------------------------------------------
(* From messages to turns.                                                    *)

\* The turns h after message m, the n-th of the conversation.  A tool result
\* joins the user turn it follows, or opens one; without an id it is dropped.
Added(h, m, n) ==
    CASE m.role = "user" -> Append(h, UserTurn({}, {n}))
      [] m.role = "assistant" -> Append(h, AssistantTurn(m.text, m.uses, {n}))
      [] m.role = "tool" /\ m.id = NoCall -> h
      [] OTHER -> IF EndsInUser(h)
                  THEN Append(ButNewest(h), UserTurn(Newest(h).results \cup {m.id},
                                                     Newest(h).from \cup {n}))
                  ELSE Append(h, UserTurn({m.id}, {n}))

Start(loop, h) == pc' = loop /\ work' = h /\ out' = <<>>

Read == /\ pc = "read" /\ Len(given) < MaxMessages
        /\ \E m \in Message : /\ given' = Append(given, m)
                              /\ out' = Added(out, m, Len(given) + 1)
        /\ UNCHANGED <<pc, work, current, rest>>

EndOfMessages == /\ pc = "read"
                 /\ Start("collapse", out)
                 /\ UNCHANGED <<given, current, rest>>

\* Mutant: user turns are joined whether they carry tool results or not.
JoinsAny(h, e) == EndsInUser(h) /\ e.kind = "user"

\* Never across the end of a tool cycle.
Joins(h, e) == EndsInUser(h) /\ IsPlain(Newest(h)) /\ IsPlain(e)

Collapse ==
    /\ pc = "collapse"
    /\ IF work = <<>>
       THEN Start("pop", out)
       ELSE LET e == Head(work) IN
            /\ out' = IF Joins(out, e)
                      THEN Append(ButNewest(out), UserTurn({}, Newest(out).from \cup e.from))
                      ELSE Append(out, e)
            /\ work' = Tail(work)
            /\ UNCHANGED pc
    /\ UNCHANGED <<given, current, rest>>

\* The last plain user turn is taken out of the history, or the last user turn,
\* which then loses its results; a conversation without one gets "continue".
Pop ==
    LET users == {i \in 1..Len(work) : work[i].kind = "user"}
        plain == {i \in users : IsPlain(work[i])}
    IN  /\ pc = "pop"
        /\ IF users = {}
           THEN current' = UserTurn({}, {}) /\ UNCHANGED work
           ELSE \E i \in users : /\ IsLast(i, IF plain # {} THEN plain ELSE users)
                                 /\ current' = UserTurn({}, work[i].from)
                                 /\ work' = Without(work, i)
        /\ pc' = "compact"
        /\ UNCHANGED <<given, out, rest>>

-----------------------------------------------------------------------------
(* _truncate_if_needed.                                                       *)

Capped(h) == IF Len(h) > MaxEntries THEN SubSeq(h, Len(h) - MaxEntries + 1, Len(h)) ELSE h

\* The system prompt, the tool specifications and the parameters join the payload.
Measured == rest' \in Rests

\* With too many tool cycles: the first plain user turn, and everything from the
\* cycle on that is the MaxCycles-th from the end.  Then the cap on entries.
Compact ==
    LET cycles == {i \in 1..Len(work) : IsCall(work[i])} IN
    /\ pc = "compact"
    /\ IF Cardinality(cycles) <= MaxCycles
       THEN work' = Capped(work)
       ELSE \E keep \in cycles :
               LET recent == SubSeq(work, keep, Len(work))
                   plain  == {i \in 1..(keep - 1) : IsPlain(work[i])}
               IN  /\ Cardinality({j \in cycles : j >= keep}) = MaxCycles
                   /\ IF plain = {}
                      THEN work' = Capped(recent)
                      ELSE \E i \in plain : /\ IsFirst(i, plain)
                                            /\ work' = Capped(<<work[i]>> \o recent)
    /\ Measured
    /\ pc' = "trim"
    /\ UNCHANGED <<given, out, current>>

Weight(h) == Cardinality(UNION {h[i].from : i \in 1..Len(h)})
Fits(h)   == rest + Weight(h) <= MaxPayload

\* max(2, len // share) entries.
Share(h, share) == IF Len(h) \div share > 2 THEN Len(h) \div share ELSE 2

\* Mutant: the newest entries go instead of the oldest.
DroppedNewest(h, share) == SubSeq(h, 1, Len(h) - Share(h, share))

Dropped(h, share) == SubSeq(h, Share(h, share) + 1, Len(h))

\* The loops' own limits, 50 and 20 turns, are more than 100 entries can need.
Trim == /\ pc = "trim"
        /\ IF Fits(work) \/ Len(work) <= SoftFloor
           THEN pc' = "validate" /\ UNCHANGED work
           ELSE work' = Dropped(work, 10) /\ UNCHANGED pc
        /\ UNCHANGED <<given, out, current, rest>>

Retrim == /\ pc = "retrim"
          /\ IF Fits(work) \/ Len(work) <= HardFloor
             THEN pc' = "done" /\ UNCHANGED work
             ELSE work' = Dropped(work, 5) /\ pc' = "validate"
          /\ UNCHANGED <<given, out, current, rest>>

-----------------------------------------------------------------------------
(* _sanitize_history, which both trimming loops end in.                       *)

\* 1) An assistant that says and calls nothing is left out.
Validate ==
    /\ pc = "validate"
    /\ IF work = <<>>
       THEN Start("strip", out)
       ELSE LET e == Head(work) IN
            /\ out' = IF e.kind = "assistant" /\ ~e.text /\ e.uses = {}
                      THEN out ELSE Append(out, e)
            /\ work' = Tail(work)
            /\ UNCHANGED pc
    /\ UNCHANGED <<given, current, rest>>

\* 2) The history starts with a plain user turn.
Strip ==
    /\ pc = "strip"
    /\ IF work = <<>> \/ IsPlain(Head(work))
       THEN pc' = "pair" /\ UNCHANGED work
       ELSE work' = Tail(work) /\ UNCHANGED pc
    /\ UNCHANGED <<given, out, current, rest>>

\* Mutant: any results will do.
AnsweredByAny(h) == Len(h) > 1 /\ IsResults(h[2])

Answered(h) == Len(h) > 1 /\ h[2].kind = "user" /\ h[2].results \cap h[1].uses # {}

\* 4) A call stays with the results that answer it, or as the very last turn;
\* calls without results and results without a call are left out.
Pair ==
    /\ pc = "pair"
    /\ IF work = <<>>
       THEN Start("retrim", out)
       ELSE LET e == Head(work) IN
            /\ IF IsCall(e) /\ Answered(work)
               THEN /\ out' = out \o <<e, UserTurn(work[2].results \cap e.uses, work[2].from)>>
                    /\ work' = Tail(Tail(work))
               ELSE /\ out' = IF IsResults(e) \/ (IsCall(e) /\ Len(work) > 1)
                              THEN out ELSE Append(out, e)
                    /\ work' = Tail(work)
            /\ UNCHANGED pc
    /\ UNCHANGED <<given, current, rest>>

Next == \/ Read \/ EndOfMessages \/ Collapse \/ Pop
        \/ Compact \/ Trim \/ Retrim
        \/ Validate \/ Strip \/ Pair

Spec == Init /\ [][Next]_vars

-----------------------------------------------------------------------------
(* What the upstream requires of a request.                                   *)

\* Every tool call but a last one is followed at once by results for some of its
\* calls and no others, and results follow nothing else.
Paired(h) ==
    \A i \in 1..Len(h) :
        /\ IsCall(h[i]) /\ i < Len(h) => /\ IsResults(h[i + 1])
                                         /\ h[i + 1].results \subseteq h[i].uses
        /\ IsResults(h[i]) => i > 1 /\ IsCall(h[i - 1])

-----------------------------------------------------------------------------
(* What the model is to see of a conversation that is in order.               *)

ToolRun(i) == {j \in (i + 1)..Len(given) : \A l \in (i + 1)..j : given[l].role = "tool"}

\* It starts with the user; every assistant message says or calls something, and
\* its calls are answered at once, each by one result.
InOrder ==
    /\ given # <<>> /\ given[1].role = "user"
    /\ \A i \in 1..Len(given) :
          /\ given[i].role = "assistant" =>
                /\ given[i].text
                /\ {given[j].id : j \in ToolRun(i)} = given[i].uses
                /\ Cardinality(ToolRun(i)) = Cardinality(given[i].uses)
          /\ given[i].role = "tool" => given[i - 1].role # "user"

Kept == UNION {work[i].from : i \in 1..Len(work)}

Sorted == \A i, j \in 1..Len(work) : i < j =>
              \A m \in work[i].from, n \in work[j].from : m < n

WithinLimits ==
    /\ Cardinality({i \in 1..Len(given) :
           given[i].role = "assistant" /\ given[i].uses # {}}) <= MaxCycles
    /\ Len(given) <= MaxEntries + 1
    /\ rest + Len(given) <= MaxPayload

DeliveredWhole ==
    /\ Kept \cup current.from = 1..Len(given)
    /\ Sorted
    /\ \A m \in Kept, n \in current.from : m < n /\ given[n].role = "user"
    /\ \A i \in 1..Len(work) :
          work[i].results = {given[n].id : n \in {l \in work[i].from : given[l].role = "tool"}}

UserLast == given[Len(given)].role = "user"

\* A conversation in order, within the limits, in which the user has the last
\* word, reaches the upstream whole: every message, in its place, with every
\* tool result beside the call it answers.
DeliversWhole ==
    pc = "done" /\ InOrder /\ WithinLimits /\ UserLast =>
        DeliveredWhole

\* Whatever the client sent and wherever the trimming cut, the history sent starts
\* with a plain user turn, and its tool cycles are complete but for a call that ends
\* it.  A client that has every call answered is never cut at its call: the history
\* of a conversation in order has complete cycles only.
AcceptableHistory ==
    pc = "done" =>
        /\ Paired(work)
        /\ work # <<>> => IsPlain(work[1])
        /\ InOrder /\ work # <<>> => ~IsCall(Newest(work))

\* What the limits cut from a conversation in order, in which the user has the last
\* word, is its oldest part, with the first user turn kept at most: the turns that
\* are sent, the current one after those of the history, are in their order, and
\* nothing is cut out between them or behind them.
CutsTheOldest ==
    LET opening == {i \in 1..Len(given) : \A j \in 1..i : given[j].role = "user"}
        sent    == Kept \cup current.from
    IN  pc = "done" /\ InOrder /\ UserLast =>
            /\ Sorted /\ \A m \in Kept, n \in current.from : m < n
            /\ \A m \in sent, n \in 1..Len(given) \ sent : m < n => m \in opening

-----------------------------------------------------------------------------

\* client.py:594-596 ("when the caller pops a tool-result currentMessage, the preceding
\* assistant+toolUses in history IS the matching pair"): a tool result of a conversation
\* in order reaches the upstream, whoever speaks last.
ResultsReachTheModel ==
    pc = "done" /\ InOrder /\ WithinLimits =>
        {i \in 1..Len(given) : given[i].role = "tool"} \subseteq Kept \cup current.from
=============================================================================
