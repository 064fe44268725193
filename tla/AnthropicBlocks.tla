-------------------------- MODULE AnthropicBlocks --------------------------
(***************************************************************************)
(* What the client of a streamed /v1/messages answer may count on: content  *)
(* blocks are numbered in the order they start, written to only while they  *)
(* are open, and neither text nor tool blocks overlap.  A thinking block is *)
(* exempt from the last: it is closed by the upstream's signature, which    *)
(* may come late or never.                                                  *)
(***************************************************************************)
EXTENDS Integers, FiniteSets

VARIABLES
    blocks,   \* blocks[i]: kind of block i and whether it is open
    cursor,   \* the block last written to, or -1
    ended     \* message_stop has come

vars == <<blocks, cursor, ended>>

Kinds == {"text", "tool_use", "thinking"}

\* The open blocks that must be closed before another starts or the answer ends.
Unclosed == {i \in DOMAIN blocks : blocks[i].open /\ blocks[i].kind # "thinking"}

Init == blocks = <<>> /\ cursor = -1 /\ ended = FALSE

StartBlock(kind) ==
    LET i == Cardinality(DOMAIN blocks) IN
    /\ ~ended
    /\ kind # "thinking" => Unclosed = {}
    /\ blocks' = [j \in DOMAIN blocks \cup {i} |->
                     IF j = i THEN [kind |-> kind, open |-> TRUE] ELSE blocks[j]]
    /\ cursor' = i
    /\ UNCHANGED ended

WriteTo(i) ==
    /\ ~ended /\ blocks[i].open
    /\ cursor' = i
    /\ UNCHANGED <<blocks, ended>>

StopBlock(i) ==
    /\ ~ended /\ blocks[i].open
    /\ blocks' = [blocks EXCEPT ![i].open = FALSE]
    /\ cursor' = i
    /\ UNCHANGED ended

StopMessage ==
    /\ ~ended /\ Unclosed = {}
    /\ ended' = TRUE
    /\ UNCHANGED <<blocks, cursor>>

Next == \/ \E kind \in Kinds : StartBlock(kind)
        \/ \E i \in DOMAIN blocks : WriteTo(i) \/ StopBlock(i)
        \/ StopMessage

Spec == Init /\ [][Next]_vars
=============================================================================
