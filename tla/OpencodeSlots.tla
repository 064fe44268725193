--------------------------- MODULE OpencodeSlots ---------------------------
(***************************************************************************)
(* The slot pool of the OpenCode proxy: SlotManager (opencode/slots.py) as  *)
(* opencode/router.py uses it.  A request acquires a Slot object and keeps  *)
(* the reference; a resize can drop the object from the pool meanwhile.     *)
(*                                                                         *)
(* The handler releases the slot when the upstream has answered and again   *)
(* when anything after that raises; a streamed answer releases it in the    *)
(* finally of a generator that may never have started.                      *)
(***************************************************************************)
EXTENDS Integers, Sequences, FiniteSets

CONSTANTS
    Requests,
    InitialSize, Sizes,          \* opencode_slots, and what the dashboard may set
    InitialCooldown, Cooldowns,  \* opencode_cooldown_ms, likewise
    BadBodies,         \* whether the work after the first release can raise
    EarlyDisconnects,  \* whether a client can be gone before its stream starts
    Start, MaxTime,    \* the clock's first value and its bound
    MaxSlots           \* bound on the Slot objects ever made

ASSUME RequestAssumption == IsFiniteSet(Requests)
ASSUME SizeAssumption == InitialSize \in 1..MaxSlots /\ Sizes \subseteq Int
ASSUME CooldownAssumption == /\ InitialCooldown \in Cooldowns /\ Cooldowns \subseteq 0..Start
                             /\ Start \in Nat /\ MaxTime \in Nat /\ MaxSlots \in Nat
ASSUME OutcomeAssumption == BadBodies \in BOOLEAN /\ EarlyDisconnects \in BOOLEAN

NoSlot == 0
SlotIds == 1..MaxSlots

VARIABLES
    now,
    slot,       \* the Slot objects: in_flight and last_used
    made,       \* how many of them exist
    slots,      \* the pool: a list of them
    cooldown,   \* cooldown_ms
    req         \* the requests

vars == <<now, slot, made, slots, cooldown, req>>

\* total_requests and errors are statistics no decision reads: left out.
NewSlot == [inFlight |-> 0, lastUsed |-> 0]

Init == /\ now = Start
        /\ slot = [s \in SlotIds |-> NewSlot]
        /\ made = InitialSize
        /\ slots = [i \in 1..InitialSize |-> i]
        /\ cooldown = InitialCooldown
        /\ req = [r \in Requests |-> [pc |-> "new", slot |-> NoSlot]]

-----------------------------------------------------------------------------
(* SlotManager.                                                               *)

Past(s) == now - slot[s].lastUsed >= cooldown

\* The sort key of acquire: past its cooldown, least in flight, oldest use.
Precedes(i, j) ==
    LET s == slots[i]  t == slots[j] IN
    IF Past(s) # Past(t) THEN Past(s)
    ELSE IF slot[s].inFlight # slot[t].inFlight THEN slot[s].inFlight < slot[t].inFlight
    ELSE IF slot[s].lastUsed # slot[t].lastUsed THEN slot[s].lastUsed < slot[t].lastUsed
    ELSE i < j

\* Mutant: the in_flight part of the key left out.
AcquirableByAge(i) ==
    \A j \in DOMAIN slots \ {i} :
        LET s == slots[i]  t == slots[j] IN
        IF Past(s) # Past(t) THEN Past(s)
        ELSE IF slot[s].lastUsed # slot[t].lastUsed THEN slot[s].lastUsed < slot[t].lastUsed
        ELSE i < j

Acquirable(i) == \A j \in DOMAIN slots \ {i} : Precedes(i, j)

Acquired(s) == [slot EXCEPT ![s] = [inFlight |-> @.inFlight + 1, lastUsed |-> now]]

\* n calls of release.
Released(s, n) == [slot EXCEPT ![s].inFlight = @ - n]

\* How many slots self.slots[:n] has for n up to their number: counted from the
\* end when n is negative.
Kept(n) == IF n >= 0 THEN n ELSE IF Len(slots) + n > 0 THEN Len(slots) + n ELSE 0

\* Mutant: n slots are added to those there are.
ResizedByAdding(n) ==
    IF n <= Len(slots) THEN SubSeq(slots, 1, Kept(n))
    ELSE slots \o [i \in 1..n |-> made + i]

\* The pool of n slots: the first ones kept, the missing ones made.
Resized(n) ==
    IF n <= Len(slots) THEN SubSeq(slots, 1, Kept(n))
    ELSE slots \o [i \in 1..(n - Len(slots)) |-> made + i]

-----------------------------------------------------------------------------
(* The router.                                                                *)

Holding(r) == req[r].pc \in {"sent", "offered", "streaming"}

\* chat_completions up to the first await, or to the StreamingResponse it returns.
Arrive(r) ==
    /\ req[r].pc = "new"
    /\ \/ /\ slots # <<>>
          /\ \E i \in DOMAIN slots, pc \in {"sent", "offered"} :
                /\ Acquirable(i)
                /\ slot' = Acquired(slots[i])
                /\ req' = [req EXCEPT ![r] = [pc |-> pc, slot |-> slots[i]]]
       \/ /\ slots = <<>>    \* candidates[0]: IndexError
          /\ req' = [req EXCEPT ![r].pc = "refused"]
          /\ UNCHANGED slot
    /\ UNCHANGED <<now, made, slots, cooldown>>

\* A request that is over; one whose slot was released n # 1 times keeps it as
\* a mark of the miscount.
Over(r, n) == IF n = 1
              THEN req' = [req EXCEPT ![r] = [pc |-> "done", slot |-> NoSlot]]
              ELSE req' = [req EXCEPT ![r].pc = IF n = 0 THEN "leaked" ELSE "twice"]

\* Mutant: a failed exchange does not release.
ReleasesOnlyWhenAnswered(answered, raises) == IF answered THEN 1 ELSE 0

\* How often _handle_non_stream and the except clauses around it release: once
\* after the answer, once more if what follows raises, once if there is none.
Releases(answered, raises) == IF answered /\ raises THEN 2 ELSE 1

\* proxy_chat_completion returned a response or raised.
Answered(r) ==
    /\ req[r].pc = "sent"
    /\ \E answered, raises \in BOOLEAN :
          LET n == Releases(answered, raises) IN
          /\ raises => BadBodies
          /\ slot' = Released(req[r].slot, n)
          /\ Over(r, n)
    /\ UNCHANGED <<now, made, slots, cooldown>>

StreamStarts(r) ==
    /\ req[r].pc = "offered"
    /\ req' = [req EXCEPT ![r].pc = "streaming"]
    /\ UNCHANGED <<now, slot, made, slots, cooldown>>

\* The response is dropped with its generator unstarted: no finally runs.
StreamNeverStarts(r) ==
    /\ EarlyDisconnects
    /\ req[r].pc = "offered"
    /\ req' = [req EXCEPT ![r].pc = "dropped"]
    /\ UNCHANGED <<now, slot, made, slots, cooldown>>

\* The stream ends, fails or is cancelled: the finally of _stream_generator.
StreamEnds(r) ==
    /\ req[r].pc = "streaming"
    /\ slot' = Released(req[r].slot, 1)
    /\ Over(r, 1)
    /\ UNCHANGED <<now, made, slots, cooldown>>

\* reconfigure_slots, from either of the two dashboard endpoints.
Reconfigure(n, c) ==
    /\ n # Len(slots) \/ c # cooldown
    /\ n > Len(slots) => made + n - Len(slots) <= MaxSlots
    /\ slots' = Resized(n)
    /\ made' = IF n > Len(slots) THEN made + n - Len(slots) ELSE made
    /\ cooldown' = c
    /\ UNCHANGED <<now, slot, req>>

Tick == /\ now < MaxTime
        /\ now' = now + 1
        /\ UNCHANGED <<slot, made, slots, cooldown, req>>

RequestStep(r) == Arrive(r) \/ Answered(r) \/ StreamStarts(r) \/ StreamNeverStarts(r) \/ StreamEnds(r)

Next == \/ \E r \in Requests : RequestStep(r)
        \/ \E n \in Sizes, c \in Cooldowns : Reconfigure(n, c)
        \/ Tick

Spec == Init /\ [][Next]_vars

\* The HTTP client times out after request_timeout_seconds, and the server
\* starts, and iterates to its end or cancels, every response it was given.
Fairness == \A r \in Requests : /\ WF_vars(Answered(r))
                                /\ WF_vars(StreamStarts(r) \/ StreamNeverStarts(r))
                                /\ WF_vars(StreamEnds(r))

FairSpec == Spec /\ Fairness

-----------------------------------------------------------------------------

TypeOK == /\ now \in Start..(IF MaxTime < Start THEN Start ELSE MaxTime)
          /\ slot \in [SlotIds -> [inFlight : Int, lastUsed : Nat]]
          /\ made \in SlotIds
          /\ slots \in Seq(1..made)
          /\ \A i, j \in DOMAIN slots : slots[i] = slots[j] => i = j
          /\ cooldown \in Cooldowns
          /\ req \in [Requests -> [pc : {"new", "sent", "offered", "streaming",
                                         "done", "dropped", "leaked", "twice", "refused"},
                                   slot : {NoSlot} \cup SlotIds]]

Count(s, pcs) == Cardinality({r \in Requests : req[r].slot = s /\ req[r].pc \in pcs})

\* in_flight accounts for every request, also on a slot that a resize has taken
\* out of the pool: those that hold the slot, plus the streams that never began,
\* minus the answers released twice.
InFlightExact ==
    \A s \in SlotIds :
        slot[s].inFlight = Count(s, {"sent", "offered", "streaming", "dropped"}) - Count(s, {"twice"})

\* A request that acquired a slot is over sooner or later, and has then given the
\* slot back, unless its stream never began.
SlotsComeBack == \A r \in Requests : Holding(r) ~> req[r].pc \in {"done", "twice", "dropped"}

Load(s) == Count(s, {"sent", "offered", "streaming"})

GetsLeastBusy(r) ==
    req[r].pc = "new" /\ req'[r].slot # NoSlot =>
        \A i \in DOMAIN slots :
            Past(slots[i]) = Past(req'[r].slot) => Load(req'[r].slot) <= Load(slots[i])

\* As long as every slot came back once, a request gets, of the slots on its side
\* of the cooldown, one that the fewest requests are using (slots.py: "past-cooldown
\* first, then least in-flight, then oldest").
LeastBusyWhenCounted ==
    [][(\A r \in Requests : req[r].pc \notin {"twice", "dropped"})
          => \A r \in Requests : GetsLeastBusy(r)]_vars
=============================================================================
