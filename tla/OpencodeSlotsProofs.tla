------------------------- MODULE OpencodeSlotsProofs -------------------------
(* Theorems of OpencodeSlots, for any finite set of requests, any sizes of the *)
(* pool and any cooldowns.                                                     *)
EXTENDS OpencodeSlots, FiniteSetTheorems, SequenceTheorems, TLAPS

Counted == {"sent", "offered", "streaming", "dropped"}

\* A request refers to a Slot object that exists, or to none before it has
\* acquired one and after it has given it back; none keeps one for nothing.
RequestsOK ==
    \A r \in Requests : /\ req[r].pc \in {"new", "refused", "done"} => req[r].slot = NoSlot
                        /\ req[r].pc \in Counted \cup {"twice"} => req[r].slot \in 1..made
                        /\ req[r].pc # "leaked"

IInv == TypeOK /\ RequestsOK /\ InFlightExact

Record == [pc : {"new", "sent", "offered", "streaming",
                 "done", "dropped", "leaked", "twice", "refused"},
           slot : {NoSlot} \cup SlotIds]

-----------------------------------------------------------------------------
(* Counting requests.                                                         *)

Among(f, s, pcs) == {d \in Requests : f[d].slot = s /\ f[d].pc \in pcs}

\* One request more or less among those that count.
LEMMA CountStep ==
    ASSUME NEW f, NEW g, NEW r \in Requests, \A d \in Requests \ {r} : g[d] = f[d],
           NEW s, NEW pcs
    PROVE  /\ Cardinality(Among(f, s, pcs)) \in Nat
           /\ Cardinality(Among(g, s, pcs)) \in Nat
           /\ Cardinality(Among(g, s, pcs)) - (IF r \in Among(g, s, pcs) THEN 1 ELSE 0)
                 = Cardinality(Among(f, s, pcs)) - (IF r \in Among(f, s, pcs) THEN 1 ELSE 0)
<1> DEFINE F == Among(f, s, pcs)
           G == Among(g, s, pcs)
<1>1. IsFiniteSet(F) /\ IsFiniteSet(G)
  BY RequestAssumption, FS_Subset DEF Among
<1>2. F \ {r} = G \ {r}
  BY DEF Among
<1>3. /\ Cardinality(F \ {r}) = IF r \in F THEN Cardinality(F) - 1 ELSE Cardinality(F)
      /\ Cardinality(G \ {r}) = IF r \in G THEN Cardinality(G) - 1 ELSE Cardinality(G)
  BY <1>1, FS_RemoveElement
<1>4. Cardinality(F) \in Nat /\ Cardinality(G) \in Nat
  BY <1>1, FS_CardinalityType
<1> HIDE DEF F, G
<1>5. Cardinality(G) - (IF r \in G THEN 1 ELSE 0) = Cardinality(F) - (IF r \in F THEN 1 ELSE 0)
  BY <1>2, <1>3, <1>4
<1> QED BY <1>4, <1>5 DEF F, G

\* What a request adds to in_flight of slot s.
Weight(q, s) == IF q.slot # s THEN 0
                ELSE IF q.pc \in Counted THEN 1
                ELSE IF q.pc = "twice" THEN -1 ELSE 0

\* A step of one request that changes in_flight as it changes the request's
\* weight keeps the account.
LEMMA AccountKept ==
    ASSUME InFlightExact, NEW r \in Requests, req \in [Requests -> Record],
           NEW q \in Record, req' = [req EXCEPT ![r] = q],
           \A s \in SlotIds : /\ slot[s].inFlight \in Int /\ slot'[s].inFlight \in Int
                             /\ slot'[s].inFlight = slot[s].inFlight + Weight(q, s)
                                                      - Weight(req[r], s)
    PROVE  InFlightExact'
<1> SUFFICES ASSUME NEW s \in SlotIds
             PROVE  slot'[s].inFlight = Cardinality(Among(req', s, Counted))
                                          - Cardinality(Among(req', s, {"twice"}))
  BY DEF InFlightExact, Count, Among, Counted
<1>1. slot[s].inFlight = Cardinality(Among(req, s, Counted))
                           - Cardinality(Among(req, s, {"twice"}))
  BY DEF InFlightExact, Count, Among, Counted
<1>2. PICK f, g : f = req /\ g = req'
  OBVIOUS
<1>3. g[r] = q /\ \A d \in Requests \ {r} : g[d] = f[d]
  BY <1>2
<1> DEFINE n1 == Cardinality(Among(f, s, Counted))
           n2 == Cardinality(Among(f, s, {"twice"}))
           m1 == Cardinality(Among(g, s, Counted))
           m2 == Cardinality(Among(g, s, {"twice"}))
<1>4. /\ n1 \in Nat /\ m1 \in Nat
      /\ m1 - (IF q.slot = s /\ q.pc \in Counted THEN 1 ELSE 0)
           = n1 - (IF f[r].slot = s /\ f[r].pc \in Counted THEN 1 ELSE 0)
  <2>1. /\ n1 \in Nat /\ m1 \in Nat
        /\ m1 - (IF r \in Among(g, s, Counted) THEN 1 ELSE 0)
             = n1 - (IF r \in Among(f, s, Counted) THEN 1 ELSE 0)
    BY <1>3, CountStep
  <2> HIDE DEF n1, m1
  <2> QED BY <2>1, <1>3 DEF Among
<1>5. /\ n2 \in Nat /\ m2 \in Nat
      /\ m2 - (IF q.slot = s /\ q.pc \in {"twice"} THEN 1 ELSE 0)
           = n2 - (IF f[r].slot = s /\ f[r].pc \in {"twice"} THEN 1 ELSE 0)
  <2>1. /\ n2 \in Nat /\ m2 \in Nat
        /\ m2 - (IF r \in Among(g, s, {"twice"}) THEN 1 ELSE 0)
             = n2 - (IF r \in Among(f, s, {"twice"}) THEN 1 ELSE 0)
    BY <1>3, CountStep
  <2> HIDE DEF n2, m2
  <2> QED BY <2>1, <1>3 DEF Among
<1> HIDE DEF n1, n2, m1, m2
<1>6. slot[s].inFlight = n1 - n2
  BY <1>1, <1>2 DEF n1, n2
<1>7. /\ slot'[s].inFlight = slot[s].inFlight + Weight(q, s) - Weight(f[r], s)
      /\ slot[s].inFlight \in Int
  BY <1>2
<1>8. slot'[s].inFlight = m1 - m2
  BY <1>4, <1>5, <1>6, <1>7 DEF Weight, Counted
<1> QED BY <1>2, <1>8 DEF m1, m2

-----------------------------------------------------------------------------
(* The steps.                                                                 *)

\* One request in order, as RequestsOK has it.
Sound(q, n) == /\ q.pc \in {"new", "refused", "done"} => q.slot = NoSlot
               /\ q.pc \in Counted \cup {"twice"} => q.slot \in 1..n
               /\ q.pc # "leaked"

LEMMA TypeFacts ==
    ASSUME TypeOK
    PROVE  /\ slot \in [SlotIds -> [inFlight : Int, lastUsed : Nat]]
           /\ \A s \in SlotIds : slot[s].inFlight \in Int /\ slot[s].lastUsed \in Nat
           /\ made \in Nat /\ made \in SlotIds /\ 1..made \subseteq SlotIds /\ NoSlot \notin SlotIds
           /\ now \in Nat /\ slots \in Seq(1..made)
           /\ req \in [Requests -> Record]
<1>1. now \in Nat /\ made \in Nat /\ MaxSlots \in Nat
  BY CooldownAssumption DEF TypeOK, SlotIds
<1> QED BY <1>1 DEF TypeOK, SlotIds, Record, NoSlot

\* A step of a request that leaves the pool alone.
LEMMA RequestStepOK ==
    ASSUME IInv, NEW r \in Requests, NEW q \in Record, Sound(q, made),
           req' = [req EXCEPT ![r] = q], UNCHANGED <<now, made, slots, cooldown>>,
           slot' \in [SlotIds -> [inFlight : Int, lastUsed : Nat]],
           \A s \in SlotIds :
               slot'[s].inFlight = slot[s].inFlight + Weight(q, s) - Weight(req[r], s)
    PROVE  IInv'
<1>0. TypeOK /\ RequestsOK /\ InFlightExact
  BY DEF IInv
<1>1. TypeOK'
  BY <1>0, TypeFacts DEF TypeOK, Record
<1>2. RequestsOK'
  BY <1>0, TypeFacts DEF RequestsOK, Sound
<1>4. \A s \in SlotIds : slot[s].inFlight \in Int /\ slot'[s].inFlight \in Int
  BY <1>0, TypeFacts
<1>5. InFlightExact'
  BY <1>0, <1>4, TypeFacts, AccountKept
<1> QED BY <1>1, <1>2, <1>5 DEF IInv

LEMMA ArriveOK == ASSUME IInv, NEW r \in Requests, Arrive(r) PROVE IInv'
<1>0. TypeOK /\ RequestsOK
  BY DEF IInv
<1>1. req[r].pc = "new" /\ req[r].slot = NoSlot /\ UNCHANGED <<now, made, slots, cooldown>>
  BY <1>0 DEF Arrive, RequestsOK
<1>2. CASE slots # <<>>
  <2>1. PICK i \in DOMAIN slots, pc \in {"sent", "offered"} :
           /\ slot' = Acquired(slots[i])
           /\ req' = [req EXCEPT ![r] = [pc |-> pc, slot |-> slots[i]]]
    BY <1>2 DEF Arrive
  <2>2. PICK t \in 1..made : t = slots[i]
    BY <1>0, TypeFacts, ElementOfSeq, LenProperties
  <2>3. t \in SlotIds /\ t # NoSlot
    BY <1>0, TypeFacts
  <2> DEFINE q == [pc |-> pc, slot |-> t]
  <2>4. q \in Record /\ Sound(q, made) /\ q.pc \in Counted /\ q.slot = t
    BY <2>3 DEF Record, Sound, Counted
  <2>5. req' = [req EXCEPT ![r] = q]
    BY <2>1, <2>2
  <2>6. slot' = [slot EXCEPT ![t] = [inFlight |-> slot[t].inFlight + 1, lastUsed |-> now]]
    BY <2>1, <2>2 DEF Acquired
  <2> HIDE DEF q
  <2>7. slot' \in [SlotIds -> [inFlight : Int, lastUsed : Nat]]
    BY <1>0, <2>3, <2>6, TypeFacts
  <2>8. ASSUME NEW s \in SlotIds
        PROVE  slot'[s].inFlight = slot[s].inFlight + Weight(q, s) - Weight(req[r], s)
    <3>1. Weight(req[r], s) = 0 /\ Weight(q, s) = IF s = t THEN 1 ELSE 0
      BY <1>1, <2>4 DEF Weight, NoSlot, SlotIds, Counted
    <3>2. slot'[s].inFlight = slot[s].inFlight + (IF s = t THEN 1 ELSE 0)
      BY <1>0, <2>6, TypeFacts
    <3> QED BY <1>0, <3>1, <3>2, TypeFacts
  <2> QED BY <1>1, <2>4, <2>5, <2>7, <2>8, RequestStepOK
<1>3. CASE slots = <<>>
  <2> DEFINE q == [req[r] EXCEPT !.pc = "refused"]
  <2>1. q \in Record /\ q.pc = "refused" /\ q.slot = NoSlot /\ Sound(q, made)
    BY <1>0, <1>1, TypeFacts DEF Record, Sound, Counted
  <2>2. req' = [req EXCEPT ![r] = q] /\ slot' = slot
    BY <1>3 DEF Arrive
  <2> HIDE DEF q
  <2>3. \A s \in SlotIds : Weight(q, s) = 0 /\ Weight(req[r], s) = 0
    BY <1>1, <2>1 DEF Weight, NoSlot, SlotIds
  <2>4. \A s \in SlotIds :
           slot'[s].inFlight = slot[s].inFlight + Weight(q, s) - Weight(req[r], s)
    BY <1>0, <2>2, <2>3, TypeFacts
  <2> QED BY <1>0, <1>1, <2>1, <2>2, <2>4, TypeFacts, RequestStepOK
<1> QED BY <1>2, <1>3

\* A request that holds a slot is over, having released it once or twice.
LEMMA OverOK ==
    ASSUME IInv, NEW r \in Requests, req[r].pc \in {"sent", "streaming"}, NEW n \in {1, 2},
           slot' = Released(req[r].slot, n), Over(r, n), UNCHANGED <<now, made, slots, cooldown>>
    PROVE  IInv'
<1>0. TypeOK /\ RequestsOK
  BY DEF IInv
<1>1. PICK t \in SlotIds : t = req[r].slot /\ t \in 1..made
  BY <1>0, TypeFacts DEF RequestsOK, Counted
<1>2. \A s \in SlotIds : Weight(req[r], s) = IF s = t THEN 1 ELSE 0
  BY <1>1 DEF Weight, Counted
<1>3. /\ slot' \in [SlotIds -> [inFlight : Int, lastUsed : Nat]]
      /\ \A s \in SlotIds : slot'[s].inFlight = slot[s].inFlight - (IF s = t THEN n ELSE 0)
  <2> DEFINE e == [slot[t] EXCEPT !.inFlight = slot[t].inFlight - n]
  <2>1. slot \in [SlotIds -> [inFlight : Int, lastUsed : Nat]]
    BY <1>0 DEF TypeOK
  <2>2. slot[t] \in [inFlight : Int, lastUsed : Nat] /\ slot[t].inFlight - n \in Int
    BY <2>1
  <2>3. e \in [inFlight : Int, lastUsed : Nat] /\ e.inFlight = slot[t].inFlight - n
    BY <2>2
  <2>4. slot' = [slot EXCEPT ![t] = e]
    BY <1>1 DEF Released
  <2> HIDE DEF e
  <2>5. /\ slot' \in [SlotIds -> [inFlight : Int, lastUsed : Nat]]
        /\ \A s \in SlotIds : slot'[s] = IF s = t THEN e ELSE slot[s]
    BY <2>1, <2>3, <2>4
  <2>6. \A s \in SlotIds : slot[s].inFlight \in Int
    BY <2>1
  <2> QED BY <2>3, <2>5, <2>6
<1>4. CASE n = 1
  <2> DEFINE q == [pc |-> "done", slot |-> NoSlot]
  <2>1. q \in Record /\ Sound(q, made) /\ \A s \in SlotIds : Weight(q, s) = 0
    BY DEF Record, Sound, Counted, Weight, NoSlot, SlotIds
  <2>2. req' = [req EXCEPT ![r] = q]
    BY <1>4 DEF Over
  <2> HIDE DEF q
  <2>3. ASSUME NEW s \in SlotIds
        PROVE  slot'[s].inFlight = slot[s].inFlight + Weight(q, s) - Weight(req[r], s)
    <3>1. slot[s].inFlight \in Int /\ Weight(req[r], s) = IF s = t THEN 1 ELSE 0
      BY <1>0, <1>2, TypeFacts
    <3>2. slot'[s].inFlight = slot[s].inFlight - (IF s = t THEN 1 ELSE 0)
      BY <1>3, <1>4
    <3>3. Weight(q, s) = 0
      BY <2>1
    <3> QED BY <3>1, <3>2, <3>3
  <2> QED BY <1>3, <2>1, <2>2, <2>3, RequestStepOK
<1>5. CASE n = 2
  <2> DEFINE q == [req[r] EXCEPT !.pc = "twice"]
  <2>1. q \in Record /\ q.pc = "twice" /\ q.slot = t
    BY <1>0, <1>1, TypeFacts DEF Record
  <2>2. req' = [req EXCEPT ![r] = q]
    BY <1>5 DEF Over
  <2> HIDE DEF q
  <2>3. Sound(q, made) /\ \A s \in SlotIds : Weight(q, s) = IF s = t THEN -1 ELSE 0
    BY <1>1, <2>1 DEF Sound, Counted, Weight
  <2>4. ASSUME NEW s \in SlotIds
        PROVE  slot'[s].inFlight = slot[s].inFlight + Weight(q, s) - Weight(req[r], s)
    <3>1. slot[s].inFlight \in Int /\ Weight(req[r], s) = IF s = t THEN 1 ELSE 0
      BY <1>0, <1>2, TypeFacts
    <3>2. slot'[s].inFlight = slot[s].inFlight - (IF s = t THEN 2 ELSE 0)
      BY <1>3, <1>5
    <3>3. Weight(q, s) = IF s = t THEN -1 ELSE 0
      BY <2>3
    <3> QED BY <3>1, <3>2, <3>3
  <2> QED BY <1>3, <2>1, <2>2, <2>3, <2>4, RequestStepOK
<1> QED BY <1>4, <1>5

LEMMA AnsweredOK == ASSUME IInv, NEW r \in Requests, Answered(r) PROVE IInv'
<1>1. PICK answered, raises \in BOOLEAN :
         /\ slot' = Released(req[r].slot, Releases(answered, raises))
         /\ Over(r, Releases(answered, raises))
  BY DEF Answered
<1>2. PICK n \in {1, 2} : n = Releases(answered, raises)
  BY DEF Releases
<1>3. req[r].pc = "sent" /\ UNCHANGED <<now, made, slots, cooldown>>
  BY DEF Answered
<1> QED BY <1>1, <1>2, <1>3, OverOK

\* A request goes on holding its slot, or lets its stream drop with it.
LEMMA StillCountedOK ==
    ASSUME IInv, NEW r \in Requests, req[r].pc = "offered", NEW pc \in {"streaming", "dropped"},
           req' = [req EXCEPT ![r].pc = pc], UNCHANGED <<now, slot, made, slots, cooldown>>
    PROVE  IInv'
<1>0. TypeOK /\ RequestsOK
  BY DEF IInv
<1> DEFINE q == [req[r] EXCEPT !.pc = pc]
<1>1. q \in Record /\ q.pc = pc /\ q.slot = req[r].slot
  BY <1>0, TypeFacts DEF Record
<1>2. req' = [req EXCEPT ![r] = q]
  OBVIOUS
<1> HIDE DEF q
<1>3. Sound(q, made)
  BY <1>0, <1>1 DEF Sound, RequestsOK, Counted
<1>4. \A s \in SlotIds : Weight(q, s) = Weight(req[r], s) /\ Weight(q, s) \in Int
  BY <1>1 DEF Weight, Counted
<1>5. \A s \in SlotIds :
         slot'[s].inFlight = slot[s].inFlight + Weight(q, s) - Weight(req[r], s)
  BY <1>0, <1>4, TypeFacts
<1> QED BY <1>0, <1>1, <1>2, <1>3, <1>5, TypeFacts, RequestStepOK

Distinct(q) == \A i, j \in DOMAIN q : q[i] = q[j] => i = j

\* The pool that a resize leaves is made of Slot objects that exist then, none twice.
LEMMA ResizedType ==
    ASSUME NEW m \in Nat, made = m, slots \in Seq(1..m), Distinct(slots), NEW n \in Int
    PROVE  /\ Resized(n) \in Seq(1..(IF n > Len(slots) THEN m + n - Len(slots) ELSE m))
           /\ Distinct(Resized(n))
<1>0. /\ Len(slots) \in Nat /\ DOMAIN slots = 1..Len(slots)
      /\ \A i \in 1..Len(slots) : slots[i] \in 1..m
  BY ElementOfSeq, LenProperties
<1>1. CASE n <= Len(slots)
  <2> DEFINE k == Kept(n)
             kept == SubSeq(slots, 1, k)
  <2>1. k \in Nat /\ k <= Len(slots)
    BY <1>0, <1>1 DEF Kept
  <2> HIDE DEF k
  <2>2. \A i \in 1..k : slots[i] \in 1..m
    BY <1>0, <2>1
  <2>3. kept \in Seq(1..m) /\ Len(kept) = k /\ \A i \in 1..k : kept[i] = slots[i]
    BY <2>1, <2>2, SubSeqProperties
  <2> HIDE DEF kept
  <2>4. DOMAIN kept = 1..k
    BY <2>3, LenProperties
  <2>5. Distinct(kept)
    BY <1>0, <2>1, <2>3, <2>4 DEF Distinct
  <2>6. Resized(n) = kept
    BY <1>1 DEF Resized, kept, k
  <2> QED BY <1>0, <1>1, <2>3, <2>5, <2>6
<1>2. CASE ~(n <= Len(slots))
  <2> DEFINE k == n - Len(slots)
             new == [i \in 1..k |-> m + i]
  <2>1. k \in Nat /\ n > Len(slots) /\ m + n - Len(slots) = m + k
    BY <1>0, <1>2
  <2>2. new \in [1..k -> 1..(m + k)]
    BY <2>1
  <2>3. new \in Seq(1..(m + k)) /\ Len(new) = k /\ \A i \in 1..k : new[i] = m + i
    BY <2>1, <2>2, SeqDef
  <2>4. slots \in Seq(1..(m + k))
    <3>1. 1..m \subseteq 1..(m + k)
      BY <2>1
    <3> QED BY <3>1, SeqMonotonic
  <2> DEFINE all == slots \o new
  <2>5. Resized(n) = all
    BY <1>2 DEF Resized
  <2> HIDE DEF k, new
  <2>6. /\ all \in Seq(1..(m + k)) /\ Len(all) = Len(slots) + k
        /\ \A i \in 1..(Len(slots) + k) :
              all[i] = IF i <= Len(slots) THEN slots[i] ELSE m + (i - Len(slots))
    <3>1. /\ all \in Seq(1..(m + k)) /\ Len(all) = Len(slots) + Len(new)
          /\ \A i \in 1..(Len(slots) + Len(new)) :
                all[i] = IF i <= Len(slots) THEN slots[i] ELSE new[i - Len(slots)]
      BY <2>3, <2>4, ConcatProperties
    <3>2. ASSUME NEW i \in 1..(Len(slots) + k), ~(i <= Len(slots))
          PROVE  new[i - Len(slots)] = m + (i - Len(slots))
      BY <1>0, <2>1, <2>3, <3>2
    <3> QED BY <2>3, <3>1, <3>2
  <2> HIDE DEF all
  <2>7. DOMAIN all = 1..(Len(slots) + k)
    BY <2>6, LenProperties
  <2>8. ASSUME NEW i \in 1..(Len(slots) + k), NEW j \in 1..(Len(slots) + k), all[i] = all[j]
        PROVE  i = j
    <3>1. CASE i <= Len(slots) /\ j <= Len(slots)
      <4>1. i \in DOMAIN slots /\ j \in DOMAIN slots /\ slots[i] = slots[j]
        BY <1>0, <2>6, <2>8, <3>1
      <4> QED BY <4>1 DEF Distinct
    <3>2. CASE ~(i <= Len(slots) /\ j <= Len(slots))
      BY <1>0, <2>1, <2>6, <2>8, <3>2
    <3> QED BY <3>1, <3>2
  <2>9. Distinct(all)
    BY <2>7, <2>8 DEF Distinct
  <2> QED BY <2>1, <2>5, <2>6, <2>9
<1> QED BY <1>1, <1>2

LEMMA ReconfigureOK ==
    ASSUME IInv, NEW n \in Sizes, NEW c \in Cooldowns, Reconfigure(n, c)
    PROVE  IInv'
<1>0. TypeOK /\ RequestsOK /\ InFlightExact /\ n \in Int /\ MaxSlots \in Nat
  BY SizeAssumption, CooldownAssumption DEF IInv
<1>1. PICK m \in Nat : made = m /\ m \in SlotIds /\ slots \in Seq(1..m)
  BY <1>0, TypeFacts
<1>2. Len(slots) \in Nat
  BY <1>1, LenProperties
<1>3. /\ n > Len(slots) => m + n - Len(slots) <= MaxSlots
      /\ slots' = Resized(n)
      /\ made' = IF n > Len(slots) THEN m + n - Len(slots) ELSE m
      /\ cooldown' = c /\ UNCHANGED <<now, slot, req>>
  BY <1>1 DEF Reconfigure
<1>4. slots' \in Seq(1..made') /\ Distinct(slots')
  <2>1. Distinct(slots)
    BY <1>0 DEF TypeOK, Distinct
  <2> QED BY <1>0, <1>1, <1>3, <2>1, ResizedType
<1>5. made' \in SlotIds /\ m <= made'
  BY <1>0, <1>1, <1>2, <1>3 DEF SlotIds
<1>6. TypeOK'
  BY <1>0, <1>3, <1>4, <1>5 DEF TypeOK, Distinct
<1>7. 1..m \subseteq 1..made'
  BY <1>1, <1>5 DEF SlotIds
<1>8. RequestsOK'
  BY <1>0, <1>1, <1>3, <1>7 DEF RequestsOK
<1>9. InFlightExact'
  BY <1>0, <1>3 DEF InFlightExact, Count
<1> QED BY <1>6, <1>8, <1>9 DEF IInv

LEMMA TickOK == ASSUME IInv, Tick PROVE IInv'
<1>1. now' \in Start..(IF MaxTime < Start THEN Start ELSE MaxTime)
  BY CooldownAssumption DEF IInv, TypeOK, Tick
<1>2. UNCHANGED <<slot, made, slots, cooldown, req>>
  BY DEF Tick
<1>3. TypeOK'
  BY <1>1, <1>2 DEF IInv, TypeOK
<1>4. RequestsOK' /\ InFlightExact'
  BY <1>2 DEF IInv, RequestsOK, InFlightExact, Count
<1> QED BY <1>3, <1>4 DEF IInv

LEMMA InitOK == ASSUME Init PROVE IInv
<1>1. InitialSize \in Nat /\ InitialSize \in SlotIds /\ MaxSlots \in Nat /\ Start \in Nat
  BY SizeAssumption, CooldownAssumption DEF SlotIds
<1>2. now \in Start..(IF MaxTime < Start THEN Start ELSE MaxTime)
  BY CooldownAssumption DEF Init
<1>3. /\ slot = [s \in SlotIds |-> NewSlot] /\ made = InitialSize
      /\ slots = [i \in 1..InitialSize |-> i] /\ cooldown = InitialCooldown
      /\ req = [r \in Requests |-> [pc |-> "new", slot |-> NoSlot]]
  BY DEF Init
<1>4. slots \in Seq(1..made)
  <2>1. slots \in [1..InitialSize -> 1..InitialSize]
    BY <1>3
  <2> QED BY <1>1, <1>3, <2>1, SeqDef
<1>5. TypeOK
  BY <1>1, <1>2, <1>3, <1>4, CooldownAssumption DEF TypeOK, NewSlot
<1>6. RequestsOK
  BY <1>3 DEF RequestsOK, Counted
<1>7. InFlightExact
  <2> SUFFICES ASSUME NEW s \in SlotIds
               PROVE  slot[s].inFlight = Count(s, {"sent", "offered", "streaming", "dropped"})
                                           - Count(s, {"twice"})
    BY DEF InFlightExact
  <2>1. /\ {r \in Requests : req[r].slot = s
                /\ req[r].pc \in {"sent", "offered", "streaming", "dropped"}} = {}
        /\ {r \in Requests : req[r].slot = s /\ req[r].pc \in {"twice"}} = {}
    BY <1>3
  <2>2. /\ Count(s, {"sent", "offered", "streaming", "dropped"}) = 0
        /\ Count(s, {"twice"}) = 0
    BY <2>1, FS_EmptySet DEF Count
  <2>3. slot[s].inFlight = 0
    BY <1>3 DEF NewSlot
  <2> QED BY <2>2, <2>3
<1> QED BY <1>5, <1>6, <1>7 DEF IInv

LEMMA StepOK == ASSUME IInv, Next PROVE IInv'
<1>1. ASSUME NEW r \in Requests, RequestStep(r) PROVE IInv'
  <2>1. CASE StreamStarts(r)
    BY <2>1, StillCountedOK DEF StreamStarts
  <2>2. CASE StreamNeverStarts(r)
    BY <2>2, StillCountedOK DEF StreamNeverStarts
  <2>3. CASE StreamEnds(r)
    BY <2>3, OverOK DEF StreamEnds
  <2> QED BY <1>1, <2>1, <2>2, <2>3, ArriveOK, AnsweredOK DEF RequestStep
<1> QED BY <1>1, ReconfigureOK, TickOK DEF Next

\* The account of in_flight, with what it rests on.
THEOREM InvariantHolds == Spec => []IInv
<1>1. IInv /\ UNCHANGED vars => IInv'
  BY DEF vars, IInv, TypeOK, RequestsOK, InFlightExact, Count
<1>2. IInv /\ [Next]_vars => IInv'
  BY <1>1, StepOK
<1> QED BY <1>2, InitOK, PTL DEF Spec

\* Every variable keeps its type: the pool never lists a Slot object that was
\* not made, nor one twice, however it is resized.
THEOREM TypeCorrect == Spec => []TypeOK
<1>1. IInv => TypeOK
  BY DEF IInv
<1> QED BY <1>1, InvariantHolds, PTL

\* in_flight is exact on every Slot object, in the pool or dropped from it.
THEOREM InFlightIsExact == Spec => []InFlightExact
<1>1. IInv => InFlightExact
  BY DEF IInv
<1> QED BY <1>1, InvariantHolds, PTL

\* in_flight never falls below zero as long as no answer was released twice.
THEOREM NeverBelowZero ==
    Spec => []((\A r \in Requests : req[r].pc # "twice")
                  => \A s \in SlotIds : slot[s].inFlight >= 0)
<1>1. ASSUME IInv, \A r \in Requests : req[r].pc # "twice", NEW s \in SlotIds
      PROVE  slot[s].inFlight >= 0
  <2>1. Count(s, {"twice"}) = 0
    <3>1. {r \in Requests : req[r].slot = s /\ req[r].pc \in {"twice"}} = {}
      BY <1>1
    <3> QED BY <3>1, FS_EmptySet DEF Count
  <2>2. Count(s, {"sent", "offered", "streaming", "dropped"}) \in Nat
    BY RequestAssumption, FS_Subset, FS_CardinalityType DEF Count
  <2> QED BY <1>1, <2>1, <2>2 DEF IInv, InFlightExact
<1>2. IInv => ((\A r \in Requests : req[r].pc # "twice")
                  => \A s \in SlotIds : slot[s].inFlight >= 0)
  BY <1>1
<1> QED BY <1>2, InvariantHolds, PTL

-----------------------------------------------------------------------------
(* The choice of a slot.                                                      *)

\* With every slot given back once, in_flight is the load.
LEMMA LoadIsInFlight ==
    ASSUME IInv, \A r \in Requests : req[r].pc \notin {"twice", "dropped"}, NEW s \in SlotIds
    PROVE  slot[s].inFlight = Load(s) /\ Load(s) \in Nat
<1>1. Count(s, {"twice"}) = 0
  <2>1. {r \in Requests : req[r].slot = s /\ req[r].pc \in {"twice"}} = {}
    OBVIOUS
  <2> QED BY <2>1, FS_EmptySet DEF Count
<1>2. Count(s, {"sent", "offered", "streaming", "dropped"}) = Load(s)
  <2>1. {r \in Requests : req[r].slot = s
             /\ req[r].pc \in {"sent", "offered", "streaming", "dropped"}}
          = {r \in Requests : req[r].slot = s /\ req[r].pc \in {"sent", "offered", "streaming"}}
    OBVIOUS
  <2> QED BY <2>1 DEF Count, Load
<1>3. Load(s) \in Nat
  BY RequestAssumption, FS_Subset, FS_CardinalityType DEF Count, Load
<1> QED BY <1>1, <1>2, <1>3 DEF IInv, InFlightExact

\* What acquire takes has, on its side of the cooldown, the least in_flight.
LEMMA AcquirableIsLeast ==
    ASSUME TypeOK, NEW i \in DOMAIN slots, Acquirable(i), NEW j \in DOMAIN slots,
           Past(slots[j]) = Past(slots[i])
    PROVE  slot[slots[i]].inFlight <= slot[slots[j]].inFlight
<1>1. slots[i] \in SlotIds /\ slots[j] \in SlotIds
  BY TypeFacts, ElementOfSeq, LenProperties
<1>2. slot[slots[i]].inFlight \in Int /\ slot[slots[j]].inFlight \in Int
  BY <1>1, TypeFacts
<1>3. CASE i = j
  BY <1>2, <1>3
<1>4. CASE i # j
  <2>1. Precedes(i, j)
    BY <1>4 DEF Acquirable
  <2> QED BY <1>2, <2>1 DEF Precedes
<1> QED BY <1>3, <1>4

\* A new request is given one of the least busy slots, as long as every slot came
\* back once.
THEOREM LeastBusyGiven == Spec => LeastBusyWhenCounted
<1> DEFINE Counts == \A r \in Requests : req[r].pc \notin {"twice", "dropped"}
           Own == Counts => \A r \in Requests : GetsLeastBusy(r)
<1>1. ASSUME IInv, Counts, Next, NEW r \in Requests PROVE GetsLeastBusy(r)
  <2> SUFFICES ASSUME req[r].pc = "new", req'[r].slot # NoSlot, NEW j \in DOMAIN slots,
                      Past(slots[j]) = Past(req'[r].slot)
               PROVE  Load(req'[r].slot) <= Load(slots[j])
    BY DEF GetsLeastBusy
  <2>0. TypeOK /\ req[r].slot = NoSlot /\ req \in [Requests -> Record]
    BY <1>1, TypeFacts DEF IInv, RequestsOK
  <2>1. Arrive(r)
    <3>1. ASSUME NEW d \in Requests \ {r}, RequestStep(d) PROVE req'[r] = req[r]
      BY <2>0, <3>1 DEF RequestStep, Arrive, Answered, StreamStarts, StreamNeverStarts,
                        StreamEnds, Over
    <3>2. ASSUME Tick \/ \E n \in Sizes, c \in Cooldowns : Reconfigure(n, c)
          PROVE  req'[r] = req[r]
      BY <3>2 DEF Tick, Reconfigure
    <3>3. RequestStep(r)
      BY <1>1, <2>0, <3>1, <3>2 DEF Next
    <3> QED BY <3>3 DEF RequestStep, Answered, StreamStarts, StreamNeverStarts, StreamEnds
  <2>2. PICK i \in DOMAIN slots : Acquirable(i) /\ req'[r].slot = slots[i]
    BY <2>0, <2>1 DEF Arrive
  <2>3. slots[i] \in SlotIds /\ slots[j] \in SlotIds
    BY <2>0, TypeFacts, ElementOfSeq, LenProperties
  <2>4. slot[slots[i]].inFlight <= slot[slots[j]].inFlight
    BY <2>0, <2>2, AcquirableIsLeast
  <2> QED BY <1>1, <2>2, <2>3, <2>4, LoadIsInFlight
<1>2. ASSUME IInv, UNCHANGED vars, NEW r \in Requests PROVE GetsLeastBusy(r)
  BY <1>2 DEF GetsLeastBusy, vars, IInv, RequestsOK
<1>3. IInv /\ [Next]_vars => [Own]_vars
  BY <1>1, <1>2
<1>4. LeastBusyWhenCounted <=> [][Own]_vars
  BY PTL DEF LeastBusyWhenCounted
<1> HIDE DEF Own
<1> QED BY <1>3, <1>4, InvariantHolds, PTL DEF Spec
=============================================================================
