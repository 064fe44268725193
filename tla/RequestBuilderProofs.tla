------------------------ MODULE RequestBuilderProofs ------------------------
(***************************************************************************)
(* Proofs about the history that is sent: for conversations of any length,  *)
(* any tool calls, and any limits of the trimming.                          *)
(*                                                                         *)
(* The first part proves that it is acceptable.  AcceptableHistory speaks   *)
(* of the end only.  What makes it true is what the last loop of            *)
(* _sanitize_history keeps true of the list it builds, and what the loop    *)
(* before it leaves at the head of the list it reads.                       *)
(*                                                                         *)
(* The second part proves what it holds of a conversation that is in order. *)
(* The list a loop has still to read and the one it has built are, together,*)
(* one list of turns, in the order of the messages they were made from; a   *)
(* pass joins two of them, takes out the current turn, or drops the oldest. *)
(***************************************************************************)
EXTENDS RequestBuilder, SequenceTheorems, FiniteSetTheorems, TLAPS

Loops == {"read", "collapse", "pop", "compact", "trim", "validate", "strip", "pair",
          "retrim", "done"}

\* The types of the builder's state.
TypeOK == /\ pc \in Loops
          /\ given \in Seq(Message)
          /\ work \in Seq(Entry) /\ out \in Seq(Entry)
          /\ current \in Entry
          /\ rest \in Nat

Acceptable(h) == Paired(h) /\ (h # <<>> => IsPlain(h[1]))

\* The list built so far is acceptable, does not end in a call while there is
\* something left to read, and will start with the turn the strip loop stopped at.
PairLoop == /\ Acceptable(out)
            /\ out = <<>> /\ work # <<>> => IsPlain(work[1])
            /\ out # <<>> /\ work # <<>> => ~IsCall(Newest(out))

Built == /\ pc = "strip" => out = <<>>
         /\ pc = "pair" => PairLoop
         /\ pc \in {"retrim", "done"} => Acceptable(work)

BuilderInv == TypeOK /\ Built

-----------------------------------------------------------------------------
(* Turns and lists of turns.                                                  *)

\* The turns the builder makes are entries.
LEMMA TurnsTyped ==
    /\ \A results \in SUBSET Calls, from \in SUBSET Nat : UserTurn(results, from) \in Entry
    /\ \A text \in BOOLEAN, uses \in SUBSET Calls, from \in SUBSET Nat :
          AssistantTurn(text, uses, from) \in Entry
  BY DEF UserTurn, AssistantTurn, Entry

\* What an entry is made of.
LEMMA EntryParts ==
    ASSUME NEW e \in Entry
    PROVE  e.results \in SUBSET Calls /\ e.uses \in SUBSET Calls /\ e.from \in SUBSET Nat
  BY DEF Entry

\* The list without its last turn, and without the i-th.
LEMMA ButNewestTyped ==
    ASSUME NEW h \in Seq(Entry), h # <<>>
    PROVE  ButNewest(h) \in Seq(Entry) /\ Newest(h) \in Entry
  <1>1. Len(h) \in Nat /\ Len(h) > 0
    BY EmptySeq
  <1>2. Newest(h) \in Entry
    BY <1>1, ElementOfSeq DEF Newest
  <1>3. SubSeq(h, 1, Len(h) - 1) \in Seq(Entry)
    BY <1>1, SubSeqProperties
  <1> QED BY <1>2, <1>3 DEF ButNewest

LEMMA SliceTyped ==
    ASSUME NEW h \in Seq(Entry), NEW i \in 1..(Len(h) + 1)
    PROVE  SubSeq(h, i, Len(h)) \in Seq(Entry)
  BY SubSeqProperties

LEMMA WithoutTyped ==
    ASSUME NEW h \in Seq(Entry), NEW i \in 1..Len(h)
    PROVE  Without(h, i) \in Seq(Entry)
  <1>1. SubSeq(h, 1, i - 1) \in Seq(Entry)
    BY SubSeqProperties
  <1>2. SubSeq(h, i + 1, Len(h)) \in Seq(Entry)
    BY SliceTyped
  <1> QED BY <1>1, <1>2, ConcatProperties DEF Without

LEMMA CappedTyped ==
    ASSUME NEW h \in Seq(Entry)
    PROVE  Capped(h) \in Seq(Entry)
  <1>1. CASE Len(h) > MaxEntries
    <2>1. Len(h) - MaxEntries + 1 \in 1..(Len(h) + 1)
      BY <1>1, LimitAssumption
    <2> QED BY <1>1, <2>1, SliceTyped DEF Capped
  <1>2. CASE ~(Len(h) > MaxEntries)
    BY <1>2 DEF Capped
  <1> QED BY <1>1, <1>2

\* A trimming loop drops at least two entries of a list that has some.
LEMMA DroppedTyped ==
    ASSUME NEW h \in Seq(Entry), NEW share \in {5, 10}
    PROVE  Dropped(h, share) \in Seq(Entry)
  <1>1. Len(h) \in Nat /\ Len(h) \div share \in Nat /\ Len(h) \div share <= Len(h)
    BY LenProperties
  <1>2. Share(h, share) \in Nat /\ Share(h, share) >= 2
    BY <1>1 DEF Share
  <1>3. CASE Share(h, share) + 1 <= Len(h) + 1
    BY <1>1, <1>2, <1>3, SliceTyped DEF Dropped
  <1>4. CASE Share(h, share) + 1 > Len(h) + 1
    BY <1>1, <1>2, <1>4, SubSeqEmpty DEF Dropped
  <1> QED BY <1>1, <1>2, <1>3, <1>4

LEMMA AddedTyped ==
    ASSUME NEW h \in Seq(Entry), NEW m \in Message, NEW n \in Nat
    PROVE  Added(h, m, n) \in Seq(Entry)
  <1>1. CASE m.role = "user"
    <2>1. UserTurn({}, {n}) \in Entry
      BY TurnsTyped
    <2> QED BY <1>1, <2>1 DEF Added
  <1>2. CASE m.role = "assistant"
    <2>1. m.text \in BOOLEAN /\ m.uses \in SUBSET Calls
      BY <1>2 DEF Message
    <2>2. AssistantTurn(m.text, m.uses, {n}) \in Entry
      BY <2>1, TurnsTyped
    <2> QED BY <1>2, <2>2 DEF Added
  <1>3. CASE m.role = "tool" /\ m.id = NoCall
    BY <1>3 DEF Added
  <1>4. CASE m.role = "tool" /\ m.id # NoCall
    <2>1. m.id \in Calls
      BY <1>4 DEF Message
    <2>2. UserTurn({m.id}, {n}) \in Entry
      BY <2>1, TurnsTyped
    <2>3. CASE EndsInUser(h)
      <3>1. ButNewest(h) \in Seq(Entry) /\ Newest(h) \in Entry
        BY <2>3, ButNewestTyped DEF EndsInUser
      <3>2. /\ Newest(h).results \cup {m.id} \in SUBSET Calls
            /\ Newest(h).from \cup {n} \in SUBSET Nat
        BY <2>1, <3>1, EntryParts
      <3>3. UserTurn(Newest(h).results \cup {m.id}, Newest(h).from \cup {n}) \in Entry
        BY <3>2, TurnsTyped
      <3> QED BY <1>4, <2>3, <3>1, <3>3 DEF Added
    <2>4. CASE ~EndsInUser(h)
      BY <1>4, <2>2, <2>4 DEF Added
    <2> QED BY <2>3, <2>4
  <1>5. m.role \in {"user", "assistant", "tool"}
    BY DEF Message
  <1> QED BY <1>1, <1>2, <1>3, <1>4, <1>5

-----------------------------------------------------------------------------
(* What may follow in an acceptable history.                                  *)

LEMMA AppendedParts ==
    ASSUME NEW h \in Seq(Entry), NEW e \in Entry
    PROVE  /\ Append(h, e) \in Seq(Entry) /\ Append(h, e) # <<>>
           /\ Len(Append(h, e)) = Len(h) + 1
           /\ \A i \in 1..Len(h) : Append(h, e)[i] = h[i]
           /\ Append(h, e)[Len(h) + 1] = e
           /\ Newest(Append(h, e)) = e
  BY AppendProperties, EmptySeq DEF Newest

\* After anything but a call, any turn that brings no results; a call may be the
\* last turn.
LEMMA AcceptableTurn ==
    ASSUME NEW h \in Seq(Entry), NEW e \in Entry, Acceptable(h),
           h # <<>> => ~IsCall(Newest(h)),
           ~IsResults(e), h = <<>> => IsPlain(e)
    PROVE  Acceptable(Append(h, e))
  <1> DEFINE k == Append(h, e)
             n == Len(h)
  <1>1. /\ n \in Nat /\ Len(k) = n + 1
        /\ \A i \in 1..n : k[i] = h[i]
        /\ k[n + 1] = e
    BY AppendedParts, LenProperties
  <1>2. h = <<>> => n = 0
    BY EmptySeq
  <1>3. n = 0 => h = <<>>
    BY EmptySeq
  <1> HIDE DEF k
  <1>4. ASSUME NEW i \in 1..Len(k)
        PROVE  /\ IsCall(k[i]) /\ i < Len(k) => /\ IsResults(k[i + 1])
                                                /\ k[i + 1].results \subseteq k[i].uses
               /\ IsResults(k[i]) => i > 1 /\ IsCall(k[i - 1])
    <2>1. CASE i = n + 1
      BY <1>1, <2>1
    <2>2. CASE i = n
      <3>1. i \in 1..n /\ k[i] = h[i] /\ h # <<>>
        BY <1>1, <1>2, <2>2
      <3>2. ~IsCall(k[i])
        BY <2>2, <3>1 DEF Newest
      <3>3. IsResults(h[i]) => i > 1 /\ IsCall(h[i - 1])
        BY <3>1 DEF Acceptable, Paired
      <3>4. i > 1 => k[i - 1] = h[i - 1]
        BY <1>1, <2>2
      <3> QED BY <3>1, <3>2, <3>3, <3>4
    <2>3. CASE i < n
      <3>1. /\ i \in 1..n /\ k[i] = h[i] /\ k[i + 1] = h[i + 1]
            /\ i > 1 => k[i - 1] = h[i - 1]
        BY <1>1, <2>3
      <3>2. /\ IsCall(h[i]) /\ i < Len(h) => /\ IsResults(h[i + 1])
                                             /\ h[i + 1].results \subseteq h[i].uses
            /\ IsResults(h[i]) => i > 1 /\ IsCall(h[i - 1])
        BY <3>1 DEF Acceptable, Paired
      <3> QED BY <2>3, <3>1, <3>2
    <2> QED BY <1>1, <2>1, <2>2, <2>3
  <1>5. Paired(k)
    BY <1>4 DEF Paired
  <1>6. IsPlain(k[1])
    <2>1. CASE n = 0
      BY <1>1, <1>3, <2>1
    <2>2. CASE n # 0
      <3>1. k[1] = h[1] /\ h # <<>>
        BY <1>1, <1>2, <2>2
      <3> QED BY <3>1 DEF Acceptable
    <2> QED BY <2>1, <2>2
  <1> QED BY <1>5, <1>6 DEF Acceptable, k

\* After a call, results for some of its calls.
LEMMA AcceptableResults ==
    ASSUME NEW h \in Seq(Entry), NEW r \in Entry, Acceptable(h), h # <<>>,
           IsCall(Newest(h)), IsResults(r), r.results \subseteq Newest(h).uses
    PROVE  Acceptable(Append(h, r))
  <1> DEFINE k == Append(h, r)
             n == Len(h)
  <1>1. /\ n \in Nat /\ Len(k) = n + 1
        /\ \A i \in 1..n : k[i] = h[i]
        /\ k[n + 1] = r
    BY AppendedParts, LenProperties
  <1>2. n # 0
    BY EmptySeq
  <1> HIDE DEF k
  <1>3. ASSUME NEW i \in 1..Len(k)
        PROVE  /\ IsCall(k[i]) /\ i < Len(k) => /\ IsResults(k[i + 1])
                                                /\ k[i + 1].results \subseteq k[i].uses
               /\ IsResults(k[i]) => i > 1 /\ IsCall(k[i - 1])
    <2>1. CASE i = n + 1
      <3>1. i > 1 /\ i - 1 \in 1..n /\ k[i - 1] = h[n]
        BY <1>1, <1>2, <2>1
      <3>2. IsCall(k[i - 1])
        BY <3>1 DEF Newest
      <3> QED BY <1>1, <2>1, <3>1, <3>2
    <2>2. CASE i \in 1..n
      <3>1. k[i] = h[i] /\ (i > 1 => k[i - 1] = h[i - 1])
        BY <1>1, <2>2
      <3>2. /\ IsCall(h[i]) /\ i < Len(h) => /\ IsResults(h[i + 1])
                                             /\ h[i + 1].results \subseteq h[i].uses
            /\ IsResults(h[i]) => i > 1 /\ IsCall(h[i - 1])
        BY <2>2 DEF Acceptable, Paired
      <3>3. CASE i = n
        <4>1. k[i + 1] = r /\ h[i] = Newest(h)
          BY <1>1, <3>3 DEF Newest
        <4> QED BY <3>1, <3>2, <4>1
      <3>4. CASE i < n
        <4>1. k[i + 1] = h[i + 1]
          BY <1>1, <2>2, <3>4
        <4> QED BY <3>1, <3>2, <3>4, <4>1
      <3> QED BY <1>1, <2>2, <3>3, <3>4
    <2> QED BY <1>1, <2>1, <2>2
  <1>4. Paired(k)
    BY <1>3 DEF Paired
  <1>5. k[1] = h[1]
    BY <1>1, <1>2
  <1> QED BY <1>4, <1>5 DEF Acceptable, k

\* A whole cycle.
LEMMA AcceptableCycle ==
    ASSUME NEW h \in Seq(Entry), NEW c \in Entry, NEW r \in Entry,
           Acceptable(h), h # <<>>, ~IsCall(Newest(h)),
           IsCall(c), IsResults(r), r.results \subseteq c.uses
    PROVE  /\ Acceptable(h \o <<c, r>>)
           /\ h \o <<c, r>> \in Seq(Entry) /\ h \o <<c, r>> # <<>>
           /\ ~IsCall(Newest(h \o <<c, r>>))
  <1> DEFINE k == Append(h, c)
  <1>1. k \in Seq(Entry) /\ k # <<>> /\ Newest(k) = c
    BY AppendedParts
  <1>2. Acceptable(k)
    <2>1. ~IsResults(c)
      BY DEF IsCall, IsResults
    <2> QED BY <2>1, AcceptableTurn
  <1>3. h \o <<c, r>> = Append(k, r)
    OBVIOUS
  <1> HIDE DEF k
  <1>4. Acceptable(Append(k, r))
    BY <1>1, <1>2, AcceptableResults
  <1>5. Append(k, r) \in Seq(Entry) /\ Append(k, r) # <<>> /\ Newest(Append(k, r)) = r
    BY <1>1, AppendedParts
  <1>6. ~IsCall(r)
    BY DEF IsCall, IsResults
  <1> QED BY <1>3, <1>4, <1>5, <1>6

-----------------------------------------------------------------------------
(* The steps keep the types.                                                  *)

LEMMA HeadTailTyped ==
    ASSUME NEW h \in Seq(Entry), h # <<>>
    PROVE  Head(h) \in Entry /\ Tail(h) \in Seq(Entry)
  BY EmptySeq

\* A user turn for a call's results among those of the turn after it.
LEMMA CycleTyped ==
    ASSUME NEW h \in Seq(Entry), Len(h) > 1
    PROVE  /\ h[1] \in Entry /\ h[2] \in Entry
           /\ UserTurn(h[2].results \cap h[1].uses, h[2].from) \in Entry
           /\ Tail(h) # <<>> /\ Tail(Tail(h)) \in Seq(Entry)
  <1>1. h[1] \in Entry /\ h[2] \in Entry
    BY ElementOfSeq, LenProperties
  <1>2. h[2].results \in SUBSET Calls /\ h[2].from \in SUBSET Nat
    BY <1>1, EntryParts
  <1>3. UserTurn(h[2].results \cap h[1].uses, h[2].from) \in Entry
    BY <1>2, TurnsTyped
  <1>4. Tail(h) \in Seq(Entry) /\ Tail(h) # <<>>
    <2>1. h # <<>>
      BY EmptySeq
    <2>2. Tail(h) \in Seq(Entry)
      BY <2>1, HeadTailTyped
    <2>3. Len(h) \in Nat
      BY LenProperties
    <2>4. Len(Tail(h)) \in Nat /\ Len(Tail(h)) > 0
      BY <2>3
    <2>5. ASSUME Tail(h) = <<>> PROVE FALSE
      <3>1. Len(Tail(h)) = 0
        BY <2>5, EmptySeq
      <3>2. \A n \in Nat : n > 0 => n # 0
        OBVIOUS
      <3> QED BY <2>4, <3>1, <3>2, Zenon
    <2> QED BY <2>2, <2>5
  <1> QED BY <1>1, <1>3, <1>4, HeadTailTyped

LEMMA TypesKept == TypeOK /\ [Next]_vars => TypeOK'
  <1> SUFFICES ASSUME TypeOK, [Next]_vars PROVE TypeOK'
    OBVIOUS
  <1> USE DEF Loops
  <1>0. work \in Seq(Entry) /\ out \in Seq(Entry) /\ given \in Seq(Message)
        /\ current \in Entry /\ rest \in Nat /\ pc \in Loops
    BY DEF TypeOK
  <1>e. <<>> \in Seq(Entry) /\ UserTurn({}, {}) \in Entry
    BY TurnsTyped
  <1>1. CASE Read
    <2>1. PICK m \in Message : /\ given' = Append(given, m)
                               /\ out' = Added(out, m, Len(given) + 1)
      BY <1>1 DEF Read
    <2>2. Len(given) + 1 \in Nat
      BY <1>0, LenProperties
    <2>3. Added(out, m, Len(given) + 1) \in Seq(Entry)
      BY <1>0, <2>2, AddedTyped
    <2>4. Append(given, m) \in Seq(Message)
      BY <1>0, AppendProperties
    <2> QED BY <1>0, <1>1, <2>1, <2>3, <2>4 DEF Read, TypeOK
  <1>2. CASE EndOfMessages
    BY <1>0, <1>2, <1>e DEF EndOfMessages, Start, TypeOK
  <1>3. CASE Collapse
    <2>1. CASE work = <<>>
      BY <1>0, <1>3, <1>e, <2>1 DEF Collapse, Start, TypeOK
    <2>2. CASE work # <<>>
      <3>1. Head(work) \in Entry /\ Tail(work) \in Seq(Entry)
        BY <1>0, <2>2, HeadTailTyped
      <3>2. Append(out, Head(work)) \in Seq(Entry)
        BY <1>0, <3>1, AppendedParts
      <3>3. Joins(out, Head(work)) =>
              Append(ButNewest(out), UserTurn({}, Newest(out).from \cup Head(work).from))
                  \in Seq(Entry)
        <4> SUFFICES ASSUME Joins(out, Head(work))
            PROVE  Append(ButNewest(out), UserTurn({}, Newest(out).from \cup Head(work).from))
                       \in Seq(Entry)
          OBVIOUS
        <4>1. ButNewest(out) \in Seq(Entry) /\ Newest(out) \in Entry
          BY <1>0, ButNewestTyped DEF Joins, EndsInUser
        <4>2. Newest(out).from \cup Head(work).from \in SUBSET Nat
          BY <3>1, <4>1, EntryParts
        <4>3. UserTurn({}, Newest(out).from \cup Head(work).from) \in Entry
          BY <4>2, TurnsTyped
        <4> QED BY <4>1, <4>3, AppendedParts
      <3>4. /\ out' \in Seq(Entry) /\ work' = Tail(work)
            /\ UNCHANGED <<pc, given, current, rest>>
        BY <1>3, <2>2, <3>2, <3>3 DEF Collapse
      <3> QED BY <1>0, <3>1, <3>4 DEF TypeOK
    <2> QED BY <2>1, <2>2
  <1>4. CASE Pop
    <2> DEFINE users == {i \in 1..Len(work) : work[i].kind = "user"}
               plain == {i \in users : IsPlain(work[i])}
    <2>1. CASE users = {}
      BY <1>0, <1>4, <1>e, <2>1 DEF Pop, TypeOK
    <2>2. CASE users # {}
      <3>1. PICK i \in users : /\ current' = UserTurn({}, work[i].from)
                               /\ work' = Without(work, i)
        BY <1>4, <2>2 DEF Pop
      <3>2. i \in 1..Len(work) /\ work[i] \in Entry
        BY <1>0, ElementOfSeq
      <3>3. work[i].from \in SUBSET Nat
        BY <3>2, EntryParts
      <3>4. UserTurn({}, work[i].from) \in Entry
        BY <3>3, TurnsTyped
      <3>5. Without(work, i) \in Seq(Entry)
        BY <1>0, <3>2, WithoutTyped
      <3> QED BY <1>0, <1>4, <3>1, <3>4, <3>5 DEF Pop, TypeOK
    <2> QED BY <2>1, <2>2
  <1>5. CASE Compact
    <2> DEFINE cycles == {i \in 1..Len(work) : IsCall(work[i])}
    <2>1. work' \in Seq(Entry)
      <3>1. CASE Cardinality(cycles) <= MaxCycles
        <4>1. Capped(work) \in Seq(Entry)
          BY <1>0, CappedTyped
        <4> QED BY <1>5, <3>1, <4>1 DEF Compact
      <3>2. CASE ~(Cardinality(cycles) <= MaxCycles)
        <4>1. PICK keep \in cycles :
                LET recent == SubSeq(work, keep, Len(work))
                    plain  == {i \in 1..(keep - 1) : IsPlain(work[i])}
                IN  IF plain = {}
                    THEN work' = Capped(recent)
                    ELSE \E i \in plain : work' = Capped(<<work[i]>> \o recent)
          BY <1>5, <3>2 DEF Compact
        <4> DEFINE recent == SubSeq(work, keep, Len(work))
                   plain  == {i \in 1..(keep - 1) : IsPlain(work[i])}
        <4>2. keep \in 1..Len(work) /\ Len(work) \in Nat
          BY <1>0, LenProperties
        <4>3. recent \in Seq(Entry)
          BY <1>0, <4>2, SliceTyped
        <4>4. CASE plain = {}
          BY <4>1, <4>3, <4>4, CappedTyped
        <4>5. CASE plain # {}
          <5>1. PICK i \in plain : work' = Capped(<<work[i]>> \o recent)
            BY <4>1, <4>5
          <5>2. work[i] \in Entry
            BY <1>0, <4>2, ElementOfSeq
          <5>3. <<work[i]>> \in Seq(Entry)
            BY <5>2
          <5>4. <<work[i]>> \o recent \in Seq(Entry)
            BY <4>3, <5>3, ConcatProperties
          <5> HIDE DEF recent
          <5> QED BY <5>1, <5>4, CappedTyped
        <4> QED BY <4>4, <4>5
      <3> QED BY <3>1, <3>2
    <2>2. rest' \in Nat /\ pc' = "trim" /\ UNCHANGED <<given, out, current>>
      BY <1>5, LimitAssumption DEF Compact, Measured
    <2> QED BY <1>0, <2>1, <2>2 DEF TypeOK
  <1>6. CASE Trim
    <2>1. Dropped(work, 10) \in Seq(Entry)
      BY <1>0, DroppedTyped
    <2> QED BY <1>0, <1>6, <2>1 DEF Trim, TypeOK
  <1>7. CASE Retrim
    <2>1. Dropped(work, 5) \in Seq(Entry)
      BY <1>0, DroppedTyped
    <2> QED BY <1>0, <1>7, <2>1 DEF Retrim, TypeOK
  <1>8. CASE Validate
    <2>1. CASE work = <<>>
      BY <1>0, <1>8, <1>e, <2>1 DEF Validate, Start, TypeOK
    <2>2. CASE work # <<>>
      <3>1. Head(work) \in Entry /\ Tail(work) \in Seq(Entry)
        BY <1>0, <2>2, HeadTailTyped
      <3>2. Append(out, Head(work)) \in Seq(Entry)
        BY <1>0, <3>1, AppendedParts
      <3> QED BY <1>0, <1>8, <2>2, <3>1, <3>2 DEF Validate, TypeOK
    <2> QED BY <2>1, <2>2
  <1>9. CASE Strip
    <2>1. work # <<>> => Tail(work) \in Seq(Entry)
      BY <1>0, HeadTailTyped
    <2> QED BY <1>0, <1>9, <2>1 DEF Strip, TypeOK
  <1>10. CASE Pair
    <2>1. CASE work = <<>>
      BY <1>0, <1>10, <1>e, <2>1 DEF Pair, Start, TypeOK
    <2>2. CASE work # <<>>
      <3>1. Head(work) \in Entry /\ Tail(work) \in Seq(Entry) /\ Head(work) = work[1]
        BY <1>0, <2>2, HeadTailTyped
      <3>2. Append(out, Head(work)) \in Seq(Entry)
        BY <1>0, <3>1, AppendedParts
      <3>3. CASE IsCall(Head(work)) /\ Answered(work)
        <4> DEFINE r == UserTurn(work[2].results \cap Head(work).uses, work[2].from)
        <4>1. r \in Entry /\ Tail(Tail(work)) \in Seq(Entry)
          BY <1>0, <3>1, <3>3, CycleTyped DEF Answered
        <4>2. out' = out \o <<Head(work), r>> /\ work' = Tail(Tail(work))
          BY <1>10, <2>2, <3>3 DEF Pair
        <4> HIDE DEF r
        <4>3. <<Head(work), r>> \in Seq(Entry)
          BY <3>1, <4>1
        <4>4. out \o <<Head(work), r>> \in Seq(Entry)
          BY <1>0, <4>3, ConcatProperties
        <4>5. UNCHANGED <<pc, given, current, rest>>
          BY <1>10, <2>2 DEF Pair
        <4> QED BY <1>0, <4>1, <4>2, <4>4, <4>5 DEF TypeOK
      <3>4. CASE ~(IsCall(Head(work)) /\ Answered(work))
        BY <1>0, <1>10, <2>2, <3>1, <3>2, <3>4 DEF Pair, TypeOK
      <3> QED BY <3>3, <3>4
    <2> QED BY <2>1, <2>2
  <1>11. CASE UNCHANGED vars
    BY <1>0, <1>11 DEF vars, TypeOK
  <1> QED BY <1>1, <1>2, <1>3, <1>4, <1>5, <1>6, <1>7, <1>8, <1>9, <1>10, <1>11 DEF Next

-----------------------------------------------------------------------------
(* The steps keep what has been built acceptable.                             *)

LEMMA PairKeepsLoop ==
    ASSUME TypeOK, PairLoop, Pair, work # <<>>
    PROVE  PairLoop'
  <1>1. /\ work \in Seq(Entry) /\ out \in Seq(Entry)
        /\ Head(work) \in Entry /\ Head(work) = work[1]
        /\ Len(work) \in Nat /\ Len(work) >= 1
    BY HeadTailTyped, LenProperties, EmptySeq DEF TypeOK
  <1>2. /\ Acceptable(out)
        /\ out = <<>> => IsPlain(Head(work))
        /\ out # <<>> => ~IsCall(Newest(out))
    BY <1>1 DEF PairLoop
  <1> DEFINE e == Head(work)
  <1>3. IsPlain(e) => ~IsCall(e) /\ ~IsResults(e)
    BY DEF IsPlain, IsCall, IsResults
  <1>4. CASE IsCall(e) /\ Answered(work)
    <2> DEFINE r == UserTurn(work[2].results \cap e.uses, work[2].from)
    <2>1. r \in Entry
      BY <1>1, <1>4, CycleTyped DEF Answered
    <2>2. IsResults(r) /\ r.results \subseteq e.uses
      BY <1>1, <1>4 DEF Answered, UserTurn, IsResults
    <2>3. out # <<>> /\ ~IsCall(Newest(out))
      BY <1>2, <1>3, <1>4
    <2>4. out' = out \o <<e, r>>
      BY <1>4 DEF Pair
    <2> HIDE DEF r, e
    <2>5. /\ Acceptable(out \o <<e, r>>) /\ out \o <<e, r>> # <<>>
          /\ ~IsCall(Newest(out \o <<e, r>>))
      BY <1>1, <1>2, <1>4, <2>1, <2>2, <2>3, AcceptableCycle DEF e
    <2>6. Acceptable(out') /\ out' # <<>> /\ ~IsCall(Newest(out'))
      BY <2>4, <2>5
    <2> QED BY <2>6 DEF PairLoop, Acceptable, Paired, Newest
  <1>5. CASE ~(IsCall(e) /\ Answered(work)) /\ (IsResults(e) \/ (IsCall(e) /\ Len(work) > 1))
    <2>1. out' = out
      BY <1>5 DEF Pair
    <2>2. out # <<>>
      BY <1>2, <1>3, <1>5
    <2>3. Acceptable(out') /\ out' # <<>> /\ ~IsCall(Newest(out'))
      BY <1>2, <2>1, <2>2
    <2> QED BY <2>3 DEF PairLoop, Acceptable, Paired, Newest
  <1>6. CASE ~(IsCall(e) /\ Answered(work)) /\ ~IsResults(e) /\ ~(IsCall(e) /\ Len(work) > 1)
    <2>1. out' = Append(out, e) /\ work' = Tail(work)
      BY <1>6 DEF Pair
    <2> HIDE DEF e
    <2>2. Acceptable(Append(out, e))
      BY <1>1, <1>2, <1>6, AcceptableTurn DEF e
    <2>3. Append(out, e) # <<>> /\ Newest(Append(out, e)) = e
      BY <1>1, AppendedParts DEF e
    <2>4. IsCall(e) => Tail(work) = <<>>
      BY <1>1, <1>6
    <2>5. Acceptable(out') /\ out' # <<>> /\ (work' # <<>> => ~IsCall(Newest(out')))
      BY <2>1, <2>2, <2>3, <2>4
    <2> QED BY <2>5 DEF PairLoop, Acceptable, Paired, Newest
  <1> QED BY <1>4, <1>5, <1>6

LEMMA BuiltKept == TypeOK /\ Built /\ [Next]_vars => Built'
  <1> SUFFICES ASSUME TypeOK, Built, [Next]_vars PROVE Built'
    OBVIOUS
  <1>e. Acceptable(<<>>)
    BY DEF Acceptable, Paired
  <1>1. CASE Read
    BY <1>1 DEF Read, Built
  <1>2. CASE EndOfMessages
    BY <1>2 DEF EndOfMessages, Start, Built
  <1>3. CASE Collapse
    BY <1>3 DEF Collapse, Start, Built
  <1>4. CASE Pop
    BY <1>4 DEF Pop, Built
  <1>5. CASE Compact
    BY <1>5 DEF Compact, Built
  <1>6. CASE Trim
    BY <1>6 DEF Trim, Built
  <1>7. CASE Retrim
    <2>1. CASE pc' = "done"
      <3>1. work' = work /\ pc = "retrim"
        BY <1>7, <2>1 DEF Retrim
      <3> QED BY <2>1, <3>1 DEF Built, Acceptable, Paired
    <2>2. CASE pc' # "done"
      BY <1>7, <2>2 DEF Retrim, Built
    <2> QED BY <2>1, <2>2
  <1>8. CASE Validate
    BY <1>8 DEF Validate, Start, Built
  <1>9. CASE Strip
    <2>1. pc = "strip" /\ out' = <<>>
      BY <1>9 DEF Strip, Built
    <2>2. CASE pc' = "pair"
      <3>1. work' = work /\ (work # <<>> => IsPlain(Head(work)))
        BY <1>9, <2>2 DEF Strip
      <3>2. work # <<>> => Head(work) = work[1]
        BY DEF TypeOK
      <3>3. PairLoop'
        BY <1>e, <2>1, <3>1, <3>2 DEF PairLoop, Acceptable, Paired
      <3> QED BY <2>2, <3>3 DEF Built
    <2>3. CASE pc' = "strip"
      BY <2>1, <2>3 DEF Built
    <2> QED BY <1>9, <2>2, <2>3 DEF Strip
  <1>10. CASE Pair
    <2>1. CASE work = <<>>
      <3>1. pc' = "retrim" /\ work' = out
        BY <1>10, <2>1 DEF Pair, Start
      <3>2. Acceptable(out)
        BY <1>10 DEF Built, PairLoop, Pair
      <3>3. Acceptable(work')
        BY <3>1, <3>2
      <3> QED BY <3>1, <3>3 DEF Built, Acceptable, Paired
    <2>2. CASE work # <<>>
      <3>1. PairLoop'
        BY <1>10, <2>2, PairKeepsLoop DEF Built, Pair
      <3>2. pc' = "pair"
        BY <1>10, <2>2 DEF Pair
      <3> QED BY <3>1, <3>2 DEF Built
    <2> QED BY <2>1, <2>2
  <1>11. CASE UNCHANGED vars
    BY <1>11 DEF vars, Built, PairLoop, Acceptable, Paired
  <1> QED BY <1>1, <1>2, <1>3, <1>4, <1>5, <1>6, <1>7, <1>8, <1>9, <1>10, <1>11 DEF Next

-----------------------------------------------------------------------------

LEMMA BuilderInvInit == Init => BuilderInv
  <1>1. UserTurn({}, {}) \in Entry
    BY TurnsTyped
  <1> QED BY <1>1 DEF Init, BuilderInv, TypeOK, Built, Loops

\* Of conversations of any length: the history and the current turn are made of
\* turns, and the payload outside them has a size.
THEOREM BuilderTypeCorrect == Spec => []TypeOK
  <1>1. Init => TypeOK
    BY BuilderInvInit DEF BuilderInv
  <1> QED BY <1>1, TypesKept, PTL DEF Spec

\* Whatever the client sent, the history under way is as Built says.
LEMMA BuilderInvHolds == Spec => []BuilderInv
  <1>1. BuilderInv /\ [Next]_vars => BuilderInv'
    BY TypesKept, BuiltKept DEF BuilderInv
  <1> QED BY BuilderInvInit, <1>1, PTL DEF Spec

-----------------------------------------------------------------------------
(* What the history holds of a conversation g that is in order.  The list a   *)
(* loop reads and the one it builds are one list, whose turns stay the ones   *)
(* made of the messages: nothing but a front part of it is ever lost.         *)

Turns == out \o work

Held(h) == UNION {h[i].from : i \in 1..Len(h)}

RoleOf(e) == IF e.kind = "assistant" THEN "assistant"
             ELSE IF e.results = {} THEN "user" ELSE "tool"

Ids(g, positions) == {g[n].id : n \in {l \in positions : g[l].role = "tool"}}

\* A turn says what the messages said that it was made from.
MadeOf(e, g) ==
    /\ e.from # {} /\ e.from \subseteq 1..Len(g)
    /\ \A n \in e.from : g[n].role = RoleOf(e)
    /\ e.kind = "assistant" => \A n \in e.from : /\ e.from = {n}
                                                 /\ g[n].text = e.text /\ g[n].uses = e.uses
    /\ e.kind = "user" => e.text /\ e.uses = {}
    /\ e.results = Ids(g, e.from)

Ordered(h) == \A i, j \in 1..Len(h) : i < j => \A m \in h[i].from, n \in h[j].from : m < n

Answers(r, c) == IsCall(c) /\ IsResults(r) /\ r.results = c.uses

\* A call and all its results stand side by side.
Chained(h) == \A i \in 1..(Len(h) - 1) :
                  IsCall(h[i]) \/ IsResults(h[i + 1]) => Answers(h[i + 1], h[i])

Lined(h, g) == Ordered(h) /\ \A i \in 1..Len(h) : MadeOf(h[i], g)

Told(h, g) == Lined(h, g) /\ Chained(h)

Opening(g) == {i \in 1..Len(g) : \A j \in 1..i : g[j].role = "user"}

\* Only what is older than the rest is missing.
OldestGone(h, cur, g) ==
    \A m \in Held(h), n \in (1..Len(g)) \ (Held(h) \cup cur) : m < n => m \in Opening(g)

\* While the messages are read: what can be said before the answers are in.
ToolsFollow(g) == \A i \in 1..Len(g) : g[i].role = "tool" => i > 1 /\ g[i - 1].role # "user"

Answering(g) == /\ ToolsFollow(g)
                /\ \A i \in 1..Len(g) : g[i].role = "tool" => g[i].id # NoCall

Runs(g) == \A j \in 1..Len(g) : g[j].role = "tool" =>
               \E i \in 1..(j - 1) : /\ g[i].role = "assistant"
                                     /\ \A l \in (i + 1)..j : g[l].role = "tool"

Heard(h, g) == /\ Lined(h, g) /\ Held(h) = 1..Len(g)
               /\ \A i \in 1..(Len(h) - 1) : IsResults(h[i + 1]) => h[i].kind = "assistant"

Reading == pc = "read" =>
               /\ work = <<>>
               /\ ToolsFollow(given) => Runs(given)
               /\ Answering(given) => Heard(out, given)

\* The user's last word is the current turn, and what is left starts with a plain turn.
LastWord(h) ==
    /\ Len(given) \in current.from
    /\ \A m \in Held(h), n \in current.from : m < n /\ given[n].role = "user"
    /\ h # <<>> => IsPlain(h[1])

Everything(h) == Held(h) \cup current.from = 1..Len(given)

\* Only the oldest is missing, and nothing of what the limits have room for.
\* The current turn is the user's, no turn says it too, and if the user has the last
\* word it is the end of the conversation.
Spoken(h) == /\ \A n \in current.from : given[n].role = "user"
             /\ \A m \in Held(h) : m \notin current.from
             /\ UserLast => \A m \in (1..Len(given)) \ current.from, n \in current.from : m < n

CutRight(h) == /\ OldestGone(h, current.from, given)
               /\ Spoken(h)
               /\ UserLast /\ WithinLimits => Everything(h) /\ LastWord(h)

Complete ==
    /\ pc \in {"collapse", "pop"} => Held(Turns) = 1..Len(given)
    /\ pc = "compact" =>
          /\ Everything(work) /\ Spoken(work)
          /\ (\E i \in 1..Len(work) : IsPlain(work[i])) =>
                work # <<>> /\ IsPlain(work[1]) /\ work[1].from \subseteq Opening(given)
          /\ UserLast => LastWord(work)
    /\ pc \notin {"read", "collapse", "pop", "compact"} => CutRight(Turns)

\* The lists of the loops.
Lists == /\ pc \in {"pop", "compact", "trim", "strip", "retrim", "done"} => out = <<>>
         /\ pc = "pair" /\ work # <<>> => ~IsResults(work[1])

Telling == pc # "read" /\ InOrder => Told(Turns, given) /\ Complete /\ Lists

OrderInv == Reading /\ Telling

-----------------------------------------------------------------------------
(* Parts of a list that is in order.                                          *)

LEMMA HeldBy ==
    ASSUME NEW h
    PROVE  \A m : m \in Held(h) <=> \E i \in 1..Len(h) : m \in h[i].from
  BY DEF Held

\* What the turns hold are positions of messages.
LEMMA HeldIsPast ==
    ASSUME NEW h, NEW g, Lined(h, g)
    PROVE  Held(h) \subseteq 1..Len(g)
  BY DEF Held, Lined, MadeOf

\* k is h without some of its turns: its i-th turn is the f[i]-th of h.
PartOf(k, h, f) == /\ f \in [1..Len(k) -> 1..Len(h)]
                   /\ \A i, j \in 1..Len(k) : i < j => f[i] < f[j]
                   /\ \A i \in 1..Len(k) : k[i] = h[f[i]]

\* No turn is missing within a tool cycle.
CyclesWhole(k, f) == \A i \in 1..(Len(k) - 1) :
                         IsCall(k[i]) \/ IsResults(k[i + 1]) => f[i + 1] = f[i] + 1

LEMMA PartTold ==
    ASSUME NEW h \in Seq(Entry), NEW k \in Seq(Entry), NEW g, NEW f,
           Told(h, g), PartOf(k, h, f), CyclesWhole(k, f)
    PROVE  Told(k, g) /\ Held(k) \subseteq Held(h)
  <1>0. Len(h) \in Nat /\ Len(k) \in Nat
    BY LenProperties
  <1>1. /\ \A i \in 1..Len(k) : f[i] \in 1..Len(h) /\ k[i] = h[f[i]]
        /\ \A i, j \in 1..Len(k) : i < j => f[i] < f[j]
    BY DEF PartOf
  <1>2. Ordered(k)
    BY <1>1 DEF Told, Lined, Ordered
  <1>3. \A i \in 1..Len(k) : MadeOf(k[i], g)
    BY <1>1 DEF Told, Lined
  <1>4. Chained(k)
    <2> SUFFICES ASSUME NEW i \in 1..(Len(k) - 1), IsCall(k[i]) \/ IsResults(k[i + 1])
                 PROVE  Answers(k[i + 1], k[i])
      BY DEF Chained
    <2>1. i \in 1..Len(k) /\ i + 1 \in 1..Len(k) /\ f[i + 1] = f[i] + 1
      BY <1>0 DEF CyclesWhole
    <2>2. f[i] \in 1..Len(h) /\ f[i] + 1 \in 1..Len(h) /\ k[i] = h[f[i]] /\ k[i + 1] = h[f[i] + 1]
      BY <1>1, <2>1
    <2>3. f[i] \in 1..(Len(h) - 1)
      BY <1>0, <2>2
    <2> QED BY <2>2, <2>3 DEF Told, Chained
  <1>5. Held(k) \subseteq Held(h)
    BY <1>1, HeldBy
  <1> QED BY <1>2, <1>3, <1>4, <1>5 DEF Told, Lined

\* The newest turns, from the a-th on: what is dropped is older than what is kept.
LEMMA SuffixTold ==
    ASSUME NEW h \in Seq(Entry), NEW g, NEW a \in 1..(Len(h) + 1), Told(h, g)
    PROVE  /\ Told(SubSeq(h, a, Len(h)), g)
           /\ Held(SubSeq(h, a, Len(h))) \subseteq Held(h)
           /\ \A m \in Held(SubSeq(h, a, Len(h))) :
                 \A n \in Held(h) \ Held(SubSeq(h, a, Len(h))) : n < m
  <1> DEFINE k == SubSeq(h, a, Len(h))
             f == [i \in 1..Len(k) |-> i + a - 1]
  <1>0. Len(h) \in Nat /\ a \in Nat /\ a >= 1
    BY LenProperties
  <1>1. k \in Seq(Entry)
    BY SliceTyped
  <1>2. /\ Len(k) = Len(h) + 1 - a
        /\ \A i \in 1..Len(k) : i + a - 1 \in 1..Len(h) /\ k[i] = h[i + a - 1]
    <2>1. \A i \in a..Len(h) : h[i] \in Entry
      BY ElementOfSeq
    <2>2. /\ Len(k) = IF a <= Len(h) THEN Len(h) - a + 1 ELSE 0
          /\ \A i \in 1..(Len(h) - a + 1) : k[i] = h[a + i - 1]
      BY <1>0, <2>1, SubSeqProperties
    <2> HIDE DEF k
    <2>3. Len(k) = Len(h) + 1 - a
      BY <1>0, <2>2
    <2> QED BY <1>0, <2>2, <2>3
  <1> HIDE DEF k
  <1>3. PartOf(k, h, f)
    BY <1>0, <1>2 DEF PartOf
  <1>4. CyclesWhole(k, f)
    BY <1>0, <1>2 DEF CyclesWhole
  <1>5. Told(k, g) /\ Held(k) \subseteq Held(h)
    BY <1>1, <1>3, <1>4, PartTold
  <1>6. ASSUME NEW m \in Held(k), NEW n \in Held(h) \ Held(k)
        PROVE  n < m
    <2>1. PICK i \in 1..Len(k) : m \in k[i].from
      BY HeldBy
    <2>2. PICK j \in 1..Len(h) : n \in h[j].from
      BY HeldBy
    <2>3. ~(j >= a)
      <3> SUFFICES ASSUME j >= a PROVE FALSE
        OBVIOUS
      <3>1. j - a + 1 \in 1..Len(k) /\ j - a + 1 + a - 1 = j
        BY <1>0, <1>2
      <3>2. n \in k[j - a + 1].from
        BY <1>2, <2>2, <3>1
      <3> QED BY <3>1, <3>2, HeldBy
    <2>4. i + a - 1 \in 1..Len(h) /\ m \in h[i + a - 1].from /\ j < i + a - 1
      BY <1>0, <1>2, <2>1, <2>3
    <2> QED BY <2>2, <2>4 DEF Told, Lined, Ordered
  <1> QED BY <1>5, <1>6 DEF k

\* Dropping the oldest turns leaves only what is older missing.
LEMMA SuffixOldestGone ==
    ASSUME NEW h \in Seq(Entry), NEW g, NEW cur, NEW a \in 1..(Len(h) + 1), Told(h, g),
           OldestGone(h, cur, g)
    PROVE  OldestGone(SubSeq(h, a, Len(h)), cur, g)
  <1> DEFINE k == SubSeq(h, a, Len(h))
  <1>1. /\ Held(k) \subseteq Held(h)
        /\ \A m \in Held(k) : \A n \in Held(h) \ Held(k) : n < m
    BY SuffixTold
  <1>2. Held(k) \subseteq 1..Len(g)
    BY <1>1, HeldIsPast DEF Told
  <1> HIDE DEF k
  <1>3. ASSUME NEW m \in Held(k), NEW n \in (1..Len(g)) \ (Held(k) \cup cur), m < n
        PROVE  m \in Opening(g)
    <2>1. CASE n \in Held(h)
      <3>1. n < m /\ m \in Int /\ n \in Int
        BY <1>1, <1>2, <2>1
      <3> QED BY <1>3, <3>1
    <2>2. CASE n \notin Held(h)
      BY <1>1, <1>3, <2>2 DEF OldestGone
    <2> QED BY <2>1, <2>2
  <1> QED BY <1>3 DEF OldestGone, k

\* A list of turns has no more of them than messages to make them of.
LEMMA AsManyMessages ==
    ASSUME NEW h, NEW T, NEW S \in SUBSET (1..Len(h)), IsFiniteSet(T), T \subseteq Nat,
           Ordered(h), \A i \in S : \E n \in T : n \in h[i].from
    PROVE  Cardinality(S) <= Cardinality(T)
  <1> DEFINE f == [i \in S |-> CHOOSE n \in T : n \in h[i].from]
  <1>1. \A i \in S : f[i] \in T /\ f[i] \in h[i].from
    OBVIOUS
  <1>2. f \in [S -> T]
    BY <1>1
  <1>3. \A i, j \in S : i < j => f[i] < f[j]
    BY <1>1 DEF Ordered
  <1>4. ASSUME NEW i \in S, NEW j \in S, f[i] = f[j]
        PROVE  i = j
    <2> HIDE DEF f
    <2>1. f[i] \in Nat /\ f[j] \in Nat
      BY <1>1
    <2>2. ~(i < j) /\ ~(j < i)
      BY <1>3, <1>4, <2>1
    <2>3. i \in Int /\ j \in Int
      OBVIOUS
    <2> QED BY <2>2, <2>3
  <1>5. DOMAIN f = S
    OBVIOUS
  <1> HIDE DEF f
  <1>6. f \in Injection(S, T)
    BY <1>2, <1>4, <1>5 DEF Injection, IsInjective
  <1> QED BY <1>6, FS_Injection

-----------------------------------------------------------------------------
(* The ends of a list that holds the whole conversation.                      *)

\* Which turn a message is in.
LEMMA InTurns ==
    ASSUME NEW h \in Seq(Entry), NEW g, Lined(h, g), NEW i \in 1..Len(h), NEW n \in h[i].from
    PROVE  n \in 1..Len(g) /\ g[n].role = RoleOf(h[i])
  BY DEF Lined, MadeOf

\* Messages are in the order of their turns.
LEMMA TurnsInOrder ==
    ASSUME NEW h \in Seq(Entry), NEW g, Lined(h, g), NEW i \in 1..Len(h), NEW j \in 1..Len(h),
           NEW m \in h[i].from, NEW n \in h[j].from, m <= n
    PROVE  i <= j
  <1>1. m \in 1..Len(g) /\ n \in 1..Len(g)
    BY InTurns
  <1>2. j < i => n < m
    BY DEF Lined, Ordered
  <1> QED BY <1>1, <1>2

LEMMA FirstTurn ==
    ASSUME NEW h \in Seq(Entry), NEW g, Lined(h, g), Held(h) = 1..Len(g),
           Len(g) \in Nat \ {0}, g[1].role = "user"
    PROVE  /\ 1 \in 1..Len(h) /\ 1 \in h[1].from
           /\ IsPlain(h[1]) /\ h[1].from \subseteq Opening(g)
  <1>0. Len(h) \in Nat /\ \A i \in 1..Len(h) : h[i] \in Entry
    BY LenProperties, ElementOfSeq
  <1>1. 1 \in Held(h)
    OBVIOUS
  <1>2. PICK i \in 1..Len(h) : 1 \in h[i].from
    BY <1>1, HeldBy
  <1>3. 1 \in 1..Len(h) /\ h[1].from # {}
    BY <1>0 DEF Lined, MadeOf
  <1>4. 1 \in h[1].from
    <2>1. PICK m : m \in h[1].from
      BY <1>3
    <2>2. m \in 1..Len(g)
      BY <1>3, <2>1, InTurns
    <2>3. 1 <= m
      BY <2>2
    <2>4. i <= 1
      BY <1>2, <1>3, <2>1, <2>3, TurnsInOrder
    <2>5. i = 1
      BY <2>4
    <2> QED BY <1>2, <2>5
  <1>5. RoleOf(h[1]) = "user"
    BY <1>3, <1>4, InTurns
  <1>6. IsPlain(h[1])
    <2>1. h[1].kind \in {"user", "assistant"}
      BY <1>0, <1>3 DEF Entry
    <2> QED BY <1>5, <2>1 DEF RoleOf, IsPlain
  <1>7. ASSUME NEW n \in h[1].from
        PROVE  n \in Opening(g)
    <2>1. n \in 1..Len(g)
      BY <1>3, InTurns
    <2>2. ASSUME NEW j \in 1..n
          PROVE  g[j].role = "user"
      <3>1. j \in Held(h) /\ j <= n
        BY <2>1
      <3>2. PICK q \in 1..Len(h) : j \in h[q].from
        BY <3>1, HeldBy
      <3>3. q <= 1
        BY <1>3, <3>1, <3>2, TurnsInOrder
      <3>4. q = 1
        BY <3>3
      <3> QED BY <1>5, <3>2, <3>4, InTurns
    <2> QED BY <2>1, <2>2 DEF Opening
  <1> QED BY <1>3, <1>4, <1>6, <1>7

LEMMA LastTurn ==
    ASSUME NEW h \in Seq(Entry), NEW g, Lined(h, g), Held(h) = 1..Len(g), Len(g) \in Nat \ {0}
    PROVE  /\ Len(h) \in 1..Len(h) /\ Len(g) \in Newest(h).from
           /\ RoleOf(Newest(h)) = g[Len(g)].role
  <1>0. Len(h) \in Nat
    BY LenProperties
  <1>1. Len(g) \in Held(h)
    OBVIOUS
  <1>2. PICK i \in 1..Len(h) : Len(g) \in h[i].from
    BY <1>1, HeldBy
  <1>3. Len(h) \in 1..Len(h) /\ h[Len(h)].from # {}
    BY <1>0 DEF Lined, MadeOf
  <1>4. Len(g) \in h[Len(h)].from
    <2>1. PICK m : m \in h[Len(h)].from
      BY <1>3
    <2>2. m \in 1..Len(g)
      BY <1>3, <2>1, InTurns
    <2>3. m <= Len(g)
      BY <2>2
    <2>4. Len(h) <= i
      BY <1>2, <1>3, <2>1, <2>3, TurnsInOrder
    <2>5. i = Len(h)
      BY <1>0, <2>4
    <2> QED BY <1>2, <2>5
  <1> QED BY <1>3, <1>4, InTurns DEF Newest

-----------------------------------------------------------------------------
(* The merge of two user turns.                                               *)

\* k is h with its turns p and p + 1 made one.
MergedAt(k, h, p) ==
    /\ Len(k) = Len(h) - 1
    /\ \A i \in 1..(p - 1) : k[i] = h[i]
    /\ k[p] = UserTurn({}, h[p].from \cup h[p + 1].from)
    /\ \A i \in (p + 1)..Len(k) : k[i] = h[i + 1]

LEMMA MergeTold ==
    ASSUME NEW h \in Seq(Entry), NEW k \in Seq(Entry), NEW g, Told(h, g),
           NEW p \in 1..(Len(h) - 1), IsPlain(h[p]), IsPlain(h[p + 1]), MergedAt(k, h, p)
    PROVE  Told(k, g) /\ Held(k) = Held(h)
  <1>0. /\ Len(h) \in Nat /\ Len(k) \in Nat /\ Len(k) = Len(h) - 1
        /\ p \in 1..Len(h) /\ p + 1 \in 1..Len(h) /\ p \in 1..Len(k)
    BY LenProperties DEF MergedAt
  <1>1. /\ \A i \in 1..(p - 1) : i \in 1..Len(h) /\ k[i] = h[i]
        /\ \A i \in (p + 1)..Len(k) : i + 1 \in 1..Len(h) /\ k[i] = h[i + 1]
        /\ k[p].from = h[p].from \cup h[p + 1].from
        /\ k[p].kind = "user" /\ k[p].text /\ k[p].uses = {} /\ k[p].results = {}
    BY <1>0 DEF MergedAt, UserTurn
  <1>2. /\ IsPlain(k[p]) /\ RoleOf(k[p]) = "user" /\ ~IsCall(k[p]) /\ ~IsResults(k[p])
        /\ RoleOf(h[p]) = "user" /\ ~IsCall(h[p]) /\ ~IsResults(h[p])
        /\ RoleOf(h[p + 1]) = "user" /\ ~IsCall(h[p + 1]) /\ ~IsResults(h[p + 1])
    BY <1>1 DEF IsPlain, RoleOf, IsCall, IsResults
  \* where the messages of k's turns are in h
  <1>3. ASSUME NEW i \in 1..Len(k), NEW m \in k[i].from
        PROVE  \E j \in 1..Len(h) : /\ m \in h[j].from
                                    /\ i < p => j = i
                                    /\ i = p => j \in {p, p + 1}
                                    /\ i > p => j = i + 1
    <2>1. CASE i < p
      <3>1. i \in 1..(p - 1)
        BY <1>0, <2>1
      <3> QED BY <1>1, <1>3, <2>1, <3>1
    <2>2. CASE i = p
      BY <1>0, <1>1, <1>3, <2>2
    <2>3. CASE i > p
      <3>1. i \in (p + 1)..Len(k)
        BY <1>0, <2>3
      <3> QED BY <1>1, <1>3, <2>3, <3>1
    <2> QED BY <1>0, <2>1, <2>2, <2>3
  <1>4. Ordered(k)
    <2> SUFFICES ASSUME NEW i \in 1..Len(k), NEW j \in 1..Len(k), i < j,
                        NEW m \in k[i].from, NEW n \in k[j].from
                 PROVE  m < n
      BY DEF Ordered
    <2>1. PICK a \in 1..Len(h) : /\ m \in h[a].from
                                 /\ i < p => a = i
                                 /\ i = p => a \in {p, p + 1}
                                 /\ i > p => a = i + 1
      BY <1>3
    <2>2. PICK b \in 1..Len(h) : /\ n \in h[b].from
                                 /\ j < p => b = j
                                 /\ j = p => b \in {p, p + 1}
                                 /\ j > p => b = j + 1
      BY <1>3
    <2>3. a < b
      BY <1>0, <2>1, <2>2
    <2> QED BY <2>1, <2>2, <2>3 DEF Told, Lined, Ordered
  <1>5. ASSUME NEW i \in 1..Len(k)
        PROVE  MadeOf(k[i], g)
    <2>1. CASE i < p
      <3>1. i \in 1..(p - 1)
        BY <1>0, <2>1
      <3> QED BY <1>1, <3>1 DEF Told, Lined
    <2>2. CASE i = p
      <3>1. MadeOf(h[p], g) /\ MadeOf(h[p + 1], g)
        BY <1>0 DEF Told, Lined
      <3>2. /\ k[p].from # {} /\ k[p].from \subseteq 1..Len(g)
            /\ \A n \in k[p].from : g[n].role = "user"
        BY <1>1, <1>2, <3>1 DEF MadeOf
      <3>3. Ids(g, k[p].from) = {}
        BY <3>2 DEF Ids
      <3> QED BY <1>1, <1>2, <2>2, <3>2, <3>3 DEF MadeOf
    <2>3. CASE i > p
      <3>1. i \in (p + 1)..Len(k)
        BY <1>0, <2>3
      <3> QED BY <1>1, <3>1 DEF Told, Lined
    <2> QED BY <1>0, <2>1, <2>2, <2>3
  <1>6. ASSUME NEW i \in 1..(Len(k) - 1), IsCall(k[i]) \/ IsResults(k[i + 1])
        PROVE  Answers(k[i + 1], k[i])
    <2>1. CASE i < p - 1
      <3>1. i \in 1..(p - 1) /\ i + 1 \in 1..(p - 1) /\ i \in 1..(Len(h) - 1)
        BY <1>0, <2>1
      <3>2. k[i] = h[i] /\ k[i + 1] = h[i + 1]
        BY <1>1, <3>1
      <3> QED BY <1>6, <3>1, <3>2 DEF Told, Chained
    <2>2. CASE i = p - 1
      <3>1. i \in 1..(p - 1) /\ i + 1 = p /\ i \in 1..(Len(h) - 1)
        BY <1>0, <2>2
      <3>2. k[i] = h[i] /\ IsCall(h[i])
        BY <1>1, <1>2, <1>6, <3>1
      <3>3. Answers(h[p], h[i])
        BY <3>1, <3>2 DEF Told, Chained
      <3> QED BY <1>2, <3>3 DEF Answers
    <2>3. CASE i = p
      <3>1. p + 1 \in (p + 1)..Len(k) /\ p + 1 \in 1..(Len(h) - 1) /\ p + 1 + 1 = p + 2
        BY <1>0, <2>3
      <3>2. k[p + 1] = h[p + 1 + 1] /\ IsResults(k[p + 1])
        BY <1>1, <1>2, <1>6, <2>3, <3>1
      <3>3. Answers(h[p + 1 + 1], h[p + 1])
        BY <3>1, <3>2 DEF Told, Chained
      <3> QED BY <1>2, <3>3 DEF Answers
    <2>4. CASE i > p
      <3>1. /\ i \in (p + 1)..Len(k) /\ i + 1 \in (p + 1)..Len(k)
            /\ i + 1 \in 1..(Len(h) - 1)
        BY <1>0, <2>4
      <3>2. k[i] = h[i + 1] /\ k[i + 1] = h[i + 1 + 1]
        BY <1>1, <3>1
      <3> QED BY <1>6, <3>1, <3>2 DEF Told, Chained
    <2> QED BY <1>0, <2>1, <2>2, <2>3, <2>4
  <1>7. Held(k) \subseteq Held(h)
    BY <1>3, HeldBy
  <1>8. ASSUME NEW j \in 1..Len(h), NEW m \in h[j].from
        PROVE  m \in Held(k)
    <2>1. CASE j < p
      <3>1. j \in 1..(p - 1) /\ j \in 1..Len(k)
        BY <1>0, <2>1
      <3> QED BY <1>1, <1>8, <3>1, HeldBy
    <2>2. CASE j \in {p, p + 1}
      BY <1>0, <1>1, <1>8, <2>2, HeldBy
    <2>3. CASE j > p + 1
      <3>1. j - 1 \in (p + 1)..Len(k) /\ j - 1 \in 1..Len(k) /\ j - 1 + 1 = j
        BY <1>0, <2>3
      <3> QED BY <1>1, <1>8, <3>1, HeldBy
    <2> QED BY <1>0, <2>1, <2>2, <2>3
  <1>9. Held(h) \subseteq Held(k)
    BY <1>8, HeldBy
  <1> QED BY <1>4, <1>5, <1>6, <1>7, <1>9 DEF Told, Lined, Chained

-----------------------------------------------------------------------------
(* A plain turn taken out, and the cut before the kept tool cycles.           *)

LEMMA WithoutParts ==
    ASSUME NEW h \in Seq(Entry), NEW p \in 1..Len(h)
    PROVE  /\ Without(h, p) \in Seq(Entry) /\ Len(Without(h, p)) = Len(h) - 1
           /\ \A i \in 1..(Len(h) - 1) : Without(h, p)[i] = h[IF i < p THEN i ELSE i + 1]
  <1> DEFINE s == SubSeq(h, 1, p - 1)
             t == SubSeq(h, p + 1, Len(h))
  <1>0. Len(h) \in Nat /\ \A i \in 1..Len(h) : h[i] \in Entry
    BY LenProperties, ElementOfSeq
  <1>1. /\ s \in Seq(Entry) /\ Len(s) = p - 1
        /\ \A i \in 1..(p - 1) : s[i] = h[i]
    <2>1. \A i \in 1..(p - 1) : h[i] \in Entry
      BY <1>0
    <2>2. /\ s \in Seq(Entry)
          /\ Len(s) = IF 1 <= p - 1 THEN p - 1 - 1 + 1 ELSE 0
          /\ \A i \in 1..(p - 1 - 1 + 1) : s[i] = h[1 + i - 1]
      BY <2>1, SubSeqProperties
    <2> HIDE DEF s
    <2>3. Len(s) = p - 1
      BY <2>2
    <2> QED BY <2>2, <2>3
  <1>2. /\ t \in Seq(Entry) /\ Len(t) = Len(h) - p
        /\ \A i \in 1..(Len(h) - p) : t[i] = h[p + i]
    <2>1. \A i \in (p + 1)..Len(h) : h[i] \in Entry
      BY <1>0
    <2>2. /\ t \in Seq(Entry)
          /\ Len(t) = IF p + 1 <= Len(h) THEN Len(h) - (p + 1) + 1 ELSE 0
          /\ \A i \in 1..(Len(h) - (p + 1) + 1) : t[i] = h[p + 1 + i - 1]
      BY <1>0, <2>1, SubSeqProperties
    <2> HIDE DEF t
    <2>3. Len(t) = Len(h) - p
      BY <1>0, <2>2
    <2>4. ASSUME NEW i \in 1..(Len(h) - p)
          PROVE  t[i] = h[p + i]
      <3>1. i \in 1..(Len(h) - (p + 1) + 1) /\ p + 1 + i - 1 = p + i
        BY <1>0
      <3> QED BY <2>2, <3>1
    <2> QED BY <2>2, <2>3, <2>4
  <1> HIDE DEF s, t
  <1>3. /\ s \o t \in Seq(Entry) /\ Len(s \o t) = Len(h) - 1
        /\ \A i \in 1..(Len(h) - 1) : (s \o t)[i] = IF i <= p - 1 THEN s[i] ELSE t[i - (p - 1)]
    <2>1. /\ s \o t \in Seq(Entry) /\ Len(s \o t) = Len(s) + Len(t)
          /\ \A i \in 1..(Len(s) + Len(t)) :
                (s \o t)[i] = IF i <= Len(s) THEN s[i] ELSE t[i - Len(s)]
      BY <1>1, <1>2, ConcatProperties
    <2>2. Len(s) + Len(t) = Len(h) - 1
      BY <1>0, <1>1, <1>2
    <2> QED BY <1>1, <2>1, <2>2
  <1> DEFINE k == s \o t
  <1>4. k = Without(h, p)
    BY DEF Without, s, t
  <1> HIDE DEF k
  <1>5. ASSUME NEW i \in 1..(Len(h) - 1)
        PROVE  k[i] = h[IF i < p THEN i ELSE i + 1]
    <2>1. CASE i < p
      <3>1. i <= p - 1 /\ i \in 1..(p - 1)
        BY <2>1
      <3>2. k[i] = s[i]
        BY <1>3, <3>1 DEF k
      <3> QED BY <1>1, <2>1, <3>1, <3>2
    <2>2. CASE ~(i < p)
      <3>1. ~(i <= p - 1) /\ i - (p - 1) \in 1..(Len(h) - p) /\ p + (i - (p - 1)) = i + 1
        BY <1>0, <2>2
      <3>2. k[i] = t[i - (p - 1)]
        BY <1>3, <3>1 DEF k
      <3> QED BY <1>2, <2>2, <3>1, <3>2
    <2> QED BY <2>1, <2>2
  <1>6. k \in Seq(Entry) /\ Len(k) = Len(h) - 1
    BY <1>3 DEF k
  <1> QED BY <1>4, <1>5, <1>6

\* A plain turn belongs to no cycle.
LEMMA PlainBetween ==
    ASSUME NEW h \in Seq(Entry), Chained(h), NEW p \in 1..Len(h), IsPlain(h[p])
    PROVE  /\ p > 1 => ~IsCall(h[p - 1])
           /\ p < Len(h) => ~IsResults(h[p + 1])
  <1>0. Len(h) \in Nat
    BY LenProperties
  <1>1. ~IsCall(h[p]) /\ ~IsResults(h[p])
    BY DEF IsPlain, IsCall, IsResults
  <1>2. ASSUME p > 1, IsCall(h[p - 1])
        PROVE  FALSE
    <2>1. p - 1 \in 1..(Len(h) - 1) /\ p - 1 + 1 = p
      BY <1>0, <1>2
    <2>2. Answers(h[p], h[p - 1])
      BY <1>2, <2>1 DEF Chained
    <2> QED BY <1>1, <2>2 DEF Answers
  <1>3. ASSUME p < Len(h), IsResults(h[p + 1])
        PROVE  FALSE
    <2>1. p \in 1..(Len(h) - 1)
      BY <1>0, <1>3
    <2>2. Answers(h[p + 1], h[p])
      BY <1>3, <2>1 DEF Chained
    <2> QED BY <1>1, <2>2 DEF Answers
  <1> QED BY <1>2, <1>3

LEMMA WithoutTold ==
    ASSUME NEW h \in Seq(Entry), NEW g, Told(h, g), NEW p \in 1..Len(h), IsPlain(h[p])
    PROVE  /\ Told(Without(h, p), g)
           /\ Held(Without(h, p)) \cup h[p].from = Held(h)
  <1> DEFINE k == Without(h, p)
             f == [i \in 1..Len(k) |-> IF i < p THEN i ELSE i + 1]
  <1>0. Len(h) \in Nat
    BY LenProperties
  <1>1. /\ k \in Seq(Entry) /\ Len(k) = Len(h) - 1
        /\ \A i \in 1..Len(k) : k[i] = h[IF i < p THEN i ELSE i + 1]
    BY WithoutParts
  <1> HIDE DEF k
  <1>2. /\ \A i \in 1..Len(k) : f[i] \in 1..Len(h) /\ k[i] = h[f[i]]
        /\ \A i, j \in 1..Len(k) : i < j => f[i] < f[j]
    BY <1>0, <1>1
  <1>3. PartOf(k, h, f)
    BY <1>2 DEF PartOf
  <1>4. CyclesWhole(k, f)
    <2> SUFFICES ASSUME NEW i \in 1..(Len(k) - 1), IsCall(k[i]) \/ IsResults(k[i + 1])
                 PROVE  f[i + 1] = f[i] + 1
      BY DEF CyclesWhole
    <2>1. i \in 1..Len(k) /\ i + 1 \in 1..Len(k)
      BY <1>0, <1>1
    <2>2. i + 1 # p
      <3> SUFFICES ASSUME i + 1 = p PROVE FALSE
        OBVIOUS
      <3>1. /\ p > 1 /\ i = p - 1 /\ p < Len(h) /\ i < p /\ ~(i + 1 < p)
            /\ i + 1 + 1 = p + 1
        BY <1>0, <1>1, <2>1
      <3>2. k[i] = h[p - 1] /\ k[i + 1] = h[p + 1]
        BY <1>1, <2>1, <3>1
      <3> QED BY <3>1, <3>2, PlainBetween DEF Told
    <2>3. i + 1 < p \/ ~(i < p)
      BY <2>1, <2>2
    <2> QED BY <2>1, <2>3
  <1>5. Told(k, g) /\ Held(k) \subseteq Held(h)
    BY <1>1, <1>3, <1>4, PartTold
  <1>6. h[p].from \subseteq Held(h)
    BY HeldBy
  <1>7. ASSUME NEW j \in 1..Len(h), NEW m \in h[j].from
        PROVE  m \in Held(k) \cup h[p].from
    <2>1. CASE j < p
      <3>1. j \in 1..Len(k)
        BY <1>0, <1>1, <2>1
      <3> QED BY <1>1, <1>7, <2>1, <3>1, HeldBy
    <2>2. CASE j = p
      BY <1>7, <2>2
    <2>3. CASE j > p
      <3>1. j - 1 \in 1..Len(k) /\ ~(j - 1 < p) /\ j - 1 + 1 = j
        BY <1>0, <1>1, <2>3
      <3>2. k[j - 1] = h[j]
        BY <1>1, <3>1
      <3> QED BY <1>7, <3>1, <3>2, HeldBy
    <2> QED BY <1>0, <2>1, <2>2, <2>3
  <1>8. Held(h) \subseteq Held(k) \cup h[p].from
    BY <1>7, HeldBy
  <1> QED BY <1>5, <1>6, <1>8 DEF k

\* The opening turn and the cycles from the c-th turn on.
LEMMA CompactedTold ==
    ASSUME NEW h \in Seq(Entry), NEW g, NEW cur, Told(h, g), NEW c \in 1..Len(h), c > 1,
           IsPlain(h[1]), IsCall(h[c]), h[1].from \subseteq Opening(g),
           Held(h) \cup cur = 1..Len(g)
    PROVE  /\ <<h[1]>> \o SubSeq(h, c, Len(h)) \in Seq(Entry)
           /\ Told(<<h[1]>> \o SubSeq(h, c, Len(h)), g)
           /\ OldestGone(<<h[1]>> \o SubSeq(h, c, Len(h)), cur, g)
           /\ Held(<<h[1]>> \o SubSeq(h, c, Len(h))) \subseteq Held(h)
  <1> DEFINE s == SubSeq(h, c, Len(h))
             b == <<h[1]>>
             k == b \o s
             f == [i \in 1..Len(k) |-> IF i = 1 THEN 1 ELSE i + c - 2]
  <1>0. /\ Len(h) \in Nat /\ \A i \in 1..Len(h) : h[i] \in Entry
        /\ c \in Nat /\ 1 \in 1..Len(h)
    BY LenProperties, ElementOfSeq
  <1>1. /\ s \in Seq(Entry) /\ Len(s) = Len(h) - c + 1
        /\ \A i \in 1..(Len(h) - c + 1) : s[i] = h[c + i - 1]
    <2>1. \A i \in c..Len(h) : h[i] \in Entry
      BY <1>0
    <2> QED BY <1>0, <2>1, SubSeqProperties
  <1>2. /\ Told(s, g) /\ Held(s) \subseteq Held(h)
        /\ \A m \in Held(s) : \A n \in Held(h) \ Held(s) : n < m
    BY <1>0, SuffixTold
  <1> HIDE DEF s
  <1>3. b \in Seq(Entry) /\ Len(b) = 1 /\ b[1] = h[1]
    BY <1>0
  <1> HIDE DEF b
  <1>4. /\ k \in Seq(Entry) /\ Len(k) = 1 + Len(s)
        /\ \A i \in 1..(1 + Len(s)) : k[i] = IF i <= 1 THEN b[i] ELSE s[i - 1]
    <2>1. /\ k \in Seq(Entry) /\ Len(k) = Len(b) + Len(s)
          /\ \A i \in 1..(Len(b) + Len(s)) : k[i] = IF i <= Len(b) THEN b[i] ELSE s[i - Len(b)]
      BY <1>1, <1>3, ConcatProperties
    <2> HIDE DEF k
    <2> QED BY <1>3, <2>1
  <1>5. /\ Len(k) = Len(h) - c + 2 /\ Len(k) > 1
        /\ k[1] = h[1]
        /\ \A i \in 2..Len(k) : i + c - 2 \in 1..Len(h) /\ k[i] = h[i + c - 2]
    <2>1. Len(k) = Len(h) - c + 2 /\ Len(k) > 1
      BY <1>0, <1>1, <1>4
    <2>2. k[1] = h[1]
      BY <1>0, <1>1, <1>3, <1>4, <2>1
    <2>3. ASSUME NEW i \in 2..Len(k)
          PROVE  i + c - 2 \in 1..Len(h) /\ k[i] = h[i + c - 2]
      <3>1. /\ ~(i <= 1) /\ i \in 1..(1 + Len(s)) /\ i - 1 \in 1..(Len(h) - c + 1)
            /\ c + (i - 1) - 1 = i + c - 2 /\ i + c - 2 \in 1..Len(h)
        BY <1>0, <1>1, <1>4, <2>1
      <3>2. k[i] = s[i - 1]
        BY <1>4, <3>1
      <3> QED BY <1>1, <3>1, <3>2
    <2> QED BY <2>1, <2>2, <2>3
  <1> HIDE DEF k
  <1>6. PartOf(k, h, f)
    <2>1. \A i \in 1..Len(k) : f[i] \in 1..Len(h) /\ k[i] = h[f[i]]
      BY <1>0, <1>5
    <2>2. \A i, j \in 1..Len(k) : i < j => f[i] < f[j]
      BY <1>0, <1>5
    <2> QED BY <2>1, <2>2 DEF PartOf
  <1>7. CyclesWhole(k, f)
    <2> SUFFICES ASSUME NEW i \in 1..(Len(k) - 1), IsCall(k[i]) \/ IsResults(k[i + 1])
                 PROVE  f[i + 1] = f[i] + 1
      BY DEF CyclesWhole
    <2>1. i \in 1..Len(k) /\ i + 1 \in 1..Len(k) /\ i + 1 # 1
      BY <1>0, <1>5
    <2>2. i # 1
      <3> SUFFICES ASSUME i = 1 PROVE FALSE
        OBVIOUS
      <3>1. k[2] = h[c]
        BY <1>0, <1>5
      <3> QED BY <1>5, <3>1 DEF IsPlain, IsCall, IsResults
    <2> QED BY <1>0, <2>1, <2>2
  <1>8. Told(k, g) /\ Held(k) \subseteq Held(h)
    BY <1>4, <1>6, <1>7, PartTold
  <1>9. \A m \in Held(k) : m \in h[1].from \/ m \in Held(s)
    <2> SUFFICES ASSUME NEW i \in 1..Len(k), NEW m \in k[i].from
                 PROVE  m \in h[1].from \/ m \in Held(s)
      BY HeldBy
    <2>1. CASE i = 1
      BY <1>5, <2>1
    <2>2. CASE i # 1
      <3>1. i - 1 \in 1..Len(s) /\ k[i] = s[i - 1]
        <4>1. i \in 1..(1 + Len(s)) /\ ~(i <= 1) /\ i - 1 \in 1..Len(s)
          BY <1>0, <1>1, <1>5, <2>2
        <4> QED BY <1>4, <4>1
      <3> QED BY <3>1, HeldBy
    <2> QED BY <2>1, <2>2
  <1>10. Held(s) \subseteq Held(k)
    <2> SUFFICES ASSUME NEW i \in 1..Len(s), NEW m \in s[i].from
                 PROVE  m \in Held(k)
      BY HeldBy
    <2>1. i + 1 \in 1..Len(k) /\ k[i + 1] = s[i]
      <3>1. i + 1 \in 1..(1 + Len(s)) /\ ~(i + 1 <= 1) /\ i + 1 - 1 = i
        BY <1>0, <1>1
      <3>2. i + 1 \in 1..Len(k)
        BY <1>0, <1>1, <1>5
      <3> QED BY <1>4, <3>1, <3>2
    <2> QED BY <2>1, HeldBy
  <1>11. ASSUME NEW m \in Held(k), NEW n \in (1..Len(g)) \ (Held(k) \cup cur), m < n
         PROVE  m \in Opening(g)
    <2>1. CASE m \in h[1].from
      BY <2>1
    <2>2. CASE m \in Held(s)
      <3>1. n \in Held(h) \ Held(s)
        BY <1>10
      <3>2. n < m
        BY <1>2, <2>2, <3>1
      <3>3. m \in 1..Len(g)
        BY <1>8
      <3> QED BY <1>11, <3>2, <3>3
    <2> QED BY <1>9, <2>1, <2>2
  <1>12. OldestGone(k, cur, g)
    BY <1>11 DEF OldestGone
  <1> QED BY <1>4, <1>8, <1>12 DEF k, b, s

-----------------------------------------------------------------------------
(* One step of a loop, on the list it reads and the list it builds together.  *)

LEMMA Shifted ==
    ASSUME NEW s \in Seq(Entry), NEW t \in Seq(Entry), t # <<>>
    PROVE  Append(s, Head(t)) \o Tail(t) = s \o t
  <1> DEFINE a == Append(s, Head(t))
             b == Tail(t)
  <1>1. /\ Len(s) \in Nat /\ Len(t) \in Nat /\ Len(t) >= 1
        /\ Head(t) \in Entry /\ Head(t) = t[1]
    BY LenProperties, EmptySeq, HeadTailTyped
  <1>2. /\ a \in Seq(Entry) /\ Len(a) = Len(s) + 1 /\ a[Len(s) + 1] = t[1]
        /\ \A i \in 1..Len(s) : a[i] = s[i]
    BY <1>1, AppendedParts
  <1>3. /\ b \in Seq(Entry) /\ Len(b) = Len(t) - 1
        /\ \A i \in 1..(Len(t) - 1) : b[i] = t[i + 1]
    BY HeadTailProperties
  <1> HIDE DEF a, b
  <1>4. /\ a \o b \in Seq(Entry) /\ Len(a \o b) = Len(a) + Len(b)
        /\ \A i \in 1..(Len(a) + Len(b)) :
              (a \o b)[i] = IF i <= Len(a) THEN a[i] ELSE b[i - Len(a)]
    BY <1>2, <1>3, ConcatProperties
  <1>5. /\ s \o t \in Seq(Entry) /\ Len(s \o t) = Len(s) + Len(t)
        /\ \A i \in 1..(Len(s) + Len(t)) :
              (s \o t)[i] = IF i <= Len(s) THEN s[i] ELSE t[i - Len(s)]
    BY ConcatProperties
  <1> DEFINE x == a \o b
             y == s \o t
  <1> HIDE DEF x, y
  <1>6. ASSUME NEW i \in 1..Len(x)
        PROVE  x[i] = y[i]
    <2>0. i \in 1..(Len(s) + Len(t)) /\ i \in 1..(Len(a) + Len(b))
      BY <1>1, <1>2, <1>3, <1>4 DEF x
    <2>1. x[i] = (IF i <= Len(a) THEN a[i] ELSE b[i - Len(a)])
      BY <1>4, <2>0 DEF x
    <2>2. y[i] = (IF i <= Len(s) THEN s[i] ELSE t[i - Len(s)])
      BY <1>5, <2>0 DEF y
    <2>3. CASE i <= Len(s)
      <3>1. i \in 1..Len(s) /\ i <= Len(a)
        BY <1>1, <1>2, <2>3
      <3> QED BY <1>2, <2>1, <2>2, <2>3, <3>1
    <2>4. CASE i = Len(s) + 1
      <3>1. i <= Len(a) /\ ~(i <= Len(s)) /\ i - Len(s) = 1
        BY <1>1, <1>2, <2>4
      <3> QED BY <1>2, <2>1, <2>2, <2>4, <3>1
    <2>5. CASE i > Len(s) + 1
      <3>1. /\ ~(i <= Len(a)) /\ ~(i <= Len(s)) /\ i - Len(a) \in 1..(Len(t) - 1)
            /\ i - Len(a) + 1 = i - Len(s)
        BY <1>1, <1>2, <2>0, <2>5
      <3> QED BY <1>3, <2>1, <2>2, <3>1
    <2> QED BY <1>1, <2>0, <2>3, <2>4, <2>5
  <1>7. x \in Seq(Entry) /\ y \in Seq(Entry) /\ Len(x) = Len(y)
    BY <1>1, <1>2, <1>3, <1>4, <1>5 DEF x, y
  <1>8. x = y
    BY <1>6, <1>7, SeqEqual
  <1> QED BY <1>8 DEF x, y, a, b

\* The turn at the head of the list read joins the newest of the list built.
JoinedTurns(s, t) ==
    Append(ButNewest(s), UserTurn({}, Newest(s).from \cup Head(t).from)) \o Tail(t)

LEMMA JoinedIsMerged ==
    ASSUME NEW s \in Seq(Entry), NEW t \in Seq(Entry), s # <<>>, t # <<>>
    PROVE  /\ JoinedTurns(s, t) \in Seq(Entry) /\ s \o t \in Seq(Entry)
           /\ Len(s) \in 1..(Len(s \o t) - 1)
           /\ (s \o t)[Len(s)] = Newest(s) /\ (s \o t)[Len(s) + 1] = Head(t)
           /\ MergedAt(JoinedTurns(s, t), s \o t, Len(s))
  <1> DEFINE n == Len(s)
             k == JoinedTurns(s, t)
             c == ButNewest(s)
             u == UserTurn({}, Newest(s).from \cup Head(t).from)
             a == Append(c, u)
             b == Tail(t)
             y == s \o t
  <1>1. /\ n \in Nat /\ Len(t) \in Nat /\ Len(t) >= 1 /\ n >= 1
        /\ Head(t) \in Entry /\ Head(t) = t[1] /\ Newest(s) \in Entry /\ Newest(s) = s[n]
    BY LenProperties, EmptySeq, HeadTailTyped, ButNewestTyped DEF Newest
  <1>2. c \in Seq(Entry) /\ Len(c) = n - 1 /\ \A i \in 1..(n - 1) : c[i] = s[i]
    <2>1. \A i \in 1..(n - 1) : s[i] \in Entry
      BY <1>1, ElementOfSeq
    <2>2. /\ c \in Seq(Entry) /\ Len(c) = (IF 1 <= n - 1 THEN n - 1 - 1 + 1 ELSE 0)
          /\ \A i \in 1..(n - 1 - 1 + 1) : c[i] = s[1 + i - 1]
      BY <1>1, <2>1, SubSeqProperties DEF ButNewest
    <2> HIDE DEF c
    <2>3. Len(c) = n - 1
      <3> DEFINE l == Len(c)
      <3>1. l = (IF 1 <= n - 1 THEN n - 1 - 1 + 1 ELSE 0) /\ n \in Nat /\ n >= 1
        BY <1>1, <2>2
      <3> HIDE DEF l, n
      <3>2. l = n - 1
        BY <3>1
      <3> QED BY <3>2 DEF l
    <2>4. \A i \in 1..(n - 1) : i \in 1..(n - 1 - 1 + 1) /\ 1 + i - 1 = i
      BY <1>1
    <2>5. \A i \in 1..(n - 1) : c[i] = s[i]
      BY <2>2, <2>4
    <2> QED BY <2>2, <2>3, <2>5
  <1>3. u \in Entry
    <2>1. Newest(s).from \cup Head(t).from \in SUBSET Nat
      BY <1>1, EntryParts
    <2> QED BY <2>1, TurnsTyped
  <1> HIDE DEF c, u
  <1>4. /\ a \in Seq(Entry) /\ Len(a) = n /\ a[n] = u
        /\ \A i \in 1..(n - 1) : a[i] = s[i]
    <2>1. /\ a \in Seq(Entry) /\ Len(a) = Len(c) + 1 /\ a[Len(c) + 1] = u
          /\ \A i \in 1..Len(c) : a[i] = c[i]
      BY <1>2, <1>3, AppendedParts
    <2> HIDE DEF a
    <2> QED BY <1>1, <1>2, <2>1
  <1>5. /\ b \in Seq(Entry) /\ Len(b) = Len(t) - 1
        /\ \A i \in 1..(Len(t) - 1) : b[i] = t[i + 1]
    BY HeadTailProperties
  <1> HIDE DEF a, b
  <1>6. /\ a \o b \in Seq(Entry) /\ Len(a \o b) = Len(a) + Len(b)
        /\ \A i \in 1..(Len(a) + Len(b)) :
              (a \o b)[i] = IF i <= Len(a) THEN a[i] ELSE b[i - Len(a)]
    <2>1. a \in Seq(Entry) /\ b \in Seq(Entry)
      BY <1>4, <1>5
    <2> QED BY <2>1, ConcatProperties
  <1>7. /\ y \in Seq(Entry) /\ Len(y) = Len(s) + Len(t)
        /\ \A i \in 1..(Len(s) + Len(t)) : y[i] = IF i <= Len(s) THEN s[i] ELSE t[i - Len(s)]
    BY ConcatProperties
  <1>8. k = a \o b
    BY DEF a, b, c, u, JoinedTurns
  <1> HIDE DEF k
  <1>9. /\ k \in Seq(Entry) /\ Len(k) = n + Len(t) - 1
        /\ \A i \in 1..(n + Len(t) - 1) : k[i] = IF i <= n THEN a[i] ELSE b[i - n]
    <2>1. Len(a) + Len(b) = n + Len(t) - 1
      BY <1>1, <1>4, <1>5
    <2> QED BY <1>4, <1>6, <1>8, <2>1
  <1> HIDE DEF y
  <1>10. n \in 1..(Len(y) - 1) /\ y[n] = Newest(s) /\ y[n + 1] = Head(t)
    <2>1. n \in 1..(Len(s) + Len(t)) /\ n + 1 \in 1..(Len(s) + Len(t)) /\ n + 1 - Len(s) = 1
      BY <1>1
    <2>2. n <= Len(s) /\ ~(n + 1 <= Len(s))
      BY <1>1
    <2>3. y[n] = s[n] /\ y[n + 1] = t[1]
      BY <1>7, <2>1, <2>2
    <2> QED BY <1>1, <1>7, <2>3
  <1>11. MergedAt(k, y, n)
    <2>1. Len(k) = Len(y) - 1
      BY <1>1, <1>7, <1>9
    <2>2. ASSUME NEW i \in 1..(n - 1)
          PROVE  k[i] = y[i]
      <3>1. i <= n /\ i \in 1..(n + Len(t) - 1) /\ i \in 1..(Len(s) + Len(t)) /\ i <= Len(s)
        BY <1>1
      <3> QED BY <1>4, <1>7, <1>9, <3>1
    <2>3. k[n] = UserTurn({}, y[n].from \cup y[n + 1].from)
      <3>1. n \in 1..(n + Len(t) - 1) /\ n <= n
        BY <1>1
      <3>2. k[n] = u
        BY <1>4, <1>9, <3>1
      <3> QED BY <1>10, <3>2 DEF u
    <2>4. ASSUME NEW i \in (n + 1)..Len(k)
          PROVE  k[i] = y[i + 1]
      <3>1. /\ ~(i <= n) /\ i \in 1..(n + Len(t) - 1) /\ i - n \in 1..(Len(t) - 1)
            /\ i + 1 \in 1..(Len(s) + Len(t)) /\ ~(i + 1 <= Len(s)) /\ i - n + 1 = i + 1 - Len(s)
        BY <1>1, <1>9
      <3>2. k[i] = b[i - n] /\ b[i - n] = t[i - n + 1]
        BY <1>5, <1>9, <3>1
      <3> QED BY <1>7, <3>1, <3>2
    <2> QED BY <2>1, <2>2, <2>3, <2>4 DEF MergedAt
  <1> QED BY <1>7, <1>9, <1>10, <1>11 DEF y, k

-----------------------------------------------------------------------------
(* The messages are read.                                                     *)

LEMMA LinedAppend ==
    ASSUME NEW h \in Seq(Entry), NEW e \in Entry, NEW g, Lined(h, g), MadeOf(e, g),
           \A m \in Held(h), n \in e.from : m < n
    PROVE  Lined(Append(h, e), g) /\ Held(Append(h, e)) = Held(h) \cup e.from
  <1> DEFINE k == Append(h, e)
  <1>1. /\ Len(h) \in Nat /\ Len(k) = Len(h) + 1
        /\ \A i \in 1..Len(h) : k[i] = h[i]
        /\ k[Len(h) + 1] = e
    BY AppendedParts, LenProperties
  <1> HIDE DEF k
  <1>2. \A i \in 1..Len(k) : (i \in 1..Len(h) /\ k[i] = h[i]) \/ (i = Len(h) + 1 /\ k[i] = e)
    BY <1>1
  <1>3. \A i \in 1..Len(k) : MadeOf(k[i], g)
    BY <1>2 DEF Lined
  <1>4. Ordered(k)
    <2> SUFFICES ASSUME NEW i \in 1..Len(k), NEW j \in 1..Len(k), i < j,
                        NEW m \in k[i].from, NEW n \in k[j].from
                 PROVE  m < n
      BY DEF Ordered
    <2>1. i \in 1..Len(h) /\ k[i] = h[i]
      BY <1>1, <1>2
    <2>2. CASE j \in 1..Len(h)
      <3>1. k[j] = h[j]
        BY <1>1, <2>2
      <3> QED BY <2>1, <2>2, <3>1 DEF Lined, Ordered
    <2>3. CASE j = Len(h) + 1
      <3>1. m \in Held(h) /\ n \in e.from
        BY <1>1, <2>1, <2>3, HeldBy
      <3> QED BY <3>1
    <2> QED BY <1>1, <2>2, <2>3
  <1>5. Held(k) \subseteq Held(h) \cup e.from
    BY <1>2, HeldBy
  <1>6. Held(h) \cup e.from \subseteq Held(k)
    <2>1. \A i \in 1..Len(h) : i \in 1..Len(k) /\ k[i] = h[i]
      BY <1>1
    <2>2. Len(h) + 1 \in 1..Len(k) /\ k[Len(h) + 1] = e
      BY <1>1
    <2> QED BY <2>1, <2>2, HeldBy
  <1> QED BY <1>3, <1>4, <1>5, <1>6 DEF Lined, k

LEMMA LinedButNewest ==
    ASSUME NEW h \in Seq(Entry), h # <<>>, NEW g, Lined(h, g)
    PROVE  /\ Lined(ButNewest(h), g)
           /\ Held(h) = Held(ButNewest(h)) \cup Newest(h).from
           /\ \A m \in Held(ButNewest(h)), n \in Newest(h).from : m < n
           /\ MadeOf(Newest(h), g)
           /\ Len(ButNewest(h)) = Len(h) - 1
           /\ \A i \in 1..(Len(h) - 1) : ButNewest(h)[i] = h[i]
  <1> DEFINE k == ButNewest(h)
             l == Len(h)
  <1>0. l \in Nat /\ l >= 1 /\ l \in 1..l /\ Newest(h) = h[l]
    BY EmptySeq, LenProperties DEF Newest
  <1>1. Len(k) = l - 1 /\ \A i \in 1..(l - 1) : k[i] = h[i]
    <2>1. \A i \in 1..(l - 1) : h[i] \in Entry
      BY <1>0, ElementOfSeq
    <2>2. /\ Len(k) = (IF 1 <= l - 1 THEN l - 1 - 1 + 1 ELSE 0)
          /\ \A i \in 1..(l - 1 - 1 + 1) : k[i] = h[1 + i - 1]
      BY <1>0, <2>1, SubSeqProperties DEF ButNewest
    <2>3. Len(k) = l - 1
      <3> DEFINE q == Len(k)
      <3>1. q = (IF 1 <= l - 1 THEN l - 1 - 1 + 1 ELSE 0) /\ l \in Nat /\ l >= 1
        BY <1>0, <2>2
      <3> HIDE DEF q, l
      <3>2. q = l - 1
        BY <3>1
      <3> QED BY <3>2 DEF q
    <2> HIDE DEF k
    <2>4. \A i \in 1..(l - 1) : i \in 1..(l - 1 - 1 + 1) /\ 1 + i - 1 = i
      BY <1>0
    <2>5. \A i \in 1..(l - 1) : k[i] = h[i]
      BY <2>2, <2>4
    <2> QED BY <2>3, <2>5
  <1> HIDE DEF k
  <1>2. \A i \in 1..Len(k) : i \in 1..Len(h) /\ i < l /\ k[i] = h[i]
    BY <1>0, <1>1
  <1>3. Lined(k, g)
    BY <1>2 DEF Lined, Ordered
  <1>4. \A m \in Held(k), n \in Newest(h).from : m < n
    <2> SUFFICES ASSUME NEW i \in 1..Len(k), NEW m \in k[i].from, NEW n \in Newest(h).from
                 PROVE  m < n
      BY HeldBy
    <2> QED BY <1>0, <1>2 DEF Lined, Ordered
  <1>5. Held(h) = Held(k) \cup Newest(h).from
    <2>1. \A i \in 1..Len(h) : i \in 1..Len(k) \/ i = l
      BY <1>0, <1>1
    <2>2. Held(h) \subseteq Held(k) \cup Newest(h).from
      BY <1>0, <1>2, <2>1, HeldBy
    <2>3. Held(k) \cup Newest(h).from \subseteq Held(h)
      BY <1>0, <1>2, HeldBy
    <2> QED BY <2>2, <2>3
  <1>6. MadeOf(Newest(h), g)
    BY <1>0 DEF Lined
  <1> QED BY <1>1, <1>3, <1>4, <1>5, <1>6 DEF k

\* The conversation with one more message.
LEMMA OneMore ==
    ASSUME NEW g \in Seq(Message), NEW m \in Message
    PROVE  /\ Len(g) \in Nat /\ Len(Append(g, m)) = Len(g) + 1
           /\ \A i \in 1..Len(g) : Append(g, m)[i] = g[i]
           /\ Append(g, m)[Len(g) + 1] = m
  BY AppendProperties, LenProperties

LEMMA MadeOfMore ==
    ASSUME NEW g \in Seq(Message), NEW m \in Message, NEW e, MadeOf(e, g)
    PROVE  MadeOf(e, Append(g, m))
  <1> DEFINE k == Append(g, m)
  <1>1. /\ Len(g) \in Nat /\ Len(k) = Len(g) + 1
        /\ \A i \in 1..Len(g) : k[i] = g[i]
    BY OneMore
  <1> HIDE DEF k
  <1>2. \A n \in e.from : n \in 1..Len(g) /\ n \in 1..Len(k) /\ k[n] = g[n]
    BY <1>1 DEF MadeOf
  <1>3. Ids(k, e.from) = Ids(g, e.from)
    BY <1>2 DEF Ids
  <1> QED BY <1>2, <1>3 DEF MadeOf, k

\* A tool result that does not answer the user belongs to the assistant's last call.
LEMMA RunsKept ==
    ASSUME NEW g \in Seq(Message), NEW m \in Message, ToolsFollow(g) => Runs(g),
           ToolsFollow(Append(g, m))
    PROVE  ToolsFollow(g) /\ Runs(Append(g, m))
  <1> DEFINE k == Append(g, m)
             n == Len(g)
  <1>1. /\ n \in Nat /\ Len(k) = n + 1
        /\ \A i \in 1..n : k[i] = g[i]
        /\ \A i \in 1..n : g[i] \in Message
    BY OneMore, ElementOfSeq
  <1>2. ToolsFollow(k)
    OBVIOUS
  <1> HIDE DEF k, n
  <1>3. ASSUME NEW i \in 1..n, g[i].role = "tool"
        PROVE  i > 1 /\ g[i - 1].role # "user"
    <2>1. i \in 1..Len(k) /\ k[i].role = "tool"
      BY <1>1, <1>3
    <2>2. i > 1 /\ k[i - 1].role # "user"
      BY <1>2, <2>1 DEF ToolsFollow
    <2>3. i - 1 \in 1..n
      BY <1>1, <2>2
    <2> QED BY <1>1, <2>2, <2>3
  <1>4. ToolsFollow(g) /\ Runs(g)
    BY <1>3 DEF ToolsFollow, n
  <1>5. ASSUME NEW j \in 1..n, g[j].role = "tool"
        PROVE  \E i \in 1..(j - 1) : /\ k[i].role = "assistant"
                                     /\ \A l \in (i + 1)..j : k[l].role = "tool"
    <2>1. PICK i \in 1..(j - 1) : /\ g[i].role = "assistant"
                                  /\ \A l \in (i + 1)..j : g[l].role = "tool"
      BY <1>4, <1>5 DEF Runs, n
    <2>2. i \in 1..n /\ \A l \in (i + 1)..j : l \in 1..n
      BY <1>1
    <2> QED BY <1>1, <2>1, <2>2
  <1>6. ASSUME NEW j \in 1..Len(k), k[j].role = "tool"
        PROVE  \E i \in 1..(j - 1) : /\ k[i].role = "assistant"
                                     /\ \A l \in (i + 1)..j : k[l].role = "tool"
    <2>1. CASE j \in 1..n
      BY <1>1, <1>5, <1>6, <2>1
    <2>2. CASE j = n + 1
      <3>1. j > 1 /\ k[j - 1].role # "user" /\ j - 1 = n
        BY <1>1, <1>2, <1>6, <2>2 DEF ToolsFollow
      <3>2. n \in 1..n /\ n \in 1..(j - 1) /\ k[n] = g[n] /\ g[n] \in Message
        BY <1>1, <2>2, <3>1
      <3>3. g[n].role \in {"assistant", "tool"}
        <4>1. \A x \in Message : x.role \in {"user", "assistant", "tool"}
          BY DEF Message
        <4> QED BY <3>1, <3>2, <4>1
      <3>4. CASE g[n].role = "assistant"
        <4>1. \A l \in (n + 1)..j : l = j
          BY <1>1, <2>2
        <4> QED BY <1>6, <3>2, <3>4, <4>1
      <3>5. CASE g[n].role = "tool"
        <4>1. PICK i \in 1..(n - 1) : /\ k[i].role = "assistant"
                                      /\ \A l \in (i + 1)..n : k[l].role = "tool"
          BY <1>5, <3>2, <3>5
        <4>2. i \in 1..(j - 1) /\ \A l \in (i + 1)..j : l \in (i + 1)..n \/ l = j
          BY <1>1, <2>2
        <4> QED BY <1>6, <4>1, <4>2
      <3> QED BY <3>3, <3>4, <3>5
    <2> QED BY <1>1, <2>1, <2>2
  <1> QED BY <1>4, <1>6 DEF Runs, k

\* A message opens a turn of its own.
LEMMA HeardOwnTurn ==
    ASSUME NEW h \in Seq(Entry), NEW g \in Seq(Message), NEW m \in Message, Heard(h, g),
           NEW e \in Entry, e.from = {Len(g) + 1}, MadeOf(e, Append(g, m)),
           IsResults(e) => h # <<>> /\ Newest(h).kind = "assistant"
    PROVE  Heard(Append(h, e), Append(g, m))
  <1> DEFINE k == Append(g, m)
             r == Append(h, e)
  <1>1. /\ Len(g) \in Nat /\ Len(k) = Len(g) + 1
        /\ Len(h) \in Nat /\ Len(r) = Len(h) + 1
        /\ \A i \in 1..Len(h) : r[i] = h[i]
        /\ r[Len(h) + 1] = e
    BY OneMore, AppendedParts, LenProperties
  <1>2. Lined(h, k) /\ Held(h) = 1..Len(g)
    BY MadeOfMore DEF Heard, Lined
  <1>3. MadeOf(e, k)
    OBVIOUS
  <1> HIDE DEF k
  <1>4. Lined(r, k) /\ Held(r) = Held(h) \cup e.from
    <2>1. \A a \in Held(h), b \in e.from : a < b
      BY <1>1, <1>2
    <2> QED BY <1>2, <1>3, <2>1, LinedAppend
  <1> HIDE DEF r
  <1>5. Held(r) = 1..Len(k)
    BY <1>1, <1>2, <1>4
  <1>6. ASSUME NEW i \in 1..(Len(r) - 1), IsResults(r[i + 1])
        PROVE  r[i].kind = "assistant"
    <2>1. CASE i < Len(h)
      <3>1. i \in 1..(Len(h) - 1) /\ i \in 1..Len(h) /\ i + 1 \in 1..Len(h)
        BY <1>1, <2>1
      <3>2. r[i] = h[i] /\ r[i + 1] = h[i + 1]
        BY <1>1, <3>1
      <3> QED BY <1>6, <3>1, <3>2 DEF Heard
    <2>2. CASE i = Len(h)
      <3>1. r[i + 1] = e /\ i \in 1..Len(h) /\ r[i] = h[i]
        BY <1>1, <2>2
      <3> QED BY <1>6, <2>2, <3>1 DEF Newest
    <2> QED BY <1>1, <2>1, <2>2
  <1> QED BY <1>4, <1>5, <1>6 DEF Heard, k, r

\* A tool result joins the results it follows.
LEMMA HeardJoined ==
    ASSUME NEW h \in Seq(Entry), NEW g \in Seq(Message), NEW m \in Message, Heard(h, g),
           m.role = "tool", m.id \in Calls, h # <<>>, IsResults(Newest(h))
    PROVE  Heard(Append(ButNewest(h), UserTurn(Newest(h).results \cup {m.id},
                                               Newest(h).from \cup {Len(g) + 1})),
                 Append(g, m))
  <1> DEFINE k == Append(g, m)
             c == ButNewest(h)
             w == Newest(h)
             n == Len(g) + 1
             u == UserTurn(w.results \cup {m.id}, w.from \cup {n})
             r == Append(c, u)
  <1>1. /\ Len(g) \in Nat /\ n \in Nat /\ Len(k) = n /\ k[n] = m
        /\ \A i \in 1..Len(g) : k[i] = g[i]
    BY OneMore
  <1>2. Lined(h, k) /\ Held(h) = 1..Len(g)
    BY MadeOfMore DEF Heard, Lined
  <1> HIDE DEF k
  <1>3. /\ Lined(c, k) /\ Held(h) = Held(c) \cup w.from
        /\ \A a \in Held(c), b \in w.from : a < b
        /\ MadeOf(w, k)
        /\ Len(c) = Len(h) - 1 /\ \A i \in 1..(Len(h) - 1) : c[i] = h[i]
    BY <1>2, LinedButNewest
  <1>4. c \in Seq(Entry) /\ w \in Entry /\ Len(h) \in Nat /\ Len(h) >= 1 /\ w = h[Len(h)]
    BY ButNewestTyped, LenProperties, EmptySeq DEF Newest
  <1>5. u \in Entry
    <2>1. w.results \cup {m.id} \in SUBSET Calls /\ w.from \cup {n} \in SUBSET Nat
      BY <1>1, <1>4, EntryParts
    <2> QED BY <2>1, TurnsTyped
  <1>6. /\ u.kind = "user" /\ u.text /\ u.uses = {}
        /\ u.results = w.results \cup {m.id} /\ u.from = w.from \cup {n}
    BY DEF UserTurn
  <1>7. IsResults(w)
    OBVIOUS
  <1> HIDE DEF c, w, u
  <1>8. MadeOf(u, k)
    <2>1. RoleOf(u) = "tool" /\ RoleOf(w) = "tool"
      BY <1>6, <1>7 DEF RoleOf, IsResults
    <2>2. /\ u.from # {} /\ u.from \subseteq 1..Len(k)
          /\ \A i \in u.from : k[i].role = "tool"
      BY <1>1, <1>3, <1>6, <2>1 DEF MadeOf
    <2>3. Ids(k, u.from) = Ids(k, w.from) \cup {m.id}
      BY <1>1, <1>6 DEF Ids
    <2>4. u.results = Ids(k, u.from)
      BY <1>3, <1>6, <2>3 DEF MadeOf
    <2> QED BY <1>6, <2>1, <2>2, <2>4 DEF MadeOf
  <1>9. \A a \in Held(c), b \in u.from : a < b
    <2>1. \A a \in Held(c) : a \in 1..Len(g) /\ a < n
      BY <1>1, <1>2, <1>3
    <2> QED BY <1>3, <1>6, <2>1
  <1>10. Lined(r, k) /\ Held(r) = Held(c) \cup u.from
    BY <1>3, <1>4, <1>5, <1>8, <1>9, LinedAppend
  <1>11. Held(r) = 1..Len(k)
    <2>1. Held(r) = (1..Len(g)) \cup {n}
      BY <1>2, <1>3, <1>6, <1>10
    <2> QED BY <1>1, <2>1
  <1>12. /\ Len(r) = Len(h)
         /\ \A i \in 1..(Len(h) - 1) : r[i] = h[i]
         /\ r[Len(h)] = u
    <2>1. /\ Len(r) = Len(c) + 1
          /\ \A i \in 1..Len(c) : r[i] = c[i]
          /\ r[Len(c) + 1] = u
      BY <1>4, <1>5, AppendedParts
    <2> HIDE DEF r
    <2> QED BY <1>3, <1>4, <2>1
  <1> HIDE DEF r
  <1>13. ASSUME NEW i \in 1..(Len(r) - 1), IsResults(r[i + 1])
         PROVE  r[i].kind = "assistant"
    <2>1. i \in 1..(Len(h) - 1) /\ r[i] = h[i]
      BY <1>12
    <2>2. IsResults(h[i + 1])
      <3>1. CASE i + 1 = Len(h)
        BY <1>4, <1>7, <3>1
      <3>2. CASE i + 1 # Len(h)
        <4>1. i + 1 \in 1..(Len(h) - 1)
          BY <1>4, <2>1, <3>2
        <4> QED BY <1>12, <1>13, <4>1
      <3> QED BY <3>1, <3>2
    <2> QED BY <2>1, <2>2 DEF Heard
  <1> QED BY <1>10, <1>11, <1>13 DEF Heard, k, r, u, c, w

LEMMA AddedHeard ==
    ASSUME NEW h \in Seq(Entry), NEW g \in Seq(Message), NEW m \in Message, Heard(h, g),
           ToolsFollow(Append(g, m)), m.role = "tool" => m.id # NoCall
    PROVE  Heard(Added(h, m, Len(g) + 1), Append(g, m))
  <1> DEFINE k == Append(g, m)
             n == Len(g) + 1
  <1>1. /\ Len(g) \in Nat /\ n \in Nat /\ Len(k) = n /\ k[n] = m /\ n \in 1..Len(k)
        /\ \A i \in 1..Len(g) : k[i] = g[i]
    BY OneMore
  <1>2. ToolsFollow(k)
    OBVIOUS
  <1>3. m.role \in {"user", "assistant", "tool"}
    BY DEF Message
  <1>4. CASE m.role = "user"
    <2> DEFINE u == UserTurn({}, {n})
    <2>1. u \in Entry
      BY <1>1, TurnsTyped
    <2>2. u.from = {n} /\ u.kind = "user" /\ u.text /\ u.uses = {} /\ u.results = {}
      BY DEF UserTurn
    <2> HIDE DEF k, u
    <2>3. Ids(k, u.from) = {}
      BY <1>1, <1>4, <2>2 DEF Ids
    <2>4. MadeOf(u, k) /\ ~IsResults(u)
      BY <1>1, <1>4, <2>2, <2>3 DEF MadeOf, RoleOf, IsResults
    <2>5. Heard(Append(h, u), k)
      BY <2>1, <2>2, <2>4, HeardOwnTurn DEF k
    <2> QED BY <1>4, <2>5 DEF Added, u, k
  <1>5. CASE m.role = "assistant"
    <2> DEFINE a == AssistantTurn(m.text, m.uses, {n})
    <2>1. m.text \in BOOLEAN /\ m.uses \in SUBSET Calls
      BY <1>5 DEF Message
    <2>2. a \in Entry
      BY <1>1, <2>1, TurnsTyped
    <2>3. /\ a.from = {n} /\ a.kind = "assistant" /\ a.text = m.text /\ a.uses = m.uses
          /\ a.results = {}
      BY DEF AssistantTurn
    <2> HIDE DEF k, a
    <2>4. Ids(k, a.from) = {}
      BY <1>1, <1>5, <2>3 DEF Ids
    <2>5. MadeOf(a, k) /\ ~IsResults(a)
      BY <1>1, <1>5, <2>3, <2>4 DEF MadeOf, RoleOf, IsResults
    <2>6. Heard(Append(h, a), k)
      BY <2>2, <2>3, <2>5, HeardOwnTurn DEF k
    <2> QED BY <1>5, <2>6 DEF Added, a, k
  <1>6. CASE m.role = "tool"
    <2>1. m.id # NoCall /\ m.id \in Calls
      BY <1>6 DEF Message
    <2>2. Len(g) \in Nat \ {0} /\ g[Len(g)].role # "user"
      <3>1. n > 1 /\ k[n - 1].role # "user"
        BY <1>1, <1>2, <1>6 DEF ToolsFollow
      <3>2. Len(g) \in 1..Len(g) /\ n - 1 = Len(g) /\ Len(g) # 0
        BY <1>1, <3>1
      <3> QED BY <1>1, <3>1, <3>2
    <2>3. /\ Len(h) \in 1..Len(h)
          /\ RoleOf(Newest(h)) # "user"
      BY <2>2, LastTurn DEF Heard
    <2>4. h # <<>> /\ Newest(h) \in Entry
      <3>1. h # <<>>
        BY <2>3, EmptySeq
      <3> QED BY <3>1, ButNewestTyped
    <2>5. CASE EndsInUser(h)
      <3>1. IsResults(Newest(h))
        BY <2>3, <2>5 DEF EndsInUser, RoleOf, IsResults
      <3>2. Heard(Append(ButNewest(h), UserTurn(Newest(h).results \cup {m.id},
                                                Newest(h).from \cup {n})), k)
        BY <1>6, <2>1, <2>4, <3>1, HeardJoined
      <3>3. Added(h, m, n) = Append(ButNewest(h), UserTurn(Newest(h).results \cup {m.id},
                                                           Newest(h).from \cup {n}))
        BY <1>6, <2>1, <2>5 DEF Added
      <3> QED BY <3>2, <3>3, Zenon
    <2>6. CASE ~EndsInUser(h)
      <3> DEFINE u == UserTurn({m.id}, {n})
      <3>1. Newest(h).kind = "assistant"
        BY <2>4, <2>6 DEF EndsInUser, Entry
      <3>2. u \in Entry
        BY <1>1, <2>1, TurnsTyped
      <3>3. u.from = {n} /\ u.kind = "user" /\ u.text /\ u.uses = {} /\ u.results = {m.id}
        BY DEF UserTurn
      <3> HIDE DEF k, u
      <3>4. Ids(k, u.from) = {m.id}
        BY <1>1, <1>6, <3>3 DEF Ids
      <3>5. MadeOf(u, k)
        BY <1>1, <1>6, <3>3, <3>4 DEF MadeOf, RoleOf
      <3>6. Heard(Append(h, u), k)
        BY <2>4, <3>1, <3>2, <3>3, <3>5, HeardOwnTurn DEF k
      <3> QED BY <1>6, <2>1, <2>6, <3>6 DEF Added, u, k
    <2> QED BY <2>5, <2>6
  <1> QED BY <1>3, <1>4, <1>5, <1>6

-----------------------------------------------------------------------------
(* The messages are read to the end.                                          *)

LEMMA InOrderParts ==
    ASSUME TypeOK, InOrder
    PROVE  /\ Len(given) \in Nat \ {0} /\ given[1].role = "user"
           /\ ToolsFollow(given)
           /\ \A i \in 1..Len(given) :
                 given[i].role = "assistant" =>
                     given[i].text /\ {given[j].id : j \in ToolRun(i)} = given[i].uses
  <1>1. Len(given) \in Nat \ {0}
    BY EmptySeq DEF TypeOK, InOrder
  <1>2. ToolsFollow(given)
    <2> SUFFICES ASSUME NEW i \in 1..Len(given), given[i].role = "tool"
                 PROVE  i > 1 /\ given[i - 1].role # "user"
      BY DEF ToolsFollow
    <2>1. i # 1
      BY DEF InOrder
    <2> QED BY <2>1 DEF InOrder
  <1> QED BY <1>1, <1>2 DEF InOrder

\* Every result was asked for by a call, so it has an id.
LEMMA ResultsHaveIds ==
    ASSUME TypeOK, InOrder, Runs(given)
    PROVE  Answering(given)
  <1>0. Len(given) \in Nat \ {0} /\ \A i \in 1..Len(given) : given[i] \in Message
    BY InOrderParts, ElementOfSeq DEF TypeOK
  <1>1. ASSUME NEW j \in 1..Len(given), given[j].role = "tool"
        PROVE  given[j].id # NoCall
    <2>1. PICK i \in 1..(j - 1) : /\ given[i].role = "assistant"
                                  /\ \A l \in (i + 1)..j : given[l].role = "tool"
      BY <1>1 DEF Runs
    <2>2. i \in 1..Len(given) /\ j \in (i + 1)..Len(given)
      BY <1>0
    <2>3. j \in ToolRun(i)
      BY <2>1, <2>2 DEF ToolRun
    <2>4. given[j].id \in given[i].uses
      BY <2>1, <2>2, <2>3, InOrderParts
    <2>5. given[i].uses \in SUBSET Calls
      BY <1>0, <2>1, <2>2 DEF Message
    <2> QED BY <2>4, <2>5, NoCallAssumption
  <1> QED BY <1>1, InOrderParts DEF Answering

\* The results beside an assistant's turn are those of its calls, and all of them.
LEMMA CallsAnswered ==
    ASSUME TypeOK, InOrder, Heard(out, given), NEW i \in 1..(Len(out) - 1),
           IsResults(out[i + 1])
    PROVE  Answers(out[i + 1], out[i])
  <1>0. /\ Len(out) \in Nat /\ i \in 1..Len(out) /\ i + 1 \in 1..Len(out)
        /\ Len(given) \in Nat /\ out \in Seq(Entry)
        /\ \A q \in 1..Len(out) : out[q] \in Entry
    BY LenProperties, ElementOfSeq, InOrderParts DEF TypeOK
  <1>1. /\ Lined(out, given) /\ Held(out) = 1..Len(given)
        /\ \A q \in 1..(Len(out) - 1) : IsResults(out[q + 1]) => out[q].kind = "assistant"
    BY DEF Heard
  <1>2. out[i].kind = "assistant" /\ MadeOf(out[i], given) /\ MadeOf(out[i + 1], given)
    BY <1>0, <1>1 DEF Lined
  <1>3. PICK n \in out[i].from : TRUE
    BY <1>2 DEF MadeOf
  <1>4. /\ out[i].from = {n} /\ n \in 1..Len(given)
        /\ given[n].role = "assistant" /\ given[n].uses = out[i].uses
    BY <1>2, <1>3 DEF MadeOf, RoleOf
  <1>5. RoleOf(out[i + 1]) = "tool"
    BY DEF IsResults, RoleOf
  <1>6. ASSUME NEW m \in out[i + 1].from
        PROVE  m \in ToolRun(n)
    <2>1. m \in 1..Len(given) /\ n < m
      <3>1. m \in 1..Len(given)
        BY <1>0, <1>1, InTurns
      <3>2. i < i + 1
        BY <1>0
      <3> QED BY <1>0, <1>1, <1>3, <3>1, <3>2 DEF Lined, Ordered
    <2>2. ASSUME NEW l \in (n + 1)..m
          PROVE  given[l].role = "tool"
      <3>1. l \in 1..Len(given) /\ n <= l /\ l <= m /\ l # n
        BY <1>4, <2>1
      <3>2. PICK q \in 1..Len(out) : l \in out[q].from
        BY <1>1, <3>1, HeldBy
      <3>3. i <= q /\ q <= i + 1
        BY <1>0, <1>1, <1>3, <3>1, <3>2, TurnsInOrder
      <3>4. q # i
        BY <1>4, <3>1, <3>2
      <3>5. q = i + 1
        BY <1>0, <3>3, <3>4
      <3> QED BY <1>0, <1>1, <1>5, <3>2, <3>5, InTurns
    <2>3. m \in (n + 1)..Len(given)
      BY <1>4, <2>1
    <2> QED BY <2>2, <2>3 DEF ToolRun
  <1>7. ASSUME NEW m \in ToolRun(n)
        PROVE  m \in out[i + 1].from
    <2>1. m \in (n + 1)..Len(given) /\ \A l \in (n + 1)..m : given[l].role = "tool"
      BY DEF ToolRun
    <2>2. m \in 1..Len(given) /\ n <= m /\ m # n
      BY <1>4, <2>1
    <2>3. PICK q \in 1..Len(out) : m \in out[q].from
      BY <1>1, <2>2, HeldBy
    <2>4. i <= q /\ q # i
      BY <1>0, <1>1, <1>3, <1>4, <2>2, <2>3, TurnsInOrder
    <2>5. ~(q > i + 1)
      <3> SUFFICES ASSUME q > i + 1 PROVE FALSE
        OBVIOUS
      <3>1. i + 1 + 1 \in 1..Len(out) /\ i + 1 \in 1..(Len(out) - 1) /\ i + 1 + 1 <= q
            /\ i < i + 1 + 1
        BY <1>0
      <3>2. MadeOf(out[i + 1 + 1], given)
        BY <1>1, <3>1 DEF Lined
      \* a message of the turn after next that is not after m
      <3>3. PICK r \in out[i + 1 + 1].from : r <= m
        <4>1. PICK r \in out[i + 1 + 1].from : TRUE
          BY <3>2 DEF MadeOf
        <4>2. r \in 1..Len(given)
          BY <1>0, <1>1, <3>1, <4>1, InTurns
        <4>3. CASE q = i + 1 + 1
          BY <2>2, <2>3, <4>3
        <4>4. CASE q # i + 1 + 1
          <5>1. i + 1 + 1 < q
            BY <1>0, <3>1, <4>4
          <5>2. r < m
            BY <1>1, <2>3, <3>1, <4>1, <5>1 DEF Lined, Ordered
          <5> QED BY <2>2, <4>1, <4>2, <5>2
        <4> QED BY <4>3, <4>4
      <3>4. r \in 1..Len(given) /\ given[r].role = RoleOf(out[i + 1 + 1])
        BY <1>0, <1>1, <3>1, <3>3, InTurns
      <3>5. n < r
        BY <1>0, <1>1, <1>3, <3>1, <3>3 DEF Lined, Ordered
      <3>6. r \in (n + 1)..m
        BY <1>4, <2>2, <3>3, <3>4, <3>5
      <3>7. RoleOf(out[i + 1 + 1]) = "tool"
        BY <2>1, <3>4, <3>6
      <3>8. IsResults(out[i + 1 + 1])
        BY <1>0, <3>1, <3>7 DEF RoleOf, IsResults, Entry
      <3>9. out[i + 1].kind = "assistant"
        BY <1>1, <3>1, <3>8
      <3> QED BY <3>9 DEF IsResults
    <2>6. q = i + 1
      BY <1>0, <2>4, <2>5
    <2> QED BY <2>3, <2>6
  <1>8. out[i + 1].from = ToolRun(n)
    BY <1>6, <1>7
  <1>9. out[i + 1].results = {given[j].id : j \in ToolRun(n)}
    <2>1. \A j \in ToolRun(n) : given[j].role = "tool"
      BY <1>0, <1>1, <1>5, <1>8, InTurns
    <2>2. out[i + 1].results = Ids(given, ToolRun(n))
      BY <1>2, <1>8 DEF MadeOf
    <2> QED BY <2>1, <2>2 DEF Ids
  <1>10. out[i + 1].results = out[i].uses
    BY <1>4, <1>9, InOrderParts
  <1> QED BY <1>2, <1>10 DEF Answers, IsCall, IsResults

\* A call is followed by its results.
LEMMA CallsFollowed ==
    ASSUME TypeOK, InOrder, Heard(out, given), NEW i \in 1..(Len(out) - 1), IsCall(out[i])
    PROVE  IsResults(out[i + 1])
  <1>0. /\ Len(out) \in Nat /\ i \in 1..Len(out) /\ i + 1 \in 1..Len(out)
        /\ Len(given) \in Nat /\ out \in Seq(Entry)
        /\ \A q \in 1..Len(out) : out[q] \in Entry
    BY LenProperties, ElementOfSeq, InOrderParts DEF TypeOK
  <1>1. Lined(out, given) /\ Held(out) = 1..Len(given)
    BY DEF Heard
  <1>2. out[i].kind = "assistant" /\ out[i].uses # {} /\ MadeOf(out[i], given)
    BY <1>0, <1>1 DEF Lined, IsCall
  <1>3. PICK n \in out[i].from : TRUE
    BY <1>2 DEF MadeOf
  <1>4. /\ out[i].from = {n} /\ n \in 1..Len(given)
        /\ given[n].role = "assistant" /\ given[n].uses = out[i].uses
    BY <1>2, <1>3 DEF MadeOf, RoleOf
  <1>5. PICK j \in ToolRun(n) : TRUE
    <2>1. {given[j].id : j \in ToolRun(n)} # {}
      BY <1>2, <1>4, InOrderParts
    <2> QED BY <2>1
  <1>6. n + 1 \in 1..Len(given) /\ given[n + 1].role = "tool"
    <2>1. j \in (n + 1)..Len(given) /\ \A l \in (n + 1)..j : given[l].role = "tool"
      BY <1>5 DEF ToolRun
    <2>2. n + 1 \in (n + 1)..j /\ n + 1 \in 1..Len(given)
      BY <1>4, <2>1
    <2> QED BY <2>1, <2>2
  <1>7. PICK q \in 1..Len(out) : n + 1 \in out[q].from
    BY <1>1, <1>6, HeldBy
  <1>8. i <= q /\ q # i
    <2>1. n <= n + 1 /\ n + 1 # n
      BY <1>4
    <2> QED BY <1>0, <1>1, <1>3, <1>4, <1>7, <2>1, TurnsInOrder
  <1>9. ~(q > i + 1)
    <2> SUFFICES ASSUME q > i + 1 PROVE FALSE
      OBVIOUS
    <2>1. PICK r \in out[i + 1].from : TRUE
      BY <1>0, <1>1 DEF Lined, MadeOf
    <2>2. r \in 1..Len(given)
      BY <1>0, <1>1, <2>1, InTurns
    <2>3. r < n + 1 /\ n < r
      <3>1. i + 1 < q /\ i < i + 1
        BY <1>0
      <3> QED BY <1>0, <1>1, <1>3, <1>7, <2>1, <3>1 DEF Lined, Ordered
    <2> QED BY <1>4, <2>2, <2>3
  <1>10. q = i + 1
    BY <1>0, <1>8, <1>9
  <1>11. RoleOf(out[i + 1]) = "tool"
    BY <1>0, <1>1, <1>6, <1>7, <1>10, InTurns
  <1> QED BY <1>0, <1>11 DEF RoleOf, IsResults, Entry

LEMMA HeardTold ==
    ASSUME TypeOK, InOrder, Reading, pc = "read"
    PROVE  Told(out, given) /\ Held(out) = 1..Len(given)
  <1>1. Heard(out, given)
    BY InOrderParts, ResultsHaveIds DEF Reading
  <1>2. Chained(out)
    BY <1>1, CallsAnswered, CallsFollowed DEF Chained
  <1> QED BY <1>1, <1>2 DEF Heard, Told

-----------------------------------------------------------------------------
(* What the limits have room for.                                             *)

LEMMA CyclesCounted ==
    ASSUME NEW h \in Seq(Entry), NEW g, Len(g) \in Nat, Lined(h, g)
    PROVE  Cardinality({i \in 1..Len(h) : IsCall(h[i])}) <=
               Cardinality({i \in 1..Len(g) : g[i].role = "assistant" /\ g[i].uses # {}})
  <1> DEFINE S == {i \in 1..Len(h) : IsCall(h[i])}
             T == {i \in 1..Len(g) : g[i].role = "assistant" /\ g[i].uses # {}}
  <1>1. IsFiniteSet(T) /\ T \subseteq Nat
    <2>1. IsFiniteSet(1..Len(g))
      BY FS_Interval
    <2>2. T \in SUBSET (1..Len(g))
      OBVIOUS
    <2> HIDE DEF T
    <2>3. T \subseteq Nat
      BY <2>2
    <2> QED BY <2>1, <2>2, <2>3, FS_Subset
  <1>2. \A i \in S : \E n \in T : n \in h[i].from
    <2> SUFFICES ASSUME NEW i \in S PROVE \E n \in T : n \in h[i].from
      OBVIOUS
    <2>1. i \in 1..Len(h) /\ h[i].kind = "assistant" /\ h[i].uses # {} /\ MadeOf(h[i], g)
      BY DEF IsCall, Lined
    <2>2. PICK n \in h[i].from : TRUE
      BY <2>1 DEF MadeOf
    <2>3. n \in 1..Len(g) /\ g[n].role = "assistant" /\ g[n].uses = h[i].uses
      BY <2>1, <2>2 DEF MadeOf, RoleOf
    <2> QED BY <2>1, <2>2, <2>3
  <1>3. S \in SUBSET (1..Len(h)) /\ Ordered(h)
    BY DEF Lined
  <1> HIDE DEF S, T
  <1>4. Cardinality(S) <= Cardinality(T)
    BY <1>1, <1>2, <1>3, AsManyMessages
  <1> QED BY <1>4 DEF S, T

LEMMA TurnsCounted ==
    ASSUME TypeOK, given # <<>>, NEW h \in Seq(Entry), Lined(h, given), LastWord(h)
    PROVE  Len(h) <= Len(given) - 1
  <1>0. Len(h) \in Nat /\ Len(given) \in Nat /\ Len(given) >= 1
    BY LenProperties, EmptySeq DEF TypeOK
  <1> DEFINE S == 1..Len(h)
             T == 1..(Len(given) - 1)
  <1>1. IsFiniteSet(T) /\ T \subseteq Nat /\ Cardinality(T) = Len(given) - 1
    <2>1. Len(given) - 1 \in Int /\ 1 \in Int
      BY <1>0
    <2>2. /\ IsFiniteSet(T)
          /\ Cardinality(T) = IF 1 > Len(given) - 1 THEN 0 ELSE Len(given) - 1 - 1 + 1
      BY <2>1, FS_Interval
    <2> QED BY <1>0, <2>2
  <1>2. Cardinality(S) = Len(h)
    <2>1. Len(h) \in Int /\ 1 \in Int
      BY <1>0
    <2>2. Cardinality(S) = IF 1 > Len(h) THEN 0 ELSE Len(h) - 1 + 1
      BY <2>1, FS_Interval
    <2> QED BY <1>0, <2>2
  <1>3. \A i \in S : \E n \in T : n \in h[i].from
    <2> SUFFICES ASSUME NEW i \in S PROVE \E n \in T : n \in h[i].from
      OBVIOUS
    <2>1. PICK n \in h[i].from : TRUE
      BY DEF Lined, MadeOf
    <2>2. n \in 1..Len(given)
      BY <2>1, InTurns
    <2>3. n < Len(given)
      BY <2>1, HeldBy DEF LastWord
    <2>4. n \in T
      BY <1>0, <2>2, <2>3
    <2> QED BY <2>1, <2>4
  <1>4. S \in SUBSET (1..Len(h)) /\ Ordered(h)
    BY DEF Lined
  <1> HIDE DEF S, T
  <1>5. Cardinality(S) <= Cardinality(T)
    BY <1>1, <1>3, <1>4, AsManyMessages
  <1> QED BY <1>1, <1>2, <1>5

LEMMA WeightCounted ==
    ASSUME NEW h \in Seq(Entry), NEW g, Len(g) \in Nat, Lined(h, g)
    PROVE  Weight(h) \in Nat /\ Weight(h) <= Len(g)
  <1>1. IsFiniteSet(1..Len(g)) /\ Cardinality(1..Len(g)) = Len(g)
    <2>1. /\ IsFiniteSet(1..Len(g))
          /\ Cardinality(1..Len(g)) = IF 1 > Len(g) THEN 0 ELSE Len(g) - 1 + 1
      BY FS_Interval
    <2> QED BY <2>1
  <1>2. Held(h) \in SUBSET (1..Len(g))
    BY HeldIsPast
  <1>3. IsFiniteSet(Held(h)) /\ Cardinality(Held(h)) <= Len(g)
    BY <1>1, <1>2, FS_Subset
  <1>4. Cardinality(Held(h)) \in Nat
    BY <1>3, FS_CardinalityType
  <1>5. Weight(h) = Cardinality(Held(h))
    BY DEF Weight, Held
  <1> QED BY <1>3, <1>4, <1>5

-----------------------------------------------------------------------------
(* The steps keep the history in order.                                       *)

LEMMA ReadingKept ==
    ASSUME TypeOK, Reading, [Next]_vars
    PROVE  Reading'
  <1>1. CASE Read
    <2>1. PICK m \in Message : /\ given' = Append(given, m)
                               /\ out' = Added(out, m, Len(given) + 1)
      BY <1>1 DEF Read
    <2>2. /\ pc = "read" /\ work = <<>> /\ work' = work
          /\ given \in Seq(Message) /\ out \in Seq(Entry)
          /\ ToolsFollow(given) => Runs(given)
          /\ Answering(given) => Heard(out, given)
      BY <1>1 DEF Read, Reading, TypeOK
    <2>3. ToolsFollow(given') => Runs(given')
      BY <2>1, <2>2, RunsKept
    <2>4. Answering(given') => Heard(out', given')
      <3> SUFFICES ASSUME Answering(given') PROVE Heard(out', given')
        OBVIOUS
      <3> DEFINE k == Append(given, m)
      <3>1. /\ Len(given) \in Nat /\ Len(k) = Len(given) + 1
            /\ \A i \in 1..Len(given) : k[i] = given[i]
            /\ k[Len(given) + 1] = m
        BY <2>2, OneMore
      <3>2. Answering(k) /\ ToolsFollow(k)
        BY <2>1 DEF Answering
      <3>3. ToolsFollow(given)
        BY <2>2, <3>2, RunsKept
      <3> HIDE DEF k
      <3>4. Answering(given)
        <4>1. ASSUME NEW i \in 1..Len(given), given[i].role = "tool"
              PROVE  given[i].id # NoCall
          BY <3>1, <3>2, <4>1 DEF Answering
        <4> QED BY <3>3, <4>1 DEF Answering
      <3>5. m.role = "tool" => m.id # NoCall
        <4>1. Len(given) + 1 \in 1..Len(k)
          BY <3>1
        <4> QED BY <3>1, <3>2, <4>1 DEF Answering
      <3>6. Heard(Added(out, m, Len(given) + 1), k)
        BY <2>2, <3>2, <3>4, <3>5, AddedHeard DEF k
      <3> QED BY <2>1, <3>6 DEF k
    <2> QED BY <2>2, <2>3, <2>4 DEF Reading
  <1>2. CASE UNCHANGED vars
    BY <1>2 DEF vars, Reading
  <1>3. CASE Next /\ ~Read
    <2>1. pc' # "read"
      BY <1>3 DEF Next, EndOfMessages, Start, Collapse, Pop, Compact, Trim, Retrim,
                  Validate, Strip, Pair
    <2> QED BY <2>1 DEF Reading
  <1> QED BY <1>1, <1>2, <1>3

\* A step that leaves the turns, the current turn and the conversation as they are.
LEMMA SameTurns ==
    ASSUME Turns' = Turns, UNCHANGED <<given, current, rest>>, Told(Turns, given)
    PROVE  Told(Turns', given') /\ (CutRight(Turns) => CutRight(Turns)')
  <1> DEFINE h == Turns
  <1>1. Told(Turns', given')
    OBVIOUS
  <1>2. CutRight(Turns) => CutRight(Turns)'
    <2>1. given' = given /\ current' = current /\ rest' = rest
      OBVIOUS
    <2> QED BY <2>1 DEF CutRight, Spoken, UserLast, WithinLimits, Everything, LastWord
  <1> QED BY <1>1, <1>2

LEMMA InOrderKept ==
    ASSUME [Next]_vars, pc' # "read", InOrder'
    PROVE  given' = given /\ InOrder
  <1>1. given' = given
    BY DEF Next, vars, Read, EndOfMessages, Start, Collapse, Pop, Compact, Trim, Retrim,
           Validate, Strip, Pair
  <1>2. \A i : ToolRun(i)' = ToolRun(i)
    BY <1>1 DEF ToolRun
  <1>3. /\ given # <<>> /\ given[1].role = "user"
        /\ \A i \in 1..Len(given) : given[i].role = "tool" => given[i - 1].role # "user"
    BY <1>1 DEF InOrder
  <1>4. ASSUME NEW i \in 1..Len(given), given[i].role = "assistant"
        PROVE  /\ given[i].text
               /\ {given[j].id : j \in ToolRun(i)} = given[i].uses
               /\ Cardinality(ToolRun(i)) = Cardinality(given[i].uses)
    <2>1. i \in 1..Len(given') /\ given'[i].role = "assistant"
      BY <1>1, <1>4
    <2>2. /\ given'[i].text
          /\ {given'[j].id : j \in ToolRun(i)'} = given'[i].uses
          /\ Cardinality(ToolRun(i)') = Cardinality(given'[i].uses)
      BY <2>1 DEF InOrder
    <2>3. ToolRun(i)' = ToolRun(i)
      BY <1>2
    <2> QED BY <1>1, <2>2, <2>3
  <1> QED BY <1>1, <1>3, <1>4 DEF InOrder

LEMMA EndKeepsTelling ==
    ASSUME TypeOK, Reading, InOrder, EndOfMessages
    PROVE  (Told(Turns, given) /\ Complete /\ Lists)'
  <1>1. /\ pc = "read" /\ pc' = "collapse" /\ work' = out /\ out' = <<>>
        /\ UNCHANGED <<given, current, rest>>
    BY DEF EndOfMessages, Start
  <1>2. Told(out, given) /\ Held(out) = 1..Len(given)
    BY <1>1, HeardTold
  <1>3. Turns' = out
    BY <1>1 DEF Turns, TypeOK
  <1> QED BY <1>1, <1>2, <1>3 DEF Complete, Lists

LEMMA CollapseKeepsTelling ==
    ASSUME TypeOK, Told(Turns, given), Complete, Collapse
    PROVE  (Told(Turns, given) /\ Complete /\ Lists)'
  <1>0. /\ out \in Seq(Entry) /\ work \in Seq(Entry)
        /\ pc = "collapse" /\ UNCHANGED <<given, current, rest>>
        /\ Held(Turns) = 1..Len(given)
    BY DEF TypeOK, Collapse, Complete
  <1>1. CASE work = <<>>
    <2>1. pc' = "pop" /\ work' = out /\ out' = <<>>
      BY <1>1 DEF Collapse, Start
    <2>2. Turns' = Turns
      BY <1>0, <1>1, <2>1, ConcatEmptySeq DEF Turns
    <2> QED BY <1>0, <2>1, <2>2, SameTurns DEF Complete, Lists
  <1>2. CASE work # <<>> /\ Joins(out, Head(work))
    <2> DEFINE e == Head(work)
    <2>1. /\ out # <<>> /\ IsPlain(Newest(out)) /\ IsPlain(e)
      BY <1>2 DEF Joins, EndsInUser
    <2>2. Turns' = JoinedTurns(out, work) /\ pc' = "collapse"
      BY <1>0, <1>2 DEF Collapse, Turns, JoinedTurns
    <2>3. Told(JoinedTurns(out, work), given) /\ Held(JoinedTurns(out, work)) = Held(Turns)
      <3> DEFINE k == JoinedTurns(out, work)
                 p == Len(out)
      <3>1. /\ k \in Seq(Entry) /\ Turns \in Seq(Entry)
            /\ p \in 1..(Len(Turns) - 1)
            /\ Turns[p] = Newest(out) /\ Turns[p + 1] = e
            /\ MergedAt(k, Turns, p)
        BY <1>0, <1>2, <2>1, JoinedIsMerged DEF Turns
      <3> HIDE DEF k, p
      <3>2. Told(k, given) /\ Held(k) = Held(Turns)
        BY <2>1, <3>1, MergeTold
      <3> QED BY <3>2 DEF k
    <2>4. Told(Turns', given') /\ Held(Turns') = 1..Len(given')
      BY <1>0, <2>2, <2>3
    <2> QED BY <2>2, <2>4 DEF Complete, Lists
  <1>3. CASE work # <<>> /\ ~Joins(out, Head(work))
    <2>1. pc' = "collapse" /\ out' = Append(out, Head(work)) /\ work' = Tail(work)
      BY <1>0, <1>3 DEF Collapse
    <2>2. Turns' = Turns
      BY <1>0, <1>3, <2>1, Shifted DEF Turns
    <2> QED BY <1>0, <2>1, <2>2, SameTurns DEF Complete, Lists
  <1> QED BY <1>1, <1>2, <1>3

LEMMA PopKeepsTelling ==
    ASSUME TypeOK, InOrder, Told(Turns, given), Complete, Lists, Pop
    PROVE  (Told(Turns, given) /\ Complete /\ Lists)'
  <1>0. /\ work \in Seq(Entry) /\ Len(work) \in Nat /\ pc = "pop" /\ pc' = "compact"
        /\ out = <<>> /\ UNCHANGED <<given, out, rest>>
        /\ Held(Turns) = 1..Len(given)
        /\ Len(given) \in Nat \ {0} /\ given[1].role = "user"
    BY InOrderParts, LenProperties DEF TypeOK, Pop, Complete, Lists
  <1>1. Turns = work
    BY <1>0 DEF Turns
  <1>2. Told(work, given) /\ Held(work) = 1..Len(given) /\ Lined(work, given) /\ Ordered(work)
    BY <1>0, <1>1 DEF Told, Lined
  <1>3. /\ 1 \in 1..Len(work) /\ IsPlain(work[1])
        /\ work[1].from \subseteq Opening(given)
    BY <1>0, <1>2, FirstTurn
  <1> DEFINE users == {i \in 1..Len(work) : work[i].kind = "user"}
             plain == {i \in users : IsPlain(work[i])}
  <1>4. 1 \in plain /\ 1 \in users
    BY <1>3 DEF IsPlain
  <1>5. PICK p \in users : /\ IsLast(p, plain)
                           /\ current' = UserTurn({}, work[p].from)
                           /\ work' = Without(work, p)
    <2>1. users # {} /\ plain # {}
      BY <1>4
    <2>2. \E i \in users : /\ IsLast(i, IF plain # {} THEN plain ELSE users)
                           /\ current' = UserTurn({}, work[i].from)
                           /\ work' = Without(work, i)
      BY <2>1 DEF Pop
    <2> HIDE DEF plain, users
    <2> QED BY <2>1, <2>2
  <1>6. /\ p \in 1..Len(work) /\ IsPlain(work[p])
        /\ \A i \in 1..Len(work) : IsPlain(work[i]) => i <= p
    BY <1>5 DEF IsLast, IsPlain
  <1>7. current'.from = work[p].from
    BY <1>5 DEF UserTurn
  <1> HIDE DEF users, plain
  <1> DEFINE k == Without(work, p)
  <1>8. Told(k, given) /\ Held(k) \cup work[p].from = 1..Len(given)
    BY <1>0, <1>2, <1>6, WithoutTold
  <1>9. /\ k \in Seq(Entry) /\ Len(k) = Len(work) - 1
        /\ \A i \in 1..Len(k) : k[i] = work[IF i < p THEN i ELSE i + 1]
    BY <1>0, <1>6, WithoutParts
  <1>10. work' = k /\ Turns' = k
    BY <1>0, <1>5, <1>9, ConcatEmptySeq DEF Turns
  <1> HIDE DEF k
  <1>11. ASSUME p # 1, k # <<>>
         PROVE  k[1] = work[1]
    <2>1. Len(k) \in Nat \ {0}
      BY <1>9, <1>11, EmptySeq
    <2>2. 1 \in 1..Len(k) /\ 1 < p
      BY <1>6, <1>11, <2>1
    <2> QED BY <1>9, <2>2
  <1>12. ASSUME NEW i \in 1..Len(k), IsPlain(k[i])
         PROVE  p # 1 /\ k # <<>>
    <2>1. k # <<>>
      BY EmptySeq
    <2>2. ASSUME p = 1 PROVE FALSE
      <3>1. ~(i < p) /\ i + 1 \in 1..Len(work) /\ ~(i + 1 <= p)
        BY <1>0, <1>9, <2>2
      <3>2. k[i] = work[i + 1]
        BY <1>9, <3>1
      <3> QED BY <1>6, <1>12, <3>1, <3>2
    <2> QED BY <2>1, <2>2
  <1>13. (\E i \in 1..Len(k) : IsPlain(k[i])) =>
             k # <<>> /\ IsPlain(k[1]) /\ k[1].from \subseteq Opening(given)
    BY <1>3, <1>11, <1>12
  <1>14. ASSUME UserLast
         PROVE  /\ Len(given) \in work[p].from
                /\ \A m \in Held(k), n \in work[p].from : m < n /\ given[n].role = "user"
                /\ k # <<>> => IsPlain(k[1])
    <2>1. /\ Len(work) \in 1..Len(work) /\ Len(given) \in work[Len(work)].from
          /\ RoleOf(work[Len(work)]) = "user"
      BY <1>0, <1>2, <1>14, LastTurn DEF UserLast, Newest
    <2>2. IsPlain(work[Len(work)])
      <3>1. work[Len(work)].kind \in {"user", "assistant"}
        <4>1. work[Len(work)] \in Entry
          BY <1>0, <2>1, ElementOfSeq
        <4> QED BY <4>1 DEF Entry
      <3> QED BY <2>1, <3>1 DEF RoleOf, IsPlain
    <2>3. p = Len(work)
      BY <1>0, <1>6, <2>1, <2>2
    <2>4. \A i \in 1..Len(k) : i \in 1..Len(work) /\ i < p /\ k[i] = work[i]
      BY <1>0, <1>9, <2>3
    <2>5. ASSUME NEW m \in Held(k), NEW n \in work[p].from
          PROVE  m < n /\ given[n].role = "user"
      <3>1. PICK i \in 1..Len(k) : m \in k[i].from
        BY HeldBy
      <3>2. m < n
        BY <1>2, <1>6, <2>4, <3>1 DEF Ordered
      <3>3. given[n].role = RoleOf(work[p])
        BY <1>0, <1>2, <1>6, InTurns
      <3> QED BY <2>1, <2>3, <3>2, <3>3
    <2>6. k # <<>> => p # 1
      <3>1. k # <<>> => Len(k) \in Nat \ {0}
        BY <1>9, EmptySeq
      <3> QED BY <1>0, <1>9, <2>3, <3>1
    <2> QED BY <1>3, <1>11, <2>1, <2>3, <2>5, <2>6
  <1>15. Told(Turns', given')
    BY <1>0, <1>8, <1>10
  <1>18. ASSUME NEW m \in Held(k) PROVE m \notin work[p].from
    <2>1. PICK i \in 1..Len(k) : m \in k[i].from
      BY HeldBy
    <2>2. PICK j \in 1..Len(work) : j # p /\ m \in work[j].from
      BY <1>0, <1>6, <1>9, <2>1
    <2>3. m \in 1..Len(given)
      BY <1>0, <1>2, <2>2, InTurns
    <2> QED BY <1>0, <1>2, <1>6, <2>2, <2>3 DEF Ordered
  <1>19. \A n \in work[p].from : given[n].role = "user"
    <2>1. RoleOf(work[p]) = "user"
      BY <1>6 DEF RoleOf, IsPlain
    <2> QED BY <1>0, <1>2, <1>6, <2>1, InTurns
  <1>20. UserLast => \A m \in (1..Len(given)) \ work[p].from, n \in work[p].from : m < n
    BY <1>8, <1>14
  <1>21. Spoken(work)'
    BY <1>0, <1>7, <1>10, <1>18, <1>19, <1>20 DEF Spoken, UserLast
  <1>16. Complete'
    <2>1. Everything(work)'
      BY <1>0, <1>7, <1>8, <1>10 DEF Everything
    <2>2. (UserLast => LastWord(work))'
      BY <1>0, <1>7, <1>10, <1>14 DEF UserLast, LastWord
    <2>3. ((\E i \in 1..Len(work) : IsPlain(work[i])) =>
               work # <<>> /\ IsPlain(work[1]) /\ work[1].from \subseteq Opening(given))'
      BY <1>0, <1>10, <1>13
    <2> QED BY <1>0, <1>21, <2>1, <2>2, <2>3 DEF Complete
  <1>17. Lists'
    BY <1>0 DEF Lists
  <1> QED BY <1>15, <1>16, <1>17

LEMMA CapAt ==
    ASSUME NEW h \in Seq(Entry)
    PROVE  \E a \in 1..(Len(h) + 1) : /\ Capped(h) = SubSeq(h, a, Len(h))
                                      /\ Len(h) <= MaxEntries => a = 1 /\ Capped(h) = h
  <1>0. Len(h) \in Nat /\ MaxEntries \in Nat
    BY LenProperties, LimitAssumption
  <1>1. CASE Len(h) > MaxEntries
    <2>1. Len(h) - MaxEntries + 1 \in 1..(Len(h) + 1) /\ ~(Len(h) <= MaxEntries)
      BY <1>0, <1>1
    <2> QED BY <1>1, <2>1 DEF Capped
  <1>2. CASE ~(Len(h) > MaxEntries)
    <2>1. 1 \in 1..(Len(h) + 1) /\ Capped(h) = h /\ h = SubSeq(h, 1, Len(h))
      BY <1>0, <1>2, SubSeqFull DEF Capped
    <2> QED BY <2>1
  <1> QED BY <1>1, <1>2

LEMMA CompactKeepsTelling ==
    ASSUME TypeOK, InOrder, Told(Turns, given), Complete, Lists, Compact
    PROVE  (Told(Turns, given) /\ Complete /\ Lists)'
  <1>0. /\ work \in Seq(Entry) /\ Len(work) \in Nat /\ pc = "compact" /\ pc' = "trim"
        /\ out = <<>> /\ UNCHANGED <<given, out, current>>
        /\ Len(given) \in Nat \ {0} /\ given # <<>>
        /\ MaxCycles \in Nat
    BY InOrderParts, LenProperties, LimitAssumption DEF TypeOK, Compact, Lists, InOrder
  <1>1. Turns = work
    BY <1>0 DEF Turns
  <1>2. Told(work, given) /\ Lined(work, given) /\ Ordered(work)
    BY <1>1 DEF Told, Lined
  <1>3. /\ Held(work) \cup current.from = 1..Len(given)
        /\ (\E i \in 1..Len(work) : IsPlain(work[i])) =>
              work # <<>> /\ IsPlain(work[1]) /\ work[1].from \subseteq Opening(given)
        /\ UserLast => LastWord(work)
        /\ Spoken(work)
    BY <1>0 DEF Complete, Everything
  <1>4. OldestGone(work, current.from, given)
    <2>1. (1..Len(given)) \ (Held(work) \cup current.from) = {}
      BY <1>3
    <2> QED BY <2>1 DEF OldestGone
  <1> DEFINE cycles == {i \in 1..Len(work) : IsCall(work[i])}
  <1>5. ASSUME WithinLimits'
        PROVE  /\ Cardinality(cycles) <= MaxCycles
               /\ Len(given) <= MaxEntries + 1
    <2>1. /\ Cardinality({i \in 1..Len(given) :
                 given[i].role = "assistant" /\ given[i].uses # {}}) <= MaxCycles
          /\ Len(given) <= MaxEntries + 1
      BY <1>0, <1>5 DEF WithinLimits
    <2> DEFINE T == {i \in 1..Len(given) : given[i].role = "assistant" /\ given[i].uses # {}}
    <2>2. Cardinality(cycles) <= Cardinality(T)
      BY <1>0, <1>2, CyclesCounted
    <2>3. Cardinality(cycles) \in Nat /\ Cardinality(T) \in Nat
      <3>1. IsFiniteSet(1..Len(work)) /\ IsFiniteSet(1..Len(given))
        BY <1>0, FS_Interval
      <3>2. cycles \in SUBSET (1..Len(work)) /\ T \in SUBSET (1..Len(given))
        OBVIOUS
      <3> HIDE DEF cycles, T
      <3>3. IsFiniteSet(cycles) /\ IsFiniteSet(T)
        BY <3>1, <3>2, FS_Subset
      <3> QED BY <3>3, FS_CardinalityType
    <2>4. Cardinality(T) <= MaxCycles
      BY <2>1
    <2> HIDE DEF cycles, T
    <2>5. Cardinality(cycles) <= MaxCycles
      BY <1>0, <2>2, <2>3, <2>4
    <2> QED BY <2>1, <2>5
  \* what is left before the cap
  <1>6. PICK h \in Seq(Entry) : /\ work' = Capped(h)
                                /\ Told(h, given) /\ OldestGone(h, current.from, given)
                                /\ Held(h) \subseteq Held(work)
                                /\ Cardinality(cycles) <= MaxCycles => h = work
    <2>1. CASE Cardinality(cycles) <= MaxCycles
      <3>1. work' = Capped(work)
        BY <2>1 DEF Compact
      <3> QED BY <1>0, <1>2, <1>4, <3>1
    <2>2. CASE ~(Cardinality(cycles) <= MaxCycles)
      <3>1. PICK keep \in cycles :
              LET recent == SubSeq(work, keep, Len(work))
                  plain  == {i \in 1..(keep - 1) : IsPlain(work[i])}
              IN  IF plain = {}
                  THEN work' = Capped(recent)
                  ELSE \E i \in plain : /\ IsFirst(i, plain)
                                        /\ work' = Capped(<<work[i]>> \o recent)
        BY <2>2 DEF Compact
      <3> DEFINE recent == SubSeq(work, keep, Len(work))
                 plain  == {i \in 1..(keep - 1) : IsPlain(work[i])}
      <3>2. keep \in 1..Len(work) /\ IsCall(work[keep]) /\ keep \in 1..(Len(work) + 1)
        BY <1>0
      <3>3. CASE plain = {}
        <4>1. work' = Capped(recent)
          BY <3>1, <3>3
        <4>2. recent \in Seq(Entry) /\ Told(recent, given)
              /\ OldestGone(recent, current.from, given) /\ Held(recent) \subseteq Held(work)
          BY <1>0, <1>2, <1>4, <3>2, SliceTyped, SuffixTold, SuffixOldestGone
        <4> QED BY <2>2, <4>1, <4>2
      <3>4. CASE plain # {}
        <4>1. PICK i \in plain : /\ IsFirst(i, plain)
                                 /\ work' = Capped(<<work[i]>> \o recent)
          BY <3>1, <3>4
        <4>2. i \in 1..(keep - 1) /\ i \in 1..Len(work) /\ IsPlain(work[i])
          BY <1>0, <3>2
        <4>3. IsPlain(work[1]) /\ work[1].from \subseteq Opening(given)
          BY <1>3, <4>2
        <4>4. 1 \in plain /\ keep > 1
          <5>1. 1 \in 1..(keep - 1) /\ keep > 1
            BY <3>2, <4>2
          <5> QED BY <4>3, <5>1
        <4>5. i = 1
          <5>1. i <= 1
            BY <4>1, <4>4 DEF IsFirst
          <5> QED BY <4>2, <5>1
        <4>6. work' = Capped(<<work[1]>> \o recent)
          BY <4>1, <4>5
        <4>7. /\ <<work[1]>> \o recent \in Seq(Entry)
              /\ Told(<<work[1]>> \o recent, given)
              /\ OldestGone(<<work[1]>> \o recent, current.from, given)
              /\ Held(<<work[1]>> \o recent) \subseteq Held(work)
          BY <1>0, <1>2, <1>3, <3>2, <4>3, <4>4, CompactedTold
        <4> HIDE DEF recent, cycles
        <4> QED BY <2>2, <4>6, <4>7
      <3> QED BY <3>3, <3>4
    <2> QED BY <2>1, <2>2
  <1> HIDE DEF cycles
  <1>7. /\ Told(work', given) /\ OldestGone(work', current.from, given)
        /\ Held(work') \subseteq Held(work)
    <2>1. PICK a \in 1..(Len(h) + 1) : Capped(h) = SubSeq(h, a, Len(h))
      BY CapAt
    <2> QED BY <1>6, <2>1, SuffixTold, SuffixOldestGone
  <1>8. ASSUME UserLast, WithinLimits'
        PROVE  work' = work
    <2>1. h = work /\ Len(given) <= MaxEntries + 1
      BY <1>5, <1>6, <1>8
    <2>2. Len(work) <= Len(given) - 1
      BY <1>0, <1>2, <1>3, <1>8, TurnsCounted
    <2>3. Len(work) <= MaxEntries
      BY <1>0, <2>1, <2>2, LimitAssumption
    <2> QED BY <1>6, <2>1, <2>3, CapAt
  <1>9. Turns' = work'
    <2>1. work' \in Seq(Entry)
      BY <1>6, CappedTyped
    <2> QED BY <1>0, <2>1, ConcatEmptySeq DEF Turns
  <1>10. (UserLast /\ WithinLimits => Everything(Turns) /\ LastWord(Turns))'
    <2> SUFFICES ASSUME UserLast', WithinLimits'
                 PROVE  Everything(Turns)' /\ LastWord(Turns)'
      OBVIOUS
    <2>1. UserLast
      BY <1>0 DEF UserLast
    <2>2. Turns' = work
      BY <1>8, <1>9, <2>1
    <2> QED BY <1>0, <1>3, <2>1, <2>2 DEF Everything, LastWord
  <1>11. CutRight(Turns)'
    <2>1. OldestGone(Turns', current'.from, given')
      BY <1>0, <1>7, <1>9
    <2>2. Spoken(Turns)'
      BY <1>0, <1>3, <1>7, <1>9 DEF Spoken, UserLast
    <2> QED BY <1>10, <2>1, <2>2 DEF CutRight
  <1>12. Told(Turns', given')
    BY <1>0, <1>7, <1>9
  <1> QED BY <1>0, <1>11, <1>12 DEF Complete, Lists

\* A suffix of the turns that is all of them when the limits have room.
LEMMA SuffixRight ==
    ASSUME TypeOK, Turns \in Seq(Entry), Told(Turns, given), CutRight(Turns),
           UNCHANGED <<given, current, rest>>,
           NEW a \in 1..(Len(Turns) + 1), Turns' = SubSeq(Turns, a, Len(Turns)),
           UserLast /\ WithinLimits => Turns' = Turns
    PROVE  Told(Turns', given') /\ CutRight(Turns)'
  <1>1. /\ Told(Turns', given) /\ OldestGone(Turns', current.from, given)
        /\ Held(Turns') \subseteq Held(Turns)
    BY SuffixTold, SuffixOldestGone DEF CutRight
  <1>2. given' = given /\ current' = current /\ rest' = rest
    OBVIOUS
  <1>3. (UserLast /\ WithinLimits)' => UserLast /\ WithinLimits
    BY <1>2 DEF UserLast, WithinLimits
  <1>4. (UserLast /\ WithinLimits => Everything(Turns) /\ LastWord(Turns))'
    <2> SUFFICES ASSUME (UserLast /\ WithinLimits)'
                 PROVE  (Everything(Turns) /\ LastWord(Turns))'
      OBVIOUS
    <2>1. Turns' = Turns /\ Everything(Turns) /\ LastWord(Turns)
      BY <1>3 DEF CutRight
    <2> QED BY <1>2, <2>1 DEF Everything, LastWord
  <1>5. Told(Turns', given') /\ OldestGone(Turns', current'.from, given')
    BY <1>1, <1>2
  <1>6. Spoken(Turns)'
    BY <1>1, <1>2 DEF CutRight, Spoken, UserLast
  <1> QED BY <1>4, <1>5, <1>6 DEF CutRight

LEMMA DropAt ==
    ASSUME NEW h \in Seq(Entry), NEW share \in {5, 10}
    PROVE  \E a \in 1..(Len(h) + 1) : Dropped(h, share) = SubSeq(h, a, Len(h))
  <1>0. Len(h) \in Nat /\ Len(h) \div share \in Nat
    BY LenProperties
  <1>1. Share(h, share) \in Nat
    BY <1>0 DEF Share
  <1>2. CASE Share(h, share) <= Len(h)
    <2>1. Share(h, share) + 1 \in 1..(Len(h) + 1)
      BY <1>0, <1>1, <1>2
    <2> QED BY <2>1 DEF Dropped
  <1>3. CASE ~(Share(h, share) <= Len(h))
    <2>1. Dropped(h, share) = <<>> /\ SubSeq(h, Len(h) + 1, Len(h)) = <<>>
      BY <1>0, <1>1, <1>3, SubSeqEmpty DEF Dropped
    <2>2. Len(h) + 1 \in 1..(Len(h) + 1)
      BY <1>0
    <2> QED BY <2>1, <2>2
  <1> QED BY <1>2, <1>3

LEMMA WholeFits ==
    ASSUME TypeOK, WithinLimits, NEW h \in Seq(Entry), Told(h, given)
    PROVE  Fits(h)
  <1>1. Len(given) \in Nat /\ rest \in Nat /\ MaxPayload \in Nat
    BY LenProperties, LimitAssumption DEF TypeOK
  <1>2. Weight(h) \in Nat /\ Weight(h) <= Len(given)
    BY <1>1, WeightCounted DEF Told
  <1>3. rest + Len(given) <= MaxPayload
    BY DEF WithinLimits
  <1> QED BY <1>1, <1>2, <1>3 DEF Fits

LEMMA TrimsKeepTelling ==
    ASSUME TypeOK, Told(Turns, given), Complete, Lists, Trim \/ Retrim
    PROVE  (Told(Turns, given) /\ Complete /\ Lists)'
  <1>0. /\ work \in Seq(Entry) /\ out = <<>> /\ out' = <<>>
        /\ pc \in {"trim", "retrim"} /\ pc' \in {"trim", "validate", "done"}
        /\ UNCHANGED <<given, current, rest>>
        /\ CutRight(Turns)
    BY DEF TypeOK, Trim, Retrim, Lists, Complete
  <1>1. Turns = work
    BY <1>0 DEF Turns
  <1>2. Told(Turns', given') /\ CutRight(Turns)'
    <2>1. CASE work' = work
      <3>1. Turns' = Turns
        BY <1>0, <1>1, <2>1 DEF Turns
      <3> QED BY <1>0, <3>1, SameTurns
    <2>2. CASE work' # work
      <3>1. PICK share \in {5, 10} : work' = Dropped(work, share) /\ ~Fits(work)
        BY <2>2 DEF Trim, Retrim
      <3>2. ~WithinLimits
        BY <1>0, <1>1, <3>1, WholeFits
      <3>3. PICK a \in 1..(Len(work) + 1) : work' = SubSeq(work, a, Len(work))
        BY <1>0, <3>1, DropAt
      <3>4. work' \in Seq(Entry)
        BY <1>0, <3>1, DroppedTyped
      <3>5. Turns' = work'
        BY <1>0, <3>4, ConcatEmptySeq DEF Turns
      <3> QED BY <1>0, <1>1, <3>2, <3>3, <3>5, SuffixRight
    <2> QED BY <2>1, <2>2
  <1> QED BY <1>0, <1>2 DEF Complete, Lists

LEMMA ValidateKeepsTelling ==
    ASSUME TypeOK, InOrder, Told(Turns, given), Complete, Validate
    PROVE  (Told(Turns, given) /\ Complete /\ Lists)'
  <1>0. /\ work \in Seq(Entry) /\ out \in Seq(Entry) /\ pc = "validate"
        /\ UNCHANGED <<given, current, rest>> /\ CutRight(Turns)
    BY DEF TypeOK, Validate, Complete
  <1>1. CASE work = <<>>
    <2>1. pc' = "strip" /\ work' = out /\ out' = <<>>
      BY <1>1 DEF Validate, Start
    <2>2. Turns' = Turns
      BY <1>0, <1>1, <2>1, ConcatEmptySeq DEF Turns
    <2> QED BY <1>0, <2>1, <2>2, SameTurns DEF Complete, Lists
  <1>2. CASE work # <<>>
    <2> DEFINE e == Head(work)
               n == Len(out)
    <2>1. /\ n \in Nat /\ Len(work) \in Nat /\ Len(work) >= 1 /\ e = work[1]
      BY <1>0, <1>2, LenProperties, EmptySeq, HeadTailTyped
    <2>2. n + 1 \in 1..Len(Turns) /\ Turns[n + 1] = e
      <3> HIDE DEF e
      <3>1. /\ Len(Turns) = Len(out) + Len(work)
            /\ \A i \in 1..(Len(out) + Len(work)) :
                  Turns[i] = IF i <= Len(out) THEN out[i] ELSE work[i - Len(out)]
        BY <1>0, ConcatProperties DEF Turns
      <3>2. n + 1 \in 1..(Len(out) + Len(work)) /\ ~(n + 1 <= Len(out)) /\ n + 1 - Len(out) = 1
        BY <2>1
      <3> QED BY <2>1, <3>1, <3>2
    <2>3. MadeOf(e, given)
      BY <2>2 DEF Told, Lined
    <2> HIDE DEF e
    <2>4. ~(e.kind = "assistant" /\ ~e.text)
      <3> SUFFICES ASSUME e.kind = "assistant" PROVE e.text
        OBVIOUS
      <3>1. PICK m \in e.from : TRUE
        BY <2>3 DEF MadeOf
      <3>2. m \in 1..Len(given) /\ given[m].role = "assistant" /\ given[m].text = e.text
        BY <2>3, <3>1 DEF MadeOf, RoleOf
      <3> QED BY <3>2, InOrderParts
    <2>5. pc' = "validate" /\ out' = Append(out, e) /\ work' = Tail(work)
      BY <1>0, <1>2, <2>4 DEF Validate, e
    <2>6. Turns' = Turns
      BY <1>0, <1>2, <2>5, Shifted DEF Turns, e
    <2> QED BY <1>0, <2>5, <2>6, SameTurns DEF Complete, Lists
  <1> QED BY <1>1, <1>2

LEMMA StripKeepsTelling ==
    ASSUME TypeOK, Told(Turns, given), Complete, Lists, Strip
    PROVE  (Told(Turns, given) /\ Complete /\ Lists)'
  <1>0. /\ work \in Seq(Entry) /\ out = <<>> /\ out' = <<>> /\ pc = "strip"
        /\ UNCHANGED <<given, current, rest>> /\ CutRight(Turns)
    BY DEF TypeOK, Strip, Lists, Complete
  <1>1. Turns = work
    BY <1>0 DEF Turns
  <1>2. CASE work = <<>> \/ IsPlain(Head(work))
    <2>1. pc' = "pair" /\ work' = work
      BY <1>2 DEF Strip
    <2>2. Turns' = Turns
      BY <1>0, <1>1, <2>1 DEF Turns
    <2>3. work # <<>> => ~IsResults(work[1])
      BY <1>2 DEF IsPlain, IsResults
    <2>4. Lists'
      BY <1>0, <2>1, <2>3 DEF Lists
    <2> QED BY <1>0, <2>1, <2>2, <2>4, SameTurns DEF Complete
  <1>3. CASE ~(work = <<>> \/ IsPlain(Head(work)))
    <2>1. pc' = "strip" /\ work' = Tail(work)
      BY <1>0, <1>3 DEF Strip
    <2>2. ~(UserLast /\ WithinLimits)
      <3> SUFFICES ASSUME UserLast /\ WithinLimits PROVE FALSE
        OBVIOUS
      <3>1. IsPlain(work[1])
        BY <1>0, <1>1, <1>3 DEF CutRight, LastWord
      <3>2. Head(work) = work[1]
        BY <1>0, <1>3, HeadTailTyped
      <3> QED BY <1>3, <3>1, <3>2
    <2>3. 2 \in 1..(Len(work) + 1) /\ Tail(work) = SubSeq(work, 2, Len(work))
      BY <1>0, <1>3, TailIsSubSeq, EmptySeq
    <2>4. Turns' = work'
      <3>1. work' \in Seq(Entry)
        BY <1>0, <1>3, <2>1, HeadTailTyped
      <3> QED BY <1>0, <3>1, ConcatEmptySeq DEF Turns
    <2>5. Told(Turns', given') /\ CutRight(Turns)'
      BY <1>0, <1>1, <2>1, <2>2, <2>3, <2>4, SuffixRight
    <2> QED BY <1>0, <2>1, <2>5 DEF Complete, Lists
  <1> QED BY <1>2, <1>3

\* A user turn made of messages is made up of its results and where they came from.
LEMMA ResultsTurn ==
    ASSUME NEW r \in Entry, NEW g, MadeOf(r, g), IsResults(r)
    PROVE  r = UserTurn(r.results, r.from)
  <1>1. r.kind = "user" /\ r.text = TRUE /\ r.uses = {}
    BY DEF MadeOf, IsResults, Entry
  <1>2. r = [kind |-> r.kind, text |-> r.text, uses |-> r.uses, results |-> r.results,
             from |-> r.from]
    BY DEF Entry
  <1> QED BY <1>1, <1>2 DEF UserTurn

LEMMA PairKeepsTelling ==
    ASSUME TypeOK, Told(Turns, given), Complete, Lists, Pair
    PROVE  (Told(Turns, given) /\ Complete /\ Lists)'
  <1>0. /\ work \in Seq(Entry) /\ out \in Seq(Entry) /\ pc = "pair"
        /\ Len(work) \in Nat /\ Len(out) \in Nat
        /\ UNCHANGED <<given, current, rest>> /\ CutRight(Turns)
        /\ work # <<>> => ~IsResults(work[1])
    BY LenProperties DEF TypeOK, Pair, Complete, Lists
  <1>1. CASE work = <<>>
    <2>1. pc' = "retrim" /\ work' = out /\ out' = <<>>
      BY <1>1 DEF Pair, Start
    <2>2. Turns' = Turns
      BY <1>0, <1>1, <2>1, ConcatEmptySeq DEF Turns
    <2> QED BY <1>0, <2>1, <2>2, SameTurns DEF Complete, Lists
  <1>2. CASE work # <<>>
    <2>1. Len(work) >= 1 /\ Head(work) = work[1]
      BY <1>0, <1>2, EmptySeq, HeadTailTyped
    \* the chain of the turns, seen in the list that is read
    <2>2. ASSUME NEW i \in 1..(Len(work) - 1), IsCall(work[i]) \/ IsResults(work[i + 1])
          PROVE  Answers(work[i + 1], work[i]) /\ MadeOf(work[i + 1], given)
      <3> DEFINE n == Len(out)
      <3>1. /\ Len(Turns) = Len(out) + Len(work)
            /\ \A j \in 1..(Len(out) + Len(work)) :
                  Turns[j] = IF j <= Len(out) THEN out[j] ELSE work[j - Len(out)]
        BY <1>0, ConcatProperties DEF Turns
      <3>2. /\ n + i \in 1..(Len(out) + Len(work)) /\ ~(n + i <= Len(out)) /\ n + i - Len(out) = i
            /\ n + i + 1 \in 1..(Len(out) + Len(work)) /\ ~(n + i + 1 <= Len(out))
            /\ n + i + 1 - Len(out) = i + 1
            /\ n + i \in 1..(Len(out) + Len(work) - 1)
        BY <1>0
      <3>3. Turns[n + i] = work[i] /\ Turns[n + i + 1] = work[i + 1]
        BY <3>1, <3>2
      <3>4. n + i \in 1..(Len(Turns) - 1) /\ n + i + 1 \in 1..Len(Turns)
        BY <3>1, <3>2
      <3> QED BY <2>2, <3>3, <3>4 DEF Told, Chained, Lined
    <2>3. CASE IsCall(Head(work)) /\ Answered(work)
      <3> DEFINE r == UserTurn(work[2].results \cap Head(work).uses, work[2].from)
      <3>1. /\ out' = out \o <<Head(work), r>> /\ work' = Tail(Tail(work)) /\ pc' = "pair"
        BY <1>0, <1>2, <2>3 DEF Pair
      <3>2. Len(work) > 1 /\ 1 \in 1..(Len(work) - 1)
        BY <1>0, <2>3 DEF Answered
      <3>3. Answers(work[2], work[1]) /\ MadeOf(work[2], given)
        BY <2>1, <2>2, <2>3, <3>2
      <3>4. r = work[2]
        <4>1. work[2] \in Entry
          BY <1>0, <3>2, CycleTyped
        <4>2. IsResults(work[2]) /\ work[2].results \cap Head(work).uses = work[2].results
          BY <2>1, <3>3 DEF Answers
        <4> QED BY <3>3, <4>1, <4>2, ResultsTurn
      <3> HIDE DEF r
      <3>5. Turns' = Turns
        <4>1. /\ Tail(work) \in Seq(Entry) /\ Tail(work) # <<>> /\ Head(work) \in Entry
              /\ Head(Tail(work)) = work[2]
          <5>1. Tail(work) \in Seq(Entry) /\ Tail(work) # <<>> /\ Head(work) \in Entry
            BY <1>0, <1>2, <3>2, CycleTyped, HeadTailTyped
          <5>2. Len(Tail(work)) = Len(work) - 1 /\ Tail(work)[1] = work[2]
            BY <1>0, <1>2, <3>2, HeadTailProperties
          <5>3. Head(Tail(work)) = Tail(work)[1]
            BY <5>1, HeadTailTyped
          <5> QED BY <5>1, <5>2, <5>3
        <4>2. Append(out, Head(work)) \in Seq(Entry)
          BY <1>0, <4>1, AppendedParts
        <4>3. out \o work = Append(out, Head(work)) \o Tail(work)
          BY <1>0, <1>2, Shifted
        <4>4. Append(out, Head(work)) \o Tail(work) =
                  Append(Append(out, Head(work)), work[2]) \o Tail(Tail(work))
          BY <4>1, <4>2, Shifted
        <4>5. Append(Append(out, Head(work)), work[2]) = out \o <<Head(work), work[2]>>
          <5> DEFINE a == Head(work)
                     b == work[2]
          <5>1. a \in Entry /\ b \in Entry
            BY <1>0, <3>2, <4>1, CycleTyped
          <5> HIDE DEF a, b
          <5>2. Append(Append(out, a), b) = out \o <<a, b>>
            BY <1>0, <5>1
          <5> QED BY <5>2 DEF a, b
        <4>6. Turns' = (out \o <<Head(work), work[2]>>) \o Tail(Tail(work))
          BY <3>1, <3>4, Zenon DEF Turns
        <4>7. Turns = (out \o <<Head(work), work[2]>>) \o Tail(Tail(work))
          BY <4>3, <4>4, <4>5, Zenon DEF Turns
        <4> QED BY <4>6, <4>7, Zenon
      <3>6. work' # <<>> => ~IsResults(work'[1])
        <4> SUFFICES ASSUME work' # <<>>, IsResults(work'[1]) PROVE FALSE
          OBVIOUS
        <4>1. Tail(work) \in Seq(Entry) /\ Tail(work) # <<>>
          <5>1. Tail(work) # <<>>
            BY <1>0, <3>2, CycleTyped
          <5> QED BY <1>0, <1>2, <5>1, HeadTailTyped
        <4>2. /\ Len(Tail(work)) = Len(work) - 1
              /\ \A i \in 1..(Len(work) - 1) : Tail(work)[i] = work[i + 1]
          BY <1>0, <1>2, HeadTailProperties
        <4>3. /\ work' \in Seq(Entry) /\ Len(work') = Len(Tail(work)) - 1
              /\ \A i \in 1..(Len(Tail(work)) - 1) : work'[i] = Tail(work)[i + 1]
          BY <3>1, <4>1, HeadTailProperties
        <4>4. Len(work') >= 1
          BY <4>3, EmptySeq
        <4>5. 1 \in 1..(Len(Tail(work)) - 1) /\ 2 \in 1..(Len(work) - 1)
          BY <1>0, <4>2, <4>3, <4>4
        <4>6. work'[1] = work[3]
          BY <4>2, <4>3, <4>5
        <4>7. Answers(work[3], work[2])
          BY <2>2, <4>5, <4>6
        <4> QED BY <3>3, <4>7 DEF Answers, IsCall, IsResults
      <3>7. Lists'
        BY <3>1, <3>6 DEF Lists
      <3> QED BY <1>0, <3>1, <3>5, <3>7, SameTurns DEF Complete
    <2>4. CASE ~(IsCall(Head(work)) /\ Answered(work))
      <3>1. ~(IsCall(Head(work)) /\ Len(work) > 1)
        <4> SUFFICES ASSUME IsCall(work[1]), Len(work) > 1 PROVE Answered(work)
          BY <2>1, <2>4
        <4>1. 1 \in 1..(Len(work) - 1)
          BY <1>0
        <4>2. Answers(work[2], work[1])
          BY <2>2, <4>1
        <4> QED BY <4>2 DEF Answers, Answered, IsCall, IsResults
      <3>2. ~IsResults(Head(work))
        BY <1>0, <1>2, <2>1
      <3>3. out' = Append(out, Head(work)) /\ work' = Tail(work) /\ pc' = "pair"
        BY <1>0, <1>2, <2>4, <3>1, <3>2 DEF Pair
      <3>4. Turns' = Turns
        BY <1>0, <1>2, <3>3, Shifted DEF Turns
      <3>5. work' # <<>> => ~IsResults(work'[1])
        <4> SUFFICES ASSUME work' # <<>>, IsResults(work'[1]) PROVE FALSE
          OBVIOUS
        <4>1. /\ work' \in Seq(Entry) /\ Len(work') = Len(work) - 1
              /\ \A i \in 1..(Len(work) - 1) : work'[i] = work[i + 1]
          BY <1>0, <1>2, <3>3, HeadTailProperties
        <4>2. Len(work') >= 1
          BY <4>1, EmptySeq
        <4>3. 1 \in 1..(Len(work) - 1) /\ Len(work) > 1
          BY <1>0, <4>1, <4>2
        <4>4. IsResults(work[2])
          BY <4>1, <4>3
        <4>5. Answers(work[2], work[1])
          BY <2>2, <4>3, <4>4
        <4> QED BY <2>1, <3>1, <4>3, <4>5 DEF Answers
      <3>6. Lists'
        BY <3>3, <3>5 DEF Lists
      <3> QED BY <1>0, <3>3, <3>4, <3>6, SameTurns DEF Complete
    <2> QED BY <2>3, <2>4
  <1> QED BY <1>1, <1>2

LEMMA OrderKept == TypeOK /\ OrderInv /\ [Next]_vars => OrderInv'
  <1> SUFFICES ASSUME TypeOK, OrderInv, [Next]_vars PROVE OrderInv'
    OBVIOUS
  <1>1. Reading /\ Reading'
    BY ReadingKept DEF OrderInv
  <1>2. ASSUME pc' # "read", InOrder'
        PROVE  (Told(Turns, given) /\ Complete /\ Lists)'
    <2>1. InOrder /\ given' = given
      BY <1>2, InOrderKept
    <2>2. CASE pc = "read"
      <3>1. EndOfMessages
        BY <1>2, <2>2 DEF Next, vars, Read, Collapse, Pop, Compact, Trim, Retrim,
                          Validate, Strip, Pair
      <3> QED BY <1>1, <2>1, <3>1, EndKeepsTelling
    <2>3. CASE pc # "read"
      <3>1. Told(Turns, given) /\ Complete /\ Lists
        BY <2>1, <2>3 DEF OrderInv, Telling
      <3>2. CASE UNCHANGED vars
        <4>1. Turns' = Turns /\ UNCHANGED <<pc, given, work, out, current, rest>>
          BY <3>2 DEF vars, Turns
        <4>2. Lists'
          BY <3>1, <4>1 DEF Lists
        <4>3. Complete'
          BY <3>1, <4>1, SameTurns DEF Complete, Everything, Spoken, UserLast, LastWord
        <4> QED BY <3>1, <4>1, <4>2, <4>3
      <3>3. CASE Next
        <4>1. ~Read /\ ~EndOfMessages
          BY <2>3 DEF Read, EndOfMessages
        <4> QED BY <2>1, <3>1, <3>3, <4>1, CollapseKeepsTelling, PopKeepsTelling,
                   CompactKeepsTelling, TrimsKeepTelling, ValidateKeepsTelling,
                   StripKeepsTelling, PairKeepsTelling DEF Next
      <3> QED BY <3>2, <3>3
    <2> QED BY <2>2, <2>3
  <1>3. Telling'
    BY <1>2 DEF Telling
  <1> QED BY <1>1, <1>3 DEF OrderInv

LEMMA OrderInit == Init => OrderInv
  <1> SUFFICES ASSUME Init PROVE OrderInv
    OBVIOUS
  <1>1. pc = "read" /\ given = <<>> /\ out = <<>> /\ work = <<>> /\ Len(<<>>) = 0
    BY DEF Init
  <1>2. Runs(given)
    BY <1>1 DEF Runs
  <1>3. Lined(out, given) /\ Held(out) = 1..Len(given)
    BY <1>1 DEF Lined, Ordered, Held
  <1>4. Heard(out, given)
    BY <1>1, <1>3 DEF Heard
  <1> QED BY <1>1, <1>2, <1>4 DEF OrderInv, Reading, Telling

-----------------------------------------------------------------------------

\* Of conversations of any length: while the passes run, the turns are in the order
\* of the messages they were made from, every call has its results beside it, and
\* nothing but the oldest part, and the turn that became the current one, is gone.
THEOREM OrderInvariant == Spec => [](TypeOK /\ OrderInv)
  <1>1. Init => TypeOK /\ OrderInv
    BY BuilderInvInit, OrderInit DEF BuilderInv
  <1>2. TypeOK /\ OrderInv /\ [Next]_vars => (TypeOK /\ OrderInv)'
    BY TypesKept, OrderKept
  <1> QED BY <1>1, <1>2, PTL DEF Spec

LEMMA SentInOrder ==
    ASSUME TypeOK, OrderInv, pc = "done", InOrder
    PROVE  /\ Kept = Held(work) /\ Told(work, given) /\ CutRight(work) /\ Sorted
  <1>1. Told(Turns, given) /\ Complete /\ Lists
    BY DEF OrderInv, Telling
  <1>2. Turns = work
    BY <1>1 DEF Lists, Turns, TypeOK
  <1>3. CutRight(work)
    BY <1>1, <1>2 DEF Complete
  <1>4. Kept = Held(work)
    BY DEF Kept, Held
  <1> QED BY <1>1, <1>2, <1>3, <1>4 DEF Told, Lined, Ordered, Sorted

\* The history that is sent of a conversation in order does not end in a call: its
\* results come next, nothing newer than a kept call is cut, and they are not the
\* current turn.
LEMMA NoCallLast ==
    ASSUME TypeOK, OrderInv, pc = "done", InOrder, work # <<>>
    PROVE  ~IsCall(Newest(work))
  <1> SUFFICES ASSUME IsCall(Newest(work)) PROVE FALSE
    OBVIOUS
  <1> DEFINE e == work[Len(work)]
  <1>0. /\ work \in Seq(Entry) /\ Len(work) \in 1..Len(work) /\ IsCall(e)
        /\ Told(work, given) /\ Lined(work, given) /\ CutRight(work)
    BY SentInOrder, LenProperties, EmptySeq DEF TypeOK, Newest, Told
  <1>1. MadeOf(e, given)
    BY <1>0 DEF Lined
  <1> HIDE DEF e
  <1>2. PICK n \in e.from : TRUE
    BY <1>1 DEF MadeOf
  <1>3. /\ n \in 1..Len(given) /\ given[n].role = "assistant" /\ given[n].uses # {}
    BY <1>0, <1>1, <1>2 DEF MadeOf, RoleOf, IsCall
  <1>4. PICK j \in ToolRun(n) : TRUE
    BY <1>3, InOrderParts
  <1>5. j \in (n + 1)..Len(given) /\ \A l \in (n + 1)..j : given[l].role = "tool"
    BY <1>4 DEF ToolRun
  <1>6. n + 1 \in 1..Len(given) /\ given[n + 1].role = "tool" /\ Len(given) \in Nat
    BY <1>3, <1>5, InOrderParts
  <1>7. n + 1 \notin current.from
    BY <1>0, <1>6 DEF CutRight, Spoken
  <1>8. n \in Held(work)
    BY <1>0, <1>2, HeldBy DEF e
  <1>9. n + 1 \in Held(work)
    <2>1. n \notin Opening(given)
      BY <1>3 DEF Opening
    <2> QED BY <1>0, <1>3, <1>6, <1>7, <1>8, <2>1 DEF CutRight, OldestGone
  <1>10. PICK i \in 1..Len(work) : n + 1 \in work[i].from
    BY <1>9, HeldBy
  <1>11. Len(work) <= i
    <2>1. n \in work[Len(work)].from /\ n <= n + 1
      BY <1>2, <1>3 DEF e
    <2> QED BY <1>0, <1>10, <2>1, TurnsInOrder
  <1>12. n + 1 \in e.from
    BY <1>0, <1>10, <1>11 DEF e
  <1> QED BY <1>0, <1>1, <1>6, <1>12 DEF MadeOf, RoleOf, IsCall

\* Whatever the client sent, and whatever the limits cut, the history that is sent
\* starts with a plain user turn, and its tool cycles are complete but for a call
\* that ends it, which the history of a conversation in order does not have.
THEOREM HistoryAcceptable == Spec => []AcceptableHistory
  <1>1. BuilderInv /\ OrderInv => AcceptableHistory
    BY NoCallLast DEF BuilderInv, Built, Acceptable, AcceptableHistory
  <1> QED BY <1>1, BuilderInvHolds, OrderInvariant, PTL

\* Whatever the limits, what they cut from a conversation in order in which the user
\* has the last word is its oldest part, the opening turn excepted, and what is sent
\* stays in its order, the current turn last.
THEOREM OldestIsCut == Spec => []CutsTheOldest
  <1>1. TypeOK /\ OrderInv => CutsTheOldest
    <2> SUFFICES ASSUME TypeOK, OrderInv, pc = "done", InOrder, UserLast
                 PROVE  /\ Sorted
                        /\ \A m \in Kept, n \in current.from : m < n
                        /\ \A m \in Kept \cup current.from,
                              n \in (1..Len(given)) \ (Kept \cup current.from) :
                              m < n => m \in Opening(given)
      BY DEF CutsTheOldest, Opening
    <2>1. /\ Kept = Held(work) /\ Sorted /\ Spoken(work) /\ Held(work) \subseteq 1..Len(given)
          /\ OldestGone(work, current.from, given)
      BY SentInOrder, HeldIsPast DEF CutRight, Told
    <2>2. \A m \in Kept, n \in current.from : m < n
      BY <2>1 DEF Spoken
    <2>3. ASSUME NEW m \in current.from,
                 NEW n \in (1..Len(given)) \ (Kept \cup current.from), m < n
          PROVE  FALSE
      <3>1. n < m
        BY <2>1 DEF Spoken
      <3>2. n \in Nat /\ m \in Nat
        BY DEF TypeOK, Entry
      <3> QED BY <2>3, <3>1, <3>2
    <2> QED BY <2>1, <2>2, <2>3 DEF OldestGone
  <1> QED BY <1>1, OrderInvariant, PTL

\* Whatever the limits, a conversation in order that they have room for, and in which
\* the user has the last word, is sent whole, each result beside its call.
THEOREM WholeIsDelivered == Spec => []DeliversWhole
  <1>1. TypeOK /\ OrderInv => DeliversWhole
    <2> SUFFICES ASSUME TypeOK, OrderInv, pc = "done", InOrder, WithinLimits, UserLast
                 PROVE  DeliveredWhole
      BY DEF DeliversWhole, UserLast
    <2>1. /\ Kept = Held(work) /\ Told(work, given) /\ Sorted
          /\ Everything(work) /\ LastWord(work)
      BY SentInOrder DEF CutRight
    <2>2. Kept \cup current.from = 1..Len(given)
      BY <2>1 DEF Everything
    <2>3. \A m \in Kept, n \in current.from : m < n /\ given[n].role = "user"
      BY <2>1 DEF LastWord
    <2>4. \A i \in 1..Len(work) :
             work[i].results = {given[n].id : n \in {l \in work[i].from : given[l].role = "tool"}}
      BY <2>1 DEF Told, Lined, MadeOf, Ids
    <2> QED BY <2>1, <2>2, <2>3, <2>4 DEF DeliveredWhole
  <1> QED BY <1>1, OrderInvariant, PTL
=============================================================================
